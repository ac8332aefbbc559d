--------------------------- MODULE OutgoingJournal ---------------------------
(***************************************************************************)
(* The durable outgoing-transaction journal every on-chain command of the  *)
(* platform goes through (backend/blockchain/services/outgoing.py, its     *)
(* models, and the PostgreSQL guards of migrations 0004 and 0006).         *)
(*                                                                         *)
(* Workers (queued jobs, admin requests, recovery sweeps) call the service *)
(* functions in any order and may stop between any two of their database   *)
(* transactions.  A function that does its work in one transaction is one  *)
(* action; one that reads, goes to the provider and comes back is one      *)
(* action per part, and what it carries in between is in its worker.       *)
(*                                                                         *)
(* The chain is external: nodes that may lose, repeat or forget a sent     *)
(* transaction, and that execute an account's nonces in order, each once.  *)
(***************************************************************************)
EXTENDS Naturals, FiniteSets

CONSTANTS
    Ops,            \* operation keys, each with its fixed intent
    Signers,        \* (chain, address) pairs the platform holds a key for
    SignerOf,       \* the sender of each operation's intent
    ForeignUse,     \* the signers whose key some other program also uses
    Workers,        \* concurrent callers of the service
    MaxNonce,       \* MAX_DATABASE_INTEGER, in the small
    MaxGeneration,  \* MAX_SIGNER_ADMISSION_GENERATION, in the small
    MaxClaims,      \* model bound: claims opened for one operation
    None            \* Python's None

ASSUME ConstantsAssumption ==
    /\ SignerOf \in [Ops -> Signers]
    /\ ForeignUse \subseteq Signers
    /\ MaxNonce \in Nat \ {0}
    /\ MaxGeneration \in Nat \ {0}
    /\ MaxClaims \in Nat \ {0}

VARIABLES
    operation,   \* OutgoingOperation rows: status, claim_id, current_attempt
    account,     \* SigningAccount rows: next_nonce, admission state, generation
    attempts,    \* SignedAttempt rows (tx_hash and signed bytes are the record)
    worker,      \* what each caller carries between two transactions
    mined,       \* external: number of nonces the chain has executed
    foreign,     \* external: nonces another program sent a transaction for
    pool,        \* external: signed transactions some node holds, not executed
    accepted,    \* external: signed transactions a node ever accepted
    succeeded,   \* external: attempts with a receipt of status 1
    reverted     \* external: attempts with a receipt of status 0

chain == <<mined, foreign, pool, accepted, succeeded, reverted>>
vars == <<operation, account, attempts, worker, chain>>

-----------------------------------------------------------------------------
(* Rows and worker states.                                                 *)

Statuses == {"absent", "preparing", "signed", "confirmed", "reverted", "failed"}

\* gen is history: the admission generation the signed preparation recorded.
Attempt == [op: Ops, claim: Nat, nonce: Nat, gen: Nat]

OptionalAttempt == Attempt \cup {None}

Operation == [status: Statuses, claim: Nat, attempt: OptionalAttempt, acked: BOOLEAN]

Account == [next: Nat, state: {"closed", "admitted"}, gen: Nat]

Steps == {"idle", "claimed", "observing", "prepared", "sending", "sent", "found"}

Idle == [pc |-> "idle", op |-> None, claim |-> 0, gen |-> 0, observed |-> 0,
         attempt |-> None, result |-> None]

\* A caller that holds an OperationClaim and nothing else.
Claimed(o, c) == [Idle EXCEPT !.pc = "claimed", !.op = o, !.claim = c]

\* Mutant: a restart leaves the status blank.
NewClaim_NoStatus(o) ==
    [status |-> "", claim |-> operation[o].claim + 1, attempt |-> None, acked |-> FALSE]

\* A new claim_id (uuid4) is one never used for the operation.
NewClaim(o) ==
    [status |-> "preparing", claim |-> operation[o].claim + 1,
     attempt |-> None, acked |-> FALSE]

\* Mutant: the claim comparison dropped.
IsCurrent_Dropped(w) == operation[worker[w].op].status # "absent"

\* _current: the row still belongs to the caller's claim.
IsCurrent(w) == operation[worker[w].op].claim = worker[w].claim

\* Mutant: a closed signer still admits.
Admitted_Closed(s) == account[s].gen > 0 /\ account[s].gen < MaxGeneration

\* _admitted_signer, without and with the generation a preparation recorded.
Admitted(s) ==
    /\ account[s].state = "admitted"
    /\ account[s].gen > 0
    /\ account[s].gen < MaxGeneration

\* Mutant: the recheck under the lock forgets the generation.
AdmittedAt_Any(s, g) == Admitted(s)

AdmittedAt(s, g) == Admitted(s) /\ account[s].gen = g

Back(w) == worker' = [worker EXCEPT ![w] = Claimed(worker[w].op, worker[w].claim)]

-----------------------------------------------------------------------------
(* open_operation.                                                         *)

\* Mutant: an unresolved signed operation is taken for a failed one.
Restartable_Signed(o, restartOf) ==
    /\ operation[o].status \in {"failed", "reverted", "signed"}
    /\ restartOf \in {None, operation[o].claim}

\* A failed or reverted operation is claimed anew when the caller names no
\* claim to restart, or names the one that failed.  Callers pass the claim a
\* retry was admitted for, or UUID(int=0) (here 0), which no row ever has.
Restartable(o, restartOf) ==
    /\ operation[o].status \in {"failed", "reverted"}
    /\ restartOf \in {None, operation[o].claim}

OpenOperation(w, o, restartOf) ==
    /\ worker[w].pc = "idle"
    /\ \/ /\ operation[o].status = "absent" \/ Restartable(o, restartOf)
          /\ operation[o].claim < MaxClaims
          /\ operation' = [operation EXCEPT ![o] = NewClaim(o)]
       \/ /\ operation[o].status # "absent"
          /\ ~Restartable(o, restartOf)
          /\ UNCHANGED operation
    /\ worker' = [worker EXCEPT ![w] = Claimed(o, operation'[o].claim)]
    /\ UNCHANGED <<account, attempts, chain>>

-----------------------------------------------------------------------------
(* prepare_operation: rows first, then the provider, with no lock held.    *)

PrepareRead(w) ==
    LET o == worker[w].op IN
    /\ worker[w].pc = "claimed"
    /\ IsCurrent(w)
    /\ operation[o].status = "preparing"
    /\ Admitted(SignerOf[o])
    /\ worker' = [worker EXCEPT ![w].pc = "observing", ![w].gen = account[SignerOf[o]].gen]
    /\ UNCHANGED <<operation, account, attempts, chain>>

Holds(held, s, n) == \E a \in held : SignerOf[a.op] = s /\ a.nonce = n

\* get_nonce asks for the "pending" count: executed transactions and those a
\* node holds in line behind them, of the platform or of another program with
\* the same key.  A lagging node may know of fewer.
PendingCounts(s) ==
    {n \in mined[s]..MaxNonce :
        \A k \in mined[s]..(n - 1) : Holds(pool, s, k) \/ k \in foreign[s]}

PrepareObserve(w) ==
    /\ worker[w].pc = "observing"
    /\ \E n \in PendingCounts(SignerOf[worker[w].op]) :
          worker' = [worker EXCEPT ![w].pc = "prepared", ![w].observed = n]
    /\ UNCHANGED <<operation, account, attempts, chain>>

-----------------------------------------------------------------------------
(* sign_operation: operation row locked, then the signer row; nonce        *)
(* reservation, signed bytes and operation pointer commit together.        *)

\* Mutant: the provider's count alone.
NextNonce_Observed(s, observed) == observed

\* The nonce a signature reserves.
NextNonce(s, observed) == IF observed > account[s].next THEN observed ELSE account[s].next

\* Mutant: the counter skips a nonce.
Advance_ByTwo(n) == n + 2

\* The counter a reservation of nonce n leaves behind.
Advance(n) == n + 1

\* A caller whose claim or generation is stale, or whose nonce is out of
\* range, gets an exception; a late caller gets the attempt already signed.
Sign(w) ==
    LET o == worker[w].op
        s == SignerOf[o]
        n == NextNonce(s, worker[w].observed)
        a == [op |-> o, claim |-> worker[w].claim, nonce |-> n, gen |-> worker[w].gen]
    IN  /\ worker[w].pc = "prepared"
        /\ IsCurrent(w)
        /\ operation[o].status = "preparing"
        /\ AdmittedAt(s, worker[w].gen)
        /\ n < MaxNonce
        /\ attempts' = attempts \cup {a}
        /\ account' = [account EXCEPT ![s].next = Advance(n)]
        /\ operation' = [operation EXCEPT ![o].status = "signed", ![o].attempt = a]
        /\ Back(w)
        /\ UNCHANGED chain

\* Every other outcome of sign_operation, the rollback of a failing on_signed
\* included, changes no row.
SignRefused(w) ==
    /\ worker[w].pc = "prepared"
    /\ Back(w)
    /\ UNCHANGED <<operation, account, attempts, chain>>

\* Mutant: the status is not looked at under the lock.
FailPreparing_AnyStatus(w) ==
    LET o == worker[w].op IN
    /\ worker[w].pc = "claimed"
    /\ IsCurrent(w)
    /\ operation' = [operation EXCEPT ![o].status = "failed"]
    /\ UNCHANGED <<account, attempts, worker, chain>>

\* fail_preparing, called when the preparation was refused or broke.
FailPreparing(w) ==
    LET o == worker[w].op IN
    /\ worker[w].pc = "claimed"
    /\ IsCurrent(w)
    /\ operation[o].status = "preparing"
    /\ operation' = [operation EXCEPT ![o].status = "failed"]
    /\ UNCHANGED <<account, attempts, worker, chain>>

-----------------------------------------------------------------------------
(* broadcast_operation: admission in one short transaction, the send with  *)
(* no lock held, the answer recorded in another transaction.               *)

\* Mutant: what a node acknowledged is never sent again.
BroadcastAdmit_Once(w) ==
    LET o == worker[w].op IN
    /\ worker[w].pc = "claimed"
    /\ IsCurrent(w)
    /\ operation[o].status = "signed" /\ ~operation[o].acked
    /\ Admitted(SignerOf[o])
    /\ worker' = [worker EXCEPT ![w].pc = "sending", ![w].attempt = operation[o].attempt]
    /\ UNCHANGED <<operation, account, attempts, chain>>

BroadcastAdmit(w) ==
    LET o == worker[w].op IN
    /\ worker[w].pc = "claimed"
    /\ IsCurrent(w)
    /\ operation[o].status = "signed"
    /\ Admitted(SignerOf[o])
    /\ worker' = [worker EXCEPT ![w].pc = "sending", ![w].attempt = operation[o].attempt]
    /\ UNCHANGED <<operation, account, attempts, chain>>

\* A node takes a transaction whose nonce is not executed yet.
Deliver(w, answer) ==
    LET a == worker[w].attempt IN
    /\ worker[w].pc = "sending"
    /\ a.nonce >= mined[SignerOf[a.op]]
    /\ pool' = pool \cup {a}
    /\ accepted' = accepted \cup {a}
    /\ worker' = [worker EXCEPT ![w].pc = "sent", ![w].result = answer]
    /\ UNCHANGED <<operation, account, attempts, mined, foreign, succeeded, reverted>>

\* The send is lost, refused (nonce executed, already known) or times out.
SendFails(w) ==
    /\ worker[w].pc = "sending"
    /\ worker' = [worker EXCEPT ![w].pc = "sent", ![w].result = "error"]
    /\ UNCHANGED <<operation, account, attempts, chain>>

\* Mutant: whatever attempt is current takes the answer or the receipt.
StillSigned_AnyAttempt(w) == operation[worker[w].op].status = "signed"

\* The claim, the status and the hash are compared again before an answer or
\* a receipt is written.
StillSigned(w) ==
    LET o == worker[w].op IN
    /\ IsCurrent(w)
    /\ operation[o].status = "signed"
    /\ operation[o].attempt = worker[w].attempt

RecordBroadcast(w) ==
    /\ worker[w].pc = "sent"
    /\ \/ /\ StillSigned(w)
          /\ worker[w].result = "acknowledged"
          /\ operation' = [operation EXCEPT ![worker[w].op].acked = TRUE]
       \/ /\ ~(StillSigned(w) /\ worker[w].result = "acknowledged")
          /\ UNCHANGED operation
    /\ Back(w)
    /\ UNCHANGED <<account, attempts, chain>>

-----------------------------------------------------------------------------
(* reconcile_operation and record_receipt.                                 *)

ReadReceipt(w) ==
    LET a == operation[worker[w].op].attempt IN
    /\ worker[w].pc = "claimed"
    /\ IsCurrent(w)
    /\ operation[worker[w].op].status = "signed"
    /\ a \in succeeded \cup reverted
    /\ worker' = [worker EXCEPT
            ![w].pc = "found", ![w].attempt = a,
            ![w].result = IF a \in succeeded THEN "confirmed" ELSE "reverted"]
    /\ UNCHANGED <<operation, account, attempts, chain>>

RecordReceipt(w) ==
    /\ worker[w].pc = "found"
    /\ \/ /\ StillSigned(w)
          /\ operation' = [operation EXCEPT ![worker[w].op].status = worker[w].result]
       \/ /\ ~StillSigned(w)
          /\ UNCHANGED operation
    /\ Back(w)
    /\ UNCHANGED <<account, attempts, chain>>

\* The caller returns, or its process dies: what it carried is gone.
Stop(w) ==
    /\ worker[w].pc # "idle"
    /\ worker' = [worker EXCEPT ![w] = Idle]
    /\ UNCHANGED <<operation, account, attempts, chain>>

-----------------------------------------------------------------------------
(* Signer admission.                                                       *)

CloseAdmission(s) ==
    /\ account[s].gen < MaxGeneration
    /\ account' = [account EXCEPT ![s].state = "closed", ![s].gen = @ + 1]
    /\ UNCHANGED <<operation, attempts, worker, chain>>

\* No service admits a signer: an operator does, by the rules the database
\* enforces (a new generation, below the maximum).
Admit(s) ==
    /\ account[s].state = "closed"
    /\ account[s].gen + 1 < MaxGeneration
    /\ account' = [account EXCEPT ![s].state = "admitted", ![s].gen = @ + 1]
    /\ UNCHANGED <<operation, attempts, worker, chain>>

-----------------------------------------------------------------------------
(* The chain.                                                              *)

\* A node executes the next nonce of an account; the contract call may revert.
Execute(a, ok) ==
    LET s == SignerOf[a.op] IN
    /\ a \in pool
    /\ a.nonce = mined[s]
    /\ mined' = [mined EXCEPT ![s] = @ + 1]
    /\ pool' = pool \ {a}
    /\ IF ok THEN succeeded' = succeeded \cup {a} /\ UNCHANGED reverted
             ELSE reverted' = reverted \cup {a} /\ UNCHANGED succeeded
    /\ UNCHANGED <<operation, account, attempts, worker, foreign, accepted>>

\* Nodes forget a transaction they held.
Evict(a) ==
    /\ a \in pool
    /\ pool' = pool \ {a}
    /\ UNCHANGED <<operation, account, attempts, worker, mined, foreign, accepted, succeeded,
                   reverted>>

\* Another program sends a transaction with the same key.  It may wait in line,
\* be counted by some nodes and not by others, or be dropped and never executed.
ForeignSend(s) ==
    /\ s \in ForeignUse
    /\ \E n \in mined[s]..(MaxNonce - 1) : foreign' = [foreign EXCEPT ![s] = @ \cup {n}]
    /\ UNCHANGED <<operation, account, attempts, worker, mined, pool, accepted, succeeded,
                   reverted>>

\* A node executes the transaction another program sent.
ForeignExecute(s) ==
    /\ mined[s] \in foreign[s]
    /\ mined' = [mined EXCEPT ![s] = @ + 1]
    /\ UNCHANGED <<operation, account, attempts, worker, foreign, pool, accepted, succeeded,
                   reverted>>

-----------------------------------------------------------------------------
Init ==
    /\ operation = [o \in Ops |->
            [status |-> "absent", claim |-> 0, attempt |-> None, acked |-> FALSE]]
    /\ account = [s \in Signers |-> [next |-> 0, state |-> "closed", gen |-> 0]]
    /\ attempts = {}
    /\ worker = [w \in Workers |-> Idle]
    /\ mined = [s \in Signers |-> 0] /\ foreign = [s \in Signers |-> {}]
    /\ pool = {} /\ accepted = {} /\ succeeded = {} /\ reverted = {}

Call(w) ==
    \/ \E o \in Ops, r \in {None} \cup 0..MaxClaims : OpenOperation(w, o, r)
    \/ PrepareRead(w) \/ PrepareObserve(w)
    \/ Sign(w) \/ SignRefused(w) \/ FailPreparing(w)
    \/ BroadcastAdmit(w)
    \/ \E answer \in {"acknowledged", "error"} : Deliver(w, answer)
    \/ SendFails(w) \/ RecordBroadcast(w)
    \/ ReadReceipt(w) \/ RecordReceipt(w)
    \/ Stop(w)

Chain ==
    \/ \E a \in pool : Evict(a) \/ \E ok \in BOOLEAN : Execute(a, ok)
    \/ \E s \in Signers : ForeignSend(s) \/ ForeignExecute(s)

Next ==
    \/ \E w \in Workers : Call(w)
    \/ \E s \in Signers : CloseAdmission(s) \/ Admit(s)
    \/ Chain

Spec == Init /\ [][Next]_vars

-----------------------------------------------------------------------------
(* Correctness.                                                            *)

Worker == [pc: Steps, op: Ops \cup {None}, claim: Nat, gen: Nat, observed: Nat,
           attempt: OptionalAttempt,
           result: {None, "acknowledged", "error", "confirmed", "reverted"}]

\* The rows, the callers and the chain keep their shape (models/outgoing.py).
TypeOK ==
    /\ operation \in [Ops -> Operation]
    /\ account \in [Signers -> Account]
    /\ attempts \subseteq Attempt
    /\ worker \in [Workers -> Worker]
    /\ mined \in [Signers -> Nat]
    /\ foreign \in [Signers -> SUBSET Nat]
    /\ pool \subseteq Attempt
    /\ accepted \subseteq Attempt
    /\ succeeded \subseteq Attempt
    /\ reverted \subseteq Attempt

\* No two signed attempts of one signer carry the same nonce, whatever the
\* provider answered to racing preparers (sign_operation; the database's
\* unique_outgoing_signer_nonce is never what stops a caller).
NonceUnique ==
    \A a, b \in attempts :
        SignerOf[a.op] = SignerOf[b.op] /\ a.nonce = b.nonce => a = b

\* A nonce that is executed, belongs to a saved attempt, or was taken by another
\* program the key is shared with.
Spoken(s, n) ==
    \/ n < mined[s]
    \/ Holds(attempts, s, n)
    \/ s \in ForeignUse /\ n \in foreign[s]

\* No reservation leaves a hole of its own below a signer's counter, one that
\* would block all later transactions of the account.  With a key of the
\* platform alone every nonce below the counter is executed or can still be
\* broadcast from a saved attempt; with a shared key the one exception is a
\* nonce another program had sent a transaction for, which the provider counted
\* and which may be dropped since: there is no global nonce guarantee.
NoNonceGap ==
    \A s \in Signers : \A n \in 0..(account[s].next - 1) : Spoken(s, n)

\* The chain carries out an operation at most once, over all its claims,
\* retries, lost acknowledgements and repeated broadcasts.
AppliedOnce ==
    \A a, b \in succeeded : a.op = b.op => a = b

\* A signed attempt that a later claim replaced has a receipt of status 0: a
\* delayed worker or a node that still holds its bytes can never carry it out.
ReplacedAttemptIsDead ==
    \A a \in attempts : operation[a.op].attempt # a => a \in reverted

\* A claim fences out the workers of the claims before it: the attempt an
\* operation points at was signed for the claim the operation is at.
ClaimFencesWorkers ==
    \A o \in Ops :
        operation[o].attempt # None => operation[o].attempt.claim = operation[o].claim

\* "confirmed" and "reverted" say what the chain did with the operation's
\* current attempt, and any success on chain belongs to an operation that is
\* confirmed or still signed: never to one that may be restarted.
OutcomeIsTrue ==
    /\ \A o \in Ops :
        /\ operation[o].status = "confirmed" => operation[o].attempt \in succeeded
        /\ operation[o].status = "reverted" => operation[o].attempt \in reverted
    /\ \A a \in succeeded : operation[a.op].status \in {"signed", "confirmed"}

\* acknowledged_at is set only when a node accepted the bytes of the attempt
\* that is current, never from the late answer to an earlier claim's send.
AckIsForThisAttempt ==
    \A o \in Ops : operation[o].acked => operation[o].attempt \in accepted

\* What the rows say of an attempt, its outcome and its acknowledgement, is what
\* the chain and the nodes did with that attempt (record_receipt,
\* _record_broadcast).
RecordedIsTrue == OutcomeIsTrue /\ AckIsForThisAttempt

\* Nonces are reserved in the order of admission generations: a preparation
\* from before a close/reopen cycle is never signed after one from after it.
NoDelayedPreparer ==
    \A a, b \in attempts :
        SignerOf[a.op] = SignerOf[b.op] /\ a.nonce < b.nonce => a.gen <= b.gen

Sending(s) == {w \in Workers : worker[w].pc = "sending" /\ SignerOf[worker[w].op] = s}

\* Closure is a drain barrier: while a signer is closed none of its operations
\* is signed, no caller enters a send, and once those already past the
\* admission check are done no node receives anything of it any more.
ClosureDrains ==
    [][\A s \in Signers : account[s].state = "closed" =>
          /\ Sending(s)' \subseteq Sending(s)
          /\ \A a \in attempts' \ attempts : SignerOf[a.op] # s
          /\ Sending(s) = {} => \A a \in pool' \ pool : SignerOf[a.op] # s]_vars

(* The inductive invariant behind these: what the rows, the attempts, the   *)
(* callers and the chain know of one another.                              *)

RowsInv ==
    \A o \in Ops :
        /\ operation[o].status \in {"signed", "confirmed", "reverted"} =>
              /\ operation[o].attempt \in attempts
              /\ operation[o].attempt.op = o
              /\ operation[o].attempt.claim = operation[o].claim
        /\ operation[o].status \in {"absent", "preparing", "failed"} =>
              /\ operation[o].attempt = None
              /\ ~operation[o].acked
              /\ \A a \in attempts : a.op = o => a.claim < operation[o].claim

AttemptsInv ==
    \A a \in attempts :
        /\ a.claim <= operation[a.op].claim
        /\ a.claim = operation[a.op].claim => operation[a.op].attempt = a
        /\ a.claim < operation[a.op].claim => a \in reverted
        /\ a.nonce < account[SignerOf[a.op]].next
        /\ a.gen <= account[SignerOf[a.op]].gen

ChainInv ==
    /\ pool \cup accepted \cup succeeded \cup reverted \subseteq attempts
    /\ succeeded \cap reverted = {}
    /\ \A a \in succeeded \cup reverted : a.nonce < mined[SignerOf[a.op]]
    /\ \A s \in Signers \ ForeignUse : foreign[s] = {}

\* Below n no nonce of s is a hole.
Covered(s, n) == \A k \in 0..(n - 1) : Spoken(s, k)

WorkerInv(w) ==
    /\ worker[w].pc # "idle" => worker[w].op \in Ops
    /\ worker[w].pc = "prepared" => Covered(SignerOf[worker[w].op], worker[w].observed)
    /\ worker[w].pc = "sending" =>
          worker[w].attempt \in attempts /\ worker[w].attempt.op = worker[w].op
    /\ worker[w].pc = "sent" =>
          /\ worker[w].result \in {"acknowledged", "error"}
          /\ worker[w].result = "acknowledged" => worker[w].attempt \in accepted
    /\ worker[w].pc = "found" =>
          \/ worker[w].result = "confirmed" /\ worker[w].attempt \in succeeded
          \/ worker[w].result = "reverted" /\ worker[w].attempt \in reverted

WorkersInv == \A w \in Workers : WorkerInv(w)

\* The conjunction that every step keeps.
JournalInv ==
    /\ TypeOK
    /\ RowsInv /\ AttemptsInv /\ ChainInv /\ WorkersInv
    /\ OutcomeIsTrue /\ AckIsForThisAttempt
    /\ NonceUnique /\ NoNonceGap /\ NoDelayedPreparer

\* What the journal promises its callers: an operation takes effect at most
\* once, and only a proved failure lets it be tried again.
StageOf(status) ==
    CASE status = "absent" -> "absent"
      [] status = "preparing" -> "open"
      [] status = "signed" -> "dispatched"
      [] status = "confirmed" -> "done"
      [] OTHER -> "undone"

Stage == [o \in Ops |-> StageOf(operation[o].status)]

Applied == [o \in Ops |-> \E a \in succeeded : a.op = o]

Promise == INSTANCE OnceOnly WITH stage <- Stage, applied <- Applied

\* The journal implements OnceOnly.
ImplementsOnceOnly == Promise!Spec

-----------------------------------------------------------------------------
(* Progress.  The five-minute sweeps call the same services again for every *)
(* unresolved operation, and every job ends, by returning or by being       *)
(* killed; a provider that is asked again and again answers in the end; a    *)
(* chain executes the next nonce it keeps being sent.                        *)

CallsFor(o, Action(_)) ==
    \E w \in Workers : worker[w].op = o /\ Action(w)

Acknowledge(w) == Deliver(w, "acknowledged")

Fairness ==
    /\ \A w \in Workers : WF_vars(Stop(w))
    /\ \A o \in Ops :
        /\ SF_vars(\E w \in Workers : OpenOperation(w, o, 0))
        /\ SF_vars(CallsFor(o, BroadcastAdmit))
        /\ SF_vars(CallsFor(o, Acknowledge))
        /\ SF_vars(CallsFor(o, ReadReceipt))
        /\ SF_vars(CallsFor(o, RecordReceipt))
        /\ SF_vars(\E a \in pool, ok \in BOOLEAN : a.op = o /\ Execute(a, ok))

FairSpec == Spec /\ Fairness

\* A signed operation is resolved in the end if its signer stays admitted and
\* its key is used by nobody else, however often workers stop, sends fail and
\* nodes forget: the saved bytes are sent again, those of lower nonces too.
SignedIsResolved ==
    \A o \in Ops :
        SignerOf[o] \notin ForeignUse /\ <>[]Admitted(SignerOf[o])
            => (operation[o].status = "signed"
                    ~> operation[o].status \in {"confirmed", "reverted"})
=============================================================================
