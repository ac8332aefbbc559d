---------------------------- MODULE ShareIssuance ----------------------------
(***************************************************************************)
(* One paid subscription, the share issuance admitted for it, and the      *)
(* money that may go back instead                                          *)
(* (backend/tokens/services/issuance_execution.py and the allotment,       *)
(* refund and closing half of backend/offerings/services/subscription.py). *)
(*                                                                         *)
(* Staff allot, refund, close and retry; any number of jobs and sweeps run *)
(* issuance_execution.recover on the same execution at once and may stop   *)
(* between any two of its transactions.  Row locks make each transaction   *)
(* one action.  The outgoing journal is used through what OutgoingJournal  *)
(* shows of it: a claim fences every write, a signed attempt is never      *)
(* replaced before it is known to have no effect (UsesTheJournal).         *)
(***************************************************************************)
EXTENDS Naturals, FiniteSets

CONSTANTS
    Workers,    \* concurrent runs of recover
    Paid,       \* amount_received
    Cost,       \* allotment_quantity * price_per_share
    MaxClaims   \* model bound: attempts staff may ask for

ASSUME MoneyAssumption ==
    /\ Paid \in Nat /\ Cost \in Nat \ {0} /\ Cost <= Paid
    /\ MaxClaims \in Nat \ {0}

VARIABLES
    subscription,   \* Subscription: status, and the money sent back (refunded_total)
    request,        \* ShareIssuanceRequest.status
    execution,      \* ShareIssuanceExecution: status, operation_id, retry_of, transaction
    issuance,       \* ShareIssuance.status, the public record
    confirmations,  \* claims named by retry forms staff hold, possibly old ones
    operation,      \* OutgoingOperation: status and claim_id
    record,         \* BlockchainTransaction.status of each claim's transaction
    tx,             \* external: what became of each claim's signed transaction
    worker          \* what each run of recover carries between transactions

rows == <<subscription, request, execution, issuance, confirmations>>
journal == <<operation, record, tx>>
vars == <<rows, journal, worker>>

-----------------------------------------------------------------------------
(* States.  Claims (uuid4) are numbers in the order they are drawn; 0 is   *)
(* UUID(int=0) and a null retry_of.                                        *)

Claims == 1..MaxClaims

Subscription == [status : {"paid", "allotted", "refunded", "closed"}, returned : 0..Paid]

RequestStatus == {"none", "approved", "executing", "executed", "failed", "rejected"}

ExecutionStatus == {"none", "queued", "executing", "executed", "failed", "cancelled"}

Execution ==
    [status : ExecutionStatus, bound : BOOLEAN, retry : 0..MaxClaims, record : 0..MaxClaims]

IssuanceStatus == {"none", "pending", "processing", "completed", "failed"}

Operation ==
    [status : {"none", "preparing", "signed", "confirmed", "reverted", "failed"},
     claim : 0..MaxClaims]

RecordStatus == {"none", "submitted", "confirmed", "reverted"}

TxState == {"none", "signed", "sent", "mined", "reverted"}

Steps == {"idle", "start", "claim", "open", "bind", "resume", "prepare", "look",
          "reconcile", "broadcast", "observe", "retain", "project"}

Worker == [pc : Steps, bound : BOOLEAN, retry : 0..MaxClaims, claim : 0..MaxClaims,
           verified : BOOLEAN]

Idle == [pc |-> "idle", bound |-> FALSE, retry |-> 0, claim |-> 0, verified |-> FALSE]

\* TERMINAL
Terminal == {"executed", "failed", "cancelled"}

\* Mutant: an unresolved signed operation is taken for a failed one.
Undone_Signed == {"failed", "reverted", "signed"}

Undone == {"failed", "reverted"}

\* Mutant: the sweep forgets the executions a crash left half way.
Recoverable_Queued == {"queued"}

\* The executions a job or the sweep takes up.
Recoverable == {"queued", "executing"}

\* The execution object a run holds: read now, used until its next read.
Holding(pc) ==
    [pc |-> pc, bound |-> execution.bound, retry |-> execution.retry,
     claim |-> 0, verified |-> FALSE]

Goto(w, pc) == worker' = [worker EXCEPT ![w].pc = pc]

Finish(w) == worker' = [worker EXCEPT ![w] = Idle]

\* The run still owns the operation (the comparison of claim identifiers).
Owns(w) == operation.claim = worker[w].claim

-----------------------------------------------------------------------------
(* Staff.                                                                  *)

\* allot: request approved, row linked and execution queued in one commit.
Allot ==
    /\ execution.status = "none"
    /\ subscription.status = "paid"
    /\ request' = "approved"
    /\ execution' = [execution EXCEPT !.status = "queued"]
    /\ UNCHANGED <<subscription, issuance, confirmations, journal, worker>>

Held == Paid - subscription.returned

\* money_backing_shares
Backing == IF subscription.status = "allotted" THEN Cost ELSE 0

\* Mutant: what pays for allotted shares counts as returnable.
Refundable_Held == Held

\* Mutant: earlier refunds do not count.
Refundable_Received == Paid

\* amount_refundable
Refundable == IF Held > Backing THEN Held - Backing ELSE 0

\* Mutant: an issuance that has started may still be cancelled.
Cancellable_Executing == {"none", "queued", "executing", "failed", "cancelled"}

\* What _refuse_the_issuance and cancel_queued let a refund pass.
Cancellable == {"none", "queued", "failed", "cancelled"}

\* Mutant: the refund leaves the queued execution behind.
CancelQueued_NotExecution ==
    /\ request' = IF execution.status \in {"queued", "failed"} THEN "rejected" ELSE request
    /\ UNCHANGED execution

\* cancel_queued: the admission and its approved request fall together.
CancelQueued ==
    IF execution.status \in {"queued", "failed"}
    THEN /\ execution' = [execution EXCEPT !.status = "cancelled"]
         /\ request' = "rejected"
    ELSE UNCHANGED <<execution, request>>

RecordRefund(amount) ==
    /\ subscription.status \in {"paid", "allotted", "refunded"}
    /\ amount <= Refundable
    /\ IF subscription.status = "allotted"
       THEN UNCHANGED <<execution, request>>
       ELSE execution.status \in Cancellable /\ CancelQueued
    /\ subscription' =
          [status |-> IF subscription.status = "allotted" THEN "allotted" ELSE "refunded",
           returned |-> subscription.returned + amount]
    /\ UNCHANGED <<issuance, confirmations, journal, worker>>

\* reject and withdraw
Close ==
    /\ request \in {"none", "rejected"}
    /\ subscription.status \in {"paid", "refunded"}
    /\ Held = 0
    /\ subscription' = [subscription EXCEPT !.status = "closed"]
    /\ UNCHANGED <<request, execution, issuance, confirmations, journal, worker>>

\* confirmation: the retry form names the claim that failed.
OpenRetryForm ==
    /\ execution.status = "failed"
    /\ execution.bound
    /\ confirmations' = confirmations \cup {operation.claim}
    /\ UNCHANGED <<subscription, request, execution, issuance, journal, worker>>

\* The form identifies the failed attempt, and was not used before.
RetryNames(c) == operation.claim = c /\ execution.retry # c

\* admit, for an execution that exists.  A form that is stale or already used
\* enqueues at most another run, which changes no row.
Retry(c) ==
    /\ c \in confirmations
    /\ c < MaxClaims
    /\ execution.status = "failed"
    /\ RetryNames(c)
    /\ operation.status \in Undone
    /\ request = "failed"
    /\ subscription.status = "paid"
    /\ execution' = [execution EXCEPT !.status = "queued", !.retry = c]
    /\ request' = "approved"
    /\ UNCHANGED <<subscription, issuance, confirmations, journal, worker>>

-----------------------------------------------------------------------------
(* recover.                                                                *)

Begin(w) ==
    /\ worker[w].pc = "idle"
    /\ execution.status \in Recoverable
    /\ worker' = [worker EXCEPT ![w] =
          Holding(IF execution.status = "queued" THEN "start" ELSE "claim")]
    /\ UNCHANGED <<rows, journal>>

\* _start, by the run that takes the queued execution.
Start(w) ==
    /\ worker[w].pc = "start"
    /\ execution.bound = worker[w].bound
    /\ execution.status = "queued"
    /\ request = "approved"
    /\ subscription.status = "paid"
    /\ execution' = [execution EXCEPT !.status = "executing"]
    /\ request' = "executing"
    /\ issuance' = IF issuance = "none" THEN "pending" ELSE issuance
    /\ worker' = [worker EXCEPT ![w] = Holding("claim")]
    /\ UNCHANGED <<subscription, confirmations, journal>>

\* _start, by a run that finds it taken: the row as it is now.
StartTaken(w) ==
    /\ worker[w].pc = "start"
    /\ execution.bound = worker[w].bound
    /\ execution.status = "executing"
    /\ worker' = [worker EXCEPT ![w] = Holding("claim")]
    /\ UNCHANGED <<rows, journal>>

\* _claim, first half: keep the operation's claim unless a retry of exactly
\* that claim was admitted when the run read its execution.
ReadClaim(w) ==
    /\ worker[w].pc = "claim"
    /\ IF worker[w].bound /\ ~(operation.status \in Undone /\ worker[w].retry = operation.claim)
       THEN worker' = [worker EXCEPT ![w].pc = "resume", ![w].claim = operation.claim]
       ELSE Goto(w, "open")
    /\ UNCHANGED <<rows, journal>>

\* Mutant: any failed operation is opened anew.
Restarts_Always(w) == operation.status \in Undone \cup {"none"}

\* open_operation restarts only the claim the run names.
Restarts(w) ==
    \/ operation.status = "none"
    \/ operation.status \in Undone /\ operation.claim = worker[w].retry

Open(w) ==
    /\ worker[w].pc = "open"
    /\ \/ /\ Restarts(w)
          /\ operation' = [status |-> "preparing", claim |-> operation.claim + 1]
       \/ ~Restarts(w) /\ UNCHANGED operation
    /\ worker' = [worker EXCEPT ![w].pc = "bind", ![w].claim = operation'.claim]
    /\ UNCHANGED <<rows, record, tx>>

\* _claim, second half.
Bind(w) ==
    /\ worker[w].pc = "bind"
    /\ execution.bound = worker[w].bound
    /\ \/ /\ execution.status \in Terminal /\ execution.bound
          /\ UNCHANGED execution
       \/ /\ execution.status = "executing" /\ request = "executing"
          /\ execution' = [execution EXCEPT !.bound = TRUE]
    /\ worker' = [worker EXCEPT ![w].pc = "resume", ![w].claim = operation.claim]
    /\ UNCHANGED <<subscription, request, issuance, confirmations, journal>>

\* The execution is read again, then the operation.
Resume(w) ==
    /\ worker[w].pc = "resume"
    /\ IF execution.status \in Terminal THEN Finish(w)
       ELSE Goto(w, IF operation.status = "preparing" THEN "prepare" ELSE "look")
    /\ UNCHANGED <<rows, journal>>

\* Mutant: the status is not looked at under the lock.
StillPreparing_Owned(w) == Owns(w)

\* What sign_operation and fail_preparing find when they go ahead.
StillPreparing(w) == Owns(w) /\ operation.status = "preparing"

\* sign_operation with _record_signed, one commit.
Sign(w) ==
    LET c == worker[w].claim IN
    /\ worker[w].pc = "prepare"
    /\ StillPreparing(w)
    /\ execution.bound /\ execution.status = "executing" /\ request = "executing"
    /\ operation' = [operation EXCEPT !.status = "signed"]
    /\ tx' = [tx EXCEPT ![c] = "signed"]
    /\ record' = [record EXCEPT ![c] = "submitted"]
    /\ execution' = [execution EXCEPT !.record = c]
    /\ issuance' = "processing"
    /\ Goto(w, "look")
    /\ UNCHANGED <<subscription, request, confirmations>>

\* The preflight refuses, or anything on the way to a signature raises:
\* fail_preparing, which another run's claim or signature makes a no-op.
GiveUp(w) ==
    /\ worker[w].pc = "prepare"
    /\ operation' = IF StillPreparing(w)
                    THEN [operation EXCEPT !.status = "failed"] ELSE operation
    /\ Goto(w, "look")
    /\ UNCHANGED <<rows, record, tx>>

\* Where a run goes with an operation it has just read.
Onward(status) == IF status = "confirmed" THEN "retain" ELSE "project"

Look(w) ==
    /\ worker[w].pc = "look"
    /\ IF ~Owns(w) THEN Finish(w)
       ELSE Goto(w, IF operation.status = "signed" THEN "reconcile"
                    ELSE Onward(operation.status))
    /\ UNCHANGED <<rows, journal>>

\* reconcile_operation finds the receipt of the run's attempt.
Receive(w) ==
    /\ worker[w].pc \in {"reconcile", "observe"}
    /\ Owns(w)
    /\ operation.status = "signed"
    /\ tx[worker[w].claim] \in {"mined", "reverted"}
    /\ operation' = [operation EXCEPT !.status =
          IF tx[worker[w].claim] = "mined" THEN "confirmed" ELSE "reverted"]
    /\ Goto(w, IF tx[worker[w].claim] = "mined" THEN "retain" ELSE "project")
    /\ UNCHANGED <<rows, record, tx>>

\* It finds none, or another run was first.
ReceiveNothing(w) ==
    /\ worker[w].pc \in {"reconcile", "observe"}
    /\ Owns(w)
    /\ Goto(w, IF worker[w].pc = "reconcile" /\ operation.status = "signed"
               THEN "broadcast" ELSE Onward(operation.status))
    /\ UNCHANGED <<rows, journal>>

\* broadcast_operation; the send itself may be lost.
Broadcast(w) ==
    LET c == worker[w].claim IN
    /\ worker[w].pc = "broadcast"
    /\ Owns(w)
    /\ operation.status \in {"signed", "confirmed"}
    /\ \/ tx[c] = "signed" /\ tx' = [tx EXCEPT ![c] = "sent"]
       \/ UNCHANGED tx
    /\ Goto(w, "observe")
    /\ UNCHANGED <<rows, operation, record>>

\* Mutant: the receipt is written on whatever transaction is current.
RetainReceipt_Confirmed == record' = [record EXCEPT ![execution.record] = "confirmed"]

\* _retain_receipt
RetainReceipt ==
    record' = IF operation.status \in {"confirmed", "reverted"}
              THEN [record EXCEPT ![execution.record] = operation.status]
              ELSE record

\* The receipt kept, then verified against the admitted mint.  A receipt that
\* cannot be verified ends the run here (Abandon).
Retain(w) ==
    /\ worker[w].pc = "retain"
    /\ Owns(w)
    /\ RetainReceipt
    /\ worker' = [worker EXCEPT ![w].pc = "project", ![w].verified = TRUE]
    /\ UNCHANGED <<rows, operation, tx>>

\* _project goes on: the run's claim is current, the execution open, and the
\* operation's outcome is not the one a retry was already admitted for.
Projects(w) ==
    /\ worker[w].pc = "project"
    /\ execution.bound
    /\ Owns(w)
    /\ execution.status \notin Terminal
    /\ execution.retry # operation.claim

ProjectExecuted(w) ==
    /\ Projects(w)
    /\ operation.status = "confirmed"
    /\ worker[w].verified
    /\ subscription.status = "paid"
    /\ RetainReceipt
    /\ execution' = [execution EXCEPT !.status = "executed"]
    /\ request' = "executed"
    /\ issuance' = "completed"
    /\ subscription' = [subscription EXCEPT !.status = "allotted"]
    /\ Finish(w)
    /\ UNCHANGED <<confirmations, operation, tx>>

ProjectFailed(w) ==
    /\ Projects(w)
    /\ operation.status \in Undone
    /\ RetainReceipt
    /\ execution' = [execution EXCEPT !.status = "failed"]
    /\ request' = "failed"
    /\ issuance' = "failed"
    /\ Finish(w)
    /\ UNCHANGED <<subscription, confirmations, operation, tx>>

\* Nothing to project yet, or a receipt this run has not verified.
ProjectNothing(w) ==
    /\ worker[w].pc = "project"
    /\ IF Projects(w)
       THEN /\ operation.status \notin Undone
            /\ operation.status = "confirmed" => ~worker[w].verified
            /\ RetainReceipt
       ELSE UNCHANGED record
    /\ Finish(w)
    /\ UNCHANGED <<rows, operation, tx>>

\* A crash, a conflict, an unreachable provider, or IssuanceExecutionAdvanced
\* (after which recover begins again).
Abandon(w) ==
    /\ worker[w].pc # "idle"
    /\ Finish(w)
    /\ UNCHANGED <<rows, journal>>

-----------------------------------------------------------------------------
(* External: the chain executes a sent mint, or reverts it.                *)

Mine(c, outcome) ==
    /\ tx[c] = "sent"
    /\ tx' = [tx EXCEPT ![c] = outcome]
    /\ UNCHANGED <<rows, operation, record, worker>>

-----------------------------------------------------------------------------
Init ==
    /\ subscription = [status |-> "paid", returned |-> 0]
    /\ request = "none"
    /\ execution = [status |-> "none", bound |-> FALSE, retry |-> 0, record |-> 0]
    /\ issuance = "none"
    /\ confirmations = {}
    /\ operation = [status |-> "none", claim |-> 0]
    /\ record = [c \in Claims |-> "none"]
    /\ tx = [c \in Claims |-> "none"]
    /\ worker = [w \in Workers |-> Idle]

Staff ==
    \/ Allot
    \/ \E amount \in 1..Paid : RecordRefund(amount)
    \/ Close
    \/ OpenRetryForm
    \/ \E c \in Claims : Retry(c)

Recover(w) ==
    \/ Begin(w) \/ Start(w) \/ StartTaken(w) \/ ReadClaim(w) \/ Open(w) \/ Bind(w)
    \/ Resume(w) \/ Sign(w) \/ GiveUp(w) \/ Look(w) \/ Receive(w) \/ ReceiveNothing(w)
    \/ Broadcast(w) \/ Retain(w) \/ ProjectExecuted(w) \/ ProjectFailed(w)
    \/ ProjectNothing(w)

Chain == \E c \in Claims, outcome \in {"mined", "reverted"} : Mine(c, outcome)

Next == Staff \/ (\E w \in Workers : Recover(w) \/ Abandon(w)) \/ Chain

Spec == Init /\ [][Next]_vars

\* Runs of recover are repeated by the five-minute sweep until the execution
\* is terminal, so a step a run keeps coming back to is eventually not
\* interrupted; a sent transaction is eventually executed.
Fairness ==
    /\ \A w \in Workers :
          /\ SF_vars(Begin(w)) /\ SF_vars(Start(w)) /\ SF_vars(StartTaken(w))
          /\ SF_vars(ReadClaim(w)) /\ SF_vars(Open(w)) /\ SF_vars(Bind(w))
          /\ SF_vars(Resume(w)) /\ SF_vars(Sign(w) \/ GiveUp(w)) /\ SF_vars(Look(w))
          /\ SF_vars(Receive(w)) /\ SF_vars(ReceiveNothing(w)) /\ SF_vars(Retain(w))
          /\ SF_vars(ProjectExecuted(w) \/ ProjectFailed(w) \/ ProjectNothing(w))
          /\ SF_vars(Broadcast(w) /\ tx' # tx) /\ SF_vars(Broadcast(w))
          /\ WF_vars(Abandon(w))
    /\ WF_vars(Chain)

FairSpec == Spec /\ Fairness

-----------------------------------------------------------------------------
(* The PostgreSQL triggers of migration 0048, as what they demand of a     *)
(* step.  They are a second line: the services are written never to meet   *)
(* them, and GuardsNeverRefuse says they do not.                           *)

\* The request status each execution status goes with.
Follows == [queued |-> "approved", executing |-> "executing", executed |-> "executed",
            failed |-> "failed", cancelled |-> "rejected"]

Transitions ==
    {<<"none", "queued">>, <<"queued", "executing">>, <<"queued", "cancelled">>,
     <<"executing", "executed">>, <<"executing", "failed">>,
     <<"failed", "queued">>, <<"failed", "cancelled">>}

\* protect_issuance_execution
ExecutionGuard ==
    LET from == execution.status
        to == execution'.status
    IN
    /\ from = to \/ <<from, to>> \in Transitions
    /\ from = "none" =>
          /\ execution' = [status |-> "queued", bound |-> FALSE, retry |-> 0, record |-> 0]
          /\ request' = "approved"
          /\ subscription' = [status |-> "paid", returned |-> 0]
    /\ execution.bound => execution'.bound
    /\ execution.record \notin {0, execution'.record} =>
          execution'.record # 0 /\ record'[execution.record] = "reverted"
    /\ to \in {"executing", "executed", "failed"} \/ execution'.bound => issuance' # "none"
    /\ execution'.record # 0 =>
          IF operation'.status \in {"signed", "confirmed", "reverted"}
          THEN execution'.record = operation'.claim
          ELSE record'[execution'.record] = "reverted"
    /\ to = "executed" =>
          /\ operation'.status = "confirmed"
          /\ record'[execution'.record] = "confirmed"
          /\ execution'.retry # operation'.claim
    /\ to \in {"failed", "cancelled", "queued"} /\ execution'.bound =>
          /\ operation'.status \in Undone
          /\ operation'.status = "reverted" => record'[execution'.record] = "reverted"
          /\ to = "failed" => execution'.retry # operation'.claim
    /\ ~execution'.bound =>
          /\ execution'.record = 0 /\ execution'.retry = 0
          /\ to \notin {"executed", "failed"}
    /\ execution'.retry # execution.retry =>
          /\ execution'.retry = operation'.claim
          /\ operation'.status \in Undone
          /\ from = "failed" /\ to = "queued" /\ request = "failed"
    /\ from = "failed" /\ to = "queued" => execution'.retry # execution.retry

\* protect_issuance_request
RequestGuard ==
    /\ request = "rejected" => request' = "rejected"
    /\ request' = Follows[execution'.status]

\* protect_issuance_subscription, for a row with its request linked.
SubscriptionGuard ==
    /\ request' \in {"approved", "executing", "failed"} =>
          subscription'.status = "paid" /\ subscription'.returned = subscription.returned
    /\ request' = "rejected" => subscription'.status \in {"refunded", "closed"}
    /\ subscription'.returned >= subscription.returned
    /\ request' # "executed" => subscription'.status # "allotted"

-----------------------------------------------------------------------------
(* Properties.                                                             *)

\* Rows, journal and workers only hold values the schema and the code allow.
TypeOK ==
    /\ subscription \in Subscription
    /\ request \in RequestStatus
    /\ execution \in Execution
    /\ issuance \in IssuanceStatus
    /\ confirmations \subseteq Claims
    /\ operation \in Operation
    /\ record \in [Claims -> RecordStatus]
    /\ tx \in [Claims -> TxState]
    /\ worker \in [Workers -> Worker]

\* A signed mint that may still execute, or has.
Live(c) == tx[c] \in {"signed", "sent", "mined"}

\* While a mint is out, signed or executed, the money its shares cost is in:
\* no refund slipped in before, between or after the steps of recover.
MoneyBehindShares == (\E c \in Claims : Live(c)) => Held >= Cost

\* Whatever is retried, and however many runs recover at once, the subscriber
\* gets the shares once.
OneMint == \A c, d \in Claims : tx[c] = "mined" /\ Live(d) => c = d

\* An execution staff may cancel and refund (queued, failed) or have cancelled
\* has no mint out: cancelling never races a transaction already signed.
ReleasedIsUnsigned ==
    execution.status \in {"none", "queued", "failed", "cancelled"} =>
        \A c \in Claims : ~Live(c)

\* The subscriber is told "allotted" only of a mint that executed, and a
\* transaction row claims a receipt only if the chain gave it.
RecordsAreTrue ==
    /\ subscription.status = "allotted" =>
          /\ execution.record # 0 /\ tx[execution.record] = "mined"
          /\ record[execution.record] = "confirmed" /\ issuance = "completed"
    /\ \A c \in Claims :
          /\ record[c] = "confirmed" => tx[c] = "mined"
          /\ record[c] = "reverted" => tx[c] = "reverted"

\* No run, however old what it holds, opens a second attempt that staff did not
\* ask for by naming exactly the attempt that failed.
RestartIsAuthorised ==
    [][operation'.claim # operation.claim =>
          /\ execution.status = "executing"
          /\ execution.retry = operation.claim
          /\ operation.claim \in confirmations \cup {0}]_vars

\* The triggers of migration 0048 never refuse a step of the services: every row
\* there is passes after every step, whether the step writes it or leaves it as
\* it was and touches a time or a note.
GuardsNeverRefuse ==
    [][/\ execution'.status = "none" \/ ExecutionGuard
       /\ request' = "none" \/ RequestGuard
       /\ request = "none" \/ SubscriptionGuard]_vars

\* A queued or executing issuance ends executed, failed or cancelled.
Resolves == execution.status \in {"queued", "executing"} ~> execution.status \in Terminal

StageOf(status) ==
    CASE status = "none" -> "absent"
      [] status = "preparing" -> "open"
      [] status = "signed" -> "dispatched"
      [] status = "confirmed" -> "done"
      [] status \in Undone -> "undone"

Minted == \E c \in Claims : tx[c] = "mined"

Journal ==
    INSTANCE OnceOnly WITH
        Ops <- {"mint"},
        stage <- [o \in {"mint"} |-> StageOf(operation.status)],
        applied <- [o \in {"mint"} |-> Minted]

\* The operation is used as the journal's promise (OnceOnly) has it.
UsesTheJournal == Journal!Spec

Shares ==
    IF Minted THEN "issued" ELSE IF execution.status = "executing" THEN "claimed" ELSE "unclaimed"

Escrow == INSTANCE SharesOrMoney WITH shares <- Shares, returned <- subscription.returned

\* Shares or money, never both (SharesOrMoney).
IsSharesOrMoney == Escrow!Spec

-----------------------------------------------------------------------------
(* The inductive invariant behind the properties above.                    *)

\* What the rows say of each other.  A subscription is "paid" with nothing
\* returned for as long as its issuance may proceed.
RowsAgree ==
    /\ request = IF execution.status = "none" THEN "none" ELSE Follows[execution.status]
    /\ subscription.status = "paid" => subscription.returned = 0
    /\ execution.status \in {"queued", "executing", "failed"} => subscription.status = "paid"
    /\ execution.status = "executed" <=> subscription.status = "allotted"
    /\ execution.status = "executed" => Held >= Cost /\ issuance = "completed"
    /\ execution.status = "cancelled" => subscription.status \in {"refunded", "closed"}
    /\ execution.status \in {"executing", "executed", "failed"} \/ execution.bound =>
          issuance # "none"

\* What the execution says of its operation.  The claim is the one a retry was
\* admitted for, all of whose effects are over, or the one opened after it.
ClaimsAgree ==
    /\ operation.claim \in {execution.retry, execution.retry + 1}
    /\ execution.retry < MaxClaims
    /\ execution.retry \in confirmations \cup {0}
    /\ \A c \in confirmations : c <= operation.claim
    /\ operation.claim = execution.retry => operation.status \in {"none"} \cup Undone
    /\ operation.status = "none" <=> operation.claim = 0
    /\ execution.status \in {"none", "queued"} => operation.claim = execution.retry
    /\ execution.status = "failed" =>
          operation.claim # execution.retry /\ operation.status \in Undone
    /\ execution.status = "executed" =>
          operation.claim # execution.retry /\ operation.status = "confirmed"
    /\ execution.status = "cancelled" => operation.status \in {"none"} \cup Undone
    /\ execution.bound => operation.status # "none" /\ execution.status # "none"
    /\ ~execution.bound =>
          /\ execution.retry = 0 /\ execution.record = 0
          /\ execution.status \notin {"failed", "executed"}
          /\ execution.status # "executing" => operation.status = "none"
          /\ operation.status \in {"none", "preparing"}

\* What the operation and the transaction rows say of the chain.
MintsAgree ==
    /\ \A c \in Claims :
          /\ c # operation.claim => tx[c] \in {"none", "reverted"}
          /\ record[c] = "confirmed" => tx[c] = "mined"
          /\ record[c] = "reverted" => tx[c] = "reverted"
          /\ c = operation.claim =>
                /\ operation.status \in {"preparing", "failed"} => tx[c] = "none"
                /\ operation.status = "signed" => tx[c] # "none"
                /\ operation.status = "confirmed" => tx[c] = "mined"
                /\ operation.status = "reverted" => tx[c] = "reverted"
    /\ \A c \in Claims : c > operation.claim => tx[c] = "none"
    /\ operation.status \in {"signed", "confirmed", "reverted"} =>
          execution.record = operation.claim
    /\ execution.record # 0 /\ operation.status \in {"preparing", "failed"} =>
          record[execution.record] = "reverted"
    /\ operation.status = "reverted"
       /\ (operation.claim = execution.retry \/ execution.status \in {"failed", "cancelled"}) =>
          record[execution.record] = "reverted"
    /\ execution.status = "executed" => record[execution.record] = "confirmed"

\* What a run still knows of what it read.  One about to open an attempt under
\* the current retry does so only while the execution is executing.
RunAgrees(w) ==
    /\ worker[w].retry <= execution.retry
    /\ worker[w].bound => execution.bound
    /\ worker[w].claim <= operation.claim
    /\ worker[w].pc \in {"claim", "open"}
       /\ worker[w].retry = execution.retry /\ operation.claim = execution.retry =>
          execution.status = "executing"
    /\ worker[w].pc = "bind" => worker[w].claim # 0
    /\ worker[w].pc \notin {"idle", "start", "claim", "open", "bind"} =>
          worker[w].claim # 0 /\ execution.bound
    /\ worker[w].pc \in {"reconcile", "broadcast", "observe"} /\ Owns(w) =>
          operation.status \in {"signed", "confirmed", "reverted"}

IssuanceInv ==
    TypeOK /\ RowsAgree /\ ClaimsAgree /\ MintsAgree /\ \A w \in Workers : RunAgrees(w)
=============================================================================
