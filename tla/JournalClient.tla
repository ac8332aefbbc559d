---------------------------- MODULE JournalClient ----------------------------
(***************************************************************************)
(* What the chain commands of the tokens and whitelist apps share: each    *)
(* command row has one operation in the outgoing journal, under a key made *)
(* of the row's own identity, and any number of jobs, sweeps and requests  *)
(* drive it through backend/blockchain/services/outgoing.py at once.       *)
(*                                                                         *)
(* OutgoingJournal models the journal in full.  Here an operation is the   *)
(* part of it a client sees: a status, the claim that fences its writers   *)
(* and what became of the transaction each claim signed.  The rows, the    *)
(* target they change and the contract behind it belong to the modules     *)
(* that extend this one.                                                   *)
(***************************************************************************)
EXTENDS Naturals

CONSTANTS
    Commands,   \* command rows
    Workers,    \* concurrent runs of a job, a sweep or a request
    MaxClaims,  \* model bound: attempts per operation
    None        \* no command

ASSUME ClientAssumption == MaxClaims \in Nat \ {0} /\ None \notin Commands

VARIABLES
    operation,  \* OutgoingOperation of each command, with its transactions
    worker      \* what each run carries between its transactions

\* Claims (uuid4) are numbers in the order they are drawn; 0 is UUID(int=0).
Claims == 1..MaxClaims

TxState == {"none", "signed", "sent", "mined", "reverted"}

Operation ==
    [status : {"none", "preparing", "signed", "confirmed", "reverted", "failed"},
     claim : 0..MaxClaims,
     tx : [Claims -> TxState]]

NoOperation == [status |-> "none", claim |-> 0, tx |-> [k \in Claims |-> "none"]]

Undone == {"failed", "reverted"}

Steps == {"idle", "read", "decide", "retain", "open", "bind", "resume", "prepare", "refused",
          "look", "reconcile", "broadcast", "observe", "settle", "outcome", "project", "finish",
          "sync", "write"}

\* seen is what the run last read of the chain, where it acts on it later;
\* retry the failed claim it may reopen.
Run == [pc : Steps, command : Commands \cup {None}, claim : 0..MaxClaims, seen : BOOLEAN,
        retry : 0..MaxClaims]

Idle == [pc |-> "idle", command |-> None, claim |-> 0, seen |-> FALSE, retry |-> 0]

At(w, pc) == worker[w].pc = pc

Take(w, pc, c, retry) ==
    worker' = [worker EXCEPT ![w] = [Idle EXCEPT !.pc = pc, !.command = c, !.retry = retry]]

Goto(w, pc) == worker' = [worker EXCEPT ![w].pc = pc]

GotoSeeing(w, pc, seen) == worker' = [worker EXCEPT ![w].pc = pc, ![w].seen = seen]

Finish(w) == worker' = [worker EXCEPT ![w] = Idle]

Own(w) == operation[worker[w].command]

\* The comparison of claim identifiers in every function of the journal.
Owns(w) == Own(w).claim = worker[w].claim

\* Mutant: a failed operation is opened again for whoever comes.
Reopens_Always(o, named) == o.status \in Undone

\* open_operation restarts only the attempt its caller names.
Reopens(o, named) == o.status \in Undone /\ o.claim = named

Open(w) ==
    LET c == worker[w].command
        o == operation[c]
    IN
    /\ At(w, "open")
    /\ \/ /\ o.status = "none" \/ Reopens(o, worker[w].retry)
          /\ o.claim < MaxClaims
          /\ operation' = [operation EXCEPT ![c].status = "preparing", ![c].claim = @ + 1]
       \/ /\ o.status # "none" /\ ~Reopens(o, worker[w].retry)
          /\ UNCHANGED operation
    /\ worker' = [worker EXCEPT ![w].pc = "bind", ![w].claim = operation'[c].claim]

\* Mutant: the status is not looked at under the lock.
Signs_Owned(w) == Owns(w)

\* What sign_operation finds when it signs, and fail_preparing when it stops.
Signs(w) == Owns(w) /\ Own(w).status = "preparing"

\* sign_operation, without the on_signed callback that commits with it.
Sign(w) ==
    LET c == worker[w].command IN
    /\ At(w, "prepare")
    /\ Signs(w)
    /\ operation' = [operation EXCEPT ![c].status = "signed",
                                      ![c].tx[worker[w].claim] = "signed"]
    /\ Goto(w, "look")

\* Anything on the way to a signature raises; fail_preparing is a no-op once
\* another run has signed, stopped or restarted the attempt.
FailPreparing(w) ==
    operation' = IF Signs(w) THEN [operation EXCEPT ![worker[w].command].status = "failed"]
                 ELSE operation

\* refresh_from_db, after which a run goes on with its own attempt only.
Look(w) ==
    /\ At(w, "look")
    /\ IF ~Owns(w) THEN Finish(w)
       ELSE Goto(w, IF Own(w).status = "signed" THEN "reconcile" ELSE "settle")
    /\ UNCHANGED operation

\* reconcile_operation finds the receipt of the run's attempt: record_receipt.
Receive(w) ==
    LET c == worker[w].command
        fate == Own(w).tx[worker[w].claim]
    IN
    /\ worker[w].pc \in {"reconcile", "observe"}
    /\ Owns(w)
    /\ Own(w).status = "signed"
    /\ fate \in {"mined", "reverted"}
    /\ operation' = [operation EXCEPT ![c].status =
          IF fate = "mined" THEN "confirmed" ELSE "reverted"]
    /\ Goto(w, "settle")

\* It finds none, or another run was first.
ReceiveNothing(w) ==
    /\ worker[w].pc \in {"reconcile", "observe"}
    /\ Owns(w)
    /\ Goto(w, IF At(w, "reconcile") /\ Own(w).status = "signed" THEN "broadcast" ELSE "settle")
    /\ UNCHANGED operation

\* broadcast_operation; the send itself may be lost.
Broadcast(w) ==
    LET c == worker[w].command
        k == worker[w].claim
    IN
    /\ At(w, "broadcast")
    /\ Owns(w)
    /\ Own(w).status \in {"signed", "confirmed"}
    /\ \/ Own(w).tx[k] = "signed" /\ operation' = [operation EXCEPT ![c].tx[k] = "sent"]
       \/ UNCHANGED operation
    /\ Goto(w, "observe")

\* A crash, a conflict raised, or an unreachable provider.
Abandon(w) == ~At(w, "idle") /\ Finish(w) /\ UNCHANGED operation

\* The steps that touch no command row.
Journal(w) == Open(w) \/ Receive(w) \/ ReceiveNothing(w) \/ Broadcast(w) \/ Abandon(w)

\* External: the chain executes the transaction of claim k, or reverts it.
Mined(c, k, outcome) ==
    /\ operation[c].tx[k] = "sent"
    /\ operation' = [operation EXCEPT ![c].tx[k] = outcome]
    /\ UNCHANGED worker

JournalInit ==
    /\ operation = [c \in Commands |-> NoOperation]
    /\ worker = [w \in Workers |-> Idle]

JournalTypeOK ==
    /\ operation \in [Commands -> Operation]
    /\ worker \in [Workers -> Run]

-----------------------------------------------------------------------------
(* What a step does to the operation of one command.                       *)

\* A transaction that may still execute, or has.
Live(c) == \E k \in Claims : operation[c].tx[k] \in {"signed", "sent", "mined"}

Executed(c) == \E k \in Claims : operation[c].tx[k] = "mined"

Reclaimed(c) == operation'[c].claim # operation[c].claim /\ operation[c].status # "none"

Inserted(c) == operation[c].status = "none" /\ operation'[c].status # "none"

\* What a record of the chain's transactions says once it follows its operation.
Recorded(status) ==
    CASE status = "signed" -> "submitted" [] OTHER -> status

\* No two transactions of one command can both execute, or have: a retry opens
\* a new attempt only over one that never can.
LiveOnce ==
    \A c \in Commands : \A j, k \in Claims :
        {operation[c].tx[j], operation[c].tx[k]} \subseteq {"signed", "sent", "mined"} => j = k
=============================================================================
