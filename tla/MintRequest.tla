----------------------------- MODULE MintRequest -----------------------------
(***************************************************************************)
(* Minting a stablecoin or a yield token against a staff request           *)
(* (backend/tokens/services/mint_service.py, the selector of the recovery  *)
(* sweep and the trigger of migration 0042).  A form that retries carries  *)
(* the attempt it was rendered for, and may be posted again much later.    *)
(***************************************************************************)
EXTENDS JournalClient

VARIABLE request    \* MintRequest rows, with the record of each transaction

vars == <<request, operation, worker>>

Request ==
    [status : {"legacy", "pending", "rejected", "executing", "executed", "failed"},
     admitted : BOOLEAN, bound : BOOLEAN,
     record : [Claims -> {"none", "submitted", "confirmed", "reverted"}]]

NewRequest ==
    [status |-> "pending", admitted |-> FALSE, bound |-> FALSE,
     record |-> [k \in Claims |-> "none"]]

\* A request from before migration 0042 has no dispatch identity, and no way on.
LegacyRequest == [NewRequest EXCEPT !.status = "legacy"]

Row(w) == request[worker[w].command]

Write(c, row) == request' = [request EXCEPT ![c] = row]

-----------------------------------------------------------------------------
(* Staff.                                                                  *)

\* reject
Reject(c) ==
    /\ request[c].status = "pending"
    /\ Write(c, [request[c] EXCEPT !.status = "rejected"])
    /\ UNCHANGED <<operation, worker>>

\* The attempts a form may name: the page puts the current one on it, once bound.
Named(c) == {0} \cup {k \in Claims : request[c].bound /\ k <= operation[c].claim}

\* execute with _admit.  Notes not yet on the row are saved with it; a call whose
\* notes the trigger refuses (Reopened) has rolled back and is no step.
Execute(w, c, named) ==
    /\ At(w, "idle")
    /\ request[c].status \notin {"legacy", "rejected"}
    /\ Write(c, IF request[c].admitted THEN request[c]
                ELSE [request[c] EXCEPT !.admitted = TRUE, !.status = "executing"])
    /\ Take(w, "read", c, named)
    /\ UNCHANGED operation

\* Mutant: a failed request is nobody's business, whatever its operation does.
Recoverable_Executing(c) == request[c].admitted /\ request[c].status = "executing"

\* MintRequestQuerySet.recoverable
Recoverable(c) ==
    /\ request[c].admitted
    /\ \/ request[c].status = "executing"
       \/ /\ request[c].status = "failed"
          /\ operation[c].status \in {"preparing", "signed", "confirmed"}

\* recover
Begin(w, c) ==
    /\ At(w, "idle")
    /\ Recoverable(c)
    /\ Take(w, "read", c, 0)
    /\ UNCHANGED <<request, operation>>

-----------------------------------------------------------------------------
(* _process.                                                               *)

Keeps(w) == Row(w).bound /\ (worker[w].retry = 0 \/ Own(w).status \notin Undone)

\* Mutant: a reverted attempt is reopened as it is.
Retains_Never(w) == FALSE

\* _claim reads the operation without a lock; a revert is projected first.
Retains(w) == Row(w).bound /\ Own(w).status = "reverted"

ReadClaim(w) ==
    /\ At(w, "read")
    /\ worker' = [worker EXCEPT
          ![w].claim = IF Row(w).bound THEN Own(w).claim ELSE 0,
          ![w].pc = IF Keeps(w) THEN "resume" ELSE IF Retains(w) THEN "retain" ELSE "open"]
    /\ UNCHANGED <<request, operation>>

\* What _project makes of the row.
Projected(w) ==
    LET k == worker[w].claim
        status == Own(w).status
    IN [Row(w) EXCEPT
          !.status = CASE status = "confirmed" -> "executed"
                       [] status \in Undone -> "failed"
                       [] OTHER -> "executing",
          !.record[k] = IF Own(w).tx[k] = "none" THEN @ ELSE Recorded(status)]

\* The revert of the previous attempt, unless another retry was first.
Retain(w) ==
    /\ At(w, "retain")
    /\ IF Owns(w)
       THEN Write(worker[w].command, Projected(w)) /\ Goto(w, "open")
       ELSE /\ worker' = [worker EXCEPT ![w].pc = "resume", ![w].claim = Own(w).claim]
            /\ UNCHANGED request
    /\ UNCHANGED operation

\* _claim, after open_operation.
Bind(w) ==
    /\ At(w, "bind")
    /\ Owns(w)
    /\ Write(worker[w].command,
             [Row(w) EXCEPT !.bound = TRUE,
                            !.status = IF @ = "failed" /\ Own(w).status \notin Undone
                                       THEN "executing" ELSE @])
    /\ Goto(w, "resume")
    /\ UNCHANGED operation

Resume(w) ==
    /\ At(w, "resume")
    /\ Goto(w, CASE Own(w).status = "preparing" -> "prepare"
                 [] Own(w).status = "signed" -> "look"
                 [] OTHER -> "settle")
    /\ UNCHANGED <<request, operation>>

\* sign_operation; an exception leaves the attempt as it is (Abandon).
SignMint(w) == Sign(w) /\ UNCHANGED request

\* The except clause around the preparation.
GiveUp(w) ==
    /\ At(w, "prepare")
    /\ FailPreparing(w)
    /\ Goto(w, "settle")
    /\ UNCHANGED request

\* _project, between the signature and the send, and at the end.
Project(w) ==
    /\ worker[w].pc \in {"look", "settle"}
    /\ Owns(w) /\ Row(w).bound
    /\ Write(worker[w].command, Projected(w))
    /\ IF At(w, "look") /\ Projected(w).status = "executing" THEN Goto(w, "reconcile")
       ELSE Finish(w)
    /\ UNCHANGED operation

\* External: the contract mints, or reverts.
Mine(c, k, outcome) == Mined(c, k, outcome) /\ UNCHANGED request

-----------------------------------------------------------------------------
Init ==
    /\ JournalInit
    /\ request \in [Commands -> {NewRequest, LegacyRequest}]

Recover(w) ==
    \/ ReadClaim(w) \/ Retain(w) \/ Bind(w) \/ Resume(w) \/ SignMint(w) \/ GiveUp(w) \/ Project(w)
    \/ Journal(w) /\ UNCHANGED request

Next ==
    \/ \E c \in Commands :
          \/ Reject(c)
          \/ \E w \in Workers : Begin(w, c) \/ \E named \in Named(c) : Execute(w, c, named)
    \/ \E w \in Workers : Recover(w)
    \/ \E c \in Commands, k \in Claims, outcome \in {"mined", "reverted"} : Mine(c, k, outcome)

Spec == Init /\ [][Next]_vars

-----------------------------------------------------------------------------
(* The trigger of migration 0042, as what it demands of a step that writes *)
(* a row, be it only its notes or the time it was looked at.               *)

RequestGuard(c) ==
    LET old == request[c]
        new == request'[c]
        journal == operation'[c]
    IN
    /\ old.admitted =>
          /\ new.status \in {"executing", "failed", "executed"}
          /\ old.status = "executed" => new.status = "executed"
    /\ old.bound => new.bound
    /\ IF new.bound
       THEN /\ new.admitted
            /\ new.status = "executed" =>
                  journal.status = "confirmed" /\ new.record[journal.claim] # "none"
            /\ new.status = "failed" => journal.status \in Undone
       ELSE new.status # "executed"

\* A failed attempt was opened again and is not bound yet.  The trigger refuses
\* every write that leaves the row failed: the notes of an execution (_admit) and
\* the time of a recovery that stopped (recover).
Reopened(c) ==
    /\ request[c].status = "failed" /\ request[c].bound
    /\ operation[c].status \notin Undone

\* Every row passes after every step, whether the step writes it or not, unless
\* it is one that has been opened again.
Guards == \A c \in Commands : RequestGuard(c) \/ (request'[c] = request[c] /\ Reopened(c)')

-----------------------------------------------------------------------------
TypeOK == JournalTypeOK /\ request \in [Commands -> Request]

\* A request counts as executed once its own mint is on chain and not before;
\* and the revert of an attempt is recorded before the next one is opened.
MintIsTrue ==
    \A c \in Commands :
        /\ request[c].status = "executed" => Executed(c)
        /\ \A k \in Claims :
              k < operation[c].claim /\ operation[c].tx[k] # "none" =>
                  operation[c].tx[k] = "reverted" /\ request[c].record[k] = "reverted"

\* No admitted mint is stranded: while its transaction may still execute, or its
\* operation is open or unrecorded, the sweep takes it.
FailedIsOver ==
    \A c \in Commands :
        /\ Live(c) /\ request[c].status # "executed" => Recoverable(c)
        /\ operation[c].status = "reverted" /\ request[c].record[operation[c].claim] # "reverted" =>
              Recoverable(c)
=============================================================================
