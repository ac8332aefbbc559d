----------------------------- MODULE PauseChange -----------------------------
(***************************************************************************)
(* Pausing and unpausing one share token: the submissions of its issuer,   *)
(* the jobs and sweeps that recover them, and the token row that shows the *)
(* outcome (backend/tokens/services/pause_changes.py, pause_recovery.py    *)
(* and the triggers of migration 0052).                                    *)
(***************************************************************************)
EXTENDS JournalClient

VARIABLES
    change,     \* PauseChange rows
    token,      \* ShareToken.status, and whether the issuer still owns its company
    contract    \* external: ShareToken.paused()

rows == <<change, token>>
vars == <<rows, contract, operation, worker>>

ChangeStatus == {"none", "pending", "executing", "observed", "confirmed", "failed"}

Change == [status : ChangeStatus, paused : BOOLEAN, bound : BOOLEAN, completed : BOOLEAN]

NoChange == [status |-> "none", paused |-> FALSE, bound |-> FALSE, completed |-> FALSE]

Unresolved == {c \in Commands : change[c].status # "none" /\ ~change[c].completed}

\* TERMINAL
Terminal == {"observed", "confirmed", "failed"}

TokenStatus(paused) == IF paused THEN "paused" ELSE "deployed"

-----------------------------------------------------------------------------
(* The issuer.                                                             *)

\* Mutant: the earlier submission is not looked for.
Refused_Never(c) == FALSE

\* Another submission for the contract is not resolved yet.
Refused(c) == Unresolved # {}

\* submit; a submission that exists is returned as it is.
Submit(c, paused) ==
    /\ change[c].status = "none"
    /\ token.owned
    /\ change' = [change EXCEPT ![c] =
          [status |-> IF Refused(c) THEN "failed" ELSE "pending", paused |-> paused,
           bound |-> FALSE, completed |-> Refused(c)]]
    /\ UNCHANGED <<token, contract, operation, worker>>

\* External: the company changes hands, or comes back.
ChangeOwner ==
    /\ token' = [token EXCEPT !.owned = ~@]
    /\ UNCHANGED <<change, contract, operation, worker>>

-----------------------------------------------------------------------------
(* recover.                                                                *)

\* Where a run goes with the row it holds.
Onward(status) ==
    CASE status = "pending" -> "read"
      [] status = "executing" -> "open"
      [] OTHER -> "project"

Begin(w) ==
    /\ At(w, "idle")
    /\ \E c \in Unresolved : Take(w, Onward(change[c].status), c, 0)
    /\ UNCHANGED <<rows, contract, operation>>

Row(w) == change[worker[w].command]

\* _decide: the contract is read outside the row's lock, unless _configuration
\* refuses the signer, the provider or the issuer first.
ReadContract(w) ==
    /\ At(w, "read")
    /\ GotoSeeing(w, "decide", contract) \/ Goto(w, "refused")
    /\ UNCHANGED <<rows, contract, operation>>

\* Mutant: the decision does not look at the row again.
Undecided_Held(w) == TRUE

Undecided(w) == Row(w).status = "pending"

\* record_decision
RecordDecision(w) ==
    LET status == IF worker[w].seen = Row(w).paused THEN "observed" ELSE "executing" IN
    /\ At(w, "decide")
    /\ IF ~Undecided(w) THEN GotoSeeing(w, Onward(Row(w).status), FALSE) /\ UNCHANGED change
       ELSE IF ~token.owned \/ Own(w).status # "none"
            THEN GotoSeeing(w, "refused", FALSE) /\ UNCHANGED change
            ELSE /\ change' = [change EXCEPT ![worker[w].command].status = status]
                 /\ GotoSeeing(w, Onward(status), FALSE)
    /\ UNCHANGED <<token, contract, operation>>

\* refuse_unsigned
RefuseUnsigned(w) ==
    /\ At(w, "refused")
    /\ \/ /\ Row(w).status = "pending" /\ Own(w).status = "none"
          /\ change' = [change EXCEPT ![worker[w].command].status = "failed"]
          /\ Goto(w, "project")
       \/ /\ Row(w).status # "pending"
          /\ Goto(w, IF Row(w).status = "executing" THEN "open" ELSE "project")
          /\ UNCHANGED change
    /\ UNCHANGED <<token, contract, operation>>

\* _claim, after open_operation.
Bind(w) ==
    /\ At(w, "bind")
    /\ Owns(w)
    /\ Row(w).bound \/ Row(w).status = "executing"
    /\ change' = [change EXCEPT ![worker[w].command].bound = TRUE]
    /\ Goto(w, "resume")
    /\ UNCHANGED <<token, contract, operation>>

Resume(w) ==
    /\ At(w, "resume")
    /\ Goto(w, CASE Own(w).status \in Undone -> "outcome"
                 [] Own(w).status = "preparing" -> "prepare"
                 [] OTHER -> "look")
    /\ UNCHANGED <<rows, contract, operation>>

\* sign_operation with _record_signed: the issuer still owns the token.
SignPause(w) ==
    /\ Sign(w)
    /\ Row(w).status = "executing" /\ Row(w).bound
    /\ token.owned
    /\ UNCHANGED <<rows, contract>>

\* The except clause of _execute.
GiveUp(w) ==
    /\ At(w, "prepare")
    /\ FailPreparing(w)
    /\ IF Signs(w) THEN Goto(w, "outcome")
       ELSE IF Owns(w) /\ Own(w).status # "failed" THEN Goto(w, "look") ELSE Finish(w)
    /\ UNCHANGED <<rows, contract>>

\* The receipt of a confirmed attempt is read once more and verified.
Settle(w) ==
    /\ At(w, "settle")
    /\ \E verified \in {FALSE, Own(w).status = "confirmed"} : GotoSeeing(w, "outcome", verified)
    /\ UNCHANGED <<rows, contract, operation>>

\* What _record_outcome writes.
Outcome(w) ==
    IF Row(w).status = "executing" /\ (Own(w).status \in Undone \/ worker[w].seen)
    THEN IF worker[w].seen THEN "confirmed" ELSE "failed"
    ELSE Row(w).status

\* _record_outcome
RecordOutcome(w) ==
    /\ At(w, "outcome")
    /\ Owns(w) /\ Row(w).bound
    /\ change' = [change EXCEPT ![worker[w].command].status = Outcome(w)]
    /\ Goto(w, "project")
    /\ UNCHANGED <<token, contract, operation>>

\* The token can receive an outcome that is not a failure.
Receives(w) == Row(w).status = "failed" \/ token.owned

\* project
Project(w) ==
    /\ At(w, "project")
    /\ IF Row(w).completed \/ Row(w).status \notin Terminal
       THEN UNCHANGED rows
       ELSE /\ Receives(w)
            /\ change' = [change EXCEPT ![worker[w].command].completed = TRUE]
            /\ IF Row(w).status # "failed" /\ token.owned
               THEN token' = [token EXCEPT !.status = TokenStatus(Row(w).paused)]
               ELSE UNCHANGED token
    /\ Finish(w)
    /\ UNCHANGED <<contract, operation>>

\* External: ShareToken.pause and unpause revert when there is nothing to do.
Mine(c, k, outcome) ==
    /\ Mined(c, k, outcome)
    /\ IF outcome = "mined"
       THEN contract # change[c].paused /\ contract' = change[c].paused
       ELSE UNCHANGED contract
    /\ UNCHANGED rows

-----------------------------------------------------------------------------
Init ==
    /\ JournalInit
    /\ change = [c \in Commands |-> NoChange]
    /\ contract \in BOOLEAN
    /\ token = [status |-> TokenStatus(contract), owned |-> TRUE]

Recover(w) ==
    \/ Begin(w) \/ ReadContract(w) \/ RecordDecision(w) \/ RefuseUnsigned(w)
    \/ (Journal(w) \/ Look(w)) /\ UNCHANGED <<rows, contract>>
    \/ Bind(w) \/ Resume(w) \/ SignPause(w) \/ GiveUp(w) \/ Settle(w)
    \/ RecordOutcome(w) \/ Project(w)

Next ==
    \/ \E c \in Commands, paused \in BOOLEAN : Submit(c, paused)
    \/ ChangeOwner
    \/ \E w \in Workers : Recover(w)
    \/ \E c \in Commands, k \in Claims, outcome \in {"mined", "reverted"} : Mine(c, k, outcome)

Spec == Init /\ [][Next]_vars

-----------------------------------------------------------------------------
(* The triggers of migration 0052, as what they demand of a step.  A sweep *)
(* touches the rows it could not resolve, so a row that stays as it is has *)
(* to pass them too.                                                       *)

Transitions ==
    {<<"pending", "executing">>, <<"pending", "observed">>, <<"pending", "failed">>,
     <<"executing", "confirmed">>, <<"executing", "failed">>}

\* protect_pause_change
ChangeGuard(c) ==
    LET old == change[c]
        new == change'[c]
        journal == operation'[c].status
    IN
    /\ old.status = "none" =>
          ~new.bound /\ (IF new.completed THEN new.status = "failed" ELSE new.status = "pending")
    /\ old.bound => new.bound
    /\ old.completed => new = old
    /\ old.status \in {"none", new.status} \/ <<old.status, new.status>> \in Transitions
    /\ IF new.bound
       THEN /\ new.status \notin {"pending", "observed"}
            /\ new.status = "confirmed" => journal = "confirmed"
            /\ new.status = "failed" => journal \in Undone
       ELSE /\ new.status # "confirmed"
            /\ new.status = "failed" =>
                  old.status \in {"none", "pending", "failed"} /\ journal = "none"
            /\ new.status = "observed" => journal = "none"
    /\ new.completed => new.status \in Terminal

\* protect_pause_operation
OperationGuard(c) ==
    /\ Inserted(c) => change[c].status = "executing" /\ ~change[c].completed
    /\ ~Reclaimed(c)

Guards ==
    \A c \in Commands : (change'[c].status # "none" => ChangeGuard(c)) /\ OperationGuard(c)

-----------------------------------------------------------------------------
TypeOK ==
    /\ JournalTypeOK
    /\ change \in [Commands -> Change]
    /\ token \in [status : {"deployed", "paused"}, owned : BOOLEAN]
    /\ contract \in BOOLEAN

\* Whenever no submission is unresolved the token row shows what the contract
\* does, whoever raced whom and whichever transaction was mined late.
PausedIsTrue == Unresolved = {} => token.status = TokenStatus(contract)

\* A row that ended without effect has no transaction that could still pause
\* or unpause the contract behind a later submission.
FailedIsOver ==
    \A c \in Commands : change[c].status \in {"failed", "observed"} => ~Live(c)
=============================================================================
