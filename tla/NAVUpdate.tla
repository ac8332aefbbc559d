------------------------------ MODULE NAVUpdate ------------------------------
(***************************************************************************)
(* The net asset value of one yield token: submissions that apply here     *)
(* only, submissions that go through the contract first, and their         *)
(* recovery (backend/tokens/services/nav.py, nav_recovery.py and the       *)
(* triggers of migration 0054).  A valuation is named by the submission    *)
(* that carries it.                                                        *)
(***************************************************************************)
EXTENDS JournalClient

VARIABLES
    update,     \* NAVUpdate rows
    token,      \* the submission whose value YieldToken.nav_per_token holds
    contract    \* external: the one whose value AUSG.updateNAV last set

rows == <<update, token>>
vars == <<rows, contract, operation, worker>>

UpdateStatus == {"none", "queued", "executing", "confirmed", "applied", "failed"}

Update ==
    [status : UpdateStatus, mode : {"local", "chain"}, bound : BOOLEAN, completed : BOOLEAN]

NoUpdate == [status |-> "none", mode |-> "local", bound |-> FALSE, completed |-> FALSE]

Unresolved == {c \in Commands : update[c].status # "none" /\ ~update[c].completed}

Row(w) == update[worker[w].command]

-----------------------------------------------------------------------------
(* Staff.                                                                  *)

\* Another submission for the token or its contract is not resolved yet.
Refused(mode) == Unresolved # {}

\* submit; a local update is applied in the transaction that admits it.
Submit(c, mode) ==
    LET status == IF Refused(mode) THEN "failed"
                  ELSE IF mode = "local" THEN "applied" ELSE "queued"
    IN
    /\ update[c].status = "none"
    /\ update' = [update EXCEPT ![c] =
          [status |-> status, mode |-> mode, bound |-> FALSE, completed |-> status # "queued"]]
    /\ token' = IF status = "applied" THEN c ELSE token
    /\ UNCHANGED <<contract, operation, worker>>

-----------------------------------------------------------------------------
(* recover.                                                                *)

Onward(status) ==
    CASE status = "queued" -> "decide"
      [] status = "executing" -> "open"
      [] OTHER -> "project"

Begin(w) ==
    /\ At(w, "idle")
    /\ \E c \in Unresolved : Take(w, Onward(update[c].status), c, 0)
    /\ UNCHANGED <<rows, contract, operation>>

\* decide; the actor, the signer or the deployment may no longer be the
\* admitted ones.
Decide(w) ==
    /\ At(w, "decide")
    /\ \/ /\ update' = IF Row(w).status = "queued"
                       THEN [update EXCEPT ![worker[w].command].status = "executing"]
                       ELSE update
          /\ Goto(w, Onward(update'[worker[w].command].status))
       \/ Goto(w, "refused") /\ UNCHANGED update
    /\ UNCHANGED <<token, contract, operation>>

Refusable(w) == Row(w).status = "queued" /\ Own(w).status = "none"

\* refuse_unsigned
RefuseUnsigned(w) ==
    /\ At(w, "refused")
    /\ update' = IF Refusable(w)
                 THEN [update EXCEPT ![worker[w].command].status = "failed",
                                     ![worker[w].command].completed = TRUE]
                 ELSE update
    /\ Finish(w)
    /\ UNCHANGED <<token, contract, operation>>

\* _claim, after open_operation.
Bind(w) ==
    /\ At(w, "bind")
    /\ Owns(w)
    /\ Row(w).bound \/ Row(w).status = "executing"
    /\ update' = [update EXCEPT ![worker[w].command].bound = TRUE]
    /\ Goto(w, "resume")
    /\ UNCHANGED <<token, contract, operation>>

Resume(w) ==
    /\ At(w, "resume")
    /\ Goto(w, CASE Own(w).status \in Undone -> "outcome"
                 [] Own(w).status = "preparing" -> "prepare"
                 [] OTHER -> "look")
    /\ UNCHANGED <<rows, contract, operation>>

\* sign_operation with _record_signed.
SignUpdate(w) ==
    /\ Sign(w)
    /\ Row(w).status = "executing" /\ Row(w).bound
    /\ UNCHANGED <<rows, contract>>

\* The except clause of _execute.
GiveUp(w) ==
    /\ At(w, "prepare")
    /\ FailPreparing(w)
    /\ IF Signs(w) THEN Goto(w, "outcome")
       ELSE IF Owns(w) /\ Own(w).status # "failed" THEN Goto(w, "look") ELSE Finish(w)
    /\ UNCHANGED <<rows, contract>>

\* _event: the values of a confirmed attempt's event, if its receipt is there.
Settle(w) ==
    /\ At(w, "settle")
    /\ \E event \in {FALSE, Own(w).status = "confirmed"} : GotoSeeing(w, "outcome", event)
    /\ UNCHANGED <<rows, contract, operation>>

\* What _record_outcome writes.
Outcome(w) ==
    IF Row(w).status = "executing" /\ (Own(w).status \in Undone \/ worker[w].seen)
    THEN IF worker[w].seen THEN "confirmed" ELSE "failed"
    ELSE Row(w).status

\* _record_outcome
RecordOutcome(w) ==
    /\ At(w, "outcome")
    /\ Owns(w) /\ Row(w).bound
    /\ update' = [update EXCEPT ![worker[w].command].status = Outcome(w)]
    /\ Goto(w, "project")
    /\ UNCHANGED <<token, contract, operation>>

\* Mutant: a run that comes late applies its outcome again.
Projects_Again(w) == Row(w).status \in {"confirmed", "failed"}

Projects(w) == Row(w).status \in {"confirmed", "failed"} /\ ~Row(w).completed

\* project and _apply
Project(w) ==
    /\ At(w, "project")
    /\ IF Projects(w)
       THEN /\ update' = [update EXCEPT ![worker[w].command].completed = TRUE]
            /\ token' = IF Row(w).status = "confirmed" THEN worker[w].command ELSE token
       ELSE UNCHANGED rows
    /\ Finish(w)
    /\ UNCHANGED <<contract, operation>>

\* External: AUSG.updateNAV
Mine(c, k, outcome) ==
    /\ Mined(c, k, outcome)
    /\ contract' = IF outcome = "mined" THEN c ELSE contract
    /\ UNCHANGED rows

-----------------------------------------------------------------------------
Init ==
    /\ JournalInit
    /\ update = [c \in Commands |-> NoUpdate]
    /\ token = None
    /\ contract = None

Recover(w) ==
    \/ Begin(w) \/ Decide(w) \/ RefuseUnsigned(w)
    \/ (Journal(w) \/ Look(w)) /\ UNCHANGED <<rows, contract>>
    \/ Bind(w) \/ Resume(w) \/ SignUpdate(w) \/ GiveUp(w) \/ Settle(w)
    \/ RecordOutcome(w) \/ Project(w)

Next ==
    \/ \E c \in Commands, mode \in {"local", "chain"} : Submit(c, mode)
    \/ \E w \in Workers : Recover(w)
    \/ \E c \in Commands, k \in Claims, outcome \in {"mined", "reverted"} : Mine(c, k, outcome)

Spec == Init /\ [][Next]_vars

-----------------------------------------------------------------------------
(* The triggers of migration 0054, as what they demand of a step.          *)

Transitions ==
    {<<"queued", "failed">>, <<"queued", "executing">>, <<"executing", "confirmed">>,
     <<"executing", "failed">>}

\* protect_nav_update; a local update is inserted queued and moves on in the
\* same transaction.
UpdateGuard(c) ==
    LET old == update[c]
        new == update'[c]
        journal == operation'[c].status
    IN
    /\ old.status = "none" =>
          /\ ~new.bound
          /\ \/ new.status = "queued" /\ ~new.completed
             \/ new.status = "failed" /\ new.completed
             \/ new.status = "applied" /\ new.mode = "local"
    /\ old.bound => new.bound
    /\ old.completed => new = old
    /\ old.status \in {"none", new.status} \/ <<old.status, new.status>> \in Transitions
    /\ new.mode = "local" => new.status \in {"queued", "applied", "failed"} /\ ~new.bound
    /\ IF new.bound
       THEN /\ new.status # "queued"
            /\ new.status = "confirmed" => journal = "confirmed"
            /\ new.status = "failed" => journal \in Undone
       ELSE /\ new.status # "confirmed"
            /\ new.status = "failed" =>
                  old.status \in {"none", "queued", "failed"} /\ journal = "none"
    /\ new.completed => new.status \in {"applied", "confirmed", "failed"}
    /\ new.completed /\ ~old.completed /\ new.status # "failed" => token' = c

\* protect_nav_operation
OperationGuard(c) ==
    /\ Inserted(c) =>
          update[c].mode = "chain" /\ update[c].status = "executing" /\ ~update[c].completed
    /\ ~Reclaimed(c)

\* protect_nav_target
TargetGuard ==
    token' # token => \A c \in Unresolved : update[c].status = "confirmed" /\ token' = c

Guards ==
    /\ \A c \in Commands : (update'[c].status # "none" => UpdateGuard(c)) /\ OperationGuard(c)
    /\ TargetGuard

-----------------------------------------------------------------------------
TypeOK ==
    /\ JournalTypeOK
    /\ update \in [Commands -> Update]
    /\ token \in Commands \cup {None}
    /\ contract \in Commands \cup {None}

\* Once nothing is unresolved the token is valued as the contract is, unless
\* the value that came last was meant for the database only: no late receipt
\* and no late projection brings an older valuation back.
ValuationIsTrue ==
    Unresolved = {} =>
        \/ token = contract
        \/ token # None /\ update[token].mode = "local"

\* A row that ended failed has no transaction that could still set a value.
FailedIsOver == \A c \in Commands : update[c].status = "failed" => ~Live(c)
=============================================================================
