--------------------------- MODULE WhitelistChange ---------------------------
(***************************************************************************)
(* Adding one address to the whitelist registry and removing it again:     *)
(* submissions, their recovery, the directory entry that shows the         *)
(* membership, and the sync that copies it from the registry               *)
(* (backend/whitelist/services/changes.py, whitelist.py and the trigger of *)
(* migration 0006).                                                        *)
(***************************************************************************)
EXTENDS JournalClient

VARIABLES
    change,     \* WhitelistChange rows
    entry,      \* WhitelistEntry; the syncs whose version of it is current
    contract    \* external: WhitelistRegistry.isWhitelisted

rows == <<change, entry>>
vars == <<rows, contract, operation, worker>>

Terminal == {"confirmed", "unchanged", "failed"}

Change ==
    [status : {"none", "pending", "executing"} \cup Terminal, add : BOOLEAN, bound : BOOLEAN,
     recorded : BOOLEAN]

NoChange == [status |-> "none", add |-> FALSE, bound |-> FALSE, recorded |-> FALSE]

Unresolved == {c \in Commands : change[c].status \in {"pending", "executing"}}

Row(w) == change[worker[w].command]

Write(c, row) == change' = [change EXCEPT ![c] = row]

EntryStatus(member) == IF member THEN "active" ELSE "removed"

\* Every write of the entry moves updated_at, its version.
WriteEntry(status, member) ==
    entry' = [status |-> status, member |-> member, current |-> {}]

-----------------------------------------------------------------------------
(* _admit                                                                  *)

Admit(c, add) ==
    /\ change[c].status = "none"
    /\ Unresolved = {}
    /\ Write(c, [NoChange EXCEPT !.status = "pending", !.add = add])
    /\ WriteEntry("pending", entry.member)
    /\ UNCHANGED <<contract, operation, worker>>

-----------------------------------------------------------------------------
(* _process, of the submission itself and of the sweep.                    *)

Begin(w, c) ==
    /\ At(w, "idle")
    /\ c \in Unresolved
    /\ Take(w, IF change[c].status = "pending" THEN "read" ELSE "open", c, 0)
    /\ UNCHANGED <<rows, contract, operation>>

\* _observe_membership
ReadMembership(w) ==
    /\ At(w, "read")
    /\ GotoSeeing(w, "decide", contract)
    /\ UNCHANGED <<rows, contract, operation>>

Undecided(w) == Row(w).status = "pending"

\* _record_membership_decision, where there is nothing to change.
RecordUnchanged(w) ==
    /\ At(w, "decide")
    /\ Undecided(w) /\ worker[w].seen = Row(w).add
    /\ Write(worker[w].command, [Row(w) EXCEPT !.status = "unchanged"])
    /\ WriteEntry(EntryStatus(Row(w).add), Row(w).add)
    /\ Finish(w)
    /\ UNCHANGED <<contract, operation>>

\* Where there is, or where another run was first.
RecordDecision(w) ==
    /\ At(w, "decide")
    /\ ~(Undecided(w) /\ worker[w].seen = Row(w).add)
    /\ Write(worker[w].command,
             IF Undecided(w) THEN [Row(w) EXCEPT !.status = "executing"] ELSE Row(w))
    /\ IF Row(w).status \in Terminal THEN Finish(w) ELSE GotoSeeing(w, "open", FALSE)
    /\ UNCHANGED <<entry, contract, operation>>

\* _claim, after open_operation.
Bind(w) ==
    /\ At(w, "bind")
    /\ \/ Row(w).status = "executing"
       \/ Row(w).status \in Terminal /\ Row(w).bound
    /\ Write(worker[w].command, [Row(w) EXCEPT !.bound = TRUE])
    /\ Goto(w, "resume")
    /\ UNCHANGED <<entry, contract, operation>>

Resume(w) ==
    /\ At(w, "resume")
    /\ Goto(w, CASE Own(w).status = "preparing" -> "prepare"
                 [] Own(w).status = "signed" -> "look"
                 [] OTHER -> "settle")
    /\ UNCHANGED <<rows, contract, operation>>

\* sign_operation; an exception leaves the attempt as it is (Abandon).
SignChange(w) == Sign(w) /\ UNCHANGED <<rows, contract>>

\* The except clause around the preparation.
GiveUp(w) ==
    /\ At(w, "prepare")
    /\ FailPreparing(w)
    /\ Goto(w, "settle")
    /\ UNCHANGED <<rows, contract>>

\* Mutant: the row takes the status of its operation as it is.
Verdict_Raw(w) == IF Own(w).status \in {"preparing", "signed"} THEN "executing" ELSE Own(w).status

Verdict(w) ==
    CASE Own(w).status = "confirmed" -> "confirmed"
      [] Own(w).status \in Undone -> "failed"
      [] OTHER -> "executing"

\* _project, between the signature and the send, and at the end.
Project(w) ==
    LET c == worker[w].command
        verdict == Verdict(w)
    IN
    /\ worker[w].pc \in {"look", "settle"}
    /\ IF Row(w).status \in Terminal THEN UNCHANGED rows /\ Finish(w)
       ELSE /\ Owns(w) /\ Row(w).bound
            /\ Write(c, [Row(w) EXCEPT !.status = verdict,
                                       !.recorded = @ \/ Own(w).tx[worker[w].claim] # "none"])
            /\ CASE verdict = "confirmed" -> WriteEntry(EntryStatus(Row(w).add), Row(w).add)
                 [] verdict = "failed" -> WriteEntry("failed", entry.member)
                 [] OTHER -> UNCHANGED entry
            /\ IF At(w, "look") /\ verdict = "executing" THEN Goto(w, "reconcile") ELSE Finish(w)
    /\ UNCHANGED <<contract, operation>>

-----------------------------------------------------------------------------
(* sync_entry                                                              *)

\* The entry's version, then the registry.
SyncBegin(w) ==
    /\ At(w, "idle")
    /\ worker' = [worker EXCEPT ![w] = [Idle EXCEPT !.pc = "sync"]]
    /\ entry' = [entry EXCEPT !.current = @ \cup {w}]
    /\ UNCHANGED <<change, contract, operation>>

SyncRead(w) ==
    /\ At(w, "sync")
    /\ GotoSeeing(w, "write", contract)
    /\ UNCHANGED <<rows, contract, operation>>

\* Mutant: what was read is written whatever happened to the entry since.
Current_Assumed(w) == TRUE

Current(w) == w \in entry.current

SyncWrite(w) ==
    /\ At(w, "write")
    /\ IF Current(w)
       THEN WriteEntry(IF Unresolved = {} THEN EntryStatus(worker[w].seen) ELSE entry.status,
                       worker[w].seen)
       ELSE UNCHANGED entry
    /\ Finish(w)
    /\ UNCHANGED <<change, contract, operation>>

-----------------------------------------------------------------------------
\* External: WhitelistRegistry reverts where there is nothing to change.
Mine(c, k, outcome) ==
    /\ Mined(c, k, outcome)
    /\ IF outcome = "mined"
       THEN contract # change[c].add /\ contract' = change[c].add
       ELSE UNCHANGED contract
    /\ UNCHANGED rows

Init ==
    /\ JournalInit
    /\ change = [c \in Commands |-> NoChange]
    /\ contract \in BOOLEAN
    /\ entry = [status |-> EntryStatus(contract), member |-> contract, current |-> {}]

Recover(w) ==
    \/ ReadMembership(w) \/ RecordUnchanged(w) \/ RecordDecision(w) \/ Bind(w) \/ Resume(w)
    \/ SignChange(w) \/ GiveUp(w) \/ Project(w)
    \/ Journal(w) /\ UNCHANGED <<rows, contract>>

Sync(w) == SyncBegin(w) \/ SyncRead(w) \/ SyncWrite(w)

Next ==
    \/ \E c \in Commands :
          (\E add \in BOOLEAN : Admit(c, add)) \/ (\E w \in Workers : Begin(w, c))
    \/ \E w \in Workers : Recover(w) \/ Sync(w)
    \/ \E c \in Commands, k \in Claims, outcome \in {"mined", "reverted"} : Mine(c, k, outcome)

Spec == Init /\ [][Next]_vars

-----------------------------------------------------------------------------
(* The trigger of migration 0006, as what it demands of a step; a sweep    *)
(* touches the rows it could not resolve.                                  *)

Transitions ==
    {<<"none", "pending">>, <<"pending", "executing">>, <<"pending", "unchanged">>,
     <<"executing", "confirmed">>, <<"executing", "failed">>}

ChangeGuard(c) ==
    LET old == change[c]
        new == change'[c]
        journal == operation'[c].status
    IN
    /\ old.status = new.status \/ <<old.status, new.status>> \in Transitions
    /\ old.status \in Terminal => new = old
    /\ old.bound => new.bound
    /\ old.recorded => new.recorded
    /\ IF new.bound
       THEN /\ new.status \notin {"pending", "unchanged"}
            /\ new.status = "confirmed" => journal = "confirmed" /\ new.recorded
            /\ new.status = "failed" => journal \in Undone
       ELSE new.status \notin {"confirmed", "failed"} /\ ~new.recorded

\* one_unresolved_whitelist_change
Guards ==
    /\ \A c \in Commands : change'[c].status # "none" => ChangeGuard(c) /\ ~Reclaimed(c)
    /\ \A c, d \in Unresolved' : c = d

-----------------------------------------------------------------------------
TypeOK ==
    /\ JournalTypeOK
    /\ change \in [Commands -> Change]
    /\ entry \in [status : {"pending", "active", "removed", "failed"}, member : BOOLEAN,
                  current : SUBSET Workers]
    /\ contract \in BOOLEAN

\* Whenever no change is unresolved, an entry shown as active or removed, and
\* the membership it holds, are the registry's: no observation and no sync that
\* came late has overwritten what a change did.
MembershipIsTrue ==
    Unresolved = {} =>
        /\ entry.member = contract
        /\ entry.status \in {EntryStatus(contract), "failed"}

\* A change that ended without effect has no transaction that could still move
\* the membership behind a later one.
FailedIsOver == \A c \in Commands : change[c].status \in {"unchanged", "failed"} => ~Live(c)
=============================================================================
