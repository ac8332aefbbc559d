---------------------------- MODULE SwapApproval -----------------------------
(***************************************************************************)
(* Approving a deployed share token on the swap contract: the decision,    *)
(* the journalled call and the retries staff confirm                       *)
(* (backend/tokens/services/swap_approval.py and the trigger of migration  *)
(* 0050).  It begins where TokenDeployment marks a row projected.          *)
(***************************************************************************)
EXTENDS JournalClient

VARIABLES
    approval,   \* the approval columns of TokenDeployment rows
    contract    \* external: AtomicSwap.approvedShareTokens

vars == <<approval, contract, operation, worker>>

Active == {"pending", "executing"}

Approval ==
    [outcome : Active \cup {"not_configured", "observed", "confirmed", "failed"},
     bound : BOOLEAN, retry : 0..MaxClaims, transaction : 0..MaxClaims,
     record : [Claims -> {"none", "submitted", "confirmed", "reverted"}]]

NewApproval(outcome) ==
    [outcome |-> outcome, bound |-> FALSE, retry |-> 0, transaction |-> 0,
     record |-> [k \in Claims |-> "none"]]

Row(w) == approval[worker[w].command]

Write(c, row) == approval' = [approval EXCEPT ![c] = row]

-----------------------------------------------------------------------------
(* Staff.                                                                  *)

\* retry finds its confirmation is about the attempt that failed last.
Retriable(c) ==
    /\ approval[c].outcome = "failed"
    /\ approval[c].retry # operation[c].claim
    /\ operation[c].status \in Undone
    /\ operation[c].status = "reverted" => approval[c].record[operation[c].claim] = "reverted"

\* retry
Retry(c) ==
    /\ Retriable(c)
    /\ Write(c, [approval[c] EXCEPT !.outcome = "executing", !.retry = operation[c].claim])
    /\ UNCHANGED <<contract, operation, worker>>

-----------------------------------------------------------------------------
(* recover.                                                                *)

\* restart_of is the retry the run read with its row.
Begin(w, c) ==
    /\ At(w, "idle")
    /\ approval[c].outcome \in Active
    /\ Take(w, IF approval[c].outcome = "pending" THEN "read" ELSE "open", c, approval[c].retry)
    /\ UNCHANGED <<approval, contract, operation>>

\* _decide observes the contract without a lock.
ReadContract(w) ==
    /\ At(w, "read")
    /\ GotoSeeing(w, "decide", contract)
    /\ UNCHANGED <<approval, contract, operation>>

\* _decide
Decide(w) ==
    LET c == worker[w].command IN
    /\ At(w, "decide")
    /\ Row(w).outcome = "pending" => Own(w).status = "none"
    /\ Write(c, IF Row(w).outcome # "pending" THEN Row(w)
                ELSE [Row(w) EXCEPT !.outcome = IF worker[w].seen THEN "observed" ELSE "executing"])
    /\ worker' = [worker EXCEPT ![w] =
          IF approval'[c].outcome = "executing"
          THEN [Idle EXCEPT !.pc = "open", !.command = c, !.retry = Row(w).retry] ELSE Idle]
    /\ UNCHANGED <<contract, operation>>

\* _claim, after open_operation.
Bind(w) ==
    /\ At(w, "bind")
    /\ Owns(w)
    /\ Row(w).bound \/ Row(w).outcome = "executing"
    /\ Write(worker[w].command, [Row(w) EXCEPT !.bound = TRUE])
    /\ Goto(w, "resume")
    /\ UNCHANGED <<contract, operation>>

Resume(w) ==
    /\ At(w, "resume")
    /\ Goto(w, CASE Own(w).status \in Undone -> "outcome"
                 [] Own(w).status = "preparing" -> "prepare"
                 [] OTHER -> "look")
    /\ UNCHANGED <<approval, contract, operation>>

\* sign_operation with _record_signed.
SignApproval(w) ==
    LET k == worker[w].claim IN
    /\ Sign(w)
    /\ Row(w).outcome = "executing" /\ Row(w).bound
    /\ Write(worker[w].command, [Row(w) EXCEPT !.transaction = k, !.record[k] = "submitted"])
    /\ UNCHANGED contract

\* The except clause around the preparation.
GiveUp(w) ==
    /\ At(w, "prepare")
    /\ FailPreparing(w)
    /\ IF Signs(w) THEN Goto(w, "outcome")
       ELSE IF Owns(w) /\ Own(w).status # "failed" THEN Goto(w, "look") ELSE Finish(w)
    /\ UNCHANGED <<approval, contract>>

\* _verify_event
Settle(w) ==
    /\ At(w, "settle")
    /\ \E verified \in {FALSE, Own(w).status = "confirmed"} : GotoSeeing(w, "outcome", verified)
    /\ UNCHANGED <<approval, contract, operation>>

\* Mutant: the failure a retry was admitted for is recorded once more.
Records_Again(w) == Row(w).outcome = "executing"

\* _record_outcome goes on: no retry of this very attempt was admitted.
Records(w) == Row(w).outcome = "executing" /\ Row(w).retry # worker[w].claim

\* _record_outcome
RecordOutcome(w) ==
    LET k == worker[w].claim
        verified == worker[w].seen
        ended == Own(w).status \in Undone \/ verified
    IN
    /\ At(w, "outcome")
    /\ Owns(w) /\ Row(w).bound
    /\ Write(worker[w].command,
             IF ~Records(w) \/ ~ended THEN Row(w)
             ELSE [Row(w) EXCEPT
                      !.outcome = IF verified THEN "confirmed" ELSE "failed",
                      !.record[k] = IF Own(w).status = "failed" THEN @ ELSE Own(w).status])
    /\ Finish(w)
    /\ UNCHANGED <<contract, operation>>

-----------------------------------------------------------------------------
(* External: AtomicSwap.setShareTokenApproval, by an attempt or by hand.   *)

Mine(c, k, outcome) ==
    /\ Mined(c, k, outcome)
    /\ contract' = (contract \/ outcome = "mined")
    /\ UNCHANGED approval

ApproveElsewhere ==
    /\ ~contract
    /\ contract' = TRUE
    /\ UNCHANGED <<approval, operation, worker>>

-----------------------------------------------------------------------------
Init ==
    /\ JournalInit
    /\ approval \in [Commands -> {NewApproval("pending"), NewApproval("not_configured")}]
    /\ contract = FALSE

Recover(w) ==
    \/ ReadContract(w) \/ Decide(w) \/ Bind(w) \/ Resume(w) \/ SignApproval(w) \/ GiveUp(w)
    \/ Settle(w) \/ RecordOutcome(w)
    \/ (Journal(w) \/ Look(w)) /\ UNCHANGED <<approval, contract>>

Next ==
    \/ \E c \in Commands : Retry(c) \/ \E w \in Workers : Begin(w, c)
    \/ \E w \in Workers : Recover(w)
    \/ \E c \in Commands, k \in Claims, outcome \in {"mined", "reverted"} : Mine(c, k, outcome)
    \/ ApproveElsewhere

Spec == Init /\ [][Next]_vars

-----------------------------------------------------------------------------
(* The trigger of migration 0050, as what it demands of a step.  recover   *)
(* touches the row on its way out.                                         *)

Transitions ==
    {<<"pending", "executing">>, <<"pending", "observed">>, <<"executing", "confirmed">>,
     <<"executing", "failed">>, <<"failed", "executing">>}

ApprovalGuard(c) ==
    LET old == approval[c]
        new == approval'[c]
        journal == operation'[c]
        signed == journal.claim # 0 /\ journal.tx[journal.claim] # "none"
    IN
    /\ old.outcome = new.outcome \/ <<old.outcome, new.outcome>> \in Transitions
    /\ old.bound => new.bound
    /\ old.transaction \notin {0, new.transaction} => old.record[old.transaction] = "reverted"
    /\ new.outcome \in {"pending", "observed"} => ~new.bound
    /\ new.outcome = "observed" => journal.status = "none"
    /\ IF new.bound
       THEN /\ IF signed THEN new.transaction = journal.claim
               ELSE new.transaction # 0 => new.record[new.transaction] = "reverted"
            /\ new.outcome = "confirmed" =>
                  /\ journal.status = "confirmed"
                  /\ new.record[new.transaction] = "confirmed"
                  /\ new.retry # journal.claim
            /\ new.outcome = "failed" =>
                  /\ journal.status \in Undone
                  /\ journal.status = "reverted" => new.record[new.transaction] = "reverted"
                  /\ new.retry # journal.claim
       ELSE /\ new.transaction = 0 /\ new.retry = 0
            /\ new.outcome \notin {"confirmed", "failed"}
    /\ new.retry # old.retry =>
          /\ <<old.outcome, new.outcome>> = <<"failed", "executing">>
          /\ new.retry = journal.claim /\ journal.status \in Undone
    /\ <<old.outcome, new.outcome>> = <<"failed", "executing">> => new.retry # old.retry

Guards == \A c \in Commands : ApprovalGuard(c)

-----------------------------------------------------------------------------
TypeOK ==
    /\ JournalTypeOK
    /\ approval \in [Commands -> Approval]
    /\ contract \in BOOLEAN

\* A disposition that says the token is approved is never wrong about the
\* contract, and one observed there sent nothing.
ApprovedIsTrue ==
    \A c \in Commands :
        /\ approval[c].outcome \in {"observed", "confirmed"} => contract
        /\ approval[c].outcome = "confirmed" => Executed(c)
        /\ approval[c].outcome = "observed" => operation[c].status = "none"

\* A failed approval has no transaction left that could still approve.
FailedIsOver == \A c \in Commands : approval[c].outcome = "failed" => ~Live(c)
=============================================================================
