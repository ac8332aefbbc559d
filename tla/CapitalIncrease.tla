--------------------------- MODULE CapitalIncrease ---------------------------
(***************************************************************************)
(* Raising the authorised shares of one token: requests of its issuer, one *)
(* in flight at a time, and the execution of an approved one               *)
(* (backend/tokens/services/capital_increase.py, capital_execution.py and  *)
(* the triggers of migration 0046).  A failed request leaves its slot free *)
(* and may be retried after others have been executed.                     *)
(***************************************************************************)
EXTENDS JournalClient

CONSTANTS
    MaxTotal,   \* model bound: the highest total a request asks for
    MaxRetries  \* model bound: attempts of any request when a retry is admitted or
                \* another tool sets the cap

TotalAssumption == MaxTotal \in Nat \ {0} /\ MaxRetries \in Nat

VARIABLES
    increase,   \* CapitalIncreaseRequest with its execution, where admitted
    token,      \* ShareToken.total_supply, the recorded cap
    contract    \* external: ShareToken.authorizedShares; whether another tool
                \* ever set it; the executions that moved it from their prior cap

vars == <<increase, token, contract, operation, worker>>

Totals == 1..MaxTotal

Receipt == {"none", "submitted", "confirmed", "reverted"}

Increase ==
    [status : {"none", "draft", "submitted", "approved", "rejected", "executing", "executed",
               "failed", "superseded"},
     total : Totals, prior : Totals,
     admitted : BOOLEAN, bound : BOOLEAN, held : BOOLEAN, projected : BOOLEAN,
     retry : 0..MaxClaims, record : 0..MaxClaims, receipt : Receipt]

NoIncrease ==
    [status |-> "none", total |-> 1, prior |-> 1,
     admitted |-> FALSE, bound |-> FALSE, held |-> FALSE, projected |-> FALSE,
     retry |-> 0, record |-> 0, receipt |-> "none"]

InFlight(c) == increase[c].status \in {"submitted", "approved", "executing"}

Row(w) == increase[worker[w].command]

Write(c, row) == increase' = [increase EXCEPT ![c] = row]

-----------------------------------------------------------------------------
(* The issuer and the reviewer.                                            *)

\* The new total is worked out from the cap the issuer sees when drafting.
Draft(c, total) ==
    /\ increase[c].status = "none"
    /\ total > token
    /\ Write(c, [increase[c] EXCEPT !.status = "draft", !.total = total])
    /\ UNCHANGED <<token, contract, operation, worker>>

\* submit_capital_increase, under the token's lock.
Submit(c) ==
    /\ increase[c].status = "draft"
    /\ \A d \in Commands : ~InFlight(d)
    /\ Write(c, [increase[c] EXCEPT !.status = "submitted"])
    /\ UNCHANGED <<token, contract, operation, worker>>

\* approve and reject
Review(c, verdict) ==
    /\ increase[c].status = "submitted"
    /\ Write(c, [increase[c] EXCEPT !.status = verdict])
    /\ UNCHANGED <<token, contract, operation, worker>>

\* Mutant: an approved total below the cap is admitted like any other.
Overtaken_Never(c) == FALSE

\* The approved total does not raise the recorded cap.
Overtaken(c) == increase[c].total <= token

\* _competing_history
Competes(c) == \E d \in Commands \ {c} : InFlight(d)

\* admit, for a request that has no execution yet.
Admit(c) ==
    /\ increase[c].status = "approved"
    /\ ~Competes(c)
    /\ Write(c, [increase[c] EXCEPT !.status = IF Overtaken(c) THEN "superseded" ELSE "executing",
                                    !.admitted = TRUE, !.prior = token,
                                    !.projected = Overtaken(c)])
    /\ UNCHANGED <<token, contract, operation, worker>>

CapMoved(c) == token # increase[c].prior

Bounded == \A c \in Commands : operation[c].claim <= MaxRetries

\* admit, with a form that names the attempt that failed.  Any other form finds
\* nothing to do.
Retry(c) ==
    /\ increase[c].admitted /\ ~increase[c].held /\ increase[c].projected
    /\ increase[c].retry # operation[c].claim
    /\ Bounded
    /\ operation[c].status \in Undone
    /\ increase[c].status = "failed"
    /\ ~Competes(c)
    /\ \/ /\ ~CapMoved(c)
          /\ Write(c, [increase[c] EXCEPT !.status = "executing", !.projected = FALSE,
                                          !.retry = operation[c].claim])
       \/ /\ CapMoved(c) /\ Overtaken(c)
          /\ Write(c, [increase[c] EXCEPT !.status = "superseded"])
    /\ UNCHANGED <<token, contract, operation, worker>>

-----------------------------------------------------------------------------
(* recover.                                                                *)

\* What is left to recover in a held execution is its receipt.
Recoverable(c) ==
    /\ increase[c].admitted /\ ~increase[c].projected
    /\ ~increase[c].held \/ operation[c].status \in {"signed", "confirmed", "reverted"}

Begin(w) ==
    /\ At(w, "idle")
    /\ \E c \in Commands :
          Recoverable(c) /\ Take(w, IF increase[c].bound THEN "read" ELSE "open", c, 0)
    /\ UNCHANGED <<increase, token, contract, operation>>

\* _retain_receipt
Retained(c) ==
    IF operation[c].status \in {"confirmed", "reverted"}
    THEN [increase[c] EXCEPT !.receipt = operation[c].status]
    ELSE increase[c]

\* _claim, first half: keep the attempt unless its retry was admitted.
ReadClaim(w) ==
    LET c == worker[w].command IN
    /\ At(w, "read")
    /\ increase' = IF operation[c].status = "reverted" THEN [increase EXCEPT ![c] = Retained(c)]
                   ELSE increase
    /\ worker' = IF Own(w).status \in Undone /\ Row(w).retry = Own(w).claim /\ ~Row(w).held
                 THEN [worker EXCEPT ![w].pc = "open", ![w].retry = Row(w).retry]
                 ELSE [worker EXCEPT ![w].pc = "resume", ![w].claim = Own(w).claim]
    /\ UNCHANGED <<token, contract, operation>>

\* _claim, second half.
Bind(w) ==
    /\ At(w, "bind")
    /\ IF Row(w).bound /\ Row(w).projected THEN UNCHANGED increase
       ELSE /\ Row(w).status = "executing"
            /\ Write(worker[w].command, [Row(w) EXCEPT !.bound = TRUE])
    /\ worker' = [worker EXCEPT ![w].pc = "resume", ![w].claim = Own(w).claim]
    /\ UNCHANGED <<token, contract, operation>>

Resume(w) ==
    /\ At(w, "resume")
    /\ IF Row(w).projected THEN Finish(w)
       ELSE Goto(w, IF Own(w).status \in Undone \/ (Row(w).held /\ Own(w).status # "signed")
                    THEN "project"
                    ELSE IF Own(w).status = "preparing" THEN "decide" ELSE "look")
    /\ UNCHANGED <<increase, token, contract, operation>>

\* Still this run's attempt, unsigned and unprojected, under the locks.
Prepares(w) == Signs(w) /\ ~Row(w).projected

\* _check_preparation: the recorded cap, then the contract's, read unlocked.
CheckPreparation(w) ==
    /\ At(w, "decide")
    /\ IF Prepares(w) /\ CapMoved(worker[w].command)
       THEN /\ Write(worker[w].command, [Row(w) EXCEPT !.held = TRUE])
            /\ Goto(w, "look")
       ELSE /\ UNCHANGED increase
            /\ IF ~Prepares(w) \/ Row(w).held THEN Goto(w, "look")
               ELSE Goto(w, IF contract.cap = Row(w).prior THEN "prepare" ELSE "refused")
    /\ UNCHANGED <<token, contract, operation>>

\* _hold, for a cap on the contract that is not the admitted one.
HoldForChain(w) ==
    /\ At(w, "refused")
    /\ IF Prepares(w) THEN Write(worker[w].command, [Row(w) EXCEPT !.held = TRUE])
       ELSE UNCHANGED increase
    /\ Goto(w, "look")
    /\ UNCHANGED <<token, contract, operation>>

\* sign_operation with _record_signed.
SignIncrease(w) ==
    /\ Sign(w)
    /\ ~Row(w).held /\ ~Row(w).projected
    /\ Row(w).status = "executing"
    /\ ~CapMoved(worker[w].command)
    /\ Write(worker[w].command,
             [Row(w) EXCEPT !.record = worker[w].claim, !.receipt = "submitted"])
    /\ UNCHANGED <<token, contract>>

\* _preparation_failed; a hold keeps the attempt for an operator to attribute.
GiveUp(w) ==
    /\ At(w, "prepare")
    /\ IF Row(w).held \/ Row(w).projected THEN UNCHANGED operation ELSE FailPreparing(w)
    /\ Goto(w, "look")
    /\ UNCHANGED <<increase, token, contract>>

\* A confirmed receipt is kept, then verified: the event must move the cap from
\* the admitted one to the approved one.
Settle(w) ==
    LET c == worker[w].command IN
    /\ At(w, "settle")
    /\ Owns(w)
    /\ IF Own(w).status # "confirmed" THEN Goto(w, "project") /\ UNCHANGED increase
       ELSE IF c \in contract.exact
            THEN GotoSeeing(w, "project", ~Row(w).held) /\ Write(c, Retained(c))
            ELSE /\ Goto(w, "project")
                 /\ Write(c, [Retained(c) EXCEPT !.held = @ \/ ~Row(w).projected])
    /\ UNCHANGED <<token, contract, operation>>

\* _project goes on: the attempt is the run's, open, attributed, and not one a
\* retry was already admitted for.
Projects(w) ==
    /\ Owns(w)
    /\ ~Row(w).projected /\ ~Row(w).held
    /\ Row(w).retry # Own(w).claim

\* Mutant: the request is executed and the recorded cap left as it was.
ProjectExecuted_NoCap(w) ==
    /\ At(w, "project")
    /\ Projects(w)
    /\ Own(w).status = "confirmed" /\ worker[w].seen
    /\ Write(worker[w].command,
             [Retained(worker[w].command) EXCEPT !.status = "executed", !.projected = TRUE])
    /\ Finish(w)
    /\ UNCHANGED <<token, contract, operation>>

ProjectExecuted(w) ==
    /\ At(w, "project")
    /\ Projects(w)
    /\ Own(w).status = "confirmed" /\ worker[w].seen
    /\ Write(worker[w].command,
             [Retained(worker[w].command) EXCEPT !.status = "executed", !.projected = TRUE])
    /\ token' = Row(w).total
    /\ Finish(w)
    /\ UNCHANGED <<contract, operation>>

ProjectFailed(w) ==
    /\ At(w, "project")
    /\ Projects(w)
    /\ Own(w).status \in Undone
    /\ Write(worker[w].command,
             [Retained(worker[w].command) EXCEPT !.status = "failed", !.projected = TRUE])
    /\ Finish(w)
    /\ UNCHANGED <<token, contract, operation>>

\* Nothing to project, but the receipt is retained.
ProjectNothing(w) ==
    /\ At(w, "project")
    /\ Owns(w)
    /\ Projects(w) => Own(w).status \notin Undone
                      /\ ~(Own(w).status = "confirmed" /\ worker[w].seen)
    /\ IF Row(w).projected THEN UNCHANGED increase
       ELSE Write(worker[w].command, Retained(worker[w].command))
    /\ Finish(w)
    /\ UNCHANGED <<token, contract, operation>>

-----------------------------------------------------------------------------
(* External.                                                               *)

\* ShareToken.setAuthorizedShares
Mine(c, k, outcome) ==
    /\ Mined(c, k, outcome)
    /\ contract' = IF outcome = "mined"
                   THEN [contract EXCEPT !.cap = increase[c].total,
                                         !.exact = IF contract.cap = increase[c].prior
                                                   THEN @ \cup {c} ELSE @]
                   ELSE contract
    /\ UNCHANGED <<increase, token>>

\* The owner's key sets the cap with another tool; model bound: once, to the
\* highest total, while retries are Bounded.
SetElsewhere ==
    /\ ~contract.elsewhere /\ Bounded
    /\ contract' = [contract EXCEPT !.cap = MaxTotal, !.elsewhere = TRUE]
    /\ UNCHANGED <<increase, token, operation, worker>>

-----------------------------------------------------------------------------
Init ==
    /\ JournalInit
    /\ increase = [c \in Commands |-> NoIncrease]
    /\ token = 1
    /\ contract = [cap |-> 1, elsewhere |-> FALSE, exact |-> {}]

Staff ==
    \/ \E c \in Commands, total \in Totals : Draft(c, total)
    \/ \E c \in Commands, verdict \in {"approved", "rejected"} : Review(c, verdict)
    \/ \E c \in Commands : Submit(c) \/ Admit(c) \/ Retry(c)

Recover(w) ==
    \/ Begin(w) \/ ReadClaim(w)
    \/ (Journal(w) \/ Look(w)) /\ UNCHANGED <<increase, token, contract>>
    \/ Bind(w) \/ Resume(w) \/ CheckPreparation(w) \/ HoldForChain(w) \/ SignIncrease(w)
    \/ GiveUp(w) \/ Settle(w) \/ ProjectExecuted(w) \/ ProjectFailed(w) \/ ProjectNothing(w)

Next ==
    \/ Staff
    \/ \E w \in Workers : Recover(w)
    \/ \E c \in Commands, k \in Claims, outcome \in {"mined", "reverted"} : Mine(c, k, outcome)
    \/ SetElsewhere

Spec == Init /\ [][Next]_vars

-----------------------------------------------------------------------------
(* The triggers of migration 0046, as what they demand of a step.          *)

Attempted == {"signed", "confirmed", "reverted"}

\* protect_capital_execution
ExecutionGuard(c) ==
    LET old == increase[c]
        new == increase'[c]
        journal == operation'[c]
    IN
    /\ ~old.admitted => old.status = "approved" /\ new.prior = token /\ ~new.bound /\ ~new.held
    /\ old.bound => new.bound
    /\ old.held => new.held
    /\ old.record \notin {0, new.record} => new.record # 0 /\ old.receipt = "reverted"
    /\ new.held => ~new.projected
    /\ IF new.bound
       THEN /\ new.record # 0 => IF journal.status \in Attempted THEN new.record = journal.claim
                                 ELSE new.receipt = "reverted"
            /\ new.projected =>
                  /\ journal.status \in {"confirmed"} \cup Undone
                  /\ new.retry # journal.claim
                  /\ journal.status \in {"confirmed", "reverted"} => new.receipt = journal.status
       ELSE /\ new.record = 0 /\ new.retry = 0
            /\ new.projected => new.total <= new.prior /\ ~new.held
    /\ new.retry # old.retry =>
          /\ new.retry = journal.claim /\ journal.status \in Undone
          /\ old.projected /\ ~new.projected /\ old.status = "failed" /\ ~new.held
    /\ old.projected /\ ~new.projected => new.retry # old.retry

\* protect_capital_request
RequestGuard(c) ==
    LET new == increase'[c] IN
    IF ~new.projected THEN new.status = "executing"
    ELSE IF ~new.bound THEN new.status = "superseded"
    ELSE IF operation'[c].status = "confirmed" THEN new.status = "executed"
    ELSE operation'[c].status \in Undone /\ new.status \in {"failed", "superseded"}

\* protect_capital_token, and one increase in flight per token.
TokenGuard ==
    /\ token' # token => \A c \in Commands : increase'[c].status # "executing"
    /\ \A c, d \in Commands : InFlight(c)' /\ InFlight(d)' => c = d

Guards ==
    /\ \A c \in Commands : increase'[c].admitted => ExecutionGuard(c) /\ RequestGuard(c)
    /\ TokenGuard

-----------------------------------------------------------------------------
TypeOK ==
    /\ JournalTypeOK
    /\ increase \in [Commands -> Increase]
    /\ token \in Totals
    /\ contract \in [cap : Totals, elsewhere : BOOLEAN, exact : SUBSET Commands]

\* An increase counts as executed only if its own transaction moved the cap from
\* the admitted total to the approved one; and as long as no other tool touches
\* the contract, the recorded cap is the contract's whenever nothing executes.
CapIsTrue ==
    /\ \A c \in Commands : increase[c].status = "executed" => c \in contract.exact
    /\ ~contract.elsewhere /\ (\A c \in Commands : increase[c].status # "executing") =>
          token = contract.cap

\* No retry of an old request, and no late receipt, lowers the recorded cap.
CapOnlyRises == token' >= token

\* A request that ended without effect has no transaction that could still set
\* the cap behind a later increase.
FailedIsOver ==
    \A c \in Commands :
        increase[c].status \in {"rejected", "failed", "superseded"} => ~Live(c)
=============================================================================
