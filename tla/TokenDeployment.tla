--------------------------- MODULE TokenDeployment ---------------------------
(***************************************************************************)
(* Deploying the contract of a share token: the issuer's request and the   *)
(* retries it confirms, the job that carries each of them, the sweep, and  *)
(* the projection of the new contract to the token row                     *)
(* (backend/tokens/services/deployment.py, deployment_journal.py and the   *)
(* trigger of migration 0044).  A contract is named by the attempt that    *)
(* created it.                                                             *)
(***************************************************************************)
EXTENDS JournalClient

VARIABLES
    deployment, \* TokenDeployment rows, with the record of each transaction
    token,      \* ShareToken: status, deployment transaction, contract address
    contract    \* external: who created the contract of each token's identifier

rows == <<deployment, token>>
vars == <<rows, contract, operation, worker>>

Deployment ==
    [admitted : BOOLEAN, bound : BOOLEAN, held : BOOLEAN, transaction : 0..MaxClaims,
     record : [Claims -> {"none", "submitted", "confirmed", "reverted"}],
     address : 0..MaxClaims, projected : BOOLEAN]

NoDeployment ==
    [admitted |-> FALSE, bound |-> FALSE, held |-> FALSE, transaction |-> 0,
     record |-> [k \in Claims |-> "none"], address |-> 0, projected |-> FALSE]

Token ==
    [status : {"other", "draft", "deploying", "deployed"}, transaction : 0..MaxClaims,
     address : 0..MaxClaims]

\* A token whose deployment nobody asks for.
OtherToken == [status |-> "other", transaction |-> 0, address |-> 0]

DraftToken == [OtherToken EXCEPT !.status = "draft"]

\* The identifier is free, or someone else deployed it with another tool.
Free == 0
Foreign == MaxClaims + 1

Row(w) == deployment[worker[w].command]

Write(c, row) == deployment' = [deployment EXCEPT ![c] = row]

WriteToken(c, row) == token' = [token EXCEPT ![c] = row]

-----------------------------------------------------------------------------
(* The issuer, the job and the sweep.                                      *)

\* start_deployment
Start(c) ==
    /\ token[c].status = "draft"
    /\ WriteToken(c, [token[c] EXCEPT !.status = "deploying"])
    /\ UNCHANGED <<deployment, contract, operation, worker>>

\* retry_confirmation puts the current attempt on the page whatever became of it.
Named(c) == {0} \cup {k \in Claims : deployment[c].bound /\ k <= operation[c].claim}

\* deploy_token with _admit, run by a job that may be run again; named is what
\* the issuer confirmed, or 0.
Deploy(w, c, named) ==
    /\ At(w, "idle")
    /\ token[c].status = "deploying"
    /\ Write(c, [deployment[c] EXCEPT !.admitted = TRUE])
    /\ IF deployment[c].held THEN UNCHANGED worker ELSE Take(w, "read", c, named)
    /\ UNCHANGED <<token, contract, operation>>

\* TokenDeploymentQuerySet.recoverable
Recoverable(c) ==
    /\ deployment[c].admitted /\ ~deployment[c].projected /\ ~deployment[c].held
    /\ \/ ~deployment[c].bound
       \/ operation[c].status \in {"preparing", "signed", "confirmed"}
       \/ /\ operation[c].status = "reverted"
          /\ deployment[c].transaction # 0
          /\ deployment[c].record[deployment[c].transaction] # "reverted"

\* recover
Begin(w, c) ==
    /\ At(w, "idle")
    /\ Recoverable(c)
    /\ Take(w, "read", c, 0)
    /\ UNCHANGED <<rows, contract, operation>>

-----------------------------------------------------------------------------
(* _process.                                                               *)

Keeps(w) == Row(w).bound /\ (worker[w].retry = 0 \/ Own(w).status \notin Undone)

\* _claim reads the operation without a lock; a revert is recorded first.
ReadClaim(w) ==
    /\ At(w, "read")
    /\ worker' = [worker EXCEPT
          ![w].claim = IF Row(w).bound THEN Own(w).claim ELSE 0,
          ![w].pc = IF Keeps(w) THEN "resume"
                    ELSE IF Row(w).bound /\ Own(w).status = "reverted" THEN "retain" ELSE "open"]
    /\ UNCHANGED <<rows, contract, operation>>

\* What record_outcome makes of the row; an address only with its receipt.
Outcome(w) ==
    LET k == worker[w].claim IN
    IF Own(w).tx[k] = "none" THEN Row(w)
    ELSE [Row(w) EXCEPT
             !.record[k] = IF Own(w).status \in {"confirmed", "reverted"} THEN Own(w).status ELSE @,
             !.address = IF Own(w).status = "confirmed" /\ worker[w].seen THEN k ELSE @]

\* The revert of the previous attempt, unless another retry was first.
Retain(w) ==
    /\ At(w, "retain")
    /\ IF Owns(w)
       THEN Write(worker[w].command, Outcome(w)) /\ Goto(w, "open")
       ELSE /\ worker' = [worker EXCEPT ![w].pc = "resume", ![w].claim = Own(w).claim]
            /\ UNCHANGED deployment
    /\ UNCHANGED <<token, contract, operation>>

\* _claim, after open_operation.
Bind(w) ==
    /\ At(w, "bind")
    /\ Owns(w)
    /\ Write(worker[w].command, [Row(w) EXCEPT !.bound = TRUE])
    /\ Goto(w, "resume")
    /\ UNCHANGED <<token, contract, operation>>

Resume(w) ==
    /\ At(w, "resume")
    /\ Goto(w, CASE Own(w).status \in Undone -> "outcome"
                 [] Own(w).status = "preparing" -> "decide"
                 [] OTHER -> "look")
    /\ UNCHANGED <<rows, contract, operation>>

\* _hold_existing_contract asks the factory before it takes the locks.
ReadFactory(w) ==
    /\ At(w, "decide")
    /\ Goto(w, IF contract[worker[w].command] = Free THEN "prepare" ELSE "refused")
    /\ UNCHANGED <<rows, contract, operation>>

\* Mutant: a contract found is held against whatever attempt there is.
Holds_Owned(w) == Owns(w)

Holds(w) == Owns(w) /\ Own(w).status = "preparing"

HoldExistingContract(w) ==
    LET c == worker[w].command IN
    /\ At(w, "refused")
    /\ IF Holds(w)
       THEN /\ Write(c, [Row(w) EXCEPT !.held = TRUE])
            /\ operation' = [operation EXCEPT ![c].status = "failed"]
            /\ Finish(w)
       ELSE Goto(w, "prepare") /\ UNCHANGED <<deployment, operation>>
    /\ UNCHANGED <<token, contract>>

\* record_signed_deployment: the token names no other unresolved transaction.
Bindable(w) ==
    LET t == token[worker[w].command] IN
    /\ ~Row(w).held /\ Row(w).bound
    /\ t.status = "deploying"
    /\ t.transaction # 0 =>
          t.transaction = Row(w).transaction /\ Row(w).record[t.transaction] = "reverted"

\* sign_operation with record_signed_deployment.
SignDeployment(w) ==
    LET c == worker[w].command
        k == worker[w].claim
    IN
    /\ Sign(w)
    /\ Bindable(w)
    /\ Write(c, [Row(w) EXCEPT !.transaction = k, !.record[k] = "submitted"])
    /\ WriteToken(c, [token[c] EXCEPT !.transaction = k])
    /\ UNCHANGED contract

\* The except clause around the preparation, the check before the factory included.
GiveUp(w) ==
    /\ worker[w].pc \in {"decide", "prepare"}
    /\ FailPreparing(w)
    /\ IF Owns(w) /\ Own(w).status \in {"signed", "confirmed"} THEN Goto(w, "look") ELSE Finish(w)
    /\ UNCHANGED <<rows, contract>>

\* _created_address: the event of a confirmed attempt, if its receipt is there.
Settle(w) ==
    /\ At(w, "settle")
    /\ \E event \in {FALSE, Own(w).status = "confirmed"} : GotoSeeing(w, "outcome", event)
    /\ UNCHANGED <<rows, contract, operation>>

\* record_outcome
RecordOutcome(w) ==
    /\ At(w, "outcome")
    /\ Owns(w) /\ Row(w).bound
    /\ Write(worker[w].command, Outcome(w))
    /\ IF Outcome(w).address # 0 /\ ~Row(w).projected THEN Goto(w, "project") ELSE Finish(w)
    /\ UNCHANGED <<token, contract, operation>>

\* _project, up to the token row; a configuration, a token or a bridge that is
\* not the admitted one ends the run (Abandon).
Project(w) ==
    LET c == worker[w].command
        t == token[c]
    IN
    /\ At(w, "project")
    /\ t.transaction = Row(w).transaction
    /\ IF t.address # 0 THEN t.address = Row(w).address /\ UNCHANGED token
       ELSE /\ t.status = "deploying"
            /\ WriteToken(c, [t EXCEPT !.status = "deployed", !.address = Row(w).address])
    /\ Goto(w, "finish")
    /\ UNCHANGED <<deployment, contract, operation>>

\* mark_projected; SwapApproval goes on from here.
MarkProjected(w) ==
    /\ At(w, "finish")
    /\ Write(worker[w].command, [Row(w) EXCEPT !.projected = TRUE])
    /\ Finish(w)
    /\ UNCHANGED <<token, contract, operation>>

-----------------------------------------------------------------------------
(* External: ShareTokenFactory.createShareToken reverts for an identifier  *)
(* it already knows.                                                       *)

Mine(c, k, outcome) ==
    /\ Mined(c, k, outcome)
    /\ outcome = "mined" => contract[c] = Free
    /\ contract' = IF outcome = "mined" THEN [contract EXCEPT ![c] = k] ELSE contract
    /\ UNCHANGED rows

CreateElsewhere(c) ==
    /\ token[c].status # "other"
    /\ contract[c] = Free
    /\ contract' = [contract EXCEPT ![c] = Foreign]
    /\ UNCHANGED <<rows, operation, worker>>

-----------------------------------------------------------------------------
Init ==
    /\ JournalInit
    /\ deployment = [c \in Commands |-> NoDeployment]
    /\ token \in [Commands -> {OtherToken, DraftToken}]
    /\ contract = [c \in Commands |-> Free]

Recover(w) ==
    \/ ReadClaim(w) \/ Retain(w) \/ Bind(w) \/ Resume(w) \/ ReadFactory(w)
    \/ HoldExistingContract(w) \/ SignDeployment(w) \/ GiveUp(w) \/ Settle(w)
    \/ RecordOutcome(w) \/ Project(w) \/ MarkProjected(w)
    \/ (Journal(w) \/ Look(w)) /\ UNCHANGED <<rows, contract>>

Next ==
    \/ \E c \in Commands :
          \/ Start(c) \/ CreateElsewhere(c)
          \/ \E w \in Workers : Begin(w, c) \/ \E named \in Named(c) : Deploy(w, c, named)
    \/ \E w \in Workers : Recover(w)
    \/ \E c \in Commands, k \in Claims, outcome \in {"mined", "reverted"} : Mine(c, k, outcome)

Spec == Init /\ [][Next]_vars

-----------------------------------------------------------------------------
(* The trigger of migration 0044, as what it demands of a step; the sweep  *)
(* touches the rows it could not resolve.                                  *)

DeploymentGuard(c) ==
    LET old == deployment[c]
        new == deployment'[c]
        journal == operation'[c]
        signed == journal.claim # 0 /\ journal.tx[journal.claim] # "none"
    IN
    /\ ~old.admitted => ~new.bound /\ new.transaction = 0 /\ new.address = 0 /\ ~new.held
    /\ old.bound => new.bound
    /\ old.address \in {0, new.address}
    /\ old.projected => new.projected
    /\ old.held => new.held
    /\ old.transaction \notin {0, new.transaction} =>
          new.transaction # 0 /\ old.record[old.transaction] = "reverted"
    /\ IF new.bound
       THEN /\ new.transaction # 0 =>
                  IF signed THEN new.transaction = journal.claim
                  ELSE new.record[new.transaction] = "reverted"
            /\ new.address # 0 => journal.status = "confirmed" /\ new.transaction # 0
       ELSE new.transaction = 0 /\ new.address = 0
    /\ new.projected => new.address # 0

Guards == \A c \in Commands : deployment'[c].admitted => DeploymentGuard(c)

-----------------------------------------------------------------------------
TypeOK ==
    /\ JournalTypeOK
    /\ deployment \in [Commands -> Deployment]
    /\ token \in [Commands -> Token]
    /\ contract \in [Commands -> 0..(MaxClaims + 1)]

\* A token is deployed with the contract its own transaction created, the one
\* the factory knows under its identifier, or not at all.
DeployedIsTrue ==
    \A c \in Commands :
        /\ token[c].status = "deployed" =>
              /\ token[c].address = contract[c]
              /\ token[c].transaction = token[c].address
        /\ deployment[c].address \in {0, contract[c]}

\* A contract of a deployment that is still open is one the sweep will bring to
\* the token row, and a deployment held for attribution created none.
FailedIsOver ==
    \A c \in Commands :
        /\ Live(c) /\ ~deployment[c].projected => Recoverable(c)
        /\ deployment[c].held => ~Live(c)
        /\ operation[c].status = "reverted" /\ deployment[c].record[operation[c].claim] # "reverted" =>
              Recoverable(c)
=============================================================================
