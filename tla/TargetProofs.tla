----------------------------- MODULE TargetProofs -----------------------------
(***************************************************************************)
(* What a command changes is what the contract behind it says, client by   *)
(* client, and with RecordsProofs what the run of all of them checks.      *)
(*                                                                         *)
(* Beside the invariant of ClientProofs, each client has one that ties its *)
(* rows to the contract through the transactions that were executed: while *)
(* one is live the target may be behind, once it is projected it is not.   *)
(***************************************************************************)
EXTENDS CommandRowsProofs, RecordsProofs

USE DEF Undone

-----------------------------------------------------------------------------
(* The chain executes.                                                     *)

\* A transaction of the operation was executed.
Done(o) == \E k \in Claims : o.tx[k] = "mined"

\* None is by this step.
NoneDone == \A c \in Commands : Done(operation'[c]) <=> Done(operation[c])

LEMMA OneDone ==
    ASSUME operation \in [Commands -> Operation], NEW c, NEW p,
           operation' = [operation EXCEPT ![c] = p],
           c \in Commands => (Done(p) <=> Done(operation[c]))
    PROVE  NoneDone
BY DEF NoneDone

\* What the journal itself does executes nothing.
LEMMA JournalDoesNothing ==
    ASSUME OperationsSound, NEW w \in Workers,
           Open(w) \/ FailPreparing(w) \/ Sign(w) \/ Followed(w) \/ UNCHANGED operation
    PROVE  NoneDone
<1> DEFINE c == worker[w].command
           o == operation[c]
<1>0. operation \in [Commands -> Operation] /\ (c \in Commands => Sound(o) /\ o \in Operation)
  BY DEF OperationsSound
<1>1. CASE UNCHANGED operation
  BY <1>1 DEF NoneDone
<1>2. ASSUME NEW p, operation' = [operation EXCEPT ![c] = p],
             c \in Commands => \A k \in Claims : p.tx[k] = "mined" <=> o.tx[k] = "mined"
      PROVE  NoneDone
  <2> HIDE DEF c
  <2> QED BY <1>0, <1>2, OneDone DEF Done
<1>3. CASE Open(w)
  <2> DEFINE p == [o EXCEPT !.status = "preparing", !.claim = @ + 1]
  <2>1. CASE operation' = [operation EXCEPT ![c].status = "preparing", ![c].claim = @ + 1]
    <3>1. operation' = [operation EXCEPT ![c] = p]
      BY <1>0, <2>1 DEF Operation
    <3>2. c \in Commands => p.tx = o.tx
      BY <1>0 DEF Operation
    <3> QED BY <1>2, <3>1, <3>2
  <2> QED BY <1>1, <1>3, <2>1 DEF Open
<1>4. CASE FailPreparing(w)
  <2> DEFINE p == [o EXCEPT !.status = "failed"]
  <2>1. CASE operation' = [operation EXCEPT ![c] = p]
    <3>1. c \in Commands => p.tx = o.tx
      BY <1>0 DEF Operation
    <3> QED BY <1>2, <2>1, <3>1
  <2> QED BY <1>1, <1>4, <2>1 DEF FailPreparing
<1>5. CASE Sign(w)
  <2> DEFINE p == [o EXCEPT !.status = "signed", !.tx[o.claim] = "signed"]
  <2>1. o.claim = worker[w].claim /\ o.status = "preparing"
    BY <1>5 DEF Sign, Signs, Owns, Own
  <2>2. operation' = [operation EXCEPT ![c].status = "signed", ![c].tx[o.claim] = "signed"]
    BY <1>5, <2>1 DEF Sign
  <2>3. operation' = [operation EXCEPT ![c] = p]
    BY <1>0, <2>2 DEF Operation
  <2>4. c \in Commands /\ o.claim \in Claims => o.tx[o.claim] = "none"
    BY <1>0, <2>1 DEF Sound
  <2>5. c \in Commands => \A k \in Claims : p.tx[k] = IF k = o.claim THEN "signed" ELSE o.tx[k]
    BY <1>0 DEF Operation
  <2>6. c \in Commands => \A k \in Claims : p.tx[k] = "mined" <=> o.tx[k] = "mined"
    BY <2>4, <2>5
  <2> HIDE DEF p
  <2> QED BY <1>2, <2>3, <2>6
<1>6. CASE Receive(w)
  <2> DEFINE x == IF o.tx[worker[w].claim] = "mined" THEN "confirmed" ELSE "reverted"
             p == [o EXCEPT !.status = x]
  <2>1. operation' = [operation EXCEPT ![c] = p]
    BY <1>6 DEF Receive, Own
  <2>2. c \in Commands => p.tx = o.tx
    BY <1>0 DEF Operation
  <2> QED BY <1>2, <2>1, <2>2
<1>7. CASE Broadcast(w)
  <2> DEFINE k == worker[w].claim
             p == [o EXCEPT !.tx[k] = "sent"]
  <2>1. CASE o.tx[k] = "signed" /\ operation' = [operation EXCEPT ![c] = p]
    <3>1. c \in Commands => \A j \in Claims : p.tx[j] = IF j = k THEN "sent" ELSE o.tx[j]
      BY <1>0 DEF Operation
    <3>2. c \in Commands => \A j \in Claims : p.tx[j] = "mined" <=> o.tx[j] = "mined"
      BY <2>1, <3>1
    <3> HIDE DEF p
    <3> QED BY <1>2, <2>1, <3>2
  <2> QED BY <1>1, <1>7, <2>1 DEF Broadcast, Own
<1> QED BY <1>1, <1>3, <1>4, <1>5, <1>6, <1>7 DEF Followed, ReceiveNothing, Abandon, Look

\* The chain executes the current attempt, which was signed and is not done.
LEMMA ChainDoes ==
    ASSUME OperationsSound, NEW c \in Commands, NEW k \in Claims,
           NEW outcome \in {"mined", "reverted"}, Mined(c, k, outcome)
    PROVE  /\ operation[c].status = "signed" /\ k = operation[c].claim /\ ~Done(operation[c])
           /\ \A d \in Commands : d # c => operation'[d] = operation[d]
           /\ operation'[c].status = "signed" /\ operation'[c].claim = k
           /\ \A j \in Claims : operation'[c].tx[j] = IF j = k THEN outcome ELSE operation[c].tx[j]
           /\ Done(operation'[c]) <=> outcome = "mined"
           /\ worker' = worker
<1> DEFINE o == operation[c]
           p == [o EXCEPT !.tx[k] = outcome]
<1>1. o \in Operation /\ Sound(o) /\ o.tx[k] = "sent" /\ worker' = worker
  BY DEF OperationsSound, Mined
<1>2. operation' = [operation EXCEPT ![c] = p]
  BY DEF Mined
<1>3. operation'[c] = p /\ \A d \in Commands : d # c => operation'[d] = operation[d]
  BY <1>2 DEF OperationsSound
<1>4. /\ p.status = o.status /\ p.claim = o.claim
      /\ \A j \in Claims : p.tx[j] = IF j = k THEN outcome ELSE o.tx[j]
  BY <1>1 DEF Operation
<1>5. k = o.claim /\ o.status = "signed"
  <2>1. o.claim \in Nat /\ k \in Nat /\ o.status \in {"none", "preparing", "signed", "confirmed", "reverted", "failed"}
    BY <1>1, Bounded DEF Operation
  <2>2. k = o.claim
    BY <1>1, <2>1 DEF Sound
  <2> QED BY <1>1, <2>1, <2>2, Bounded DEF Sound
<1>6. \A j \in Claims : j # k => o.tx[j] # "mined"
  BY <1>1, <1>5, Bounded DEF Sound, Operation
<1>7. ~Done(o) /\ (Done(p) <=> outcome = "mined")
  BY <1>1, <1>4, <1>6 DEF Done
<1> QED BY <1>1, <1>3, <1>4, <1>5, <1>7

\* What the status says of it.
LEMMA DoneIs ==
    ASSUME NEW o, Sound(o)
    PROVE  /\ Done(o) => o.status \in {"signed", "confirmed"}
           /\ o.status = "confirmed" => Done(o) /\ o.claim \in Claims /\ o.tx[o.claim] = "mined"
           /\ \A k \in Claims : o.tx[k] = "mined" => k = o.claim
<1>1. /\ o.claim \in 0..MaxClaims
      /\ o.status \in {"none", "preparing", "signed", "confirmed", "reverted", "failed"}
      /\ o.status = "none" <=> o.claim = 0
  BY DEF Sound, Operation
<1>2. ASSUME NEW k \in Claims, o.tx[k] = "mined"
      PROVE  k = o.claim /\ o.status \in {"signed", "confirmed"}
  <2>1. k = o.claim
    BY <1>1, <1>2, Bounded DEF Sound
  <2> QED BY <1>1, <1>2, <2>1, Bounded DEF Sound
<1>3. o.status = "confirmed" => o.claim \in Claims /\ o.tx[o.claim] = "mined"
  BY <1>1, Bounded DEF Sound
<1> QED BY <1>2, <1>3 DEF Done

\* A run that goes on is at the step it went to.
LEMMA RunsGoOn ==
    ASSUME RunsSound, NEW w \in Workers, NEW pc,
           \/ Goto(w, pc) \/ Finish(w)
           \/ \E seen : GotoSeeing(w, pc, seen)
           \/ \E c, retry : Take(w, pc, c, retry)
    PROVE  /\ Only(w)
           /\ \A v \in Workers : worker'[v] = worker[v] \/ worker'[v].pc \in {pc, "idle"}
<1>0. worker \in [Workers -> Run]
  BY DEF RunsSound
<1>1. CASE Goto(w, pc)
  <2>1. worker' = [worker EXCEPT ![w] = [worker[w] EXCEPT !.pc = pc]]
    BY <1>1 DEF Goto
  <2> QED BY <1>0, <2>1 DEF Only, Run
<1>2. CASE Finish(w)
  BY <1>0, <1>2, IdleRun DEF Finish, Only
<1>3. ASSUME NEW seen, GotoSeeing(w, pc, seen)
      PROVE  /\ Only(w)
             /\ \A v \in Workers : worker'[v] = worker[v] \/ worker'[v].pc \in {pc, "idle"}
  <2>1. worker' = [worker EXCEPT ![w] = [worker[w] EXCEPT !.pc = pc, !.seen = seen]]
    BY <1>3 DEF GotoSeeing
  <2> QED BY <1>0, <2>1 DEF Only, Run
<1>4. ASSUME NEW c, NEW retry, Take(w, pc, c, retry)
      PROVE  /\ Only(w)
             /\ \A v \in Workers : worker'[v] = worker[v] \/ worker'[v].pc \in {pc, "idle"}
  <2> DEFINE r == [Idle EXCEPT !.pc = pc, !.command = c, !.retry = retry]
  <2>1. worker' = [worker EXCEPT ![w] = r]
    BY <1>4 DEF Take
  <2>2. r.pc = pc
    BY IdleRun DEF Run
  <2> HIDE DEF r
  <2> QED BY <1>0, <2>1, <2>2 DEF Only
<1> QED BY <1>1, <1>2, <1>3, <1>4

LEMMA SeesOn ==
    ASSUME RunsSound, NEW w \in Workers, NEW pc, NEW seen, GotoSeeing(w, pc, seen)
    PROVE  \A v \in Workers : worker'[v] = worker[v] \/ worker'[v].pc = pc
<1>1. worker' = [worker EXCEPT ![w] = [worker[w] EXCEPT !.pc = pc, !.seen = seen]]
  BY DEF GotoSeeing
<1> QED BY <1>1 DEF RunsSound, Run

LEMMA TakesOn ==
    ASSUME RunsSound, NEW w \in Workers, NEW pc, NEW c, NEW retry, Take(w, pc, c, retry)
    PROVE  \A v \in Workers : worker'[v] = worker[v] \/ worker'[v].pc = pc
<1> DEFINE r == [Idle EXCEPT !.pc = pc, !.command = c, !.retry = retry]
<1>1. worker' = [worker EXCEPT ![w] = r]
  BY DEF Take
<1>2. r.pc = pc
  BY IdleRun DEF Run
<1> HIDE DEF r
<1> QED BY <1>1, <1>2 DEF RunsSound

\* So is one the journal led on.
LEMMA JournalGoesOn ==
    ASSUME OperationsSound, RunsSound, NEW w \in Workers, Open(w) \/ Followed(w)
    PROVE  /\ NoneDone
           /\ \A v \in Workers :
                 \/ worker'[v] = worker[v]
                 \/ worker'[v].pc \in {"idle", "bind", "reconcile", "broadcast", "observe", "settle"}
<1>1. NoneDone
  BY JournalDoesNothing
<1>2. CASE Open(w)
  BY <1>1, <1>2, OpenDoes DEF Only
<1>3. CASE Followed(w)
  BY <1>1, <1>3, FollowedGoes, IdleRun DEF Only
<1> QED BY <1>2, <1>3

-----------------------------------------------------------------------------
(* PauseChange.                                                            *)

\* The submission that is not resolved is the only one; until its transaction
\* is executed, or it was found to ask for nothing, the token row is right, and
\* then the contract is what it asked for.  A run decides on what the contract
\* still says.
PauseTrue ==
    /\ target \in [status : {"deployed", "paused"}, owned : BOOLEAN] /\ contract \in BOOLEAN
    /\ \A c, d \in Pause!Unresolved : c = d
    /\ Pause!PausedIsTrue
    /\ \A c \in Pause!Unresolved :
          IF Done(operation[c]) \/ row[c].status = "observed" THEN contract = row[c].paused
          ELSE target.status = Pause!TokenStatus(contract)
    /\ \A w \in Workers :
          worker[w].pc = "decide" /\ row[worker[w].command].status = "pending" =>
              worker[w].seen = contract

\* What a submission is about, as far as the token row is concerned.
PauseAlike(r, s) ==
    /\ s.status = "none" <=> r.status = "none"
    /\ s.status = "observed" <=> r.status = "observed"
    /\ s.status = "pending" => r.status = "pending"
    /\ s.completed = r.completed /\ s.paused = r.paused

LEMMA PauseStays ==
    ASSUME PauseInv, PauseTrue, NoneDone, contract' = contract,
           target'.status = target.status,
           target' \in [status : {"deployed", "paused"}, owned : BOOLEAN],
           \A c \in Commands : PauseAlike(row[c], row'[c]),
           \A w \in Workers :
              \/ worker'[w] = worker[w] \/ worker'[w].pc # "decide"
              \/ worker'[w].seen = contract
    PROVE  PauseTrue'
<1>1. Pause!Unresolved' = Pause!Unresolved
  BY DEF Pause!Unresolved, PauseAlike
<1>2. Pause!PausedIsTrue'
  BY <1>1 DEF PauseTrue, Pause!PausedIsTrue, Pause!TokenStatus
<1>3. ASSUME NEW c \in Pause!Unresolved
      PROVE  IF Done(operation'[c]) \/ row'[c].status = "observed" THEN contract' = row'[c].paused
             ELSE target'.status = Pause!TokenStatus(contract')
  <2>1. c \in Commands
    BY DEF Pause!Unresolved
  <2>2. /\ Done(operation'[c]) <=> Done(operation[c])
        /\ row'[c].status = "observed" <=> row[c].status = "observed"
        /\ row'[c].paused = row[c].paused
    BY <2>1 DEF NoneDone, PauseAlike
  <2> QED BY <2>2 DEF PauseTrue
<1>4. ASSUME NEW w \in Workers, worker'[w].pc = "decide",
             row'[worker'[w].command].status = "pending"
      PROVE  worker'[w].seen = contract'
  <2>1. CASE worker'[w] = worker[w]
    <3>1. worker[w].command \in Commands
      BY <1>4, <2>1 DEF PauseInv
    <3> QED BY <1>4, <2>1, <3>1 DEF PauseTrue, PauseAlike
  <2> QED BY <1>4, <2>1
<1> QED BY <1>1, <1>2, <1>3, <1>4 DEF PauseTrue

\* The steps that leave every row alone, the contract and the token row too.
LEMMA PauseRests ==
    ASSUME PauseInv, PauseTrue, NoneDone, UNCHANGED <<row, target, contract>>,
           \A w \in Workers :
              \/ worker'[w] = worker[w] \/ worker'[w].pc # "decide"
              \/ worker'[w].seen = contract
    PROVE  PauseTrue'
BY PauseStays DEF PauseAlike, PauseTrue

\* One row changes, in what the token row does not depend on.
LEMMA PauseRewrites ==
    ASSUME PauseInv, PauseTrue, UNCHANGED <<operation, target, contract>>,
           NEW c \in Commands, NEW r, row' = [row EXCEPT ![c] = r], PauseAlike(row[c], r),
           \A w \in Workers : worker'[w] = worker[w] \/ worker'[w].pc # "decide"
    PROVE  PauseTrue'
<1>1. \A d \in Commands : PauseAlike(row[d], row'[d])
  BY DEF PauseInv, PauseAlike
<1> QED BY <1>1, PauseStays DEF NoneDone, PauseTrue

LEMMA PauseSubmitIsTrue ==
    ASSUME PauseInv, PauseTrue, NEW c \in Commands, NEW paused \in BOOLEAN,
           Pause!Submit(c, paused)
    PROVE  PauseTrue'
<1> DEFINE r == [status |-> IF Pause!Refused(c) THEN "failed" ELSE "pending", paused |-> paused,
                 bound |-> FALSE, completed |-> Pause!Refused(c)]
<1>1. /\ row' = [row EXCEPT ![c] = r] /\ row[c].status = "none"
      /\ UNCHANGED <<operation, worker, target, contract>>
  BY DEF Pause!Submit
<1>2. /\ r.status = IF Pause!Refused(c) THEN "failed" ELSE "pending"
      /\ r.completed = Pause!Refused(c) /\ r.paused = paused
      /\ Pause!Refused(c) <=> Pause!Unresolved # {}
  BY DEF Pause!Refused
<1> HIDE DEF r
<1>3. row'[c] = r /\ \A d \in Commands : d # c => row'[d] = row[d]
  BY <1>1 DEF PauseInv
<1>4. operation[c].status = "none" /\ ~Done(operation[c])
  <2>1. Sound(operation[c]) /\ PauseFits(operation[c], row[c])
    BY DEF PauseInv, OperationsSound
  <2> QED BY <1>1, <2>1, DoneIs DEF PauseFits
<1>5. \A w \in Workers : worker[w].pc = "decide" =>
         worker[w].command \in Commands /\ worker[w].command # c
  BY <1>1 DEF PauseInv, PauseSuits
<1>6. CASE Pause!Unresolved # {}
  <2>1. Pause!Unresolved' = Pause!Unresolved
    BY <1>1, <1>2, <1>3, <1>6 DEF Pause!Unresolved
  <2>2. c \notin Pause!Unresolved
    BY <1>1 DEF Pause!Unresolved
  <2> QED BY <1>1, <1>3, <1>5, <1>6, <2>1, <2>2
          DEF PauseTrue, Pause!PausedIsTrue, Pause!Unresolved, Pause!TokenStatus
<1>7. CASE Pause!Unresolved = {}
  <2>1. Pause!Unresolved' = {c}
    BY <1>1, <1>2, <1>3, <1>7 DEF Pause!Unresolved
  <2>2. target.status = Pause!TokenStatus(contract)
    BY <1>7 DEF PauseTrue, Pause!PausedIsTrue
  <2> QED BY <1>1, <1>2, <1>3, <1>4, <1>5, <1>7, <2>1, <2>2
          DEF PauseTrue, Pause!PausedIsTrue, Pause!TokenStatus
<1> QED BY <1>6, <1>7

LEMMA PauseDecisionIsTrue ==
    ASSUME PauseInv, PauseTrue, NEW w \in Workers, Pause!RecordDecision(w)
    PROVE  PauseTrue'
<1> DEFINE c == worker[w].command
<1>1. /\ c \in Commands /\ PauseFits(operation[c], row[c]) /\ row[c] \in Pause!Change
      /\ Sound(operation[c]) /\ RunsSound /\ worker[w].pc = "decide"
  BY PauseInHand, PauseRuns DEF Pause!RecordDecision
<1>2. UNCHANGED <<target, contract, operation>>
  BY DEF Pause!RecordDecision
<1>3. \A status : Pause!Onward(status) # "decide"
  BY DEF Pause!Onward
<1>4. CASE row' = row
  <2>0. GotoSeeing(w, "refused", FALSE) \/ \E status : GotoSeeing(w, Pause!Onward(status), FALSE)
    BY PauseRuns DEF Pause!RecordDecision
  <2>1. ASSUME NEW pc, pc # "decide", GotoSeeing(w, pc, FALSE)
        PROVE  \A v \in Workers : worker'[v] = worker[v] \/ worker'[v].pc # "decide"
    BY <1>1, <2>1, RunsGoOn
  <2>2. \A v \in Workers : worker'[v] = worker[v] \/ worker'[v].pc # "decide"
    <3>1. CASE GotoSeeing(w, "refused", FALSE)
      BY <2>1, <3>1
    <3>2. ASSUME NEW status, GotoSeeing(w, Pause!Onward(status), FALSE)
          PROVE  \A v \in Workers : worker'[v] = worker[v] \/ worker'[v].pc # "decide"
      BY <1>3, <2>1, <3>2
    <3> QED BY <2>0, <3>1, <3>2
  <2> QED BY <1>2, <1>4, <2>2, PauseRests DEF NoneDone
<1>5. CASE row' # row
  <2> DEFINE status == IF worker[w].seen = row[c].paused THEN "observed" ELSE "executing"
             r == [row[c] EXCEPT !.status = status]
  <2>1. /\ row[c].status = "pending"
        /\ row' = [row EXCEPT ![c] = r] /\ GotoSeeing(w, Pause!Onward(status), FALSE)
    BY <1>5, PauseRuns DEF Pause!RecordDecision, Pause!Undecided, Pause!Row
  <2>2. \A v \in Workers : worker'[v] = worker[v] \/ worker'[v].pc # "decide"
    BY <1>1, <1>3, <2>1, RunsGoOn
  <2>3. worker[w].seen = contract
    BY <1>1, <2>1 DEF PauseTrue
  <2>4. r.status = status /\ r.completed = row[c].completed /\ r.paused = row[c].paused
    BY <1>1 DEF Pause!Change
  <2>5. row'[c] = r /\ \A d \in Commands : d # c => row'[d] = row[d]
    BY <1>1, <2>1 DEF PauseInv
  <2>6. CASE worker[w].seen = row[c].paused
    <3>1. Pause!Unresolved' = Pause!Unresolved /\ c \in Pause!Unresolved
      BY <1>1, <2>1, <2>4, <2>5 DEF Pause!Unresolved, PauseFits, Pause!Terminal
    <3>2. r.status = "observed" /\ contract' = row'[c].paused
      BY <1>2, <2>3, <2>4, <2>5, <2>6
    <3>3. \A d \in Pause!Unresolved : d = c
      BY <3>1 DEF PauseTrue
    <3>4. ASSUME NEW v \in Workers, worker'[v].pc = "decide",
                 row'[worker'[v].command].status = "pending"
          PROVE  worker'[v].seen = contract'
      <4>1. worker'[v] = worker[v] /\ worker[v].command \in Commands
        BY <2>2, <3>4 DEF PauseInv
      <4>2. worker[v].command # c
        BY <2>5, <3>2, <3>4, <4>1
      <4> QED BY <1>2, <2>5, <3>4, <4>1, <4>2 DEF PauseTrue
    <3> HIDE DEF r
    <3> QED BY <1>2, <2>5, <3>1, <3>2, <3>3, <3>4 DEF PauseTrue, Pause!PausedIsTrue
  <2>7. CASE worker[w].seen # row[c].paused
    <3>1. PauseAlike(row[c], r)
      BY <2>1, <2>4, <2>7 DEF PauseAlike
    <3> HIDE DEF r
    <3> QED BY <1>1, <1>2, <2>1, <2>2, <3>1, PauseRewrites
  <2> QED BY <2>6, <2>7
<1> QED BY <1>4, <1>5

LEMMA PauseRowsAreTrue ==
    ASSUME PauseInv, PauseTrue, NEW w \in Workers,
           Pause!RefuseUnsigned(w) \/ Pause!Bind(w) \/ Pause!RecordOutcome(w)
    PROVE  PauseTrue'
<1> DEFINE c == worker[w].command
<1>1. c \in Commands /\ row[c] \in Pause!Change /\ RunsSound /\ PauseSuits(worker[w], operation[c], row[c])
  BY PauseInHand, PauseRuns DEF Pause!RefuseUnsigned, Pause!Bind, Pause!RecordOutcome
<1>2. UNCHANGED <<target, contract, operation>>
  BY DEF Pause!RefuseUnsigned, Pause!Bind, Pause!RecordOutcome
<1>3. \A v \in Workers : worker'[v] = worker[v] \/ worker'[v].pc # "decide"
  <2>1. \E pc : Goto(w, pc) /\ pc # "decide"
    BY PauseRuns DEF Pause!RefuseUnsigned, Pause!Bind, Pause!RecordOutcome
  <2> QED BY <1>1, <2>1, RunsGoOn
<1>4. CASE row' = row
  BY <1>2, <1>3, <1>4, PauseRests DEF NoneDone
<1>5. ASSUME NEW r, row' = [row EXCEPT ![c] = r], PauseAlike(row[c], r)
      PROVE  PauseTrue'
  BY <1>1, <1>2, <1>3, <1>5, PauseRewrites
<1>6. CASE Pause!RefuseUnsigned(w) /\ row' # row
  <2> DEFINE r == [row[c] EXCEPT !.status = "failed"]
  <2>1. row' = [row EXCEPT ![c] = r] /\ row[c].status = "pending"
    BY <1>6 DEF Pause!RefuseUnsigned, Pause!Row
  <2>2. PauseAlike(row[c], r)
    BY <1>1, <2>1 DEF PauseAlike, Pause!Change
  <2> QED BY <1>5, <2>1, <2>2
<1>7. CASE Pause!Bind(w)
  <2> DEFINE r == [row[c] EXCEPT !.bound = TRUE]
  <2>1. row' = [row EXCEPT ![c] = r]
    BY <1>7 DEF Pause!Bind
  <2>2. PauseAlike(row[c], r)
    BY <1>1 DEF PauseAlike, Pause!Change
  <2> QED BY <1>5, <2>1, <2>2
<1>8. CASE Pause!RecordOutcome(w)
  <2> DEFINE r == [row[c] EXCEPT !.status = Pause!Outcome(w)]
  <2>1. row' = [row EXCEPT ![c] = r]
    BY <1>8 DEF Pause!RecordOutcome
  <2>2. \/ Pause!Outcome(w) = row[c].status
        \/ row[c].status = "executing" /\ Pause!Outcome(w) \in {"confirmed", "failed"}
    BY DEF Pause!Outcome, Pause!Row
  <2>3. PauseAlike(row[c], r)
    BY <1>1, <2>2 DEF PauseAlike, Pause!Change
  <2> QED BY <1>5, <2>1, <2>3
<1> QED BY <1>4, <1>6, <1>7, <1>8

LEMMA PauseProjectIsTrue ==
    ASSUME PauseInv, PauseTrue, NEW w \in Workers, Pause!Project(w)
    PROVE  PauseTrue'
<1> DEFINE c == worker[w].command
           r == [row[c] EXCEPT !.completed = TRUE]
<1>1. /\ c \in Commands /\ PauseFits(operation[c], row[c]) /\ row[c] \in Pause!Change
      /\ Sound(operation[c]) /\ RunsSound /\ PauseSuits(worker[w], operation[c], row[c])
  BY PauseInHand, PauseRuns DEF Pause!Project
<1>2. Finish(w) /\ UNCHANGED <<contract, operation>>
  BY PauseRuns DEF Pause!Project
<1>3. \A v \in Workers : worker'[v] = worker[v] \/ worker'[v].pc = "idle"
  BY <1>1, <1>2, RunsGoOn
<1>4. CASE UNCHANGED <<row, target>>
  BY <1>2, <1>3, <1>4, PauseRests DEF NoneDone
<1>5. CASE /\ ~row[c].completed /\ row[c].status \in Pause!Terminal
           /\ row[c].status = "failed" \/ target.owned
           /\ row' = [row EXCEPT ![c].completed = TRUE]
           /\ IF row[c].status # "failed" /\ target.owned
              THEN target' = [target EXCEPT !.status = Pause!TokenStatus(row[c].paused)]
              ELSE UNCHANGED target
  <2>1. row' = [row EXCEPT ![c] = r] /\ r.status = row[c].status /\ r.completed
    BY <1>1, <1>5 DEF Pause!Change
  <2>2. row'[c] = r /\ \A d \in Commands : d # c => row'[d] = row[d]
    BY <1>1, <2>1 DEF PauseInv
  <2>3. c \in Pause!Unresolved
    BY <1>1, <1>5 DEF Pause!Unresolved, Pause!Terminal
  <2>4. Pause!Unresolved' = {}
    <3>1. \A d \in Pause!Unresolved : d = c
      BY <2>3 DEF PauseTrue
    <3> HIDE DEF r
    <3> QED BY <2>1, <2>2, <3>1 DEF Pause!Unresolved
  <2>5. row[c].status = "confirmed" => Done(operation[c])
    BY <1>1, DoneIs DEF PauseFits
  <2>6. row[c].status = "failed" => ~Done(operation[c])
    BY <1>1, DoneIs DEF PauseFits
  <2>7. /\ target'.status = Pause!TokenStatus(contract)
        /\ target' \in [status : {"deployed", "paused"}, owned : BOOLEAN]
    <3>1. CASE row[c].status = "failed"
      BY <1>5, <2>3, <2>6, <3>1 DEF PauseTrue
    <3>2. CASE row[c].status # "failed"
      <4>1. contract = row[c].paused
        BY <1>5, <2>3, <2>5, <3>2 DEF PauseTrue, Pause!Terminal
      <4> QED BY <1>5, <3>2, <4>1 DEF PauseTrue, Pause!TokenStatus
    <3> QED BY <3>1, <3>2
  <2>8. ASSUME NEW v \in Workers, worker'[v].pc = "decide",
               row'[worker'[v].command].status = "pending"
        PROVE  worker'[v].seen = contract'
    <3>1. worker'[v] = worker[v] /\ worker[v].command \in Commands
      BY <1>3, <2>8 DEF PauseInv
    <3>2. row[worker[v].command].status = "pending"
      BY <2>1, <2>2, <2>8, <3>1
    <3> QED BY <1>2, <2>8, <3>1, <3>2 DEF PauseTrue
  <2> HIDE DEF r
  <2> QED BY <1>2, <2>4, <2>7, <2>8 DEF PauseTrue, Pause!PausedIsTrue, Pause!TokenStatus
<1> QED BY <1>4, <1>5 DEF Pause!Project, Pause!Row, Pause!rows, Pause!Receives

LEMMA PauseMineIsTrue ==
    ASSUME PauseInv, PauseTrue, NEW c \in Commands, NEW k \in Claims,
           NEW outcome \in {"mined", "reverted"}, Pause!Mine(c, k, outcome)
    PROVE  PauseTrue'
<1>1. Mined(c, k, outcome) /\ UNCHANGED <<row, target>>
  BY PauseIs DEF Pause!Mine, Pause!rows
<1>2. /\ operation[c].status = "signed" /\ ~Done(operation[c])
      /\ \A d \in Commands : d # c => operation'[d] = operation[d]
      /\ Done(operation'[c]) <=> outcome = "mined"
      /\ worker' = worker
  BY <1>1, ChainDoes DEF PauseInv
<1>3. CASE outcome = "reverted"
  <2>1. NoneDone /\ contract' = contract
    BY <1>2, <1>3 DEF NoneDone, Pause!Mine
  <2> QED BY <1>1, <1>2, <2>1, PauseRests
<1>4. CASE outcome = "mined"
  <2>1. contract' = row[c].paused
    BY <1>4 DEF Pause!Mine
  <2>2. PauseFits(operation[c], row[c]) /\ row[c] \in Pause!Change
    BY DEF PauseInv
  <2>3. row[c].status = "executing" /\ ~row[c].completed
    BY <1>2, <2>2 DEF PauseFits, Pause!Terminal, Pause!Change, Pause!ChangeStatus
  <2>4. c \in Pause!Unresolved /\ \A d \in Pause!Unresolved : d = c
    BY <2>3 DEF Pause!Unresolved, PauseTrue
  <2>5. Pause!Unresolved' = Pause!Unresolved
    BY <1>1 DEF Pause!Unresolved
  <2>6. ASSUME NEW v \in Workers, worker[v].pc = "decide",
               row[worker[v].command].status = "pending"
        PROVE  FALSE
    <3> DEFINE d == worker[v].command
    <3>1. d \in Commands /\ PauseFits(operation[d], row[d])
      BY <2>6 DEF PauseInv
    <3>2. d \in Pause!Unresolved
      BY <2>6, <3>1 DEF Pause!Unresolved, PauseFits, Pause!Terminal
    <3> QED BY <2>3, <2>4, <2>6, <3>2
  <2>7. contract' \in BOOLEAN
    BY <2>1, <2>2 DEF Pause!Change
  <2> QED BY <1>1, <1>2, <1>4, <2>1, <2>4, <2>5, <2>6, <2>7 DEF PauseTrue, Pause!PausedIsTrue
<1> QED BY <1>3, <1>4

LEMMA PauseKeepsTrue ==
    ASSUME PauseInv, PauseTrue, Pause!Next
    PROVE  PauseTrue'
<1>1. CASE Pause!ChangeOwner
  <2>1. target' \in [status : {"deployed", "paused"}, owned : BOOLEAN] /\ target'.status = target.status
    BY <1>1 DEF Pause!ChangeOwner, PauseTrue
  <2> QED BY <1>1, <2>1, PauseStays DEF Pause!ChangeOwner, NoneDone, PauseAlike
<1>2. ASSUME NEW w \in Workers, Pause!Recover(w) PROVE PauseTrue'
  <2>0. RunsSound /\ OperationsSound
    BY DEF PauseInv
  <2>1. CASE Pause!Begin(w) \/ Pause!Settle(w) \/ Pause!Resume(w)
    <3>1. /\ UNCHANGED <<row, target, contract, operation>>
          /\ \E pc : /\ pc # "decide"
                     /\ Goto(w, pc) \/ (\E seen : GotoSeeing(w, pc, seen))
                        \/ (\E c, retry : Take(w, pc, c, retry))
      BY <2>1, PauseRuns DEF Pause!Begin, Pause!Settle, Pause!Resume, Pause!rows, Pause!Onward
    <3>2. \A v \in Workers : worker'[v] = worker[v] \/ worker'[v].pc # "decide"
      BY <2>0, <3>1, RunsGoOn
    <3> QED BY <3>1, <3>2, PauseRests DEF NoneDone
  <2>2. CASE Pause!ReadContract(w)
    <3>1. worker[w].command \in Commands /\ {"decide", "refused"} \subseteq Steps
      BY <2>2, PauseRuns, PauseInHand DEF Pause!ReadContract, Steps
    <3>2. \/ GotoSeeing(w, "decide", contract)
          \/ Goto(w, "refused")
      BY <2>2, PauseRuns DEF Pause!ReadContract
    <3>3. \A v \in Workers :
             worker'[v] = worker[v] \/ worker'[v].pc # "decide" \/ worker'[v].seen = contract
      <4>1. CASE Goto(w, "refused")
        BY <2>0, <4>1, RunsGoOn
      <4>2. CASE GotoSeeing(w, "decide", contract)
        BY <2>0, <3>1, <4>2, GotoSeeingGoes DEF Only, PauseTrue
      <4> QED BY <3>2, <4>1, <4>2
    <3> QED BY <2>2, <3>3, PauseRests DEF NoneDone, Pause!ReadContract, Pause!rows
  <2>3. CASE (Pause!Journal(w) \/ Pause!Look(w)) /\ UNCHANGED <<row, target, contract>>
    <3>1. Open(w) \/ Followed(w)
      BY <2>3, PauseRuns
    <3> QED BY <2>0, <2>3, <3>1, JournalGoesOn, PauseRests
  <2>4. CASE Pause!SignPause(w) \/ Pause!GiveUp(w)
    <3>1. /\ Sign(w) \/ FailPreparing(w)
          /\ UNCHANGED <<row, target, contract>>
      BY <2>4, PauseIs DEF Pause!SignPause, Pause!GiveUp, Pause!rows
    <3>2. NoneDone
      BY <2>0, <3>1, JournalDoesNothing
    <3>3. Goto(w, "look") \/ Goto(w, "outcome") \/ Finish(w)
      BY <2>4, PauseRuns, PauseIs DEF Pause!SignPause, Pause!GiveUp, Sign
    <3>4. \A v \in Workers : worker'[v] = worker[v] \/ worker'[v].pc # "decide"
      BY <2>0, <3>3, RunsGoOn
    <3> QED BY <3>1, <3>2, <3>4, PauseRests
  <2> QED BY <1>2, <2>1, <2>2, <2>3, <2>4, PauseDecisionIsTrue, PauseRowsAreTrue,
             PauseProjectIsTrue DEF Pause!Recover, Pause!rows
<1> QED BY <1>1, <1>2, PauseSubmitIsTrue, PauseMineIsTrue DEF Pause!Next, Pause!Claims, Claims

LEMMA PauseBeginsTrue == Pause!Init => PauseTrue
<1> SUFFICES ASSUME Pause!Init PROVE PauseTrue
  OBVIOUS
<1>1. PauseInv
  BY PauseInitFits
<1>2. /\ Pause!Unresolved = {} /\ \A w \in Workers : worker[w].pc # "decide"
      /\ target.status = Pause!TokenStatus(contract)
  BY IdleRun DEF Pause!Init, Pause!NoChange, Pause!Unresolved, Pause!JournalInit, Pause!Idle, Idle
<1>3. contract \in BOOLEAN /\ target \in [status : {"deployed", "paused"}, owned : BOOLEAN]
  BY DEF Pause!Init, Pause!TokenStatus
<1> QED BY <1>2, <1>3 DEF PauseTrue, Pause!PausedIsTrue

LEMMA PauseTypes == PauseInv /\ PauseTrue => Pause!TypeOK
BY DEF PauseInv, PauseTrue, OperationsSound, RunsSound, Pause!TypeOK, Pause!JournalTypeOK,
   Pause!Operation, Operation, Pause!Run, Run, Pause!Steps, Steps, Pause!TxState, TxState,
   Pause!Claims, Claims

-----------------------------------------------------------------------------
(* NAVUpdate.                                                              *)

\* The token is valued as the contract is, or by a submission meant for it only.
NAVSame == target = contract \/ (target # None /\ row[target].mode = "local")

\* That is so until the transaction of the unresolved submission is executed,
\* and from then on the contract holds what it submitted.
NAVTrue ==
    /\ target \in Commands \cup {None} /\ contract \in Commands \cup {None}
    /\ target # None => row[target].status # "none"
    /\ NAV!Unresolved = {} => NAVSame
    /\ \A c \in NAV!Unresolved : IF Done(operation[c]) THEN contract = c ELSE NAVSame

LEMMA NAVStays ==
    ASSUME NAVTrue, NoneDone, UNCHANGED <<target, contract>>,
           \A c \in Commands :
              /\ row'[c].status = "none" <=> row[c].status = "none"
              /\ row'[c].completed = row[c].completed /\ row'[c].mode = row[c].mode
    PROVE  NAVTrue'
<1>1. NAV!Unresolved' = NAV!Unresolved
  BY DEF NAV!Unresolved
<1>2. NAVSame' <=> NAVSame
  BY DEF NAVSame, NAVTrue
<1>3. ASSUME NEW c \in NAV!Unresolved
      PROVE  IF Done(operation'[c]) THEN contract' = c ELSE NAVSame'
  <2>1. c \in Commands
    BY DEF NAV!Unresolved
  <2> QED BY <1>2, <2>1 DEF NoneDone, NAVTrue
<1> QED BY <1>1, <1>2, <1>3 DEF NAVTrue

LEMMA NAVRests ==
    ASSUME NAVTrue, NoneDone, UNCHANGED <<row, target, contract>>
    PROVE  NAVTrue'
BY NAVStays

LEMMA NAVRewrites ==
    ASSUME NAVInv, NAVTrue, UNCHANGED <<operation, target, contract>>, NEW c \in Commands,
           NEW status, NEW bound, row[c].status # "none", status # "none",
           row' = [row EXCEPT ![c] = [row[c] EXCEPT !.status = status, !.bound = bound]]
    PROVE  NAVTrue'
<1> DEFINE r == [row[c] EXCEPT !.status = status, !.bound = bound]
<1>1. r.status = status /\ r.completed = row[c].completed /\ r.mode = row[c].mode
  BY DEF NAVInv, NAV!Update
<1>2. \A d \in Commands : row'[d] = IF d = c THEN r ELSE row[d]
  BY DEF NAVInv
<1> HIDE DEF r
<1> QED BY <1>1, <1>2, NAVStays DEF NoneDone

\* A submission is resolved.
LEMMA NAVResolves ==
    ASSUME NAVInv, NAVTrue, UNCHANGED <<operation, contract>>, NEW c \in NAV!Unresolved,
           NEW r, row' = [row EXCEPT ![c] = r], r.completed, r.status # "none",
           r.mode = row[c].mode,
           \/ target' = target /\ ~Done(operation[c])
           \/ target' = c /\ Done(operation[c])
    PROVE  NAVTrue'
<1>1. c \in Commands
  BY DEF NAV!Unresolved
<1>2. \A d \in Commands : row'[d] = IF d = c THEN r ELSE row[d]
  BY <1>1 DEF NAVInv
<1>3. NAV!Unresolved' = {}
  BY <1>2 DEF NAV!Unresolved, NAVInv
<1>4. NAVSame' /\ target' \in Commands \cup {None} /\ (target' # None => row'[target'].status # "none")
  BY <1>1, <1>2 DEF NAVSame, NAVTrue
<1> QED BY <1>3, <1>4 DEF NAVTrue

LEMMA NAVSubmitIsTrue ==
    ASSUME NAVInv, NAVTrue, NEW c \in Commands, NEW mode \in {"local", "chain"},
           NAV!Submit(c, mode)
    PROVE  NAVTrue'
<1> DEFINE status == IF NAV!Refused(mode) THEN "failed"
                     ELSE IF mode = "local" THEN "applied" ELSE "queued"
           r == [status |-> status, mode |-> mode, bound |-> FALSE, completed |-> status # "queued"]
<1>1. /\ row' = [row EXCEPT ![c] = r] /\ row[c].status = "none"
      /\ target' = IF status = "applied" THEN c ELSE target
      /\ UNCHANGED <<operation, worker, contract>>
  BY DEF NAV!Submit
<1>2. /\ r.status = status /\ (r.completed <=> status # "queued") /\ r.mode = mode
      /\ status = IF NAV!Unresolved # {} THEN "failed"
                  ELSE IF mode = "local" THEN "applied" ELSE "queued"
  BY DEF NAV!Refused
<1> HIDE DEF r, status
<1>3. \A d \in Commands : row'[d] = IF d = c THEN r ELSE row[d]
  BY <1>1 DEF NAVInv
<1>4. ~Done(operation[c])
  <2>1. Sound(operation[c]) /\ NAVFits(operation[c], row[c])
    BY DEF NAVInv, OperationsSound
  <2> QED BY <1>1, <2>1, DoneIs DEF NAVFits
<1>5. target # c /\ c \notin NAV!Unresolved /\ c # None
  BY <1>1, Bounded DEF NAVTrue, NAV!Unresolved
<1>6. NAV!Unresolved' = IF status = "queued" THEN NAV!Unresolved \cup {c} ELSE NAV!Unresolved
  BY <1>1, <1>2, <1>3 DEF NAV!Unresolved
<1>7. status # "applied" /\ NAVSame => NAVSame'
  BY <1>1, <1>3, <1>5 DEF NAVSame, NAVTrue
<1>8. status = "applied" => NAVSame'
  BY <1>1, <1>2, <1>3, <1>5 DEF NAVSame
<1>9. target' \in Commands \cup {None} /\ (target' # None => row'[target'].status # "none")
  BY <1>1, <1>2, <1>3, <1>5 DEF NAVTrue
<1>10. NAV!Unresolved' = {} => NAVSame'
  BY <1>2, <1>6, <1>7, <1>8 DEF NAVTrue
<1>11. ASSUME NEW d \in NAV!Unresolved'
       PROVE  IF Done(operation'[d]) THEN contract' = d ELSE NAVSame'
  <2>1. CASE d = c
    <3>1. status = "queued"
      BY <1>5, <1>6, <1>11, <2>1
    <3>2. NAVSame'
      BY <1>2, <1>7, <3>1 DEF NAVTrue
    <3> QED BY <1>1, <1>4, <2>1, <3>2
  <2>2. CASE d # c
    <3>1. d \in NAV!Unresolved
      BY <1>6, <1>11, <2>2
    <3>2. status = "failed"
      BY <1>2, <3>1
    <3> QED BY <1>1, <1>7, <3>1, <3>2 DEF NAVTrue
  <2> QED BY <2>1, <2>2
<1> QED BY <1>1, <1>9, <1>10, <1>11 DEF NAVTrue

LEMMA NAVRowsAreTrue ==
    ASSUME NAVInv, NAVTrue, NEW w \in Workers,
           NAV!Decide(w) \/ NAV!Bind(w) \/ NAV!RecordOutcome(w)
    PROVE  NAVTrue'
<1> DEFINE c == worker[w].command
           old == row[c]
<1>1. /\ c \in Commands /\ old \in NAV!Update /\ old.status # "none"
  BY NAVInHand, NAVRuns DEF NAV!Decide, NAV!Bind, NAV!RecordOutcome, NAVSuits
<1>2. UNCHANGED <<target, contract, operation>>
  BY DEF NAV!Decide, NAV!Bind, NAV!RecordOutcome
<1>3. CASE row' = row
  BY <1>2, <1>3, NAVRests DEF NoneDone
<1>4. ASSUME NEW status, NEW bound, status # "none",
             row' = [row EXCEPT ![c] = [old EXCEPT !.status = status, !.bound = bound]]
      PROVE  NAVTrue'
  BY <1>1, <1>2, <1>4, NAVRewrites
<1>5. CASE NAV!Decide(w)
  <2>1. CASE row' = [row EXCEPT ![c].status = "executing"]
    <3>1. row' = [row EXCEPT ![c] = [old EXCEPT !.status = "executing", !.bound = old.bound]]
      BY <1>1, <2>1 DEF NAVInv, NAV!Update
    <3> QED BY <1>4, <3>1
  <2> QED BY <1>3, <1>5, <2>1 DEF NAV!Decide
<1>6. CASE NAV!Bind(w)
  <2>1. row' = [row EXCEPT ![c] = [old EXCEPT !.status = old.status, !.bound = TRUE]]
    BY <1>1, <1>6 DEF NAVInv, NAV!Update, NAV!Bind
  <2> QED BY <1>1, <1>4, <2>1
<1>7. CASE NAV!RecordOutcome(w)
  <2>1. row' = [row EXCEPT ![c] = [old EXCEPT !.status = NAV!Outcome(w), !.bound = old.bound]]
    BY <1>1, <1>7 DEF NAVInv, NAV!Update, NAV!RecordOutcome
  <2>2. NAV!Outcome(w) # "none"
    BY <1>1 DEF NAV!Outcome, NAV!Row
  <2> QED BY <1>4, <2>1, <2>2
<1> QED BY <1>5, <1>6, <1>7

LEMMA NAVEndsAreTrue ==
    ASSUME NAVInv, NAVTrue, NEW w \in Workers, NAV!RefuseUnsigned(w) \/ NAV!Project(w)
    PROVE  NAVTrue'
<1> DEFINE c == worker[w].command
           old == row[c]
<1>1. /\ c \in Commands /\ old \in NAV!Update /\ old.status # "none"
      /\ NAVFits(operation[c], old) /\ Sound(operation[c])
  BY NAVInHand, NAVRuns DEF NAV!RefuseUnsigned, NAV!Project, NAVSuits
<1>2. UNCHANGED <<contract, operation>>
  BY DEF NAV!RefuseUnsigned, NAV!Project
<1>3. CASE UNCHANGED <<row, target>>
  BY <1>2, <1>3, NAVRests DEF NoneDone
<1>4. CASE /\ NAV!RefuseUnsigned(w) /\ old.status = "queued" /\ operation[c].status = "none"
           /\ row' = [row EXCEPT ![c].status = "failed", ![c].completed = TRUE]
           /\ target' = target
  <2> DEFINE r == [old EXCEPT !.status = "failed", !.completed = TRUE]
  <2>1. row' = [row EXCEPT ![c] = r]
    BY <1>1, <1>4 DEF NAVInv, NAV!Update
  <2>2. r.status = "failed" /\ r.completed /\ r.mode = old.mode
    BY <1>1 DEF NAV!Update
  <2>3. c \in NAV!Unresolved
    BY <1>1, <1>4 DEF NAV!Unresolved, NAVFits
  <2>4. ~Done(operation[c])
    BY <1>1, <1>4, DoneIs
  <2> HIDE DEF r
  <2> QED BY <1>2, <1>4, <2>1, <2>2, <2>3, <2>4, NAVResolves
<1>5. CASE /\ old.status \in {"confirmed", "failed"} /\ ~old.completed
           /\ row' = [row EXCEPT ![c].completed = TRUE]
           /\ target' = IF old.status = "confirmed" THEN c ELSE target
  <2> DEFINE r == [old EXCEPT !.completed = TRUE]
  <2>1. row' = [row EXCEPT ![c] = r]
    BY <1>5
  <2>2. r.status = old.status /\ r.completed /\ r.mode = old.mode
    BY <1>1 DEF NAV!Update
  <2>3. c \in NAV!Unresolved
    BY <1>1, <1>5 DEF NAV!Unresolved
  <2>4. IF old.status = "confirmed" THEN Done(operation[c]) ELSE ~Done(operation[c])
    BY <1>1, <1>5, DoneIs DEF NAVFits
  <2> HIDE DEF r
  <2> QED BY <1>1, <1>2, <1>5, <2>1, <2>2, <2>3, <2>4, NAVResolves
<1>6. CASE NAV!RefuseUnsigned(w)
  BY <1>3, <1>4, <1>6, NAVRuns DEF NAV!RefuseUnsigned, NAV!Refusable, NAV!Row
<1>7. CASE NAV!Project(w)
  BY <1>3, <1>5, <1>7 DEF NAV!Project, NAV!Projects, NAV!Row, NAV!rows
<1> QED BY <1>6, <1>7

LEMMA NAVMineIsTrue ==
    ASSUME NAVInv, NAVTrue, NEW c \in Commands, NEW k \in Claims,
           NEW outcome \in {"mined", "reverted"}, NAV!Mine(c, k, outcome)
    PROVE  NAVTrue'
<1>1. Mined(c, k, outcome) /\ UNCHANGED <<row, target>>
  BY NAVIs DEF NAV!Mine, NAV!rows
<1>2. /\ operation[c].status = "signed"
      /\ \A d \in Commands : d # c => operation'[d] = operation[d]
      /\ ~Done(operation[c]) /\ (Done(operation'[c]) <=> outcome = "mined")
  BY <1>1, ChainDoes DEF NAVInv
<1>3. CASE outcome = "reverted"
  <2>1. NoneDone /\ contract' = contract
    BY <1>2, <1>3 DEF NoneDone, NAV!Mine
  <2> QED BY <1>1, <2>1, NAVRests
<1>4. CASE outcome = "mined"
  <2>1. contract' = c
    BY <1>4 DEF NAV!Mine
  <2>2. NAVFits(operation[c], row[c]) /\ row[c] \in NAV!Update
    BY DEF NAVInv
  <2>3. row[c].status = "executing" /\ ~row[c].completed
    BY <1>2, <2>2 DEF NAVFits, NAV!Update, NAV!UpdateStatus
  <2>4. c \in NAV!Unresolved /\ \A d \in NAV!Unresolved : d = c
    BY <2>3 DEF NAV!Unresolved, NAVInv
  <2>5. NAV!Unresolved' = NAV!Unresolved
    BY <1>1 DEF NAV!Unresolved
  <2> QED BY <1>1, <1>2, <1>4, <2>1, <2>4, <2>5 DEF NAVTrue
<1> QED BY <1>3, <1>4

LEMMA NAVKeepsTrue ==
    ASSUME NAVInv, NAVTrue, NAV!Next
    PROVE  NAVTrue'
<1>0. RunsSound /\ OperationsSound
  BY DEF NAVInv
<1>1. ASSUME NEW w \in Workers, NAV!Recover(w) PROVE NAVTrue'
  <2>1. CASE NAV!Begin(w) \/ NAV!Settle(w) \/ NAV!Resume(w)
    BY <2>1, NAVRests DEF NAV!Begin, NAV!Settle, NAV!Resume, NAV!rows, NoneDone
  <2>2. CASE (NAV!Journal(w) \/ NAV!Look(w)) /\ UNCHANGED <<row, target, contract>>
    BY <1>0, <2>2, NAVRuns, JournalGoesOn, NAVRests
  <2>3. CASE NAV!SignUpdate(w) \/ NAV!GiveUp(w)
    BY <1>0, <2>3, NAVIs, JournalDoesNothing, NAVRests DEF NAV!SignUpdate, NAV!GiveUp, NAV!rows
  <2> QED BY <1>1, <2>1, <2>2, <2>3, NAVRowsAreTrue, NAVEndsAreTrue DEF NAV!Recover, NAV!rows
<1> QED BY <1>1, NAVSubmitIsTrue, NAVMineIsTrue DEF NAV!Next, NAV!Claims, Claims

LEMMA NAVBeginsTrue == NAV!Init => NAVTrue
BY Bounded DEF NAV!Init, NAV!NoUpdate, NAV!Unresolved, NAVTrue, NAVSame

LEMMA NAVTypes == NAVInv /\ NAVTrue => NAV!TypeOK
BY DEF NAVInv, NAVTrue, OperationsSound, RunsSound, NAV!TypeOK, NAV!JournalTypeOK,
   NAV!Operation, Operation, NAV!Run, Run, NAV!Steps, Steps, NAV!TxState, TxState,
   NAV!Claims, Claims

LEMMA ValuationHolds == NAVTrue => NAV!ValuationIsTrue
BY DEF NAVTrue, NAVSame, NAV!ValuationIsTrue

-----------------------------------------------------------------------------
(* WhitelistChange.                                                        *)

\* Until the transaction of the unresolved change is executed the entry holds
\* the registry's membership, and from then on the registry is as the change
\* wants it.  A sync that can still write has read what the registry says, or
\* what the unresolved change will write over.
WhitelistTrue ==
    /\ target \in [status : {"pending", "active", "removed", "failed"}, member : BOOLEAN,
                   current : SUBSET Workers]
    /\ Whitelist!MembershipIsTrue
    /\ \A c \in Whitelist!Unresolved :
          IF Done(operation[c]) THEN contract = row[c].add ELSE target.member = contract
    /\ \A w \in Workers :
          /\ worker[w].pc = "decide" /\ row[worker[w].command].status = "pending" =>
                worker[w].seen = contract
          /\ worker[w].pc = "write" /\ w \in target.current =>
                worker[w].seen = contract \/ \E c \in Whitelist!Unresolved : Done(operation[c])

LEMMA WhitelistStays ==
    ASSUME WhitelistInv, WhitelistTrue, NoneDone, contract' = contract,
           target'.status = target.status, target'.member = target.member,
           target' \in [status : {"pending", "active", "removed", "failed"}, member : BOOLEAN,
                        current : SUBSET Workers],
           \A c \in Commands :
              /\ row'[c].status \in {"pending", "executing"} <=> row[c].status \in {"pending", "executing"}
              /\ row'[c].status = "pending" => row[c].status = "pending"
              /\ row'[c].add = row[c].add,
           \A w \in Workers :
              \/ worker'[w] = worker[w] /\ (w \in target'.current => w \in target.current)
              \/ worker'[w].pc \notin {"decide", "write"}
              \/ worker'[w].seen = contract
    PROVE  WhitelistTrue'
<1>1. Whitelist!Unresolved' = Whitelist!Unresolved
  BY DEF Whitelist!Unresolved
<1>2. Whitelist!MembershipIsTrue'
  BY <1>1 DEF WhitelistTrue, Whitelist!MembershipIsTrue, Whitelist!EntryStatus
<1>3. \A c \in Whitelist!Unresolved :
         /\ c \in Commands /\ (Done(operation'[c]) <=> Done(operation[c]))
         /\ row'[c].add = row[c].add
  BY DEF Whitelist!Unresolved, NoneDone
<1>4. ASSUME NEW w \in Workers
      PROVE  /\ worker'[w].pc = "decide" /\ row'[worker'[w].command].status = "pending" =>
                   worker'[w].seen = contract'
             /\ worker'[w].pc = "write" /\ w \in target'.current =>
                   worker'[w].seen = contract' \/ \E c \in Whitelist!Unresolved' : Done(operation'[c])
  <2>1. CASE worker'[w] = worker[w] /\ (w \in target'.current => w \in target.current)
    <3>1. worker[w].pc = "decide" => worker[w].command \in Commands
      BY DEF WhitelistInv, Syncs
    <3>2. CASE worker[w].pc = "decide"
      BY <2>1, <3>1, <3>2 DEF WhitelistTrue
    <3>3. CASE worker[w].pc = "write"
      BY <1>1, <1>3, <2>1, <3>3 DEF WhitelistTrue
    <3> QED BY <2>1, <3>2, <3>3
  <2>2. CASE worker'[w].pc \notin {"decide", "write"} \/ worker'[w].seen = contract
    BY <2>2
  <2> QED BY <2>1, <2>2
<1>5. \A c \in Whitelist!Unresolved' :
         IF Done(operation'[c]) THEN contract' = row'[c].add ELSE target'.member = contract'
  BY <1>1, <1>3 DEF WhitelistTrue
<1> QED BY <1>2, <1>4, <1>5 DEF WhitelistTrue

LEMMA WhitelistRests ==
    ASSUME WhitelistInv, WhitelistTrue, NoneDone, UNCHANGED <<row, target, contract>>,
           \A w \in Workers :
              worker'[w] = worker[w] \/ worker'[w].pc \notin {"decide", "write"}
    PROVE  WhitelistTrue'
BY WhitelistStays DEF WhitelistTrue

LEMMA WhitelistRewrites ==
    ASSUME WhitelistInv, WhitelistTrue, UNCHANGED <<operation, target, contract>>,
           NEW c \in Commands, NEW r, row' = [row EXCEPT ![c] = r],
           r.status \in {"pending", "executing"} <=> row[c].status \in {"pending", "executing"},
           r.status = "pending" => row[c].status = "pending", r.add = row[c].add,
           \A w \in Workers :
              worker'[w] = worker[w] \/ worker'[w].pc \notin {"decide", "write"}
    PROVE  WhitelistTrue'
<1>1. \A d \in Commands : row'[d] = IF d = c THEN r ELSE row[d]
  BY DEF WhitelistInv
<1> QED BY <1>1, WhitelistStays DEF NoneDone, WhitelistTrue

\* A change is resolved, and the entry says what came of it.
LEMMA WhitelistResolves ==
    ASSUME WhitelistInv, WhitelistTrue, UNCHANGED <<operation, contract>>,
           NEW c \in Whitelist!Unresolved, NEW r, row' = [row EXCEPT ![c] = r],
           r.status \notin {"pending", "executing"},
           NEW status, NEW member, Whitelist!WriteEntry(status, member),
           member = contract, status \in {Whitelist!EntryStatus(contract), "failed"},
           \A w \in Workers :
              worker'[w] = worker[w] \/ worker'[w].pc \notin {"decide", "write"}
    PROVE  WhitelistTrue'
<1>1. c \in Commands /\ \A d \in Whitelist!Unresolved : d = c
  BY DEF Whitelist!Unresolved, WhitelistInv
<1>2. \A d \in Commands : row'[d] = IF d = c THEN r ELSE row[d]
  BY <1>1 DEF WhitelistInv
<1>3. Whitelist!Unresolved' = {}
  BY <1>1, <1>2 DEF Whitelist!Unresolved
<1>4. /\ target'.status = status /\ target'.member = contract /\ target'.current = {}
      /\ target' \in [status : {"pending", "active", "removed", "failed"}, member : BOOLEAN,
                      current : SUBSET Workers]
  <2>1. contract \in BOOLEAN /\ Whitelist!EntryStatus(contract) \in {"active", "removed"}
    BY <1>1 DEF WhitelistTrue, WhitelistInv, Whitelist!Change, Whitelist!EntryStatus
  <2> QED BY <2>1 DEF Whitelist!WriteEntry
<1>5. ASSUME NEW w \in Workers, worker'[w].pc = "decide",
             row'[worker'[w].command].status = "pending"
      PROVE  worker'[w].seen = contract'
  <2>1. worker'[w] = worker[w] /\ worker[w].command \in Commands
    BY <1>5 DEF WhitelistInv, Syncs
  <2> QED BY <1>2, <1>5, <2>1 DEF WhitelistTrue
<1> QED BY <1>3, <1>4, <1>5 DEF WhitelistTrue, Whitelist!MembershipIsTrue, Whitelist!EntryStatus

LEMMA WhitelistAdmitIsTrue ==
    ASSUME WhitelistInv, WhitelistTrue, NEW c \in Commands, NEW add \in BOOLEAN,
           Whitelist!Admit(c, add)
    PROVE  WhitelistTrue'
<1> DEFINE r == [Whitelist!NoChange EXCEPT !.status = "pending", !.add = add]
<1>1. /\ row' = [row EXCEPT ![c] = r] /\ row[c].status = "none" /\ Whitelist!Unresolved = {}
      /\ target' = [status |-> "pending", member |-> target.member, current |-> {}]
      /\ UNCHANGED <<contract, operation, worker>>
  BY DEF Whitelist!Admit, Whitelist!Write, Whitelist!WriteEntry
<1>2. r.status = "pending" /\ r.add = add
  BY DEF Whitelist!NoChange
<1> HIDE DEF r
<1>3. \A d \in Commands : row'[d] = IF d = c THEN r ELSE row[d]
  BY <1>1 DEF WhitelistInv
<1>4. Whitelist!Unresolved' = {c}
  BY <1>1, <1>2, <1>3 DEF Whitelist!Unresolved
<1>5. ~Done(operation[c])
  <2>1. Sound(operation[c]) /\ WhitelistFits(operation[c], row[c])
    BY DEF WhitelistInv, OperationsSound
  <2> QED BY <1>1, <2>1, DoneIs DEF WhitelistFits
<1>6. ASSUME NEW w \in Workers, worker[w].pc = "decide"
      PROVE  worker[w].command \in Commands /\ worker[w].command # c
  BY <1>1, <1>6 DEF WhitelistInv, WhitelistSuits, Syncs
<1>7. target.member = contract /\ target.member \in BOOLEAN
  BY <1>1 DEF WhitelistTrue, Whitelist!MembershipIsTrue
<1> QED BY <1>1, <1>3, <1>4, <1>5, <1>6, <1>7 DEF WhitelistTrue, Whitelist!MembershipIsTrue

LEMMA WhitelistDecisionsAreTrue ==
    ASSUME WhitelistInv, WhitelistTrue, NEW w \in Workers,
           Whitelist!RecordUnchanged(w) \/ Whitelist!RecordDecision(w)
    PROVE  WhitelistTrue'
<1> DEFINE c == worker[w].command
           old == row[c]
<1>1. /\ c \in Commands /\ old \in Whitelist!Change /\ RunsSound /\ worker[w].pc = "decide"
      /\ WhitelistSuits(worker[w], operation[c], old)
  BY WhitelistInHand, WhitelistRuns DEF Whitelist!RecordUnchanged, Whitelist!RecordDecision, Syncs
<1>2. UNCHANGED <<contract, operation>>
  BY DEF Whitelist!RecordUnchanged, Whitelist!RecordDecision
<1>3. ASSUME Finish(w) \/ GotoSeeing(w, "open", FALSE)
      PROVE  \A v \in Workers : worker'[v] = worker[v] \/ worker'[v].pc \notin {"decide", "write"}
  <2>1. CASE Finish(w)
    BY <1>1, <2>1, RunsGoOn
  <2>2. CASE GotoSeeing(w, "open", FALSE)
    <3>1. worker' = [worker EXCEPT ![w] = [worker[w] EXCEPT !.pc = "open", !.seen = FALSE]]
      BY <2>2 DEF GotoSeeing
    <3> QED BY <1>1, <3>1 DEF RunsSound, Run
  <2> QED BY <1>3, <2>1, <2>2
<1>4. CASE Whitelist!RecordUnchanged(w)
  <2> DEFINE r == [old EXCEPT !.status = "unchanged"]
  <2>1. /\ old.status = "pending" /\ worker[w].seen = old.add /\ row' = [row EXCEPT ![c] = r]
        /\ Whitelist!WriteEntry(Whitelist!EntryStatus(old.add), old.add) /\ Finish(w)
    BY <1>4, WhitelistRuns DEF Whitelist!RecordUnchanged, Whitelist!Undecided, Whitelist!Row,
       Whitelist!Write
  <2>2. old.add = contract
    BY <1>1, <2>1 DEF WhitelistTrue
  <2>3. c \in Whitelist!Unresolved
    BY <1>1, <2>1 DEF Whitelist!Unresolved
  <2>4. r.status = "unchanged"
    BY <1>1 DEF Whitelist!Change
  <2> HIDE DEF r
  <2> QED BY <1>2, <1>3, <2>1, <2>2, <2>3, <2>4, WhitelistResolves
<1>5. CASE Whitelist!RecordDecision(w)
  <2> DEFINE r == IF old.status = "pending" THEN [old EXCEPT !.status = "executing"] ELSE old
  <2>1. row' = [row EXCEPT ![c] = r] /\ target' = target /\ (Finish(w) \/ GotoSeeing(w, "open", FALSE))
    BY <1>5, WhitelistRuns DEF Whitelist!RecordDecision, Whitelist!Undecided, Whitelist!Row,
       Whitelist!Write
  <2>2. /\ r.status \in {"pending", "executing"} <=> old.status \in {"pending", "executing"}
        /\ r.status # "pending" /\ r.add = old.add
    BY <1>1 DEF Whitelist!Change
  <2> HIDE DEF r
  <2> QED BY <1>1, <1>2, <1>3, <2>1, <2>2, WhitelistRewrites
<1> QED BY <1>4, <1>5

LEMMA WhitelistProjectIsTrue ==
    ASSUME WhitelistInv, WhitelistTrue, NEW w \in Workers,
           Whitelist!Bind(w) \/ Whitelist!Project(w)
    PROVE  WhitelistTrue'
<1> DEFINE c == worker[w].command
           old == row[c]
           o == operation[c]
<1>1. /\ c \in Commands /\ old \in Whitelist!Change /\ RunsSound
      /\ WhitelistSuits(worker[w], o, old) /\ WhitelistFits(o, old) /\ Sound(o)
  BY WhitelistInHand, WhitelistRuns DEF Whitelist!Bind, Whitelist!Project, Syncs
<1>2. UNCHANGED <<contract, operation>>
  BY DEF Whitelist!Bind, Whitelist!Project
<1>3. Finish(w) \/ Goto(w, "reconcile") \/ Goto(w, "resume")
  BY WhitelistRuns DEF Whitelist!Bind, Whitelist!Project
<1>4. \A v \in Workers : worker'[v] = worker[v] \/ worker'[v].pc \notin {"decide", "write"}
  BY <1>1, <1>3, RunsGoOn
<1>5. CASE UNCHANGED <<row, target>>
  BY <1>2, <1>4, <1>5, WhitelistRests DEF NoneDone
<1>6. CASE Whitelist!Bind(w)
  <2> DEFINE r == [old EXCEPT !.bound = TRUE]
  <2>1. row' = [row EXCEPT ![c] = r] /\ target' = target
    BY <1>6 DEF Whitelist!Bind, Whitelist!Row, Whitelist!Write
  <2>2. r.status = old.status /\ r.add = old.add
    BY <1>1 DEF Whitelist!Change
  <2> HIDE DEF r
  <2> QED BY <1>1, <1>2, <1>4, <2>1, <2>2, WhitelistRewrites
<1>7. CASE Whitelist!Project(w) /\ old.status \notin Whitelist!Terminal
  <2> DEFINE verdict == Whitelist!Verdict(w)
             recorded == old.recorded \/ o.tx[worker[w].claim] # "none"
             r == [old EXCEPT !.status = verdict, !.recorded = recorded]
  <2>1. /\ row' = [row EXCEPT ![c] = r] /\ old.bound
        /\ CASE verdict = "confirmed" -> Whitelist!WriteEntry(Whitelist!EntryStatus(old.add), old.add)
             [] verdict = "failed" -> Whitelist!WriteEntry("failed", target.member)
             [] OTHER -> UNCHANGED target
    BY <1>7, WhitelistRuns DEF Whitelist!Project, Whitelist!Row, Whitelist!Write
  <2>2. r.status = verdict /\ r.add = old.add
    BY <1>1 DEF Whitelist!Change
  <2>3. old.status = "executing"
    BY <1>1, <1>7, <2>1 DEF WhitelistFits, WhitelistSuits, Whitelist!Change, Whitelist!Terminal
  <2>4. c \in Whitelist!Unresolved
    BY <1>1, <2>3 DEF Whitelist!Unresolved
  <2>5. /\ verdict \in {"confirmed", "failed", "executing"}
        /\ verdict = "confirmed" => o.status = "confirmed"
        /\ verdict = "failed" => o.status \in Undone
    BY WhitelistRuns DEF Whitelist!Verdict
  <2> HIDE DEF r, verdict
  <2>6. CASE verdict = "confirmed"
    <3>1. old.add = contract
      BY <1>1, <2>4, <2>5, <2>6, DoneIs DEF WhitelistTrue
    <3> QED BY <1>2, <1>4, <2>1, <2>2, <2>4, <2>6, <3>1, WhitelistResolves
  <2>7. CASE verdict = "failed"
    <3>1. target.member = contract
      BY <1>1, <2>4, <2>5, <2>7, DoneIs DEF WhitelistTrue
    <3> QED BY <1>2, <1>4, <2>1, <2>2, <2>4, <2>7, <3>1, WhitelistResolves
  <2>8. CASE verdict = "executing"
    <3>1. target' = target
      BY <2>1, <2>8
    <3> QED BY <1>1, <1>2, <1>4, <2>1, <2>2, <2>3, <2>8, <3>1, WhitelistRewrites
  <2> QED BY <2>5, <2>6, <2>7, <2>8
<1>8. CASE Whitelist!Project(w) /\ old.status \in Whitelist!Terminal
  BY <1>5, <1>8 DEF Whitelist!Project, Whitelist!Row, Whitelist!rows
<1> QED BY <1>6, <1>7, <1>8

LEMMA WhitelistSyncIsTrue ==
    ASSUME WhitelistInv, WhitelistTrue, NEW w \in Workers, Whitelist!Sync(w)
    PROVE  WhitelistTrue'
<1>0. worker \in [Workers -> Run]
  BY DEF WhitelistInv, RunsSound
<1>1. CASE Whitelist!SyncBegin(w)
  <2> DEFINE r == [Idle EXCEPT !.pc = "sync"]
  <2>1. /\ worker' = [worker EXCEPT ![w] = r]
        /\ target' = [target EXCEPT !.current = @ \cup {w}]
        /\ UNCHANGED <<row, contract, operation>>
    BY <1>1 DEF Whitelist!SyncBegin, Whitelist!Idle, Idle
  <2>2. r.pc = "sync"
    BY DEF Idle
  <2> HIDE DEF r
  <2>3. \A v \in Workers : worker'[v] = IF v = w THEN r ELSE worker[v]
    BY <1>0, <2>1
  <2>4. /\ target'.status = target.status /\ target'.member = target.member
        /\ target'.current = target.current \cup {w}
        /\ target' \in [status : {"pending", "active", "removed", "failed"}, member : BOOLEAN,
                        current : SUBSET Workers]
    BY <2>1 DEF WhitelistTrue
  <2> QED BY <2>1, <2>2, <2>3, <2>4, WhitelistStays DEF NoneDone
<1>2. CASE Whitelist!SyncRead(w)
  <2>1. /\ GotoSeeing(w, "write", contract)
        /\ UNCHANGED <<row, target, contract, operation>>
    BY <1>2, WhitelistRuns DEF Whitelist!SyncRead, Whitelist!rows
  <2>2. worker' = [worker EXCEPT ![w] = [worker[w] EXCEPT !.pc = "write", !.seen = contract]]
    BY <1>0, <2>1 DEF GotoSeeing
  <2>3. \A v \in Workers : worker'[v] = worker[v] \/ worker'[v].seen = contract
    BY <1>0, <2>2 DEF Run
  <2> QED BY <2>1, <2>3, WhitelistStays DEF NoneDone, WhitelistTrue
<1>3. CASE Whitelist!SyncWrite(w)
  <2>1. Finish(w) /\ UNCHANGED <<row, contract, operation>> /\ worker[w].pc = "write"
    BY <1>3, WhitelistRuns DEF Whitelist!SyncWrite
  <2>2. \A v \in Workers : worker'[v] = worker[v] \/ worker'[v].pc = "idle"
    BY <2>1, RunsGoOn DEF WhitelistInv
  <2>3. CASE target' = target
    BY <2>1, <2>2, <2>3, WhitelistRests DEF NoneDone
  <2>4. CASE /\ w \in target.current
             /\ Whitelist!WriteEntry(IF Whitelist!Unresolved = {} THEN Whitelist!EntryStatus(worker[w].seen)
                                     ELSE target.status, worker[w].seen)
    <3> DEFINE status == IF Whitelist!Unresolved = {} THEN Whitelist!EntryStatus(worker[w].seen)
                         ELSE target.status
    <3>1. worker[w].seen = contract \/ \E c \in Whitelist!Unresolved : Done(operation[c])
      BY <2>1, <2>4 DEF WhitelistTrue
    <3>2. target' = [status |-> status, member |-> worker[w].seen, current |-> {}]
      BY <2>4 DEF Whitelist!WriteEntry
    <3>3. status \in {"pending", "active", "removed", "failed"} /\ worker[w].seen \in BOOLEAN
      BY <1>0 DEF WhitelistTrue, Whitelist!EntryStatus, Run
    <3>4. Whitelist!Unresolved = {} => worker[w].seen = contract /\ status = Whitelist!EntryStatus(contract)
      BY <3>1
    <3>5. Whitelist!Unresolved' = Whitelist!Unresolved
      BY <2>1 DEF Whitelist!Unresolved
    <3> HIDE DEF status
    <3>6. /\ target'.status = status /\ target'.member = worker[w].seen /\ target'.current = {}
          /\ target' \in [status : {"pending", "active", "removed", "failed"}, member : BOOLEAN,
                          current : SUBSET Workers]
      BY <3>2, <3>3
    <3>7. Whitelist!MembershipIsTrue'
      BY <2>1, <3>4, <3>5, <3>6 DEF Whitelist!MembershipIsTrue, Whitelist!EntryStatus
    <3>8. ASSUME NEW c \in Whitelist!Unresolved
          PROVE  IF Done(operation[c]) THEN contract = row[c].add ELSE worker[w].seen = contract
      BY <3>1 DEF WhitelistTrue, WhitelistInv
    <3>9. ASSUME NEW v \in Workers, worker'[v].pc = "decide",
                 row[worker'[v].command].status = "pending"
          PROVE  worker'[v].seen = contract
      BY <2>2, <3>9 DEF WhitelistTrue
    <3> QED BY <2>1, <3>5, <3>6, <3>7, <3>8, <3>9 DEF WhitelistTrue
  <2> QED BY <1>3, <2>3, <2>4 DEF Whitelist!SyncWrite, Whitelist!Current
<1> QED BY <1>1, <1>2, <1>3 DEF Whitelist!Sync

LEMMA WhitelistMineIsTrue ==
    ASSUME WhitelistInv, WhitelistTrue, NEW c \in Commands, NEW k \in Claims,
           NEW outcome \in {"mined", "reverted"}, Whitelist!Mine(c, k, outcome)
    PROVE  WhitelistTrue'
<1>1. Mined(c, k, outcome) /\ UNCHANGED <<row, target>>
  BY WhitelistIs DEF Whitelist!Mine, Whitelist!rows
<1>2. /\ operation[c].status = "signed"
      /\ \A d \in Commands : d # c => operation'[d] = operation[d]
      /\ ~Done(operation[c]) /\ (Done(operation'[c]) <=> outcome = "mined") /\ worker' = worker
  BY <1>1, ChainDoes DEF WhitelistInv
<1>3. CASE outcome = "reverted"
  <2>1. NoneDone /\ contract' = contract
    BY <1>2, <1>3 DEF NoneDone, Whitelist!Mine
  <2> QED BY <1>1, <1>2, <2>1, WhitelistRests
<1>4. CASE outcome = "mined"
  <2>1. contract' = row[c].add
    BY <1>4 DEF Whitelist!Mine
  <2>2. WhitelistFits(operation[c], row[c]) /\ row[c] \in Whitelist!Change
    BY DEF WhitelistInv
  <2>3. row[c].status = "executing"
    BY <1>2, <2>2 DEF WhitelistFits, Whitelist!Change, Whitelist!Terminal
  <2>4. c \in Whitelist!Unresolved /\ \A d \in Whitelist!Unresolved : d = c
    BY <2>3 DEF Whitelist!Unresolved, WhitelistInv
  <2>5. Whitelist!Unresolved' = Whitelist!Unresolved
    BY <1>1 DEF Whitelist!Unresolved
  <2>6. ASSUME NEW v \in Workers, worker[v].pc = "decide",
               row[worker[v].command].status = "pending"
        PROVE  FALSE
    <3> DEFINE d == worker[v].command
    <3>1. d \in Commands
      BY <2>6 DEF WhitelistInv, Syncs
    <3>2. d \in Whitelist!Unresolved
      BY <2>6, <3>1 DEF Whitelist!Unresolved
    <3> QED BY <2>3, <2>4, <2>6, <3>2
  <2> QED BY <1>1, <1>2, <1>4, <2>1, <2>4, <2>5, <2>6 DEF WhitelistTrue, Whitelist!MembershipIsTrue
<1> QED BY <1>3, <1>4

LEMMA WhitelistKeepsTrue ==
    ASSUME WhitelistInv, WhitelistTrue, Whitelist!Next
    PROVE  WhitelistTrue'
<1>0. RunsSound /\ OperationsSound
  BY DEF WhitelistInv
<1>1. ASSUME NEW w \in Workers, NEW c \in Commands, Whitelist!Begin(w, c) PROVE WhitelistTrue'
  <2>1. Take(w, "read", c, 0) \/ Take(w, "open", c, 0)
    BY <1>1, WhitelistRuns DEF Whitelist!Begin
  <2>2. \A v \in Workers : worker'[v] = worker[v] \/ worker'[v].pc \notin {"decide", "write"}
    <3>1. CASE Take(w, "read", c, 0)
      BY <1>0, <3>1, TakesOn
    <3>2. CASE Take(w, "open", c, 0)
      BY <1>0, <3>2, TakesOn
    <3> QED BY <2>1, <3>1, <3>2
  <2> QED BY <1>1, <2>2, WhitelistRests DEF Whitelist!Begin, Whitelist!rows, NoneDone
<1>2. ASSUME NEW w \in Workers, Whitelist!Recover(w) PROVE WhitelistTrue'
  <2>1. CASE Whitelist!ReadMembership(w)
    <3>1. GotoSeeing(w, "decide", contract) /\ UNCHANGED <<row, target, contract, operation>>
      BY <2>1, WhitelistRuns DEF Whitelist!ReadMembership, Whitelist!rows
    <3>2. worker' = [worker EXCEPT ![w] = [worker[w] EXCEPT !.pc = "decide", !.seen = contract]]
      BY <1>0, <3>1 DEF GotoSeeing, RunsSound
    <3>3. \A v \in Workers : worker'[v] = worker[v] \/ worker'[v].seen = contract
      BY <1>0, <3>2 DEF Run, RunsSound
    <3> QED BY <3>1, <3>3, WhitelistStays DEF NoneDone, WhitelistTrue
  <2>2. CASE Whitelist!Resume(w)
    <3>1. Goto(w, "prepare") \/ Goto(w, "look") \/ Goto(w, "settle")
      BY <2>2, WhitelistRuns DEF Whitelist!Resume
    <3>2. \A v \in Workers : worker'[v] = worker[v] \/ worker'[v].pc \notin {"decide", "write"}
      BY <1>0, <3>1, RunsGoOn
    <3> QED BY <2>2, <3>2, WhitelistRests DEF Whitelist!Resume, Whitelist!rows, NoneDone
  <2>3. CASE Whitelist!Journal(w) /\ UNCHANGED <<row, target, contract>>
    <3>1. \A v \in Workers : worker'[v] = worker[v] \/ worker'[v].pc \notin {"decide", "write"}
      BY <1>0, <2>3, WhitelistRuns, JournalGoesOn
    <3> QED BY <1>0, <2>3, <3>1, WhitelistRuns, JournalGoesOn, WhitelistRests
  <2>4. CASE Whitelist!SignChange(w) \/ Whitelist!GiveUp(w)
    <3>1. (Sign(w) \/ FailPreparing(w)) /\ UNCHANGED <<row, target, contract>>
      BY <2>4, WhitelistIs DEF Whitelist!SignChange, Whitelist!GiveUp, Whitelist!rows
    <3>2. Goto(w, "look") \/ Goto(w, "settle")
      BY <2>4, WhitelistRuns, WhitelistIs DEF Whitelist!SignChange, Whitelist!GiveUp, Sign
    <3>3. \A v \in Workers : worker'[v] = worker[v] \/ worker'[v].pc \notin {"decide", "write"}
      BY <1>0, <3>2, RunsGoOn
    <3> QED BY <1>0, <3>1, <3>3, JournalDoesNothing, WhitelistRests
  <2> QED BY <1>2, <2>1, <2>2, <2>3, <2>4, WhitelistDecisionsAreTrue, WhitelistProjectIsTrue
          DEF Whitelist!Recover, Whitelist!rows
<1> QED BY <1>1, <1>2, WhitelistAdmitIsTrue, WhitelistSyncIsTrue, WhitelistMineIsTrue
        DEF Whitelist!Next, Whitelist!Claims, Claims

LEMMA WhitelistBeginsTrue == Whitelist!Init => WhitelistTrue
<1> SUFFICES ASSUME Whitelist!Init PROVE WhitelistTrue
  OBVIOUS
<1>1. Whitelist!Unresolved = {} /\ \A w \in Workers : worker[w].pc = "idle"
  BY IdleRun DEF Whitelist!Init, Whitelist!NoChange, Whitelist!Unresolved, Whitelist!JournalInit,
     Whitelist!Idle, Idle
<1>2. contract \in BOOLEAN
      /\ target = [status |-> Whitelist!EntryStatus(contract), member |-> contract, current |-> {}]
  BY DEF Whitelist!Init
<1> QED BY <1>1, <1>2 DEF WhitelistTrue, Whitelist!MembershipIsTrue, Whitelist!EntryStatus

LEMMA WhitelistTypes == WhitelistInv /\ contract \in BOOLEAN /\ WhitelistTrue => Whitelist!TypeOK
BY DEF WhitelistInv, WhitelistTrue, OperationsSound, RunsSound, Whitelist!TypeOK,
   Whitelist!JournalTypeOK, Whitelist!Operation, Operation, Whitelist!Run, Run, Whitelist!Steps,
   Steps, Whitelist!TxState, TxState, Whitelist!Claims, Claims

-----------------------------------------------------------------------------
(* SwapApproval.                                                           *)

\* A transaction that was executed, a disposition that saw the approval and a
\* run that read it are right about the contract, which never withdraws one.
ApprovalTrue ==
    /\ \A c \in Commands : Done(operation[c]) \/ row[c].outcome = "observed" => contract
    /\ \A w \in Workers : worker[w].pc = "decide" /\ worker[w].seen => contract

LEMMA ApprovalStays ==
    ASSUME ApprovalTrue, NoneDone, contract => contract',
           \A c \in Commands : row'[c].outcome = "observed" => row[c].outcome = "observed",
           \A w \in Workers :
              \/ worker'[w] = worker[w] \/ worker'[w].pc # "decide" \/ worker'[w].seen = contract
    PROVE  ApprovalTrue'
BY DEF ApprovalTrue, NoneDone

LEMMA ApprovalRowsAreTrue ==
    ASSUME ApprovalInv, ApprovalTrue, NoneDone, contract' = contract, NEW c \in Commands, NEW r,
           Approval!Write(c, r), r.outcome = "observed" => row[c].outcome = "observed" \/ contract,
           \A w \in Workers : worker'[w] = worker[w] \/ worker'[w].pc # "decide"
    PROVE  ApprovalTrue'
<1>1. \A d \in Commands : row'[d] = IF d = c THEN r ELSE row[d]
  BY DEF ApprovalInv, Approval!Write
<1> QED BY <1>1 DEF ApprovalTrue, NoneDone

LEMMA ApprovalRecoversTrue ==
    ASSUME ApprovalInv, ApprovalTrue, NEW w \in Workers, Approval!Recover(w)
    PROVE  ApprovalTrue'
<1>0. RunsSound /\ OperationsSound /\ worker \in [Workers -> Run]
  BY DEF ApprovalInv, RunsSound
<1> DEFINE c == worker[w].command
<1>1. ASSUME NEW pc, pc # "decide", Goto(w, pc) \/ Finish(w)
      PROVE  \A v \in Workers : worker'[v] = worker[v] \/ worker'[v].pc # "decide"
  BY <1>0, <1>1, RunsGoOn
<1>2. CASE Approval!ReadContract(w)
  <2>1. GotoSeeing(w, "decide", contract) /\ UNCHANGED <<row, contract, operation>>
    BY <1>2, ApprovalRuns DEF Approval!ReadContract
  <2>2. worker' = [worker EXCEPT ![w] = [worker[w] EXCEPT !.pc = "decide", !.seen = contract]]
    BY <1>0, <2>1 DEF GotoSeeing
  <2>3. \A v \in Workers : worker'[v] = worker[v] \/ worker'[v].seen = contract
    BY <1>0, <2>2 DEF Run
  <2> QED BY <2>1, <2>3, ApprovalStays DEF NoneDone
<1>3. CASE Approval!Decide(w)
  <2> DEFINE r == IF row[c].outcome # "pending" THEN row[c]
                  ELSE [row[c] EXCEPT !.outcome = IF worker[w].seen THEN "observed" ELSE "executing"]
             v1 == [Idle EXCEPT !.pc = "open", !.command = c, !.retry = row[c].retry]
             v2 == IF row'[c].outcome = "executing" THEN v1 ELSE Idle
  <2>1. worker[w].pc = "decide" /\ Approval!Write(c, r) /\ worker' = [worker EXCEPT ![w] = v2]
        /\ UNCHANGED <<contract, operation>>
    BY <1>3, ApprovalRuns DEF Approval!Decide, Approval!Row, Approval!Idle, Idle
  <2>2. c \in Commands /\ row[c] \in Approval!Approval
    BY <2>1, ApprovalInHand
  <2>3. r.outcome = "observed" => row[c].outcome = "observed" \/ contract
    <3>1. CASE row[c].outcome # "pending"
      BY <3>1
    <3>2. CASE row[c].outcome = "pending" /\ worker[w].seen
      BY <2>1, <3>2 DEF ApprovalTrue
    <3>3. CASE row[c].outcome = "pending" /\ ~worker[w].seen
      BY <2>2, <3>3 DEF Approval!Approval
    <3> QED BY <3>1, <3>2, <3>3
  <2>4. v2.pc # "decide"
    <3>1. v1.pc = "open"
      BY DEF Idle
    <3> HIDE DEF v1
    <3> QED BY <3>1, IdleRun
  <2> HIDE DEF r, v2
  <2>5. \A v \in Workers : worker'[v] = worker[v] \/ worker'[v].pc # "decide"
    BY <1>0, <2>1, <2>4
  <2> QED BY <2>1, <2>2, <2>3, <2>5, ApprovalRowsAreTrue DEF NoneDone
<1>4. CASE Approval!Bind(w)
  <2> DEFINE r == [row[c] EXCEPT !.bound = TRUE]
  <2>1. worker[w].pc = "bind" /\ Approval!Write(c, r) /\ Goto(w, "resume") /\ UNCHANGED <<contract, operation>>
    BY <1>4, ApprovalRuns DEF Approval!Bind, Approval!Row
  <2>2. c \in Commands /\ r.outcome = row[c].outcome
    BY <2>1, ApprovalInHand DEF Approval!Approval
  <2> HIDE DEF r
  <2> QED BY <1>1, <2>1, <2>2, ApprovalRowsAreTrue DEF NoneDone
<1>5. CASE Approval!SignApproval(w)
  <2> DEFINE k == worker[w].claim
             r == [row[c] EXCEPT !.transaction = k, !.record[k] = "submitted"]
  <2>1. Sign(w) /\ Approval!Write(c, r) /\ UNCHANGED contract
    BY <1>5, ApprovalIs DEF Approval!SignApproval, Approval!Row
  <2>2. worker[w].pc = "prepare" /\ Goto(w, "look") /\ NoneDone
    BY <1>0, <2>1, JournalDoesNothing DEF Sign, At
  <2>3. c \in Commands /\ r.outcome = row[c].outcome
    BY <2>2, ApprovalInHand DEF Approval!Approval
  <2> HIDE DEF r
  <2> QED BY <1>1, <2>1, <2>2, <2>3, ApprovalRowsAreTrue
<1>6. CASE Approval!RecordOutcome(w)
  <2>1. worker[w].pc = "outcome" /\ Finish(w) /\ UNCHANGED <<contract, operation>>
    BY <1>6, ApprovalRuns DEF Approval!RecordOutcome
  <2>2. c \in Commands /\ row[c] \in Approval!Approval
    BY <2>1, ApprovalInHand
  <2>3. ASSUME NEW outcome \in {"confirmed", "failed"}, NEW x,
               Approval!Write(c, [row[c] EXCEPT !.outcome = outcome, !.record[worker[w].claim] = x])
        PROVE  ApprovalTrue'
    <3> DEFINE r == [row[c] EXCEPT !.outcome = outcome, !.record[worker[w].claim] = x]
    <3>1. r.outcome = outcome
      BY <2>2 DEF Approval!Approval
    <3> HIDE DEF r
    <3> QED BY <1>1, <2>1, <2>2, <2>3, <3>1, ApprovalRowsAreTrue DEF NoneDone, r
  <2>4. CASE Approval!Write(c, row[c])
    BY <1>1, <2>1, <2>2, <2>4, ApprovalRowsAreTrue DEF NoneDone
  <2>5. \/ Approval!Write(c, row[c])
        \/ \E outcome \in {"confirmed", "failed"} : \E x :
              Approval!Write(c, [row[c] EXCEPT !.outcome = outcome, !.record[worker[w].claim] = x])
    <3> DEFINE outcome == IF worker[w].seen THEN "confirmed" ELSE "failed"
               x == IF operation[c].status = "failed" THEN row[c].record[worker[w].claim]
                    ELSE operation[c].status
    <3>1. \/ Approval!Write(c, row[c])
          \/ Approval!Write(c, [row[c] EXCEPT !.outcome = outcome, !.record[worker[w].claim] = x])
      <4>1. Approval!Write(c, IF ~Approval!Records(w) \/ ~(operation[c].status \in Undone \/ worker[w].seen)
                              THEN row[c]
                              ELSE [row[c] EXCEPT !.outcome = outcome, !.record[worker[w].claim] = x])
        BY <1>6, <2>2, ApprovalRuns DEF Approval!RecordOutcome, Approval!Row, Approval!Approval
      <4> QED BY <4>1
    <3>2. outcome \in {"confirmed", "failed"}
      OBVIOUS
    <3> HIDE DEF outcome, x
    <3> QED BY <3>1, <3>2
  <2> QED BY <2>3, <2>4, <2>5
<1>7. CASE Approval!Resume(w) \/ Approval!Settle(w)
  <2>1. /\ UNCHANGED <<row, contract, operation>>
        /\ \/ Goto(w, "outcome") \/ Goto(w, "prepare") \/ Goto(w, "look")
           \/ \E seen : GotoSeeing(w, "outcome", seen)
    BY <1>7, ApprovalRuns DEF Approval!Resume, Approval!Settle
  <2>2. \A v \in Workers : worker'[v] = worker[v] \/ worker'[v].pc # "decide"
    <3>1. CASE \E seen : GotoSeeing(w, "outcome", seen)
      BY <1>0, <3>1, RunsGoOn
    <3> QED BY <1>1, <2>1, <3>1
  <2> QED BY <2>1, <2>2, ApprovalStays DEF NoneDone
<1>8. CASE Approval!GiveUp(w)
  <2>1. FailPreparing(w) /\ UNCHANGED <<row, contract>>
        /\ (Goto(w, "outcome") \/ Goto(w, "look") \/ Finish(w))
    BY <1>8, ApprovalIs, ApprovalRuns DEF Approval!GiveUp
  <2>2. \A v \in Workers : worker'[v] = worker[v] \/ worker'[v].pc # "decide"
    BY <1>1, <2>1
  <2> QED BY <1>0, <2>1, <2>2, JournalDoesNothing, ApprovalStays
<1>9. CASE (Approval!Journal(w) \/ Approval!Look(w)) /\ UNCHANGED <<row, contract>>
  <2>1. \A v \in Workers : worker'[v] = worker[v] \/ worker'[v].pc # "decide"
    BY <1>0, <1>9, ApprovalRuns, JournalGoesOn
  <2> QED BY <1>0, <1>9, <2>1, ApprovalRuns, JournalGoesOn, ApprovalStays
<1> QED BY <1>2, <1>3, <1>4, <1>5, <1>6, <1>7, <1>8, <1>9 DEF Approval!Recover

LEMMA ApprovalKeepsTrue ==
    ASSUME ApprovalInv, contract \in BOOLEAN, ApprovalTrue, Approval!Next
    PROVE  ApprovalTrue'
<1>0. RunsSound /\ OperationsSound
  BY DEF ApprovalInv
<1>1. ASSUME NEW c \in Commands, Approval!Retry(c) PROVE ApprovalTrue'
  <2> DEFINE r == [row[c] EXCEPT !.outcome = "executing", !.retry = operation[c].claim]
  <2>1. Approval!Write(c, r) /\ UNCHANGED <<contract, operation, worker>>
    BY <1>1 DEF Approval!Retry
  <2>2. r.outcome = "executing"
    BY DEF ApprovalInv, Approval!Approval
  <2> HIDE DEF r
  <2> QED BY <2>1, <2>2, ApprovalRowsAreTrue DEF NoneDone
<1>2. ASSUME NEW w \in Workers, NEW c \in Commands, Approval!Begin(w, c) PROVE ApprovalTrue'
  <2>1. UNCHANGED <<row, contract, operation>>
        /\ (Take(w, "read", c, row[c].retry) \/ Take(w, "open", c, row[c].retry))
    BY <1>2, ApprovalRuns DEF Approval!Begin
  <2>2. \A v \in Workers : worker'[v] = worker[v] \/ worker'[v].pc # "decide"
    <3>1. CASE Take(w, "read", c, row[c].retry)
      BY <1>0, <3>1, TakesOn
    <3>2. CASE Take(w, "open", c, row[c].retry)
      BY <1>0, <3>2, TakesOn
    <3> QED BY <2>1, <3>1, <3>2
  <2> QED BY <2>1, <2>2, ApprovalStays DEF NoneDone
<1>3. ASSUME NEW c \in Commands, NEW k \in Claims, NEW outcome \in {"mined", "reverted"},
             Approval!Mine(c, k, outcome)
      PROVE  ApprovalTrue'
  <2>1. Mined(c, k, outcome) /\ row' = row /\ (contract' = (contract \/ outcome = "mined"))
    BY <1>3, ApprovalIs DEF Approval!Mine
  <2>2. /\ \A d \in Commands : d # c => operation'[d] = operation[d]
        /\ Done(operation'[c]) <=> outcome = "mined"
        /\ worker' = worker
    BY <1>0, <2>1, ChainDoes
  <2>3. contract => contract'
    BY <2>1
  <2>4. outcome = "mined" => contract'
    BY <2>1
  <2> QED BY <2>1, <2>2, <2>3, <2>4 DEF ApprovalTrue
<1>4. CASE Approval!ApproveElsewhere
  BY <1>4, ApprovalStays DEF Approval!ApproveElsewhere, NoneDone
<1> QED BY <1>1, <1>2, <1>3, <1>4, ApprovalRecoversTrue DEF Approval!Next, Approval!Claims, Claims

LEMMA ApprovalBeginsTrue == Approval!Init => ApprovalTrue
<1> SUFFICES ASSUME Approval!Init PROVE ApprovalTrue
  OBVIOUS
<1>1. worker = [w \in Workers |-> Idle] /\ operation = [c \in Commands |-> NoOperation]
  BY DEF Approval!Init, Approval!JournalInit, Approval!Idle, Idle, Approval!NoOperation, NoOperation,
     Approval!Claims, Claims
<1>2. \A c \in Commands : ~Done(operation[c])
  BY <1>1 DEF Done, NoOperation
<1>3. \A c \in Commands : row[c].outcome \in {"pending", "not_configured"}
  BY DEF Approval!Init, Approval!NewApproval
<1> QED BY <1>1, <1>2, <1>3, IdleRun DEF ApprovalTrue

LEMMA ApprovalTypes == ApprovalInv /\ contract \in BOOLEAN => Approval!TypeOK
BY DEF ApprovalInv, OperationsSound, RunsSound, Approval!TypeOK,
   Approval!JournalTypeOK, Approval!Operation, Operation, Approval!Run, Run, Approval!Steps,
   Steps, Approval!TxState, TxState, Approval!Claims, Claims

LEMMA ApprovalHolds == ApprovalInv /\ ApprovalTrue => Approval!ApprovedIsTrue
<1> SUFFICES ASSUME ApprovalInv, ApprovalTrue, NEW c \in Commands
             PROVE  /\ row[c].outcome \in {"observed", "confirmed"} => contract
                    /\ row[c].outcome = "confirmed" => Approval!Executed(c)
                    /\ row[c].outcome = "observed" => operation[c].status = "none"
  BY DEF Approval!ApprovedIsTrue
<1>1. ApprovalFits(operation[c], row[c]) /\ Sound(operation[c])
  BY DEF ApprovalInv, OperationsSound
<1>2. row[c].outcome = "confirmed" => Done(operation[c])
  BY <1>1, DoneIs DEF ApprovalFits
<1>3. Done(operation[c]) => Approval!Executed(c)
  BY DEF Done, Approval!Executed, Approval!Claims, Claims
<1> QED BY <1>1, <1>2, <1>3 DEF ApprovalTrue, ApprovalFits

-----------------------------------------------------------------------------
(* MintRequest.                                                            *)

\* An operation goes no further than it can be found again before the request
\* is bound to it, and the revert of every attempt before the current one is on
\* the request.
MintKnown(o, r) ==
    /\ ~r.bound => o.status \in {"none", "preparing"}
    /\ \A k \in Claims : k < o.claim /\ o.tx[k] # "none" => r.record[k] = "reverted"

\* A run that opens the attempt it was given again has seen it end, and a revert
\* recorded.
MintKnows(v, o, r) ==
    /\ v.retry <= o.claim
    /\ v.retry # 0 => r.bound
    /\ v.pc = "retain" /\ v.claim = o.claim => o.status = "reverted"
    /\ v.pc = "open" /\ v.retry # 0 /\ v.retry = o.claim =>
          o.status \in Undone /\ (o.status = "reverted" => r.record[o.claim] = "reverted")

MintTrue ==
    /\ \A c \in Commands : MintKnown(operation[c], row[c])
    /\ \A w \in Workers : worker[w].pc # "idle" =>
          MintKnows(worker[w], operation[worker[w].command], row[worker[w].command])

\* What no step but an opening takes back.
MintKept(o, p, r, s) ==
    /\ Advances(o, p)
    /\ p.status = o.status \/ r.bound
    /\ r.bound => s.bound
    /\ \A k \in Claims : k < o.claim => p.tx[k] = o.tx[k] /\ s.record[k] = r.record[k]
    /\ o.status = "reverted" /\ r.record[o.claim] = "reverted" => s.record[o.claim] = "reverted"

LEMMA MintKnownOn ==
    ASSUME NEW o, NEW p, NEW r, NEW s, MintKnown(o, r), MintKept(o, p, r, s)
    PROVE  MintKnown(p, s)
BY DEF MintKnown, MintKept, Advances

LEMMA MintKnowsOn ==
    ASSUME NEW v, NEW o, NEW p, NEW r, NEW s, MintKnows(v, o, r), MintKept(o, p, r, s)
    PROVE  MintKnows(v, p, s)
BY DEF MintKnows, MintKept, Advances

LEMMA MintCarries ==
    ASSUME MintInv, MintTrue,
           \A c \in Commands : MintKept(operation[c], operation'[c], row[c], row'[c]),
           \A w \in Workers :
              \/ worker'[w] = worker[w] \/ worker'[w].pc = "idle"
              \/ /\ worker'[w].command \in Commands
                 /\ \/ MintKnows(worker'[w], operation[worker'[w].command], row[worker'[w].command])
                    \/ MintKnows(worker'[w], operation'[worker'[w].command], row'[worker'[w].command])
    PROVE  MintTrue'
<1>1. \A c \in Commands : MintKnown(operation'[c], row'[c])
  BY MintKnownOn DEF MintTrue
<1>2. ASSUME NEW w \in Workers, worker'[w].pc # "idle"
      PROVE  MintKnows(worker'[w], operation'[worker'[w].command], row'[worker'[w].command])
  <2> DEFINE c == worker'[w].command
  <2>1. CASE c \in Commands /\ MintKnows(worker'[w], operation[c], row[c])
    BY <2>1, MintKnowsOn
  <2>2. CASE worker'[w] = worker[w]
    <3>1. c \in Commands /\ MintKnows(worker'[w], operation[c], row[c])
      BY <1>2, <2>2 DEF MintInv, MintTrue
    <3> QED BY <3>1, <2>1
  <2> QED BY <1>2, <2>1, <2>2
<1> QED BY <1>1, <1>2 DEF MintTrue

\* The attempts before the current one are left alone.
LEMMA PastStays ==
    ASSUME OperationsSound, NEW w \in Workers, Followed(w) \/ Sign(w) \/ FailPreparing(w)
    PROVE  \A c \in Commands : \A k \in Claims :
              k < operation[c].claim => operation'[c].tx[k] = operation[c].tx[k]
<1> DEFINE c == worker[w].command
           o == operation[c]
           Same == \A d \in Commands : \A k \in Claims :
                       k < operation[d].claim => operation'[d].tx[k] = operation[d].tx[k]
<1>0. operation \in [Commands -> Operation]
  BY DEF OperationsSound
<1>1. CASE UNCHANGED operation
  BY <1>1
<1>2. CASE \E status : operation' = [operation EXCEPT ![c].status = status]
  BY <1>0, <1>2 DEF Operation
<1>3. ASSUME NEW k, k = o.claim, NEW status, NEW state,
             operation' = [operation EXCEPT ![c] = [o EXCEPT !.status = status, !.tx[k] = state]]
      PROVE  Same
  <2>1. \A d \in Commands : d # c => operation'[d] = operation[d]
    BY <1>0, <1>3
  <2>2. ASSUME c \in Commands, NEW j \in Claims, j < o.claim
        PROVE  operation'[c].tx[j] = o.tx[j]
    <3>1. operation'[c].tx = [o.tx EXCEPT ![k] = state] /\ o.claim \in Nat /\ j \in Nat
      BY <1>0, <1>3, <2>2, Bounded DEF Operation
    <3> QED BY <1>0, <1>3, <2>2, <3>1 DEF Operation
  <2> QED BY <2>1, <2>2
<1>4. CASE Receive(w)
  BY <1>2, <1>4 DEF Receive
<1>5. CASE Broadcast(w)
  <2>1. CASE operation' = [operation EXCEPT ![c].tx[worker[w].claim] = "sent"]
    <3>1. worker[w].claim = o.claim
      BY <1>5 DEF Broadcast, Owns, Own
    <3>2. operation' = [operation EXCEPT ![c] = [o EXCEPT !.status = o.status, !.tx[o.claim] = "sent"]]
      BY <1>0, <2>1, <3>1 DEF Operation
    <3> QED BY <1>3, <3>2
  <2> QED BY <1>1, <1>5, <2>1 DEF Broadcast
<1>6. CASE Sign(w)
  <2>1. worker[w].claim = o.claim
    BY <1>6 DEF Sign, Signs, Owns, Own
  <2>2. operation' = [operation EXCEPT ![c] = [o EXCEPT !.status = "signed", !.tx[o.claim] = "signed"]]
    BY <1>0, <1>6, <2>1 DEF Sign, Operation
  <2> QED BY <1>3, <2>2
<1>7. CASE FailPreparing(w)
  BY <1>1, <1>2, <1>7 DEF FailPreparing
<1> QED BY <1>1, <1>4, <1>5, <1>6, <1>7 DEF Followed, ReceiveNothing, Abandon, Look


\* An operation whose row is left as it is.
LEMMA MintStays ==
    ASSUME NEW o, NEW p, NEW r, Advances(o, p), p.status = o.status \/ r.bound,
           \A k \in Claims : k < o.claim => p.tx[k] = o.tx[k]
    PROVE  MintKept(o, p, r, r)
BY DEF MintKept

LEMMA MintSame == \A o, r : MintKept(o, o, r, r)
BY DEF MintKept, Advances

\* Steps that write no row and open nothing: what is not bound does not move.
LEMMA MintGoesOn ==
    ASSUME MintInv, MintTrue, row' = row, AllAdvance,
           \A c \in Commands : operation'[c].status = operation[c].status \/ row[c].bound,
           \A c \in Commands : \A k \in Claims :
              k < operation[c].claim => operation'[c].tx[k] = operation[c].tx[k],
           \A w \in Workers :
              \/ worker'[w] = worker[w] \/ worker'[w].pc = "idle"
              \/ /\ worker'[w].command \in Commands
                 /\ MintKnows(worker'[w], operation[worker'[w].command], row[worker'[w].command])
    PROVE  MintTrue'
<1>1. \A c \in Commands : MintKept(operation[c], operation'[c], row[c], row'[c])
  BY MintStays DEF AllAdvance
<1> QED BY <1>1, MintCarries

LEMMA MintFollowsTrue ==
    ASSUME MintInv, MintTrue, NEW w \in Workers, Followed(w), row' = row
    PROVE  MintTrue'
<1> DEFINE c == worker[w].command
<1>1. AllAdvance /\ RunsSound' /\ Only(w) /\ OperationsSound
  BY FollowedAdvances, FollowedGoes DEF MintInv
<1>2. worker[w].pc # "idle"
  BY DEF Followed, Receive, ReceiveNothing, Broadcast, Abandon, Look, At
<1>3. c \in Commands /\ MintSuits(worker[w], operation[c], row[c]) /\ RunsSound
      /\ MintKnows(worker[w], operation[c], row[c])
  BY <1>2, MintInHand DEF MintTrue
<1>4. \A d \in Commands : operation'[d].status = operation[d].status \/ row[d].bound
  <2>1. CASE Receive(w)
    <3>1. worker[w].pc \in {"reconcile", "observe"}
          /\ \E status : operation' = [operation EXCEPT ![c].status = status]
      BY <2>1 DEF Receive
    <3>2. row[c].bound
      BY <1>3, <3>1 DEF MintSuits
    <3>3. \A d \in Commands : d # c => operation'[d] = operation[d]
      BY <1>1, <3>1 DEF OperationsSound
    <3> QED BY <3>2, <3>3
  <2>2. CASE Broadcast(w)
    <3>1. ASSUME NEW k, operation' = [operation EXCEPT ![c].tx[k] = "sent"], NEW d \in Commands
          PROVE  operation'[d].status = operation[d].status
      BY <1>1, <3>1 DEF OperationsSound, Operation
    <3> QED BY <2>2, <3>1 DEF Broadcast
  <2>3. CASE UNCHANGED operation
    BY <2>3
  <2> QED BY <2>1, <2>2, <2>3 DEF Followed, ReceiveNothing, Abandon, Look
<1>5. \A d \in Commands : \A k \in Claims :
         k < operation[d].claim => operation'[d].tx[k] = operation[d].tx[k]
  BY <1>1, PastStays
<1>6. worker'[w].pc = "idle" \/ (worker'[w].command = c /\ MintKnows(worker'[w], operation[c], row[c]))
  <2>1. \/ worker'[w].pc = "idle"
        \/ Carries(w) /\ worker'[w].pc \in {"reconcile", "broadcast", "observe", "settle"}
    BY <1>3, FollowedGoes, IdleRun
  <2> QED BY <1>3, <2>1 DEF MintKnows, Carries
<1> QED BY <1>1, <1>3, <1>4, <1>5, <1>6, MintGoesOn DEF Only

LEMMA MintOpensTrue ==
    ASSUME MintInv, MintTrue, NEW w \in Workers, Open(w), row' = row
    PROVE  MintTrue'
<1> DEFINE c == worker[w].command
           o == operation[c]
           p == operation'[c]
           r == row[c]
<1>1. /\ OperationsSound' /\ Only(w) /\ Carries(w) /\ c \in Commands
      /\ worker[w].pc = "open" /\ worker'[w].pc = "bind"
      /\ \A d \in Commands : d # c => operation'[d] = operation[d]
      /\ \/ operation' = operation
         \/ /\ o.status = "none" \/ Reopens(o, worker[w].retry)
            /\ p.status = "preparing" /\ p.claim = o.claim + 1 /\ p.tx = o.tx
  BY OpenDoes DEF MintInv
<1>2. /\ MintKnows(worker[w], o, r) /\ MintKnown(o, r) /\ Sound(o) /\ worker'[w].command = c
      /\ MintSuits(worker[w], o, r)
  BY <1>1, MintInHand DEF MintTrue, Carries
<1>3. o.claim \in 0..MaxClaims /\ o.claim \in Nat /\ (o.claim = 0 <=> o.status = "none")
  BY <1>2, SignedIsAttempted, Bounded DEF Sound
<1>4. CASE operation' = operation
  <2>1. MintKnows(worker'[w], o, r)
    BY <1>1, <1>2 DEF MintKnows, Carries
  <2> QED BY <1>1, <1>2, <1>4, <2>1, NoneMoves, MintGoesOn DEF Only
<1>5. CASE /\ o.status = "none" \/ Reopens(o, worker[w].retry)
           /\ p.status = "preparing" /\ p.claim = o.claim + 1 /\ p.tx = o.tx
  <2>1. MintKnown(p, r)
    <3>1. ASSUME NEW k \in Claims, k < o.claim + 1, o.tx[k] # "none"
          PROVE  r.record[k] = "reverted"
      <4>1. k \in Nat /\ (k < o.claim \/ k = o.claim) /\ k # 0
        BY <1>3, <3>1, Bounded
      <4>2. CASE k < o.claim
        BY <1>2, <3>1, <4>2 DEF MintKnown
      <4>3. CASE k = o.claim
        <5>1. o.status \in Undone /\ worker[w].retry = o.claim /\ o.claim # 0
          BY <1>3, <1>5, <4>1, <4>3 DEF Reopens
        <5>2. o.status # "failed"
          BY <1>2, <3>1, <4>3 DEF Sound
        <5> QED BY <1>1, <1>2, <4>3, <5>1, <5>2 DEF MintKnows
      <4> QED BY <4>1, <4>2, <4>3
    <3> QED BY <1>5, <3>1 DEF MintKnown
  <2>2. \A d \in Commands : MintKnown(operation'[d], row'[d])
    BY <1>1, <2>1 DEF MintTrue
  <2>3. ASSUME NEW x \in Workers, worker'[x].pc # "idle"
        PROVE  MintKnows(worker'[x], operation'[worker'[x].command], row'[worker'[x].command])
    <3>1. CASE x = w
      <4>1. worker[w].retry \in Nat
        BY Bounded DEF MintInv, RunsSound, Run
      <4>2. MintKnows(worker'[w], p, r)
        BY <1>1, <1>2, <1>3, <1>5, <4>1 DEF MintKnows, Carries
      <4> QED BY <1>1, <1>2, <3>1, <4>2
    <3>2. CASE x # w
      <4> DEFINE v == worker[x]
      <4>1. /\ worker'[x] = v /\ v.command \in Commands /\ v \in Run
            /\ MintKnows(v, operation[v.command], row[v.command])
            /\ MintSuits(v, operation[v.command], row[v.command])
        BY <1>1, <2>3, <3>2 DEF Only, MintInv, RunsSound, MintTrue
      <4>2. CASE v.command # c
        BY <1>1, <4>1, <4>2
      <4>3. CASE v.command = c
        <5>1. v.claim \in Nat /\ v.retry \in Nat
          BY <4>1, Bounded DEF Run
        <5>2. /\ v.retry <= o.claim /\ v.claim <= o.claim /\ (v.retry # 0 => r.bound)
          BY <4>1, <4>3 DEF MintKnows, MintSuits
        <5>3. v.retry <= p.claim /\ v.claim # p.claim /\ v.retry # p.claim
          BY <1>3, <1>5, <5>1, <5>2
        <5>4. MintKnows(v, p, r)
          BY <5>2, <5>3 DEF MintKnows
        <5> QED BY <1>1, <4>1, <4>3, <5>4
      <4> QED BY <4>2, <4>3
    <3> QED BY <3>1, <3>2
  <2> QED BY <2>2, <2>3 DEF MintTrue
<1> QED BY <1>1, <1>4, <1>5

\* Steps of a run that write no row.
LEMMA MintReadsTrue ==
    ASSUME MintInv, MintTrue, NEW w \in Workers, Mint!ReadClaim(w)
    PROVE  MintTrue'
<1> DEFINE c == worker[w].command
           o == operation[c]
           r == row[c]
           claim == IF r.bound THEN o.claim ELSE 0
           pc == IF Mint!Keeps(w) THEN "resume" ELSE IF Mint!Retains(w) THEN "retain" ELSE "open"
           v == [worker[w] EXCEPT !.claim = claim, !.pc = pc]
<1>1. /\ worker[w].pc = "read" /\ UNCHANGED operation /\ row' = row
      /\ worker' = [worker EXCEPT ![w] = v]
  BY MintRuns DEF Mint!ReadClaim, Mint!Row
<1>2. /\ c \in Commands /\ RunsSound /\ worker[w] \in Run /\ Sound(o) /\ MintKnows(worker[w], o, r)
  BY <1>1, MintInHand DEF MintTrue
<1>3. /\ pc \in {"resume", "retain", "open"}
      /\ pc = "retain" => o.status = "reverted"
      /\ pc = "open" => ~r.bound \/ (o.status \in Undone /\ o.status # "reverted")
  BY MintRuns DEF Mint!Keeps, Mint!Retains, Mint!Row
<1>4. claim \in 0..MaxClaims
  BY <1>2, SignedIsAttempted, Bounded
<1> HIDE DEF claim, pc
<1>5. v.command = c /\ v.pc = pc /\ v.retry = worker[w].retry /\ v.claim = claim
  BY <1>2, <1>3, <1>4 DEF Run, Steps
<1> HIDE DEF v
<1>6. worker'[w] = v /\ Only(w)
  BY <1>1, <1>2 DEF RunsSound, Only
<1>7. MintKnows(v, o, r)
  BY <1>2, <1>3, <1>5 DEF MintKnows
<1> QED BY <1>1, <1>2, <1>5, <1>6, <1>7, NoneMoves, MintGoesOn DEF Only

LEMMA MintQuietIsTrue ==
    ASSUME MintInv, MintTrue, NEW w \in Workers,
           Mint!Resume(w) \/ Mint!SignMint(w) \/ Mint!GiveUp(w)
    PROVE  MintTrue'
<1> DEFINE c == worker[w].command
<1>1. {"prepare", "look", "settle"} \subseteq Steps /\ OperationsSound /\ RunsSound
  BY DEF Steps, MintInv
<1>2. /\ worker[w].pc \in {"resume", "prepare"} /\ row' = row
      /\ UNCHANGED operation \/ Sign(w) \/ FailPreparing(w)
      /\ Goto(w, "prepare") \/ Goto(w, "look") \/ Goto(w, "settle")
  <2>1. CASE Mint!Resume(w)
    BY <2>1, MintRuns DEF Mint!Resume
  <2>2. CASE Mint!SignMint(w)
    BY <2>2, <1>1, MintIs, SignAdvances DEF Mint!SignMint, At
  <2>3. CASE Mint!GiveUp(w)
    BY <2>3, MintIs, MintRuns DEF Mint!GiveUp
  <2> QED BY <2>1, <2>2, <2>3
<1>3. c \in Commands /\ row[c].bound /\ MintKnows(worker[w], operation[c], row[c])
  BY <1>2, MintInHand DEF MintSuits, MintTrue
<1>4. AllAdvance
  BY <1>1, <1>2, NoneMoves, SignAdvances, FailAdvances
<1>5. \A d \in Commands : \A k \in Claims :
         k < operation[d].claim => operation'[d].tx[k] = operation[d].tx[k]
  BY <1>1, <1>2, PastStays
<1>6. \A d \in Commands : d # c => operation'[d] = operation[d]
  BY <1>1, <1>2 DEF Sign, FailPreparing, OperationsSound
<1>7. /\ Only(w) /\ Carries(w) /\ worker'[w].claim = worker[w].claim
      /\ worker'[w].pc \in {"prepare", "look", "settle"}
  BY <1>1, <1>2, <1>3, GotoGoes
<1>8. worker'[w].command = c /\ MintKnows(worker'[w], operation[c], row[c])
  BY <1>3, <1>7 DEF MintKnows, Carries
<1> HIDE DEF c
<1>9. \A d \in Commands : operation'[d].status = operation[d].status \/ row[d].bound
  BY <1>3, <1>6
<1> QED BY <1>2, <1>3, <1>4, <1>5, <1>7, <1>8, <1>9, MintGoesOn DEF Only

LEMMA MintMineIsTrue ==
    ASSUME MintInv, MintTrue, NEW c \in Commands, NEW k \in Claims,
           NEW outcome \in {"mined", "reverted"}, Mined(c, k, outcome), row' = row
    PROVE  MintTrue'
<1>1. OperationsSound /\ AllAdvance /\ worker' = worker
  BY MinedAdvances DEF MintInv
<1>2. /\ \A d \in Commands : d # c => operation'[d] = operation[d]
      /\ operation'[c].status = operation[c].status /\ k = operation[c].claim
      /\ \A j \in Claims : j # k => operation'[c].tx[j] = operation[c].tx[j]
  BY <1>1, ChainDoes
<1>3. \A d \in Commands : operation'[d].status = operation[d].status \/ row[d].bound
  BY <1>2
<1>4. \A d \in Commands : \A j \in Claims :
         j < operation[d].claim => operation'[d].tx[j] = operation[d].tx[j]
  BY <1>2, Bounded
<1> QED BY <1>1, <1>3, <1>4, MintGoesOn


\* Steps that write one row and leave the operations alone.
LEMMA MintWritesTrue ==
    ASSUME MintInv, MintTrue, UNCHANGED operation, NEW c \in Commands, NEW r,
           row' = [row EXCEPT ![c] = r],
           MintKept(operation[c], operation[c], row[c], r),
           \A w \in Workers :
              \/ worker'[w] = worker[w] \/ worker'[w].pc = "idle"
              \/ (worker'[w].command = c /\ MintKnows(worker'[w], operation[c], r))
    PROVE  MintTrue'
<1>1. row'[c] = r /\ \A d \in Commands : d # c => row'[d] = row[d]
  BY DEF MintInv
<1>2. \A d \in Commands : MintKept(operation[d], operation'[d], row[d], row'[d])
  BY <1>1, MintSame
<1>3. \A w \in Workers :
         \/ worker'[w] = worker[w] \/ worker'[w].pc = "idle"
         \/ (worker'[w].command = c /\ MintKnows(worker'[w], operation'[c], row'[c]))
  BY <1>1
<1> QED BY <1>2, <1>3, MintCarries

LEMMA MintRejectsTrue ==
    ASSUME MintInv, MintTrue, NEW c \in Commands, Mint!Reject(c)
    PROVE  MintTrue'
<1> DEFINE old == row[c]
           r == [old EXCEPT !.status = "rejected"]
<1>1. row' = [row EXCEPT ![c] = r] /\ UNCHANGED <<operation, worker>>
  BY DEF Mint!Reject, Mint!Write
<1>2. r.bound = old.bound /\ r.record = old.record
  BY DEF Mint!Request, MintInv
<1>3. MintKept(operation[c], operation[c], old, r)
  BY <1>2 DEF MintKept, Advances
<1> HIDE DEF r
<1> QED BY <1>1, <1>3, MintWritesTrue

LEMMA MintTakesTrue ==
    ASSUME MintInv, MintTrue, NEW w \in Workers, NEW c \in Commands,
           \/ Mint!Begin(w, c)
           \/ \E named \in Mint!Named(c) : Mint!Execute(w, c, named)
    PROVE  MintTrue'
<1> DEFINE o == operation[c]
           old == row[c]
<1>1. /\ RunsSound /\ old \in Mint!Request /\ Sound(o) /\ o.claim \in 0..MaxClaims
      /\ "read" \in Steps
  BY SignedIsAttempted DEF MintInv, OperationsSound, Steps
<1>2. ASSUME NEW named \in 0..MaxClaims, named <= o.claim, named # 0 => old.bound,
             NEW r, r.bound = old.bound, r.record = old.record, row' = [row EXCEPT ![c] = r],
             Take(w, "read", c, named), UNCHANGED operation
      PROVE  MintTrue'
  <2>1. /\ Only(w) /\ worker'[w].pc = "read" /\ worker'[w].command = c
        /\ worker'[w].retry = named
    BY <1>1, <1>2, TakeGoes
  <2>2. MintKept(o, o, old, r)
    BY <1>2 DEF MintKept, Advances
  <2>3. MintKnows(worker'[w], o, r)
    BY <1>2, <2>1 DEF MintKnows
  <2> QED BY <1>2, <2>1, <2>2, <2>3, MintWritesTrue DEF Only
<1>3. CASE Mint!Begin(w, c)
  <2>1. Take(w, "read", c, 0) /\ UNCHANGED operation /\ row' = row
    BY <1>3, MintRuns DEF Mint!Begin
  <2>2. row' = [row EXCEPT ![c] = old]
    BY <2>1 DEF MintInv
  <2>3. 0 \in 0..MaxClaims /\ 0 <= o.claim
    BY <1>1, Bounded
  <2> QED BY <1>2, <2>1, <2>2, <2>3
<1>4. ASSUME NEW named \in Mint!Named(c), Mint!Execute(w, c, named) PROVE MintTrue'
  <2> DEFINE r == IF old.admitted THEN old
                  ELSE [old EXCEPT !.admitted = TRUE, !.status = "executing"]
  <2>1. row' = [row EXCEPT ![c] = r] /\ Take(w, "read", c, named) /\ UNCHANGED operation
    BY <1>4, MintRuns DEF Mint!Execute, Mint!Write
  <2>2. r.bound = old.bound /\ r.record = old.record
    BY <1>1 DEF Mint!Request
  <2>3. named \in 0..MaxClaims /\ named <= o.claim /\ (named # 0 => old.bound)
    BY <1>1, Bounded DEF Mint!Named, Mint!Claims
  <2> HIDE DEF r
  <2> QED BY <1>2, <2>1, <2>2, <2>3
<1> QED BY <1>3, <1>4

LEMMA MintBindsTrue ==
    ASSUME MintInv, MintTrue, NEW w \in Workers, Mint!Bind(w)
    PROVE  MintTrue'
<1> DEFINE c == worker[w].command
           o == operation[c]
           old == row[c]
           status == IF old.status = "failed" /\ o.status \notin Undone THEN "executing" ELSE old.status
           r == [old EXCEPT !.bound = TRUE, !.status = status]
<1>1. /\ worker[w].pc = "bind" /\ UNCHANGED operation /\ Goto(w, "resume")
      /\ row' = [row EXCEPT ![c] =
            [old EXCEPT !.bound = TRUE, !.status = IF @ = "failed" /\ o.status \notin Undone
                                                   THEN "executing" ELSE @]]
  BY MintRuns DEF Mint!Bind, Mint!Row, Mint!Write
<1>2. c \in Commands /\ old \in Mint!Request /\ RunsSound /\ MintKnows(worker[w], o, old)
  BY <1>1, MintInHand DEF MintTrue
<1>3. row' = [row EXCEPT ![c] = r]
  BY <1>1, <1>2 DEF Mint!Request
<1> HIDE DEF status
<1>4. r.bound /\ r.record = old.record
  BY <1>2 DEF Mint!Request
<1> HIDE DEF r
<1>5. MintKept(o, o, old, r)
  BY <1>4 DEF MintKept, Advances
<1>6. Only(w) /\ Carries(w) /\ worker'[w].pc = "resume"
  BY <1>1, <1>2, GotoGoes DEF Steps
<1>7. worker'[w].command = c /\ MintKnows(worker'[w], o, r)
  BY <1>2, <1>4, <1>6 DEF MintKnows, Carries
<1> QED BY <1>1, <1>2, <1>3, <1>5, <1>6, <1>7, MintWritesTrue DEF Only

\* What _project writes on the record of the current attempt.
LEMMA MintRecords ==
    ASSUME MintInv, NEW w \in Workers, NEW c \in Commands, c = worker[w].command,
           operation[c].claim = worker[w].claim, row[c].bound
    PROVE  /\ MintKept(operation[c], operation[c], row[c], Mint!Projected(w))
           /\ operation[c].status = "reverted" =>
                 Mint!Projected(w).record[operation[c].claim] = "reverted"
<1> DEFINE o == operation[c]
           old == row[c]
           k == worker[w].claim
           status == CASE o.status = "confirmed" -> "executed"
                       [] o.status \in Undone -> "failed"
                       [] OTHER -> "executing"
           entry == IF o.tx[k] = "none" THEN old.record[k] ELSE Mint!Recorded(o.status)
           r == [old EXCEPT !.status = status, !.record[k] = entry]
<1>1. old \in Mint!Request /\ Sound(o) /\ o.status # "none"
  BY DEF MintInv, OperationsSound, MintFits
<1>2. /\ o.claim = k /\ k \in Claims /\ o.status = "reverted" => o.tx[k] # "none"
      /\ k \in Claims
  BY <1>1, Bounded DEF Sound, Operation
<1>3. Mint!Projected(w) = r
  BY <1>1, MintRuns DEF Mint!Projected, Mint!Row, Mint!Request
<1>4. o.status = "reverted" => entry = "reverted"
  BY <1>2 DEF Mint!Recorded
<1> HIDE DEF entry, status
<1>5. /\ r.bound = old.bound /\ r.record = [old.record EXCEPT ![k] = entry]
      /\ old.record \in [Claims -> {"none", "submitted", "confirmed", "reverted"}]
  BY <1>1 DEF Mint!Request, Mint!Claims, Claims
<1> HIDE DEF r
<1>6. \A j \in Claims : r.record[j] = IF j = k THEN entry ELSE old.record[j]
  BY <1>5
<1>7. o.status = "reverted" => r.record[o.claim] = "reverted"
  BY <1>2, <1>4, <1>6
<1>8. \A j \in Claims : j < o.claim => r.record[j] = old.record[j]
  <2>1. \A j \in Claims : j < o.claim => j # k
    BY <1>2, Bounded
  <2> QED BY <1>6, <2>1
<1>9. MintKept(o, o, old, r)
  BY <1>5, <1>7, <1>8 DEF MintKept, Advances
<1> QED BY <1>3, <1>7, <1>9

LEMMA MintRetainsTrue ==
    ASSUME MintInv, MintTrue, NEW w \in Workers, Mint!Retain(w)
    PROVE  MintTrue'
<1> DEFINE c == worker[w].command
           o == operation[c]
           old == row[c]
           r == Mint!Projected(w)
<1>1. worker[w].pc = "retain" /\ UNCHANGED operation
  BY MintRuns DEF Mint!Retain
<1>2. /\ c \in Commands /\ old.bound /\ RunsSound /\ Sound(o) /\ MintKnows(worker[w], o, old)
  BY <1>1, MintInHand DEF MintSuits, MintTrue
<1>3. CASE o.claim = worker[w].claim /\ row' = [row EXCEPT ![c] = r] /\ Goto(w, "open")
  <2>1. o.status = "reverted"
    BY <1>1, <1>2, <1>3 DEF MintKnows
  <2>2. MintKept(o, o, old, r) /\ r.record[o.claim] = "reverted" /\ r.bound
    BY <1>2, <1>3, <2>1, MintRecords, MintProjected
  <2>3. Only(w) /\ Carries(w) /\ worker'[w].pc = "open"
    BY <1>2, <1>3, GotoGoes DEF Steps
  <2> HIDE DEF r
  <2>4. worker'[w].command = c /\ MintKnows(worker'[w], o, r)
    BY <1>2, <2>1, <2>2, <2>3 DEF MintKnows, Carries
  <2> QED BY <1>1, <1>2, <1>3, <2>2, <2>3, <2>4, MintWritesTrue DEF Only
<1>4. CASE /\ worker' = [worker EXCEPT ![w].pc = "resume", ![w].claim = o.claim] /\ row' = row
  <2>1. Only(w) /\ Carries(w) /\ worker'[w].pc = "resume"
    <3>1. o.claim \in 0..MaxClaims
      BY <1>2, SignedIsAttempted
    <3>2. PICK claim \in 0..MaxClaims : claim = o.claim
      BY <3>1
    <3>3. worker' = [worker EXCEPT ![w].pc = "resume", ![w].claim = claim]
      BY <1>4, <3>2
    <3> HIDE DEF o
    <3> QED BY <1>2, <3>3, ClaimGoes DEF Steps
  <2>2. worker'[w].command = c /\ MintKnows(worker'[w], o, old)
    BY <1>2, <2>1 DEF MintKnows, Carries
  <2> QED BY <1>1, <1>2, <1>4, <2>1, <2>2, NoneMoves, MintGoesOn DEF Only
<1> QED BY <1>3, <1>4, MintRuns DEF Mint!Retain, Mint!Write

LEMMA MintEndsTrue ==
    ASSUME MintInv, MintTrue, NEW w \in Workers, Mint!Project(w)
    PROVE  MintTrue'
<1> DEFINE c == worker[w].command
           o == operation[c]
           old == row[c]
           r == Mint!Projected(w)
<1>1. /\ worker[w].pc \in {"look", "settle"} /\ UNCHANGED operation
      /\ o.claim = worker[w].claim /\ old.bound /\ row' = [row EXCEPT ![c] = r]
      /\ Goto(w, "reconcile") \/ Finish(w)
  BY MintRuns DEF Mint!Project, Mint!Write, Mint!Row
<1>2. c \in Commands /\ RunsSound /\ MintKnows(worker[w], o, old)
  BY <1>1, MintInHand DEF MintTrue
<1>3. MintKept(o, o, old, r) /\ r.bound
  BY <1>1, <1>2, MintRecords, MintProjected
<1> HIDE DEF r
<1>4. CASE Goto(w, "reconcile")
  <2>1. Only(w) /\ Carries(w) /\ worker'[w].pc = "reconcile"
    BY <1>2, <1>4, GotoGoes DEF Steps
  <2>2. worker'[w].command = c /\ MintKnows(worker'[w], o, r)
    BY <1>2, <1>3, <2>1 DEF MintKnows, Carries
  <2> QED BY <1>1, <1>2, <1>3, <2>1, <2>2, MintWritesTrue DEF Only
<1>5. CASE Finish(w)
  <2>1. Only(w) /\ worker'[w].pc = "idle"
    BY <1>2, <1>5, FinishGoes, IdleRun
  <2> QED BY <1>1, <1>2, <1>3, <2>1, MintWritesTrue DEF Only
<1> QED BY <1>1, <1>4, <1>5

\* Every step of a mint leaves it true.
LEMMA MintKeepsTrue ==
    ASSUME MintInv, MintTrue, Mint!Next
    PROVE  MintTrue'
<1>1. ASSUME NEW w \in Workers, Mint!Recover(w)
      PROVE  MintTrue'
  <2>1. CASE Mint!Journal(w) /\ UNCHANGED row
    BY <2>1, MintRuns, MintOpensTrue, MintFollowsTrue
  <2> QED BY <1>1, <2>1, MintReadsTrue, MintRetainsTrue, MintBindsTrue, MintQuietIsTrue,
             MintEndsTrue DEF Mint!Recover
<1>2. ASSUME NEW c \in Commands, NEW k \in Claims, NEW outcome \in {"mined", "reverted"},
             Mint!Mine(c, k, outcome)
      PROVE  MintTrue'
  <2>1. Mined(c, k, outcome) /\ row' = row
    BY <1>2, MintIs DEF Mint!Mine
  <2> QED BY <2>1, MintMineIsTrue
<1> QED BY <1>1, <1>2, MintRejectsTrue, MintTakesTrue DEF Mint!Next, Mint!Claims, Claims

LEMMA MintBeginsTrue == Mint!Init => MintTrue
<1> SUFFICES ASSUME Mint!Init PROVE MintTrue
  OBVIOUS
<1>1. /\ operation = [c \in Commands |-> NoOperation] /\ worker = [w \in Workers |-> Idle]
  BY DEF Mint!Init, Mint!JournalInit, Mint!NoOperation, NoOperation, Mint!Idle, Idle, Mint!Claims, Claims
<1>2. NoOperation.status = "none" /\ NoOperation.claim = 0
  BY DEF NoOperation
<1>3. \A k \in Claims : ~(k < 0)
  BY Bounded
<1> QED BY <1>1, <1>2, <1>3, IdleRun DEF MintTrue, MintKnown

LEMMA MintTypes == MintInv => Mint!TypeOK
BY DEF MintInv, Mint!TypeOK, Mint!JournalTypeOK, OperationsSound, RunsSound, Mint!Operation,
   Operation, Mint!TxState, TxState, Mint!Run, Run, Mint!Steps, Steps, Mint!Claims, Claims

LEMMA MintHolds == MintInv /\ MintTrue => Mint!MintIsTrue
<1> SUFFICES ASSUME MintInv, MintTrue, NEW c \in Commands
             PROVE  /\ row[c].status = "executed" => Mint!Executed(c)
                    /\ \A k \in Mint!Claims :
                          k < operation[c].claim /\ operation[c].tx[k] # "none" =>
                              operation[c].tx[k] = "reverted" /\ row[c].record[k] = "reverted"
  BY DEF Mint!MintIsTrue
<1>1. MintFits(operation[c], row[c]) /\ MintKnown(operation[c], row[c]) /\ Sound(operation[c])
  BY DEF MintInv, MintTrue, OperationsSound
<1>2. row[c].status = "executed" => Mint!Executed(c)
  BY <1>1, DoneIs DEF MintFits, Mint!Executed, Mint!Claims, Claims
<1>3. Mint!Claims = Claims
  BY DEF Mint!Claims, Claims
<1> QED BY <1>1, <1>2, <1>3 DEF MintKnown, Sound

-----------------------------------------------------------------------------
(* TokenDeployment.                                                        *)

\* The contract under a token's identifier is the one its executed attempt
\* created; a token row names the transaction of its deployment, and once it
\* counts as deployed the address that is on it.
DeployTrue ==
    /\ target \in [Commands -> Deploy!Token]
    /\ contract \in [Commands -> 0..(MaxClaims + 1)]
    /\ \A c \in Commands :
          /\ Done(operation[c]) => contract[c] = operation[c].claim
          /\ target[c].transaction = row[c].transaction
          /\ target[c].status = "deployed" =>
                target[c].address = row[c].address /\ row[c].address # 0

\* No attempt is opened over one that was executed.
LEMMA DoneStays ==
    ASSUME OperationsSound, NEW w \in Workers,
           Open(w) \/ Sign(w) \/ FailPreparing(w) \/ Followed(w) \/ UNCHANGED operation
    PROVE  \A c \in Commands :
              Done(operation[c]) => operation'[c].claim = operation[c].claim
<1>1. CASE AllAdvance
  BY <1>1 DEF AllAdvance, Advances
<1>2. CASE Open(w)
  <2> DEFINE c == worker[w].command
             o == operation[c]
  <2>1. CASE UNCHANGED operation
    BY <2>1
  <2>2. CASE /\ o.status = "none" \/ Reopens(o, worker[w].retry)
             /\ operation' = [operation EXCEPT ![c].status = "preparing", ![c].claim = @ + 1]
    <3>1. c \in Commands => ~Done(o)
      BY <2>2, DoneIs DEF Reopens, OperationsSound
    <3>2. \A d \in Commands : d # c => operation'[d] = operation[d]
      BY <2>2 DEF OperationsSound
    <3> QED BY <3>1, <3>2
  <2> QED BY <1>2, <2>1, <2>2 DEF Open
<1> QED BY <1>1, <1>2, NoneMoves, SignAdvances, FailAdvances, FollowedAdvances

\* Steps that leave the tokens and the factory alone.
LEMMA DeployStays ==
    ASSUME DeployInv, DeployTrue, target' = target, contract' = contract, NEW w \in Workers,
           Open(w) \/ Sign(w) \/ FailPreparing(w) \/ Followed(w) \/ UNCHANGED operation,
           \A c \in Commands :
              /\ row'[c].transaction = row[c].transaction
              /\ row[c].address # 0 => row'[c].address = row[c].address
    PROVE  DeployTrue'
<1>1. OperationsSound
  BY DEF DeployInv
<1>2. NoneDone /\ \A c \in Commands : Done(operation[c]) => operation'[c].claim = operation[c].claim
  BY <1>1, JournalDoesNothing, DoneStays
<1> QED BY <1>2 DEF DeployTrue, NoneDone

LEMMA DeployRests ==
    ASSUME DeployInv, DeployTrue, row' = row, target' = target, contract' = contract,
           NEW w \in Workers,
           Open(w) \/ Sign(w) \/ FailPreparing(w) \/ Followed(w) \/ UNCHANGED operation
    PROVE  DeployTrue'
BY DeployStays

LEMMA DeployRewrites ==
    ASSUME DeployInv, DeployTrue, target' = target, contract' = contract, NEW w \in Workers,
           FailPreparing(w) \/ UNCHANGED operation,
           NEW c \in Commands, NEW r, row' = [row EXCEPT ![c] = r],
           r.transaction = row[c].transaction, row[c].address # 0 => r.address = row[c].address
    PROVE  DeployTrue'
<1>1. \A d \in Commands : row'[d] = IF d = c THEN r ELSE row[d]
  BY DEF DeployInv
<1>2. \A d \in Commands :
         /\ row'[d].transaction = row[d].transaction
         /\ row[d].address # 0 => row'[d].address = row[d].address
  BY <1>1
<1> QED BY <1>2, DeployStays

LEMMA DeployReadsTrue ==
    ASSUME DeployInv, DeployTrue, NEW w \in Workers,
           \/ Deploy!ReadClaim(w) \/ Deploy!Resume(w) \/ Deploy!ReadFactory(w) \/ Deploy!GiveUp(w)
           \/ Deploy!Settle(w) \/ \E c \in Commands : Deploy!Begin(w, c)
    PROVE  DeployTrue'
<1>1. /\ row' = row /\ target' = target /\ contract' = contract
      /\ UNCHANGED operation \/ FailPreparing(w)
  BY DeployIs DEF Deploy!ReadClaim, Deploy!Resume, Deploy!ReadFactory, Deploy!GiveUp, Deploy!Settle,
     Deploy!Begin, Deploy!rows
<1> QED BY <1>1, DeployRests

LEMMA DeployRowsAreTrue ==
    ASSUME DeployInv, DeployTrue, NEW w \in Workers,
           \/ Deploy!Retain(w) \/ Deploy!Bind(w) \/ Deploy!HoldExistingContract(w)
           \/ Deploy!RecordOutcome(w) \/ Deploy!MarkProjected(w)
    PROVE  DeployTrue'
<1> DEFINE c == worker[w].command
           old == row[c]
<1>1. /\ target' = target /\ contract' = contract
      /\ worker[w].pc \in {"retain", "bind", "refused", "outcome", "finish"}
  BY DeployRuns DEF Deploy!Retain, Deploy!Bind, Deploy!HoldExistingContract, Deploy!RecordOutcome,
     Deploy!MarkProjected
<1>2. c \in Commands /\ old \in Deploy!Deployment /\ DeploySuits(worker[w], operation[c], old)
  BY <1>1, DeployInHand
<1>3. ASSUME NEW r, row' = [row EXCEPT ![c] = r], r.transaction = old.transaction,
             old.address # 0 => r.address = old.address,
             FailPreparing(w) \/ UNCHANGED operation
      PROVE  DeployTrue'
  <2> HIDE DEF c
  <2> QED BY <1>1, <1>2, <1>3, DeployRewrites
<1>4. CASE Deploy!Retain(w)
  <2> DEFINE r == Deploy!Outcome(w)
  <2>1. CASE operation[c].claim = worker[w].claim /\ row' = [row EXCEPT ![c] = r]
    <3>1. old.bound
      BY <1>2, <1>4, DeployRuns DEF DeploySuits, Deploy!Retain
    <3>2. r.transaction = old.transaction /\ (old.address # 0 => r.address = old.address)
      BY <1>2, <2>1, <3>1, DeployOutcome
    <3> HIDE DEF r
    <3> QED BY <1>3, <1>4, <2>1, <3>2 DEF Deploy!Retain
  <2>2. CASE row' = row
    BY <1>1, <1>4, <2>2, DeployRests DEF Deploy!Retain
  <2> QED BY <1>4, <2>1, <2>2, DeployRuns DEF Deploy!Retain, Deploy!Write
<1>5. CASE Deploy!Bind(w)
  <2> DEFINE r == [old EXCEPT !.bound = TRUE]
  <2>1. row' = [row EXCEPT ![c] = r] /\ UNCHANGED operation
    BY <1>5 DEF Deploy!Bind, Deploy!Write, Deploy!Row
  <2>2. r.transaction = old.transaction /\ r.address = old.address
    BY <1>2 DEF Deploy!Deployment
  <2> HIDE DEF r
  <2> QED BY <1>3, <2>1, <2>2
<1>6. CASE Deploy!HoldExistingContract(w)
  <2> DEFINE r == [old EXCEPT !.held = TRUE]
  <2>1. CASE row' = [row EXCEPT ![c] = r] /\ FailPreparing(w)
    <3>1. r.transaction = old.transaction /\ r.address = old.address
      BY <1>2 DEF Deploy!Deployment
    <3> HIDE DEF r
    <3> QED BY <1>3, <2>1, <3>1
  <2>2. CASE row' = row /\ UNCHANGED operation
    BY <1>1, <2>2, DeployRests
  <2> QED BY <1>6, <2>1, <2>2, DeployRuns DEF Deploy!HoldExistingContract, Deploy!Holds, Deploy!Write,
          Deploy!Row, FailPreparing, Signs, Own, Owns
<1>7. CASE Deploy!RecordOutcome(w)
  <2> DEFINE r == Deploy!Outcome(w)
  <2>1. /\ operation[c].claim = worker[w].claim /\ old.bound /\ row' = [row EXCEPT ![c] = r]
        /\ UNCHANGED operation
    BY <1>7, DeployRuns DEF Deploy!RecordOutcome, Deploy!Write, Deploy!Row
  <2>2. r.transaction = old.transaction /\ (old.address # 0 => r.address = old.address)
    BY <1>2, <2>1, DeployOutcome
  <2> HIDE DEF r
  <2> QED BY <1>3, <2>1, <2>2
<1>8. CASE Deploy!MarkProjected(w)
  <2> DEFINE r == [old EXCEPT !.projected = TRUE]
  <2>1. row' = [row EXCEPT ![c] = r] /\ UNCHANGED operation
    BY <1>8 DEF Deploy!MarkProjected, Deploy!Write, Deploy!Row
  <2>2. r.transaction = old.transaction /\ r.address = old.address
    BY <1>2 DEF Deploy!Deployment
  <2> HIDE DEF r
  <2> QED BY <1>3, <2>1, <2>2
<1> QED BY <1>4, <1>5, <1>6, <1>7, <1>8

LEMMA DeployAdmitsTrue ==
    ASSUME DeployInv, DeployTrue, NEW w \in Workers, NEW c \in Commands, NEW named,
           Deploy!Deploy(w, c, named)
    PROVE  DeployTrue'
<1> DEFINE r == [row[c] EXCEPT !.admitted = TRUE]
<1>1. row' = [row EXCEPT ![c] = r] /\ UNCHANGED <<operation, target, contract>>
  BY DEF Deploy!Deploy, Deploy!Write
<1>2. r.transaction = row[c].transaction /\ r.address = row[c].address
  BY DEF Deploy!Deployment, DeployInv
<1> HIDE DEF r
<1> QED BY <1>1, <1>2, DeployRewrites

LEMMA DeploySignsTrue ==
    ASSUME DeployInv, DeployTrue, NEW w \in Workers, Deploy!SignDeployment(w)
    PROVE  DeployTrue'
<1> DEFINE c == worker[w].command
           k == worker[w].claim
           old == row[c]
           t == target[c]
           r == [old EXCEPT !.transaction = k, !.record[k] = "submitted"]
           s == [t EXCEPT !.transaction = k]
<1>1. /\ Sign(w) /\ row' = [row EXCEPT ![c] = r] /\ target' = [target EXCEPT ![c] = s]
      /\ t.status = "deploying" /\ contract' = contract
  BY DeployIs DEF Deploy!SignDeployment, Deploy!Bindable, Deploy!Write, Deploy!WriteToken, Deploy!Row
<1>2. worker[w].pc = "prepare" /\ worker[w] \in Run /\ OperationsSound
  BY <1>1 DEF Sign, At, DeployInv, RunsSound
<1>3. c \in Commands /\ old \in Deploy!Deployment /\ k \in 0..MaxClaims /\ t \in Deploy!Token
  BY <1>2, DeployInHand DEF DeployTrue, Run
<1>4. /\ s \in Deploy!Token /\ s.status = "deploying" /\ s.transaction = k
      /\ r.transaction = k
  BY <1>1, <1>3 DEF Deploy!Token, Deploy!Deployment
<1>5. NoneDone /\ \A d \in Commands : Done(operation[d]) => operation'[d].claim = operation[d].claim
  BY <1>1, <1>2, JournalDoesNothing, DoneStays
<1>6. /\ \A d \in Commands : row'[d] = IF d = c THEN r ELSE row[d]
      /\ \A d \in Commands : target'[d] = IF d = c THEN s ELSE target[d]
      /\ target' \in [Commands -> Deploy!Token]
  BY <1>1, <1>4 DEF DeployInv, DeployTrue
<1> HIDE DEF r, s
<1> QED BY <1>1, <1>4, <1>5, <1>6 DEF DeployTrue, NoneDone

LEMMA DeployTokensAreTrue ==
    ASSUME DeployInv, DeployTrue, NEW c \in Commands, NEW s \in Deploy!Token,
           UNCHANGED <<row, contract, operation>>, target' = [target EXCEPT ![c] = s],
           s.transaction = target[c].transaction,
           s.status = "deployed" => s.address = row[c].address /\ row[c].address # 0
    PROVE  DeployTrue'
<1>1. /\ \A d \in Commands : target'[d] = IF d = c THEN s ELSE target[d]
      /\ target' \in [Commands -> Deploy!Token]
  BY DEF DeployTrue
<1> QED BY <1>1 DEF DeployTrue

LEMMA DeployProjectsTrue ==
    ASSUME DeployInv, DeployTrue, NEW w \in Workers, Deploy!Project(w)
    PROVE  DeployTrue'
<1> DEFINE c == worker[w].command
           t == target[c]
           s == [t EXCEPT !.status = "deployed", !.address = row[c].address]
<1>1. /\ worker[w].pc = "project" /\ UNCHANGED <<row, contract, operation>>
      /\ UNCHANGED target \/ target' = [target EXCEPT ![c] = s]
  BY DeployRuns DEF Deploy!Project, Deploy!WriteToken, Deploy!Row
<1>2. c \in Commands /\ row[c].address # 0 /\ row[c].address \in 0..MaxClaims /\ t \in Deploy!Token
  BY <1>1, DeployInHand, DeployColumns DEF DeploySuits, DeployTrue
<1>3. s \in Deploy!Token /\ s.transaction = t.transaction /\ s.address = row[c].address
  BY <1>2 DEF Deploy!Token
<1> HIDE DEF s
<1>4. CASE UNCHANGED target
  BY <1>1, <1>4, DeployRests
<1>5. CASE target' = [target EXCEPT ![c] = s]
  BY <1>1, <1>2, <1>3, <1>5, DeployTokensAreTrue
<1> QED BY <1>1, <1>4, <1>5

LEMMA DeployStartsTrue ==
    ASSUME DeployInv, DeployTrue, NEW c \in Commands, Deploy!Start(c)
    PROVE  DeployTrue'
<1> DEFINE s == [target[c] EXCEPT !.status = "deploying"]
<1>1. UNCHANGED <<row, contract, operation>> /\ target' = [target EXCEPT ![c] = s]
  BY DEF Deploy!Start, Deploy!WriteToken
<1>2. s \in Deploy!Token /\ s.transaction = target[c].transaction /\ s.status = "deploying"
  BY DEF DeployTrue, Deploy!Token
<1> HIDE DEF s
<1> QED BY <1>1, <1>2, DeployTokensAreTrue

\* The factory: it creates one contract, for whoever is first.
LEMMA DeployMineIsTrue ==
    ASSUME DeployInv, DeployTrue, NEW c \in Commands, NEW k \in Claims,
           NEW outcome \in {"mined", "reverted"}, Deploy!Mine(c, k, outcome)
    PROVE  DeployTrue'
<1>1. /\ Mined(c, k, outcome) /\ row' = row /\ target' = target
      /\ contract' = IF outcome = "mined" THEN [contract EXCEPT ![c] = k] ELSE contract
  BY DeployIs DEF Deploy!Mine, Deploy!rows
<1>2. /\ \A d \in Commands : d # c => operation'[d] = operation[d]
      /\ operation'[c].claim = k /\ (Done(operation'[c]) <=> outcome = "mined")
  BY <1>1, ChainDoes DEF DeployInv
<1>3. k \in 0..(MaxClaims + 1)
  BY Bounded
<1>4. contract' \in [Commands -> 0..(MaxClaims + 1)] /\ (outcome = "mined" => contract'[c] = k)
      /\ \A d \in Commands : d # c => contract'[d] = contract[d]
  BY <1>1, <1>3 DEF DeployTrue
<1>5. \A d \in Commands : Done(operation'[d]) => contract'[d] = operation'[d].claim
  BY <1>2, <1>4 DEF DeployTrue
<1> QED BY <1>1, <1>4, <1>5 DEF DeployTrue

LEMMA DeployElsewhereIsTrue ==
    ASSUME DeployInv, DeployTrue, NEW c \in Commands, Deploy!CreateElsewhere(c)
    PROVE  DeployTrue'
<1>1. /\ UNCHANGED <<row, target, operation>> /\ contract[c] = 0
      /\ contract' = [contract EXCEPT ![c] = MaxClaims + 1]
  BY DEF Deploy!CreateElsewhere, Deploy!rows, Deploy!Free, Deploy!Foreign
<1>2. ~Done(operation[c])
  <2>1. Sound(operation[c])
    BY DEF DeployInv, OperationsSound
  <2>2. operation[c].claim # 0 \/ ~Done(operation[c])
    BY <2>1, DoneIs, Bounded DEF Done
  <2> QED BY <1>1, <2>2 DEF DeployTrue
<1>3. contract' \in [Commands -> 0..(MaxClaims + 1)]
      /\ \A d \in Commands : d # c => contract'[d] = contract[d]
  BY <1>1, Bounded DEF DeployTrue
<1> QED BY <1>1, <1>2, <1>3 DEF DeployTrue

\* Every step of a deployment leaves it true.
LEMMA DeployKeepsTrue ==
    ASSUME DeployInv, DeployTrue, Deploy!Next
    PROVE  DeployTrue'
<1>1. ASSUME NEW w \in Workers, Deploy!Recover(w)
      PROVE  DeployTrue'
  <2>1. CASE (Deploy!Journal(w) \/ Deploy!Look(w)) /\ UNCHANGED <<Deploy!rows, contract>>
    <3>1. row' = row /\ target' = target /\ contract' = contract
      BY <2>1 DEF Deploy!rows
    <3> QED BY <2>1, <3>1, DeployRuns, DeployRests
  <2> QED BY <1>1, <2>1, DeployReadsTrue, DeployRowsAreTrue, DeploySignsTrue, DeployProjectsTrue
          DEF Deploy!Recover
<1>2. ASSUME NEW c \in Commands, NEW k \in Claims, NEW outcome \in {"mined", "reverted"},
             Deploy!Mine(c, k, outcome)
      PROVE  DeployTrue'
  BY <1>2, DeployMineIsTrue
<1> QED BY <1>1, <1>2, DeployReadsTrue, DeployAdmitsTrue, DeployStartsTrue, DeployElsewhereIsTrue
    DEF Deploy!Next, Deploy!Claims, Claims

LEMMA DeployBeginsTrue == Deploy!Init => DeployTrue
<1> SUFFICES ASSUME Deploy!Init PROVE DeployTrue
  OBVIOUS
<1>1. operation = [c \in Commands |-> NoOperation]
  BY DEF Deploy!Init, Deploy!JournalInit, Deploy!NoOperation, NoOperation, Deploy!Claims, Claims
<1>2. \A c \in Commands : ~Done(operation[c])
  BY <1>1 DEF Done, NoOperation
<1>3. /\ Deploy!OtherToken \in Deploy!Token /\ Deploy!DraftToken \in Deploy!Token
      /\ Deploy!OtherToken.transaction = 0 /\ Deploy!DraftToken.transaction = 0
      /\ Deploy!OtherToken.status = "other" /\ Deploy!DraftToken.status = "draft"
  BY Bounded DEF Deploy!OtherToken, Deploy!DraftToken, Deploy!Token
<1>4. \A c \in Commands : row[c].transaction = 0
  BY DEF Deploy!Init, Deploy!NoDeployment
<1>5. target \in [Commands -> {Deploy!OtherToken, Deploy!DraftToken}]
      /\ contract = [c \in Commands |-> 0] /\ 0 \in 0..(MaxClaims + 1)
  BY Bounded DEF Deploy!Init, Deploy!Free
<1> QED BY <1>2, <1>3, <1>4, <1>5 DEF DeployTrue

LEMMA DeployTypes == DeployInv /\ DeployTrue => Deploy!TypeOK
BY DEF DeployInv, DeployTrue, Deploy!TypeOK, Deploy!JournalTypeOK, OperationsSound, RunsSound,
   Deploy!Operation, Operation, Deploy!TxState, TxState, Deploy!Run, Run, Deploy!Steps, Steps,
   Deploy!Claims, Claims

LEMMA DeployHoldsTrue == DeployInv /\ DeployTrue => Deploy!DeployedIsTrue
<1> SUFFICES ASSUME DeployInv, DeployTrue, NEW c \in Commands
             PROVE  /\ target[c].status = "deployed" =>
                          /\ target[c].address = contract[c]
                          /\ target[c].transaction = target[c].address
                    /\ row[c].address \in {0, contract[c]}
  BY DEF Deploy!DeployedIsTrue
<1>1. DeployFits(operation[c], row[c]) /\ Sound(operation[c])
  BY DEF DeployInv, OperationsSound
<1>2. row[c].address # 0 => row[c].address = contract[c] /\ row[c].transaction = contract[c]
  BY <1>1, DoneIs DEF DeployFits, DeployTrue, Attempted
<1> QED BY <1>2 DEF DeployTrue

-----------------------------------------------------------------------------
(* CapitalIncrease.                                                        *)

\* A request that counts as executed moved the cap from the admitted total, and
\* a run that means to say so saw it.  While no other tool touches the contract
\* its cap is the recorded one, until the one execution there is was executed,
\* and then the total it asked for.
CapitalTrue ==
    /\ contract \in [cap : Capital!Totals, elsewhere : BOOLEAN, exact : SUBSET Commands]
    /\ \A c \in Commands : row[c].status = "executed" => c \in contract.exact
    /\ \A w \in Workers : worker[w].seen => worker[w].command \in contract.exact
    /\ ~contract.elsewhere =>
          /\ \A c \in Commands : row[c].status = "executing" =>
                contract.cap = IF Done(operation[c]) THEN row[c].total ELSE target
          /\ (\A c \in Commands : row[c].status # "executing") => contract.cap = target

\* What most steps leave of a row.
CapitalAlike(r, s) ==
    /\ s.status = r.status \/ {r.status, s.status} \cap {"executing", "executed"} = {}
    /\ r.status = "executing" => s.total = r.total

\* No run has seen more than it had.
NothingSeen ==
    \A v \in Workers : worker'[v].seen => worker[v].seen /\ worker'[v].command = worker[v].command

LEMMA GoesUnseeing ==
    ASSUME RunsSound, NEW w \in Workers,
           \/ worker' = worker
           \/ \E pc : Goto(w, pc)
           \/ Finish(w)
           \/ \E pc, c, retry : Take(w, pc, c, retry)
           \/ \E pc, retry : worker' = [worker EXCEPT ![w].pc = pc, ![w].retry = retry]
           \/ \E pc, claim : worker' = [worker EXCEPT ![w].pc = pc, ![w].claim = claim]
    PROVE  NothingSeen
<1>0. worker \in [Workers -> Run]
  BY DEF RunsSound
<1>1. CASE worker' = worker
  BY <1>1 DEF NothingSeen
<1>2. ASSUME NEW r, worker' = [worker EXCEPT ![w] = r],
             r.seen => worker[w].seen /\ r.command = worker[w].command
      PROVE  NothingSeen
  BY <1>0, <1>2 DEF NothingSeen
<1>3. ASSUME NEW pc, Goto(w, pc) PROVE NothingSeen
  <2> DEFINE r == [worker[w] EXCEPT !.pc = pc]
  <2>1. worker' = [worker EXCEPT ![w] = r]
    BY <1>3 DEF Goto
  <2>2. r.seen = worker[w].seen /\ r.command = worker[w].command
    BY <1>0 DEF Run
  <2> HIDE DEF r
  <2> QED BY <1>2, <2>1, <2>2
<1>4. CASE Finish(w)
  BY <1>2, <1>4, IdleRun DEF Finish
<1>5. ASSUME NEW pc, NEW c, NEW retry, Take(w, pc, c, retry) PROVE NothingSeen
  <2> DEFINE r == [Idle EXCEPT !.pc = pc, !.command = c, !.retry = retry]
  <2>1. worker' = [worker EXCEPT ![w] = r] /\ ~r.seen
    BY <1>5, IdleRun DEF Take, Run
  <2> HIDE DEF r
  <2> QED BY <1>2, <2>1
<1>6. ASSUME NEW pc, NEW retry, worker' = [worker EXCEPT ![w].pc = pc, ![w].retry = retry]
      PROVE  NothingSeen
  <2> DEFINE r == [worker[w] EXCEPT !.pc = pc, !.retry = retry]
  <2>1. worker' = [worker EXCEPT ![w] = r]
    BY <1>0, <1>6 DEF Run
  <2>2. r.seen = worker[w].seen /\ r.command = worker[w].command
    BY <1>0 DEF Run
  <2> HIDE DEF r
  <2> QED BY <1>2, <2>1, <2>2
<1>7. ASSUME NEW pc, NEW claim, worker' = [worker EXCEPT ![w].pc = pc, ![w].claim = claim]
      PROVE  NothingSeen
  <2> DEFINE r == [worker[w] EXCEPT !.pc = pc, !.claim = claim]
  <2>1. worker' = [worker EXCEPT ![w] = r]
    BY <1>0, <1>7 DEF Run
  <2>2. r.seen = worker[w].seen /\ r.command = worker[w].command
    BY <1>0 DEF Run
  <2> HIDE DEF r
  <2> QED BY <1>2, <2>1, <2>2
<1> QED BY <1>1, <1>3, <1>4, <1>5, <1>6, <1>7

LEMMA JournalUnseeing ==
    ASSUME OperationsSound, RunsSound, NEW w \in Workers, Open(w) \/ Followed(w)
    PROVE  NothingSeen
<1>1. CASE Open(w)
  BY <1>1, OpenDoes DEF NothingSeen, Only, Carries
<1>2. CASE Followed(w)
  BY <1>2, FollowedGoes, IdleRun DEF NothingSeen, Only, Carries
<1> QED BY <1>1, <1>2

\* Steps that change neither cap, and start or end no execution.
LEMMA CapitalStays ==
    ASSUME CapitalInv, CapitalTrue, target' = target, contract' = contract, NoneDone,
           \A c \in Commands : CapitalAlike(row[c], row'[c]),
           \A w \in Workers : worker'[w].seen => worker'[w].command \in contract.exact
    PROVE  CapitalTrue'
<1>1. \A c \in Commands : row'[c].status = "executed" => c \in contract.exact
  BY DEF CapitalTrue, CapitalAlike
<1>2. \A c \in Commands : row'[c].status = "executing" =>
         row[c].status = "executing" /\ row'[c].total = row[c].total
  BY DEF CapitalAlike
<1>3. \A c \in Commands : row[c].status = "executing" => row'[c].status = "executing"
  BY DEF CapitalAlike
<1> QED BY <1>1, <1>2, <1>3 DEF CapitalTrue, NoneDone

LEMMA CapitalRests ==
    ASSUME CapitalInv, CapitalTrue, row' = row, target' = target, contract' = contract, NoneDone,
           NothingSeen
    PROVE  CapitalTrue'
<1>1. \A c \in Commands : CapitalAlike(row[c], row'[c])
  BY DEF CapitalAlike
<1>2. \A w \in Workers : worker'[w].seen => worker'[w].command \in contract.exact
  BY DEF CapitalTrue, NothingSeen
<1> QED BY <1>1, <1>2, CapitalStays

LEMMA CapitalRewrites ==
    ASSUME CapitalInv, CapitalTrue, target' = target, contract' = contract, NoneDone,
           \A w \in Workers : worker'[w].seen => worker'[w].command \in contract.exact,
           NEW c \in Commands, NEW r, row' = [row EXCEPT ![c] = r], CapitalAlike(row[c], r)
    PROVE  CapitalTrue'
<1>1. \A d \in Commands : row'[d] = IF d = c THEN r ELSE row[d]
  BY DEF CapitalInv
<1>2. \A d \in Commands : CapitalAlike(row[d], row'[d])
  BY <1>1 DEF CapitalAlike
<1> QED BY <1>2, CapitalStays

\* An execution starts, before anything of it is executed.
LEMMA CapitalStarts ==
    ASSUME CapitalInv, CapitalTrue, UNCHANGED <<target, contract, operation, worker>>,
           NEW c \in Commands, NEW r, row' = [row EXCEPT ![c] = r], r.status = "executing",
           \A d \in Commands : row[d].status # "executing", ~Done(operation[c])
    PROVE  CapitalTrue'
<1>1. \A d \in Commands : row'[d] = IF d = c THEN r ELSE row[d]
  BY DEF CapitalInv
<1>2. \A d \in Commands : row'[d].status = "executing" => d = c
  BY <1>1
<1>3. \A d \in Commands : row'[d].status = "executed" => d \in contract.exact
  BY <1>1 DEF CapitalTrue
<1>4. ~contract.elsewhere => contract.cap = target
  BY DEF CapitalTrue
<1> QED BY <1>1, <1>2, <1>3, <1>4 DEF CapitalTrue

\* It ends, with the recorded cap that of the contract.
LEMMA CapitalEndsTrue ==
    ASSUME CapitalInv, CapitalTrue, UNCHANGED <<contract, operation>>, NothingSeen,
           NEW c \in Commands, NEW r, row' = [row EXCEPT ![c] = r], row[c].status = "executing",
           r.status # "executing", r.status = "executed" => c \in contract.exact,
           target' = IF Done(operation[c]) THEN row[c].total ELSE target
    PROVE  CapitalTrue'
<1>1. \A d \in Commands : row'[d] = IF d = c THEN r ELSE row[d]
  BY DEF CapitalInv
<1>2. \A d \in Commands : row'[d].status # "executing"
  BY <1>1 DEF CapitalInv, CapitalPending
<1>3. \A d \in Commands : row'[d].status = "executed" => d \in contract.exact
  BY <1>1 DEF CapitalTrue
<1>4. ~contract.elsewhere => contract.cap = target'
  BY DEF CapitalTrue
<1>5. \A w \in Workers : worker'[w].seen => worker'[w].command \in contract.exact
  BY DEF CapitalTrue, NothingSeen
<1> QED BY <1>2, <1>3, <1>4, <1>5 DEF CapitalTrue

LEMMA CapitalStaffIsTrue ==
    ASSUME CapitalInv, CapitalTrue, Capital!Staff
    PROVE  CapitalTrue'
<1>0. \A d \in Commands : CapitalFits(operation[d], row[d]) /\ row[d] \in Capital!Increase
                          /\ Sound(operation[d])
  BY DEF CapitalInv, OperationsSound
<1>1. UNCHANGED <<target, contract, operation, worker>>
  BY DEF Capital!Staff, Capital!Draft, Capital!Review, Capital!Submit, Capital!Admit, Capital!Retry
<1>2. ASSUME NEW c \in Commands, NEW r, row' = [row EXCEPT ![c] = r], CapitalAlike(row[c], r)
      PROVE  CapitalTrue'
  <2>1. NoneDone
    BY <1>1 DEF NoneDone
  <2>2. \A w \in Workers : worker'[w].seen => worker'[w].command \in contract.exact
    BY <1>1 DEF CapitalTrue
  <2> QED BY <1>1, <1>2, <2>1, <2>2, CapitalRewrites
<1>3. ASSUME NEW c \in Commands, NEW total \in Capital!Totals, Capital!Draft(c, total)
      PROVE  CapitalTrue'
  <2> DEFINE r == [row[c] EXCEPT !.status = "draft", !.total = total]
  <2>1. row' = [row EXCEPT ![c] = r] /\ row[c].status = "none"
    BY <1>3 DEF Capital!Draft, Capital!Write
  <2>2. r.status = "draft"
    BY <1>0 DEF Capital!Increase
  <2> HIDE DEF r
  <2> QED BY <1>2, <2>1, <2>2 DEF CapitalAlike
<1>4. ASSUME NEW c \in Commands, NEW status \in {"submitted", "approved", "rejected"},
             row[c].status \in {"draft", "submitted"},
             row' = [row EXCEPT ![c] = [row[c] EXCEPT !.status = status]]
      PROVE  CapitalTrue'
  <2> DEFINE r == [row[c] EXCEPT !.status = status]
  <2>1. r.status = status
    BY <1>0 DEF Capital!Increase
  <2>2. row' = [row EXCEPT ![c] = r]
    BY <1>4
  <2> HIDE DEF r
  <2>3. CapitalAlike(row[c], r)
    BY <1>4, <2>1 DEF CapitalAlike
  <2> QED BY <1>2, <2>2, <2>3
<1>5. ASSUME NEW c \in Commands, Capital!Submit(c) PROVE CapitalTrue'
  BY <1>4, <1>5 DEF Capital!Submit, Capital!Write
<1>6. ASSUME NEW c \in Commands, NEW verdict \in {"approved", "rejected"}, Capital!Review(c, verdict)
      PROVE  CapitalTrue'
  BY <1>4, <1>6 DEF Capital!Review, Capital!Write
<1>7. ASSUME NEW c \in Commands, Capital!Admit(c) PROVE CapitalTrue'
  <2> DEFINE over == row[c].total <= target
             r == [row[c] EXCEPT !.status = IF over THEN "superseded" ELSE "executing",
                                 !.admitted = TRUE, !.prior = target, !.projected = over]
  <2>1. /\ row[c].status = "approved" /\ row' = [row EXCEPT ![c] = r]
        /\ \A d \in Commands \ {c} : row[d].status # "executing"
    BY <1>7 DEF Capital!Admit, Capital!Write, Capital!Overtaken, Capital!Competes, Capital!InFlight
  <2> HIDE DEF over
  <2>2. r.status = IF over THEN "superseded" ELSE "executing"
    BY <1>0 DEF Capital!Increase
  <2> HIDE DEF r
  <2>3. CASE over
    BY <1>2, <2>1, <2>2, <2>3 DEF CapitalAlike
  <2>4. CASE ~over
    <3>1. ~Done(operation[c])
      BY <1>0, <2>1, DoneIs DEF CapitalFits
    <3>2. \A d \in Commands : row[d].status # "executing"
      BY <2>1
    <3> QED BY <1>1, <2>1, <2>2, <2>4, <3>1, <3>2, CapitalStarts
  <2> QED BY <2>3, <2>4
<1>8. ASSUME NEW c \in Commands, Capital!Retry(c) PROVE CapitalTrue'
  <2> DEFINE again == [row[c] EXCEPT !.status = "executing", !.projected = FALSE,
                                     !.retry = operation[c].claim]
             r == [row[c] EXCEPT !.status = "superseded"]
  <2>1. /\ row[c].status = "failed" /\ operation[c].status \in Undone
        /\ row' = [row EXCEPT ![c] = again] \/ row' = [row EXCEPT ![c] = r]
        /\ \A d \in Commands \ {c} : row[d].status # "executing"
    BY <1>8, CapitalRuns DEF Capital!Retry, Capital!Write, Capital!Competes, Capital!InFlight
  <2>2. again.status = "executing" /\ r.status = "superseded"
    BY <1>0 DEF Capital!Increase
  <2> HIDE DEF again, r
  <2>3. CASE row' = [row EXCEPT ![c] = r]
    BY <1>2, <2>1, <2>2, <2>3 DEF CapitalAlike
  <2>4. CASE row' = [row EXCEPT ![c] = again]
    <3>1. ~Done(operation[c])
      BY <1>0, <2>1, DoneIs
    <3>2. \A d \in Commands : row[d].status # "executing"
      BY <2>1
    <3> QED BY <1>1, <2>2, <2>4, <3>1, <3>2, CapitalStarts
  <2> QED BY <2>1, <2>3, <2>4
<1> QED BY <1>3, <1>5, <1>6, <1>7, <1>8 DEF Capital!Staff

\* The runs, up to the outcome.
LEMMA CapitalRunsAreTrue ==
    ASSUME CapitalInv, CapitalTrue, NEW w \in Workers,
           \/ Capital!Begin(w) \/ Capital!ReadClaim(w) \/ Capital!Bind(w) \/ Capital!Resume(w)
           \/ Capital!CheckPreparation(w) \/ Capital!HoldForChain(w) \/ Capital!SignIncrease(w)
           \/ Capital!GiveUp(w) \/ Capital!ProjectNothing(w)
           \/ (Capital!Settle(w) /\ \E pc : Goto(w, pc))
    PROVE  CapitalTrue'
<1> DEFINE c == worker[w].command
           old == row[c]
<1>0. OperationsSound /\ RunsSound
  BY DEF CapitalInv
<1>1. target' = target /\ contract' = contract
  BY DEF Capital!Begin, Capital!ReadClaim, Capital!Bind, Capital!Resume, Capital!CheckPreparation,
     Capital!HoldForChain, Capital!SignIncrease, Capital!GiveUp, Capital!ProjectNothing, Capital!Settle
<1>2. UNCHANGED operation \/ Sign(w) \/ FailPreparing(w)
  BY CapitalIs DEF Capital!Begin, Capital!ReadClaim, Capital!Bind, Capital!Resume,
     Capital!CheckPreparation, Capital!HoldForChain, Capital!SignIncrease, Capital!GiveUp,
     Capital!ProjectNothing, Capital!Settle
<1>3. NoneDone
  BY <1>0, <1>2, JournalDoesNothing
<1>4. NothingSeen
  <2>1. CASE Capital!Begin(w)
    BY <1>0, <2>1, CapitalRuns, GoesUnseeing DEF Capital!Begin
  <2>2. CASE Capital!ReadClaim(w)
    <3>1. \/ \E pc, retry : worker' = [worker EXCEPT ![w].pc = pc, ![w].retry = retry]
          \/ \E pc, claim : worker' = [worker EXCEPT ![w].pc = pc, ![w].claim = claim]
      BY <2>2 DEF Capital!ReadClaim
    <3> QED BY <1>0, <3>1, GoesUnseeing
  <2>3. CASE Capital!Bind(w)
    <3>1. \E pc, claim : worker' = [worker EXCEPT ![w].pc = pc, ![w].claim = claim]
      BY <2>3 DEF Capital!Bind
    <3> QED BY <1>0, <3>1, GoesUnseeing
  <2>4. CASE Sign(w) \/ Finish(w) \/ \E pc : Goto(w, pc)
    BY <1>0, <2>4, GoesUnseeing DEF Sign
  <2>5. CASE Capital!Resume(w) \/ Capital!GiveUp(w) \/ Capital!ProjectNothing(w)
             \/ Capital!HoldForChain(w) \/ Capital!SignIncrease(w)
    BY <2>4, <2>5, CapitalRuns, CapitalIs DEF Capital!Resume, Capital!HoldForChain, Capital!SignIncrease,
       Capital!GiveUp, Capital!ProjectNothing
  <2>6. CASE Capital!CheckPreparation(w)
    <3>1. \E pc : Goto(w, pc)
      BY <2>6, CapitalRuns DEF Capital!CheckPreparation
    <3> QED BY <2>4, <3>1
  <2> QED BY <2>1, <2>2, <2>3, <2>4, <2>5, <2>6
<1>5. \A v \in Workers : worker'[v].seen => worker'[v].command \in contract.exact
  BY <1>4 DEF CapitalTrue, NothingSeen
<1>6. CASE row' = row
  BY <1>1, <1>3, <1>4, <1>6, CapitalRests
<1>7. ASSUME worker[w].pc # "idle", NEW r, row' = [row EXCEPT ![c] = r],
             r.status = old.status, r.total = old.total
      PROVE  CapitalTrue'
  <2>1. c \in Commands
    BY <1>7, CapitalInHand
  <2> HIDE DEF c
  <2> QED BY <1>1, <1>3, <1>5, <1>7, <2>1, CapitalRewrites DEF CapitalAlike
<1>8. ASSUME worker[w].pc # "idle", row' = [row EXCEPT ![c] = Capital!Retained(c)]
      PROVE  CapitalTrue'
  <2> DEFINE r == Capital!Retained(c)
  <2>1. r.status = old.status /\ r.total = old.total
    BY <1>8, CapitalInHand, CapitalRetained
  <2> HIDE DEF r
  <2> QED BY <1>7, <1>8, <2>1 DEF r
<1>9. CASE Capital!Begin(w) \/ Capital!Resume(w) \/ Capital!GiveUp(w)
  BY <1>6, <1>9 DEF Capital!Begin, Capital!Resume, Capital!GiveUp
<1>10. CASE Capital!ReadClaim(w) \/ Capital!ProjectNothing(w)
  <2>1. worker[w].pc # "idle" /\ (row' = row \/ row' = [row EXCEPT ![c] = Capital!Retained(c)])
    BY <1>10, CapitalRuns DEF Capital!ReadClaim, Capital!ProjectNothing, Capital!Write
  <2> QED BY <1>6, <1>8, <2>1
<1>11. CASE Capital!Bind(w)
  <2> DEFINE r == [old EXCEPT !.bound = TRUE]
  <2>1. worker[w].pc # "idle" /\ (row' = row \/ row' = [row EXCEPT ![c] = r])
    BY <1>11, CapitalRuns DEF Capital!Bind, Capital!Write, Capital!Row
  <2>2. old \in Capital!Increase
    BY <2>1, CapitalInHand
  <2>3. r.status = old.status /\ r.total = old.total
    BY <2>2 DEF Capital!Increase
  <2> HIDE DEF r
  <2> QED BY <1>6, <1>7, <2>1, <2>3
<1>12. CASE Capital!CheckPreparation(w) \/ Capital!HoldForChain(w)
  <2> DEFINE r == [old EXCEPT !.held = TRUE]
  <2>1. worker[w].pc # "idle" /\ (row' = row \/ row' = [row EXCEPT ![c] = r])
    BY <1>12, CapitalRuns DEF Capital!CheckPreparation, Capital!HoldForChain, Capital!Write, Capital!Row
  <2>2. old \in Capital!Increase
    BY <2>1, CapitalInHand
  <2>3. r.status = old.status /\ r.total = old.total
    BY <2>2 DEF Capital!Increase
  <2> HIDE DEF r
  <2> QED BY <1>6, <1>7, <2>1, <2>3
<1>13. CASE Capital!SignIncrease(w)
  <2> DEFINE r == [old EXCEPT !.record = worker[w].claim, !.receipt = "submitted"]
  <2>1. worker[w].pc # "idle" /\ row' = [row EXCEPT ![c] = r]
    BY <1>13, CapitalIs DEF Capital!SignIncrease, Capital!Write, Capital!Row, Sign, At
  <2>2. old \in Capital!Increase
    BY <2>1, CapitalInHand
  <2>3. r.status = old.status /\ r.total = old.total
    BY <2>2 DEF Capital!Increase
  <2> HIDE DEF r
  <2> QED BY <1>7, <2>1, <2>3
<1>14. CASE Capital!Settle(w)
  <2> DEFINE q == Capital!Retained(c)
             held == q.held \/ ~old.projected
             r == [q EXCEPT !.held = held]
  <2>1. /\ worker[w].pc # "idle"
        /\ row' = row \/ row' = [row EXCEPT ![c] = q] \/ row' = [row EXCEPT ![c] = r]
    BY <1>14, CapitalRuns DEF Capital!Settle, Capital!Row, Capital!Write
  <2>2. q.status = old.status /\ q.total = old.total /\ q \in Capital!Increase
    BY <2>1, CapitalInHand, CapitalRetained
  <2> HIDE DEF held
  <2>3. r.status = q.status /\ r.total = q.total
    BY <2>2 DEF Capital!Increase
  <2> HIDE DEF q, r
  <2> QED BY <1>6, <1>7, <2>1, <2>2, <2>3
<1> QED BY <1>9, <1>10, <1>11, <1>12, <1>13, <1>14

\* The event of a confirmed receipt, and what the run then writes.
LEMMA CapitalSettlesTrue ==
    ASSUME CapitalInv, CapitalTrue, NEW w \in Workers, Capital!Settle(w)
    PROVE  CapitalTrue'
<1> DEFINE c == worker[w].command
           old == row[c]
           r == Capital!Retained(c)
<1>1. CASE \E pc : Goto(w, pc)
  BY <1>1, CapitalRunsAreTrue
<1>2. CASE /\ c \in contract.exact /\ GotoSeeing(w, "project", ~old.held)
           /\ row' = [row EXCEPT ![c] = r]
  <2>1. /\ target' = target /\ contract' = contract /\ UNCHANGED operation
        /\ worker[w].pc = "settle"
    BY CapitalRuns DEF Capital!Settle
  <2>2. NoneDone
    BY <2>1 DEF NoneDone
  <2>3. c \in Commands /\ old \in Capital!Increase /\ RunsSound
    BY <2>1, CapitalInHand
  <2>4. \A v \in Workers : worker'[v].seen => worker'[v].command \in contract.exact
    <3>1. PICK seen \in BOOLEAN : seen = ~old.held
      BY <2>3 DEF Capital!Increase
    <3>2. Only(w) /\ Carries(w)
      BY <1>2, <2>3, <3>1, GotoSeeingGoes DEF Steps
    <3> QED BY <1>2, <3>2 DEF CapitalTrue, Only, Carries
  <2>5. CapitalAlike(old, r)
    BY <2>3, CapitalRetained DEF CapitalAlike
  <2> HIDE DEF c, r
  <2> QED BY <1>2, <2>1, <2>2, <2>3, <2>4, <2>5, CapitalRewrites
<1> QED BY <1>1, <1>2, CapitalRuns DEF Capital!Settle, Capital!Row, Capital!Write

LEMMA CapitalProjectsTrue ==
    ASSUME CapitalInv, CapitalTrue, NEW w \in Workers,
           Capital!ProjectExecuted(w) \/ Capital!ProjectFailed(w)
    PROVE  CapitalTrue'
<1> DEFINE c == worker[w].command
           o == operation[c]
           old == row[c]
           q == Capital!Retained(c)
<1>1. /\ worker[w].pc = "project" /\ ~old.projected /\ UNCHANGED <<contract, operation>>
      /\ Finish(w)
  BY CapitalRuns DEF Capital!ProjectExecuted, Capital!ProjectFailed, Capital!Projects, Capital!Row
<1>2. /\ c \in Commands /\ CapitalFits(o, old) /\ RunsSound /\ Sound(o)
      /\ CapitalSuits(worker[w], o, old) /\ q \in Capital!Increase
  BY <1>1, CapitalInHand, CapitalRetained
<1>3. old.status = "executing"
  BY <1>1, <1>2 DEF CapitalFits, CapitalSuits
<1>4. NothingSeen
  BY <1>1, <1>2, GoesUnseeing
<1>5. CASE Capital!ProjectExecuted(w)
  <2> DEFINE r == [q EXCEPT !.status = "executed", !.projected = TRUE]
  <2>1. /\ o.status = "confirmed" /\ worker[w].seen /\ row' = [row EXCEPT ![c] = r]
        /\ target' = old.total
    BY <1>5, CapitalRuns DEF Capital!ProjectExecuted, Capital!Row, Capital!Write
  <2>2. Done(o) /\ c \in contract.exact
    BY <1>2, <2>1, DoneIs DEF CapitalTrue
  <2>3. r.status = "executed"
    BY <1>2 DEF Capital!Increase
  <2> HIDE DEF q, r
  <2> QED BY <1>1, <1>2, <1>3, <1>4, <2>1, <2>2, <2>3, CapitalEndsTrue
<1>6. CASE Capital!ProjectFailed(w)
  <2> DEFINE r == [q EXCEPT !.status = "failed", !.projected = TRUE]
  <2>1. /\ o.status \in Undone /\ row' = [row EXCEPT ![c] = r] /\ target' = target
    BY <1>6, CapitalRuns DEF Capital!ProjectFailed, Capital!Row, Capital!Write
  <2>2. ~Done(o)
    BY <1>2, <2>1, DoneIs
  <2>3. r.status = "failed"
    BY <1>2 DEF Capital!Increase
  <2> HIDE DEF q, r
  <2> QED BY <1>1, <1>2, <1>3, <1>4, <2>1, <2>2, <2>3, CapitalEndsTrue
<1> QED BY <1>5, <1>6

\* The contract's cap is set to the total of the one execution there is.
LEMMA CapitalMineIsTrue ==
    ASSUME CapitalInv, CapitalTrue, NEW c \in Commands, NEW k \in Claims,
           NEW outcome \in {"mined", "reverted"}, Capital!Mine(c, k, outcome)
    PROVE  CapitalTrue'
<1> DEFINE exact == IF contract.cap = row[c].prior THEN contract.exact \cup {c} ELSE contract.exact
           chain == [contract EXCEPT !.cap = row[c].total, !.exact = exact]
<1>1. /\ Mined(c, k, outcome) /\ row' = row /\ target' = target
      /\ contract' = IF outcome = "mined" THEN chain ELSE contract
  BY CapitalIs DEF Capital!Mine, CapitalTrue
<1>2. /\ operation[c].status = "signed" /\ ~Done(operation[c]) /\ worker' = worker
      /\ \A d \in Commands : d # c => operation'[d] = operation[d]
      /\ Done(operation'[c]) <=> outcome = "mined"
  BY <1>1, ChainDoes DEF CapitalInv
<1>3. CASE outcome # "mined"
  <2>1. NoneDone /\ NothingSeen /\ contract' = contract
    BY <1>1, <1>2, <1>3 DEF NoneDone, NothingSeen
  <2> QED BY <1>1, <2>1, CapitalRests
<1>4. CASE outcome = "mined"
  <2>1. row[c].status = "executing" /\ row[c].total \in Capital!Totals
    BY <1>2, CapitalColumns DEF CapitalInv, CapitalFits
  <2>2. /\ chain \in [cap : Capital!Totals, elsewhere : BOOLEAN, exact : SUBSET Commands]
        /\ chain.cap = row[c].total /\ chain.elsewhere = contract.elsewhere
        /\ contract.exact \subseteq chain.exact /\ contract' = chain
    BY <1>1, <1>4, <2>1 DEF CapitalTrue
  <2>3. \A d \in Commands : row[d].status = "executing" => d = c
    BY <2>1 DEF CapitalInv, CapitalPending
  <2> HIDE DEF chain
  <2> QED BY <1>1, <1>2, <1>4, <2>1, <2>2, <2>3 DEF CapitalTrue
<1> QED BY <1>3, <1>4

LEMMA CapitalElsewhereIsTrue ==
    ASSUME CapitalInv, CapitalTrue, Capital!SetElsewhere
    PROVE  CapitalTrue'
<1> DEFINE chain == [contract EXCEPT !.cap = MaxTotal, !.elsewhere = TRUE]
<1>1. contract' = chain /\ UNCHANGED <<row, target, operation, worker>>
  BY DEF Capital!SetElsewhere
<1>2. MaxTotal \in Capital!Totals
  BY SubjectAssumption DEF Capital!TotalAssumption, Capital!Totals
<1>3. /\ chain \in [cap : Capital!Totals, elsewhere : BOOLEAN, exact : SUBSET Commands]
      /\ chain.elsewhere /\ chain.exact = contract.exact
  BY <1>2 DEF CapitalTrue
<1> HIDE DEF chain
<1> QED BY <1>1, <1>3 DEF CapitalTrue

\* Every step of an increase leaves it true.
LEMMA CapitalKeepsTrue ==
    ASSUME CapitalInv, CapitalTrue, Capital!Next
    PROVE  CapitalTrue'
<1>1. ASSUME NEW w \in Workers, Capital!Recover(w)
      PROVE  CapitalTrue'
  <2>1. CASE (Capital!Journal(w) \/ Capital!Look(w)) /\ UNCHANGED <<row, target, contract>>
    <3>1. (Open(w) \/ Followed(w)) /\ OperationsSound /\ RunsSound
      BY <2>1, CapitalRuns DEF CapitalInv
    <3>2. NoneDone /\ NothingSeen
      BY <3>1, JournalDoesNothing, JournalUnseeing
    <3> QED BY <2>1, <3>2, CapitalRests
  <2> QED BY <1>1, <2>1, CapitalRunsAreTrue, CapitalSettlesTrue, CapitalProjectsTrue DEF Capital!Recover
<1>2. ASSUME NEW c \in Commands, NEW k \in Claims, NEW outcome \in {"mined", "reverted"},
             Capital!Mine(c, k, outcome)
      PROVE  CapitalTrue'
  BY <1>2, CapitalMineIsTrue
<1> QED BY <1>1, <1>2, CapitalStaffIsTrue, CapitalElsewhereIsTrue DEF Capital!Next, Capital!Claims, Claims

LEMMA CapitalBeginsTrue == Capital!Init => CapitalTrue
<1> SUFFICES ASSUME Capital!Init PROVE CapitalTrue
  OBVIOUS
<1>1. /\ worker = [w \in Workers |-> Idle] /\ contract = [cap |-> 1, elsewhere |-> FALSE, exact |-> {}]
      /\ target = 1
  BY DEF Capital!Init, Capital!JournalInit, Capital!Idle, Idle
<1>2. \A c \in Commands : row[c].status = "none"
  BY DEF Capital!Init, Capital!NoIncrease
<1>3. 1 \in Capital!Totals
  BY SubjectAssumption DEF Capital!TotalAssumption, Capital!Totals
<1> QED BY <1>1, <1>2, <1>3, IdleRun DEF CapitalTrue

LEMMA CapitalTypes == CapitalInv /\ CapitalTrue => Capital!TypeOK
BY DEF CapitalInv, CapitalTrue, Capital!TypeOK, Capital!JournalTypeOK, OperationsSound, RunsSound,
   Capital!Operation, Operation, Capital!TxState, TxState, Capital!Run, Run, Capital!Steps, Steps,
   Capital!Claims, Claims

LEMMA CapitalHolds == CapitalInv /\ CapitalTrue => Capital!CapIsTrue
BY DEF CapitalTrue, Capital!CapIsTrue

-----------------------------------------------------------------------------
(* All of them.                                                            *)

\* What the client of a behaviour changes is what its contract says.
ClientTrue ==
    /\ subject = "pause" => PauseTrue
    /\ subject = "nav" => NAVTrue
    /\ subject = "capital" => CapitalTrue
    /\ subject = "mint" => MintTrue
    /\ subject = "deploy" => DeployTrue
    /\ subject = "approval" => ApprovalTrue
    /\ subject = "whitelist" => WhitelistTrue

LEMMA ClientBeginsTrue == Init => ClientTrue
BY PauseBeginsTrue, NAVBeginsTrue, CapitalBeginsTrue, MintBeginsTrue, DeployBeginsTrue,
   ApprovalBeginsTrue, WhitelistBeginsTrue DEF Init, ClientTrue

LEMMA ClientStandsTrue == ClientTrue /\ UNCHANGED vars => ClientTrue'
<1> SUFFICES ASSUME ClientTrue, UNCHANGED vars PROVE ClientTrue'
  OBVIOUS
<1>1. /\ row' = row /\ target' = target /\ contract' = contract /\ operation' = operation
      /\ worker' = worker /\ subject' = subject
  BY DEF vars
<1>2. PauseTrue => PauseTrue'
  BY <1>1 DEF PauseTrue, Pause!Unresolved, Pause!PausedIsTrue
<1>3. NAVTrue => NAVTrue'
  BY <1>1 DEF NAVTrue, NAVSame, NAV!Unresolved
<1>4. CapitalTrue => CapitalTrue'
  BY <1>1 DEF CapitalTrue
<1>5. MintTrue => MintTrue'
  BY <1>1 DEF MintTrue
<1>6. DeployTrue => DeployTrue'
  BY <1>1 DEF DeployTrue
<1>7. ApprovalTrue => ApprovalTrue'
  BY <1>1 DEF ApprovalTrue
<1>8. WhitelistTrue => WhitelistTrue'
  BY <1>1 DEF WhitelistTrue, Whitelist!Unresolved, Whitelist!MembershipIsTrue
<1> QED BY <1>1, <1>2, <1>3, <1>4, <1>5, <1>6, <1>7, <1>8 DEF ClientTrue

LEMMA ClientKeepsTrue == ClientInv /\ ClientTrue /\ Next => ClientTrue'
<1> SUFFICES ASSUME ClientInv, ClientTrue, Next PROVE ClientTrue'
  OBVIOUS
<1>0. subject' = subject
  BY DEF Next
<1>1. CASE subject = "pause"
  BY <1>0, <1>1, PauseKeepsTrue DEF Next, ClientInv, ClientTrue
<1>2. CASE subject = "nav"
  BY <1>0, <1>2, NAVKeepsTrue DEF Next, ClientInv, ClientTrue
<1>3. CASE subject = "capital"
  BY <1>0, <1>3, CapitalKeepsTrue DEF Next, ClientInv, ClientTrue
<1>4. CASE subject = "mint"
  BY <1>0, <1>4, MintKeepsTrue DEF Next, ClientInv, ClientTrue
<1>5. CASE subject = "deploy"
  BY <1>0, <1>5, DeployKeepsTrue DEF Next, ClientInv, ClientTrue
<1>6. CASE subject = "approval"
  BY <1>0, <1>6, ApprovalKeepsTrue DEF Next, ClientInv, ClientTrue
<1>7. CASE subject = "whitelist"
  BY <1>0, <1>7, WhitelistKeepsTrue DEF Next, ClientInv, ClientTrue
<1>8. CASE subject \notin {"pause", "nav", "capital", "mint", "deploy", "approval", "whitelist"}
  BY <1>0, <1>8 DEF ClientTrue
<1> QED BY <1>1, <1>2, <1>3, <1>4, <1>5, <1>6, <1>7, <1>8

\* A client's row and what its contract executed stand in the relation the
\* client's lemmas keep, after every step of every run.
THEOREM ClientsAreTrue == Spec => [](ClientInv /\ ClientTrue)
<1>1. Init => ClientInv /\ ClientTrue
  BY ClientBegins, ClientBeginsTrue
<1>2. ClientInv /\ ClientTrue /\ [Next]_vars => (ClientInv /\ ClientTrue)'
  BY ClientSteps, ClientStands, ClientKeepsTrue, ClientStandsTrue
<1> QED BY <1>1, <1>2, PTL DEF Spec

LEMMA ClientTypes == ClientInv /\ ClientTrue /\ RecordInv => TypeOK
<1> SUFFICES ASSUME ClientInv, ClientTrue, RecordInv PROVE TypeOK
  OBVIOUS
<1>1. /\ subject = "pause" => Pause!TypeOK
      /\ subject = "nav" => NAV!TypeOK
      /\ subject = "capital" => Capital!TypeOK
      /\ subject = "mint" => Mint!TypeOK
  BY PauseTypes, NAVTypes, CapitalTypes, MintTypes DEF ClientInv, ClientTrue
<1>2. /\ subject = "deploy" => Deploy!TypeOK
      /\ subject = "approval" => Approval!TypeOK
      /\ subject = "whitelist" => Whitelist!TypeOK
  BY DeployTypes, ApprovalTypes, WhitelistTypes DEF ClientInv, ClientTrue
<1>3. /\ subject = "wallet" => Wallet!TypeOK
      /\ subject = "orders" => Intents!TypeOK
      /\ subject = "files" => Evidence!TypeOK
      /\ subject = "holders" => Holders!TypeOK
  BY WalletInvIsEnough, IntentsTypes, FilesInvIsEnough, HoldersInvIsEnough DEF RecordInv
<1> QED BY <1>1, <1>2, <1>3 DEF TypeOK

LEMMA TargetHolds == ClientInv /\ ClientTrue /\ RecordInv => TargetIsTrue
<1> SUFFICES ASSUME ClientInv, ClientTrue, RecordInv PROVE TargetIsTrue
  OBVIOUS
<1>1. /\ PauseTrue => Pause!PausedIsTrue
      /\ WhitelistTrue => Whitelist!MembershipIsTrue
  BY DEF PauseTrue, WhitelistTrue
<1>2. /\ subject = "pause" => Pause!PausedIsTrue
      /\ subject = "nav" => NAV!ValuationIsTrue
      /\ subject = "capital" => Capital!CapIsTrue
      /\ subject = "mint" => Mint!MintIsTrue
  BY <1>1, ValuationHolds, CapitalHolds, MintHolds DEF ClientInv, ClientTrue
<1>3. /\ subject = "deploy" => Deploy!DeployedIsTrue
      /\ subject = "approval" => Approval!ApprovedIsTrue
      /\ subject = "whitelist" => Whitelist!MembershipIsTrue
  BY <1>1, DeployHoldsTrue, ApprovalHolds DEF ClientInv, ClientTrue
<1>4. /\ subject = "wallet" => Wallet!BalancesAreTrue
      /\ subject = "files" => Evidence!FilesAreKept
      /\ subject = "holders" => Holders!ArchiveIsTrue
  BY WalletInvIsEnough, FilesInvIsEnough, HoldersInvIsEnough DEF RecordInv
<1> QED BY <1>2, <1>3, <1>4 DEF TargetIsTrue

\* Rows, targets, contracts, operations and runs keep their types, whichever
\* client or record a behaviour is about.
THEOREM CommandTypes == Spec => []TypeOK
<1>1. ClientInv /\ ClientTrue /\ RecordInv => TypeOK
  BY ClientTypes
<1> QED BY <1>1, ClientsAreTrue, RecordsAreSound, PTL

\* What a command changed is what the contract behind it did as soon as nothing
\* is left to recover; a wallet's holdings cover what it spent; a document's row
\* says which bytes exist; the archive names the members who left and no other:
\* for any number of rows, runs, attempts, transfers, documents, members and days.
THEOREM TargetsAreTrue == Spec => []TargetIsTrue
<1>1. ClientInv /\ ClientTrue /\ RecordInv => TargetIsTrue
  BY TargetHolds
<1> QED BY <1>1, ClientsAreTrue, RecordsAreSound, PTL
===============================================================================
