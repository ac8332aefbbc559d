-------------------------- MODULE CommandRowsProofs --------------------------
(***************************************************************************)
(* What a command row says of its operation, for capital increases and     *)
(* deployments, along the lines of ClientProofs; and the theorems about    *)
(* the rows of all seven clients: nothing runs behind a row that failed,   *)
(* no trigger refuses a step of a service, and the recorded cap never      *)
(* falls.                                                                  *)
(***************************************************************************)
EXTENDS ClientProofs

USE DEF Undone

-----------------------------------------------------------------------------
(* CapitalIncrease.                                                        *)

CapitalPending == {"submitted", "approved", "executing"}

\* Only an admitted request has an execution, and one that ended says what
\* became of its attempt, which no retry names.  The last transaction is the
\* current attempt's, or one known to have been reverted.
CapitalFits(o, r) ==
    /\ r \in Capital!Increase
    /\ ~r.admitted =>
          /\ r.status \in {"none", "draft", "submitted", "approved", "rejected"}
          /\ ~r.bound /\ ~r.held /\ ~r.projected /\ o.status = "none"
    /\ r.admitted =>
          /\ r.status \in {"executing", "executed", "failed", "superseded"}
          /\ r.status = "executing" <=> ~r.projected
    /\ r.status \in {"executing", "failed"} => r.total > r.prior
    /\ r.projected /\ ~r.bound => r.status = "superseded" /\ r.total <= r.prior /\ o.status = "none"
    /\ r.projected /\ r.bound =>
          /\ r.retry # o.claim
          /\ IF r.status = "executed" THEN o.status = "confirmed" ELSE o.status \in Undone
          /\ o.status \in {"confirmed", "reverted"} => r.receipt = o.status
    /\ r.held => ~r.projected
    /\ r.bound => o.status # "none"
    /\ ~r.bound => r.record = 0 /\ r.retry = 0
    /\ r.retry <= o.claim
    /\ r.retry # 0 /\ r.retry = o.claim =>
          o.status \in Undone /\ (o.status = "reverted" => r.receipt = "reverted")
    /\ IF o.status \in Attempted THEN r.record = o.claim
       ELSE r.record # 0 => r.receipt = "reverted"

\* A run reopens only what its row was admitted to retry, and goes on with a
\* row bound to its operation.
CapitalSuits(v, o, r) ==
    /\ r.admitted
    /\ v.retry <= r.retry
    /\ r.bound \/ r.status = "executing"
    /\ v.pc \notin {"open", "bind"} => r.bound
    /\ v.pc = "bind" => o.status # "none"

CapitalInv ==
    /\ OperationsSound /\ RunsSound
    /\ row \in [Commands -> Capital!Increase] /\ target \in Capital!Totals
    /\ \A c \in Commands : CapitalFits(operation[c], row[c])
    /\ \A c \in Commands : row[c].status = "executing" => row[c].prior = target
    /\ \A c, d \in Commands :
          row[c].status \in CapitalPending /\ row[d].status \in CapitalPending => c = d
    /\ \A w \in Workers : worker[w].pc # "idle" =>
          /\ worker[w].command \in Commands
          /\ CapitalSuits(worker[w], operation[worker[w].command], row[worker[w].command])

\* What a step of this client may not do.
CapitalGuards == Capital!Guards /\ Capital!CapOnlyRises

LEMMA CapitalRuns ==
    /\ \A w, pc : Capital!At(w, pc) <=> worker[w].pc = pc
    /\ \A w, pc : Capital!Goto(w, pc) <=> Goto(w, pc)
    /\ \A w, pc, seen : Capital!GotoSeeing(w, pc, seen) <=> GotoSeeing(w, pc, seen)
    /\ \A w : Capital!Finish(w) <=> Finish(w)
    /\ \A w, pc, c, retry : Capital!Take(w, pc, c, retry) <=> Take(w, pc, c, retry)
    /\ \A w : Capital!Own(w) = operation[worker[w].command]
    /\ \A w : Capital!Signs(w) <=> Signs(w)
    /\ \A w : Capital!Journal(w) \/ Capital!Look(w) <=> Open(w) \/ Followed(w)
    /\ Capital!Undone = Undone
<1>1. \A w : Capital!Journal(w) \/ Capital!Look(w) <=> Open(w) \/ Followed(w)
  BY CapitalIs DEF Capital!Journal, Capital!Look, Look, Capital!ReceiveNothing, ReceiveNothing,
     Capital!Abandon, Abandon, Followed, Capital!At, At, Capital!Goto, Goto, Capital!Finish, Finish,
     Capital!Idle, Idle, Capital!Own, Own, Capital!Owns, Owns
<1>2. /\ \A w, pc : Capital!Goto(w, pc) <=> Goto(w, pc)
      /\ \A w, pc, seen : Capital!GotoSeeing(w, pc, seen) <=> GotoSeeing(w, pc, seen)
      /\ \A w : Capital!Finish(w) <=> Finish(w)
      /\ \A w, pc, c, retry : Capital!Take(w, pc, c, retry) <=> Take(w, pc, c, retry)
  BY DEF Capital!Goto, Goto, Capital!GotoSeeing, GotoSeeing, Capital!Finish, Finish, Capital!Idle, Idle,
     Capital!Take, Take
<1>3. /\ \A w, pc : Capital!At(w, pc) <=> worker[w].pc = pc
      /\ \A w : Capital!Own(w) = operation[worker[w].command]
      /\ \A w : Capital!Signs(w) <=> Signs(w)
      /\ Capital!Undone = Undone
  BY DEF Capital!At, Capital!Own, Own, Capital!Signs, Signs, Capital!Owns, Owns, Capital!Undone
<1> QED BY <1>1, <1>2, <1>3

\* An operation that moves on, but is not signed, leaves what was said of it
\* true.
LEMMA CapitalFitsOn ==
    ASSUME NEW o, NEW p, NEW r, CapitalFits(o, r), Advances(o, p),
           p.status = "signed" => o.status = "signed"
    PROVE  CapitalFits(p, r)
BY DEF CapitalFits, Advances, Attempted

LEMMA CapitalSuitsOn ==
    ASSUME NEW v, NEW o, NEW p, NEW r, CapitalSuits(v, o, r), Advances(o, p)
    PROVE  CapitalSuits(v, p, r)
BY DEF CapitalSuits, Advances

LEMMA CapitalColumns ==
    ASSUME NEW r \in Capital!Increase
    PROVE  /\ r.total \in Nat /\ r.prior \in Nat /\ r.retry \in 0..MaxClaims /\ r.record \in 0..MaxClaims
           /\ r.retry \in Nat /\ r.record \in Nat
           /\ r.total \in Capital!Totals /\ r.prior \in Capital!Totals
<1>1. MaxTotal \in Nat
  BY SubjectAssumption DEF Capital!TotalAssumption
<1> QED BY <1>1, Bounded DEF Capital!Increase, Capital!Totals

LEMMA TotalsAreNumbers == Capital!Totals \subseteq Nat
<1>1. MaxTotal \in Nat
  BY SubjectAssumption DEF Capital!TotalAssumption
<1> QED BY <1>1 DEF Capital!Totals

\* The triggers let a row pass that stays as it is.
LEMMA CapitalTouched ==
    ASSUME NEW c \in Commands, CapitalFits(operation'[c], row[c]), row'[c] = row[c]
    PROVE  row'[c].admitted => Capital!ExecutionGuard(c) /\ Capital!RequestGuard(c)
<1>1. row[c] \in Capital!Increase /\ row[c].prior \in Nat /\ row[c].total \in Nat
  BY CapitalColumns DEF CapitalFits
<1>2. row'[c].admitted => Capital!ExecutionGuard(c)
  BY <1>1 DEF CapitalFits, Capital!ExecutionGuard, Capital!Undone, Capital!Attempted, Attempted
<1>3. row'[c].admitted => Capital!RequestGuard(c)
  BY <1>1 DEF CapitalFits, Capital!RequestGuard, Capital!Undone
<1> QED BY <1>2, <1>3

LEMMA CapitalAdvances ==
    ASSUME CapitalInv, OperationsSound', RunsSound', AllAdvance, NoneSigned,
           row' = row, target' = target,
           \A w \in Workers :
              \/ worker'[w] = worker[w] \/ worker'[w].pc = "idle"
              \/ /\ worker'[w].command \in Commands
                 /\ CapitalSuits(worker'[w], operation[worker'[w].command], row[worker'[w].command])
    PROVE  CapitalInv' /\ CapitalGuards
<1>1. \A c \in Commands : CapitalFits(operation'[c], row'[c])
  BY CapitalFitsOn DEF CapitalInv, AllAdvance, NoneSigned
<1>2. ASSUME NEW w \in Workers, worker'[w].pc # "idle"
      PROVE  /\ worker'[w].command \in Commands
             /\ CapitalSuits(worker'[w], operation'[worker'[w].command], row'[worker'[w].command])
  <2> DEFINE c == worker'[w].command
  <2>1. c \in Commands /\ CapitalSuits(worker'[w], operation[c], row[c])
    BY <1>2 DEF CapitalInv
  <2>2. Advances(operation[c], operation'[c])
    BY <2>1 DEF AllAdvance
  <2> QED BY <2>1, <2>2, CapitalSuitsOn
<1>3. ASSUME NEW c \in Commands
      PROVE  row'[c].admitted => Capital!ExecutionGuard(c) /\ Capital!RequestGuard(c)
  BY <1>1, CapitalTouched
<1>4. Capital!TokenGuard /\ Capital!CapOnlyRises
  BY TotalsAreNumbers DEF CapitalInv, Capital!TokenGuard, Capital!CapOnlyRises, Capital!InFlight,
     CapitalPending
<1> QED BY <1>1, <1>2, <1>3, <1>4 DEF CapitalInv, CapitalGuards, Capital!Guards

\* A step of one row, its operation and the runs that have it in hand.
LEMMA CapitalSteps ==
    ASSUME CapitalInv, OperationsSound', RunsSound', NEW c \in Commands, NEW r \in Capital!Increase,
           row' = [row EXCEPT ![c] = r],
           \A d \in Commands : d # c => operation'[d] = operation[d],
           CapitalFits(operation'[c], r),
           \A v \in Run : CapitalSuits(v, operation[c], row[c]) => CapitalSuits(v, operation'[c], r),
           \A w \in Workers :
              \/ worker'[w] = worker[w] \/ worker'[w].pc = "idle"
              \/ (worker'[w].command = c /\ CapitalSuits(worker'[w], operation'[c], r)),
           r.admitted => Capital!ExecutionGuard(c) /\ Capital!RequestGuard(c),
           r.status \in CapitalPending =>
              row[c].status \in CapitalPending \/ \A d \in Commands : row[d].status \notin CapitalPending,
           \/ target' = target /\ (r.status = "executing" => r.prior = target)
           \/ /\ target' \in Capital!Totals /\ target' >= target
              /\ row[c].status = "executing" /\ r.status # "executing"
    PROVE  CapitalInv' /\ CapitalGuards
<1>1. row' \in [Commands -> Capital!Increase] /\ row'[c] = r
      /\ \A d \in Commands : d # c => row'[d] = row[d]
  BY DEF CapitalInv
<1>2. \A d \in Commands : CapitalFits(operation'[d], row'[d])
  BY <1>1 DEF CapitalInv
<1>3. ASSUME NEW w \in Workers, worker'[w].pc # "idle"
      PROVE  /\ worker'[w].command \in Commands
             /\ CapitalSuits(worker'[w], operation'[worker'[w].command], row'[worker'[w].command])
  <2>1. CASE worker'[w].command = c /\ CapitalSuits(worker'[w], operation'[c], r)
    BY <1>1, <2>1
  <2>2. CASE worker'[w] = worker[w]
    <3>1. worker[w] \in Run /\ worker[w].command \in Commands
          /\ CapitalSuits(worker[w], operation[worker[w].command], row[worker[w].command])
      BY <1>3, <2>2 DEF CapitalInv, RunsSound
    <3>2. CASE worker[w].command = c
      BY <1>1, <2>2, <3>1, <3>2
    <3>3. CASE worker[w].command # c
      BY <1>1, <2>2, <3>1, <3>3
    <3> QED BY <3>2, <3>3
  <2> QED BY <1>3, <2>1, <2>2
<1>4. ASSUME NEW d \in Commands
      PROVE  row'[d].admitted => Capital!ExecutionGuard(d) /\ Capital!RequestGuard(d)
  <2>1. CASE d = c
    BY <1>1, <2>1
  <2>2. CASE d # c
    BY <1>1, <1>2, <2>2, CapitalTouched
  <2> QED BY <2>1, <2>2
<1>5. \A d, e \in Commands :
         row'[d].status \in CapitalPending /\ row'[e].status \in CapitalPending => d = e
  BY <1>1 DEF CapitalInv
<1>6. /\ target' \in Capital!Totals /\ target' >= target
      /\ \A d \in Commands : row'[d].status = "executing" => row'[d].prior = target'
      /\ target' # target => \A d \in Commands : row'[d].status # "executing"
  <2>1. target \in Capital!Totals /\ target \in Nat
    BY TotalsAreNumbers DEF CapitalInv
  <2>2. CASE target' = target /\ (r.status = "executing" => r.prior = target)
    BY <1>1, <2>1, <2>2 DEF CapitalInv
  <2>3. CASE /\ target' \in Capital!Totals /\ target' >= target
             /\ row[c].status = "executing" /\ r.status # "executing"
    <3>1. \A d \in Commands : row[d].status = "executing" => d = c
      BY <2>3 DEF CapitalInv, CapitalPending
    <3> QED BY <1>1, <2>3, <3>1
  <2> QED BY <2>2, <2>3
<1>7. Capital!TokenGuard /\ Capital!CapOnlyRises
  BY <1>5, <1>6 DEF Capital!TokenGuard, Capital!CapOnlyRises, Capital!InFlight, CapitalPending
<1> QED BY <1>1, <1>2, <1>3, <1>4, <1>5, <1>6, <1>7 DEF CapitalInv, CapitalGuards, Capital!Guards

\* Steps of one run that write the row it has in hand.
LEMMA CapitalWrites ==
    ASSUME CapitalInv, NEW w \in Workers, NEW c \in Commands, NEW r \in Capital!Increase,
           UNCHANGED operation, row' = [row EXCEPT ![c] = r], RunsSound', Only(w),
           CapitalFits(operation[c], r),
           \A v \in Run : CapitalSuits(v, operation[c], row[c]) => CapitalSuits(v, operation[c], r),
           \/ worker'[w].pc = "idle"
           \/ (worker'[w].command = c /\ CapitalSuits(worker'[w], operation[c], r)),
           r.admitted => Capital!ExecutionGuard(c) /\ Capital!RequestGuard(c),
           r.status = row[c].status \/ r.status \notin CapitalPending,
           \/ target' = target /\ (r.status = "executing" => r.prior = row[c].prior)
           \/ /\ target' \in Capital!Totals /\ target' >= target
              /\ row[c].status = "executing" /\ r.status # "executing"
    PROVE  CapitalInv' /\ CapitalGuards
<1>1. OperationsSound'
  BY NoneMoves DEF CapitalInv
<1>2. \A x \in Workers :
         \/ worker'[x] = worker[x] \/ worker'[x].pc = "idle"
         \/ (worker'[x].command = c /\ CapitalSuits(worker'[x], operation[c], r))
  BY DEF Only
<1>3. \/ target' = target /\ (r.status = "executing" => r.prior = target)
      \/ /\ target' \in Capital!Totals /\ target' >= target
         /\ row[c].status = "executing" /\ r.status # "executing"
  BY DEF CapitalInv, CapitalPending
<1> QED BY <1>1, <1>2, <1>3, CapitalSteps

LEMMA CapitalInHand ==
    ASSUME CapitalInv, NEW w \in Workers, worker[w].pc # "idle"
    PROVE  LET c == worker[w].command IN
           /\ c \in Commands /\ CapitalSuits(worker[w], operation[c], row[c])
           /\ CapitalFits(operation[c], row[c]) /\ row[c] \in Capital!Increase /\ Sound(operation[c])
           /\ worker[w] \in Run /\ RunsSound /\ OperationsSound
BY DEF CapitalInv, OperationsSound, RunsSound

LEMMA CapitalOpens ==
    ASSUME CapitalInv, NEW w \in Workers, Open(w), row' = row, target' = target
    PROVE  CapitalInv' /\ CapitalGuards
<1> DEFINE c == worker[w].command
           o == operation[c]
           p == operation'[c]
           r == row[c]
<1>1. /\ OperationsSound' /\ RunsSound' /\ Only(w) /\ Carries(w) /\ c \in Commands
      /\ worker[w].pc = "open" /\ worker'[w].pc = "bind"
      /\ \A d \in Commands : d # c => operation'[d] = operation[d]
      /\ \/ operation' = operation /\ o.status # "none"
         \/ /\ o.status = "none" \/ Reopens(o, worker[w].retry)
            /\ p.status = "preparing" /\ p.claim = o.claim + 1
  BY OpenDoes DEF CapitalInv
<1>2. /\ r \in Capital!Increase /\ CapitalFits(o, r) /\ CapitalSuits(worker[w], o, r)
      /\ worker[w] \in Run /\ Sound(o)
  BY <1>1, CapitalInHand
<1>3. /\ worker'[w].command = c
      /\ \A q : q.status # "none" => CapitalSuits(worker'[w], q, r)
  BY <1>1, <1>2 DEF CapitalSuits, Carries
<1>4. CASE operation' = operation /\ o.status # "none"
  BY <1>1, <1>3, <1>4, NoneMoves, CapitalAdvances DEF Only, CapitalInv
<1>5. CASE /\ o.status = "none" \/ Reopens(o, worker[w].retry)
           /\ p.status = "preparing" /\ p.claim = o.claim + 1
  <2>1. /\ o.claim \in Nat /\ worker[w].retry \in Nat /\ r.retry \in Nat /\ r.record \in Nat
        /\ o.status = "none" <=> o.claim = 0
    BY <1>2, CapitalColumns, Bounded DEF Sound, Operation, Run
  <2>2. o.status = "none" \/ (o.status \in Undone /\ r.retry = o.claim /\ r.retry # 0)
    BY <1>2, <1>5, <2>1 DEF Reopens, CapitalSuits, CapitalFits
  <2>3. r.status = "executing" /\ ~r.projected
    BY <1>2, <2>2 DEF CapitalSuits, CapitalFits
  <2>4. r.record # 0 => r.receipt = "reverted"
    BY <1>2, <2>2 DEF CapitalFits, Attempted
  <2>5. CapitalFits(p, r)
    BY <1>2, <1>5, <2>1, <2>3, <2>4 DEF CapitalFits, Attempted, CapitalSuits
  <2>6. \A v \in Run : CapitalSuits(v, o, r) => CapitalSuits(v, p, r)
    BY <1>5, <2>2 DEF CapitalSuits
  <2>7. CapitalSuits(worker'[w], p, r)
    BY <1>3, <1>5
  <2>8. r.admitted => Capital!ExecutionGuard(c) /\ Capital!RequestGuard(c)
    BY <1>1, <2>5, CapitalTouched
  <2>9. row' = [row EXCEPT ![c] = r] /\ (r.status = "executing" => r.prior = target)
    BY <1>1 DEF CapitalInv
  <2>10. r.status \in CapitalPending => row[c].status \in CapitalPending
    OBVIOUS
  <2> HIDE DEF c, o, p, r
  <2>11. \A x \in Workers : worker'[x] = worker[x]
                             \/ (worker'[x].command = c /\ CapitalSuits(worker'[x], p, r))
    BY <1>1, <1>3, <2>7 DEF Only
  <2> QED BY <1>1, <1>2, <2>5, <2>6, <2>8, <2>9, <2>10, <2>11, CapitalSteps DEF o, p, r
<1> QED BY <1>1, <1>4, <1>5

\* Steps of one run that touch no row and sign nothing.
LEMMA CapitalGoes ==
    ASSUME CapitalInv, NEW w \in Workers, row' = row, target' = target, OperationsSound',
           AllAdvance, NoneSigned, RunsSound', Only(w),
           \/ worker'[w].pc = "idle"
           \/ /\ Carries(w) /\ worker[w].pc \notin {"idle", "open", "bind"}
              /\ worker'[w].pc \notin {"open", "bind"}
    PROVE  CapitalInv' /\ CapitalGuards
<1> DEFINE c == worker[w].command
<1>1. CASE worker'[w].pc = "idle"
  BY <1>1, CapitalAdvances DEF Only
<1>2. CASE /\ Carries(w) /\ worker[w].pc \notin {"idle", "open", "bind"}
           /\ worker'[w].pc \notin {"open", "bind"}
  <2>1. c \in Commands /\ CapitalSuits(worker[w], operation[c], row[c])
    BY <1>2 DEF CapitalInv
  <2>2. worker'[w].command = c /\ CapitalSuits(worker'[w], operation[c], row[c])
    BY <1>2, <2>1 DEF CapitalSuits, Carries
  <2> HIDE DEF c
  <2> QED BY <2>1, <2>2, CapitalAdvances DEF Only
<1> QED BY <1>1, <1>2

\* Steps of a run that leave the row as it is.
LEMMA CapitalLeads ==
    ASSUME CapitalInv, NEW w \in Workers, worker[w].pc \notin {"idle", "open", "bind"},
           row' = row, target' = target, OperationsSound', AllAdvance, NoneSigned,
           NEW pc \in Steps \ {"open", "bind"}, Goto(w, pc) \/ Finish(w)
    PROVE  CapitalInv' /\ CapitalGuards
<1>1. worker[w].command \in Commands /\ RunsSound
  BY CapitalInHand
<1>2. CASE Goto(w, pc)
  BY <1>1, <1>2, GotoGoes, CapitalGoes
<1>3. CASE Finish(w)
  BY <1>1, <1>3, FinishGoes, IdleRun, CapitalGoes
<1> QED BY <1>2, <1>3

LEMMA CapitalFollows ==
    ASSUME CapitalInv, NEW w \in Workers, Followed(w), row' = row, target' = target
    PROVE  CapitalInv' /\ CapitalGuards
<1>1. OperationsSound' /\ AllAdvance /\ NoneSigned /\ RunsSound' /\ Only(w)
  BY FollowedAdvances, FollowedGoes DEF CapitalInv
<1>2. CASE worker'[w] = Idle
  BY <1>1, <1>2, IdleRun, CapitalGoes
<1>3. CASE /\ Carries(w)
           /\ worker[w].pc \in {"reconcile", "broadcast", "observe", "look"}
           /\ worker'[w].pc \in {"reconcile", "broadcast", "observe", "settle"}
  BY <1>1, <1>3, CapitalGoes
<1> QED BY <1>2, <1>3, FollowedGoes DEF CapitalInv


-----------------------------------------------------------------------------
(* The issuer, the reviewer and the admission.                             *)

\* What a step of staff finds, and what is left to show of it.
LEMMA CapitalStaff ==
    ASSUME CapitalInv, NEW c \in Commands, NEW r \in Capital!Increase,
           row' = [row EXCEPT ![c] = r], UNCHANGED <<target, operation, worker>>,
           CapitalFits(operation[c], r),
           \A v \in Run : CapitalSuits(v, operation[c], row[c]) => CapitalSuits(v, operation[c], r),
           r.admitted => Capital!ExecutionGuard(c) /\ Capital!RequestGuard(c),
           r.status \in CapitalPending =>
              row[c].status \in CapitalPending \/ \A d \in Commands : row[d].status \notin CapitalPending,
           r.status = "executing" => r.prior = target
    PROVE  CapitalInv' /\ CapitalGuards
<1>1. OperationsSound' /\ RunsSound'
  BY DEF CapitalInv, OperationsSound, RunsSound
<1> QED BY <1>1, CapitalSteps

LEMMA CapitalDrafts ==
    ASSUME CapitalInv, NEW c \in Commands, NEW total \in Capital!Totals, Capital!Draft(c, total)
    PROVE  CapitalInv' /\ CapitalGuards
<1> DEFINE old == row[c]
           r == [old EXCEPT !.status = "draft", !.total = total]
<1>1. /\ old.status = "none" /\ row' = [row EXCEPT ![c] = r]
      /\ UNCHANGED <<target, operation, worker>>
  BY DEF Capital!Draft, Capital!Write
<1>2. CapitalFits(operation[c], old) /\ old \in Capital!Increase /\ ~old.admitted
  BY <1>1 DEF CapitalInv, CapitalFits
<1>3. /\ r \in Capital!Increase /\ r.status = "draft" /\ ~r.admitted /\ r.bound = old.bound
      /\ r.held = old.held /\ r.projected = old.projected /\ r.retry = old.retry
      /\ r.record = old.record /\ r.receipt = old.receipt
  BY <1>2 DEF Capital!Increase
<1> HIDE DEF r
<1>4. CapitalFits(operation[c], r)
  BY <1>1, <1>2, <1>3 DEF CapitalFits
<1>5. \A v \in Run : ~CapitalSuits(v, operation[c], old)
  BY <1>2 DEF CapitalSuits
<1> QED BY <1>1, <1>3, <1>4, <1>5, CapitalStaff DEF CapitalPending

\* A status given before there is an execution.
LEMMA CapitalDecided ==
    ASSUME CapitalInv, NEW c \in Commands, NEW status \in {"submitted", "approved", "rejected"},
           row[c].status \in {"draft", "submitted"},
           row' = [row EXCEPT ![c].status = status], UNCHANGED <<target, operation, worker>>,
           row[c].status \in CapitalPending \/ \A d \in Commands : row[d].status \notin CapitalPending
    PROVE  CapitalInv' /\ CapitalGuards
<1> DEFINE old == row[c]
           r == [old EXCEPT !.status = status]
<1>1. CapitalFits(operation[c], old) /\ old \in Capital!Increase /\ ~old.admitted
  BY DEF CapitalInv, CapitalFits
<1>2. row' = [row EXCEPT ![c] = r]
  OBVIOUS
<1>3. /\ r \in Capital!Increase /\ r.status = status /\ ~r.admitted /\ r.bound = old.bound
      /\ r.held = old.held /\ r.projected = old.projected /\ r.retry = old.retry
      /\ r.record = old.record /\ r.receipt = old.receipt
  BY <1>1 DEF Capital!Increase
<1> HIDE DEF r
<1>4. CapitalFits(operation[c], r)
  BY <1>1, <1>3 DEF CapitalFits
<1>5. \A v \in Run : ~CapitalSuits(v, operation[c], old)
  BY <1>1 DEF CapitalSuits
<1> QED BY <1>2, <1>3, <1>4, <1>5, CapitalStaff

LEMMA CapitalDecides ==
    ASSUME CapitalInv, NEW c \in Commands,
           Capital!Submit(c) \/ (\E verdict \in {"approved", "rejected"} : Capital!Review(c, verdict))
    PROVE  CapitalInv' /\ CapitalGuards
<1>1. CASE Capital!Submit(c)
  <2>1. /\ row[c].status = "draft" /\ \A d \in Commands : row[d].status \notin CapitalPending
        /\ row' = [row EXCEPT ![c].status = "submitted"]
        /\ UNCHANGED <<target, operation, worker>>
    BY <1>1 DEF Capital!Submit, Capital!Write, Capital!InFlight, CapitalPending, CapitalInv
  <2> QED BY <2>1, CapitalDecided
<1>2. ASSUME NEW verdict \in {"approved", "rejected"}, Capital!Review(c, verdict)
      PROVE  CapitalInv' /\ CapitalGuards
  <2>1. /\ row[c].status = "submitted" /\ row[c].status \in CapitalPending
        /\ row' = [row EXCEPT ![c].status = verdict]
        /\ UNCHANGED <<target, operation, worker>>
    BY <1>2 DEF Capital!Review, Capital!Write, CapitalPending, CapitalInv
  <2> QED BY <2>1, CapitalDecided
<1> QED BY <1>1, <1>2

LEMMA CapitalAdmits ==
    ASSUME CapitalInv, NEW c \in Commands, Capital!Admit(c)
    PROVE  CapitalInv' /\ CapitalGuards
<1> DEFINE old == row[c]
           over == old.total <= target
           r == [old EXCEPT !.status = IF over THEN "superseded" ELSE "executing",
                            !.admitted = TRUE, !.prior = target, !.projected = over]
<1>1. /\ old.status = "approved" /\ row' = [row EXCEPT ![c] = r]
      /\ UNCHANGED <<target, operation, worker>>
  BY DEF Capital!Admit, Capital!Write, Capital!Overtaken
<1>2. /\ CapitalFits(operation[c], old) /\ old \in Capital!Increase /\ ~old.admitted
      /\ target \in Capital!Totals
  BY <1>1 DEF CapitalInv, CapitalFits
<1>3. old.total \in Nat /\ target \in Nat /\ over \in BOOLEAN
  BY <1>2, CapitalColumns, TotalsAreNumbers
<1>4. /\ r \in Capital!Increase /\ r.status = (IF over THEN "superseded" ELSE "executing")
      /\ r.admitted /\ r.prior = target /\ r.projected = over /\ r.total = old.total
      /\ r.bound = old.bound /\ r.held = old.held /\ r.retry = old.retry
      /\ r.record = old.record /\ r.receipt = old.receipt /\ row'[c] = r
  BY <1>1, <1>2, <1>3 DEF Capital!Increase, CapitalInv
<1>5. old.total > target <=> ~over
  BY <1>3
<1> HIDE DEF r, over
<1>6. CapitalFits(operation[c], r)
  BY <1>1, <1>2, <1>3, <1>4, <1>5 DEF CapitalFits, over
<1>7. \A v \in Run : ~CapitalSuits(v, operation[c], old)
  BY <1>2 DEF CapitalSuits
<1>8. Capital!ExecutionGuard(c) /\ Capital!RequestGuard(c)
  <2>1. ~r.bound /\ ~r.held /\ r.record = 0 /\ r.retry = 0 /\ old.retry = 0 /\ old.record = 0
        /\ ~old.projected /\ ~old.bound /\ ~old.held
    BY <1>2, <1>4 DEF CapitalFits
  <2>2. (r.projected => r.total <= r.prior) /\ (r.status = IF r.projected THEN "superseded" ELSE "executing")
    BY <1>4 DEF over
  <2> QED BY <1>1, <1>2, <1>4, <2>1, <2>2 DEF Capital!ExecutionGuard, Capital!RequestGuard
<1>9. r.status \in CapitalPending => old.status \in CapitalPending
  BY <1>1 DEF CapitalPending
<1> QED BY <1>1, <1>4, <1>6, <1>7, <1>8, <1>9, CapitalStaff

LEMMA CapitalRetries ==
    ASSUME CapitalInv, NEW c \in Commands, Capital!Retry(c)
    PROVE  CapitalInv' /\ CapitalGuards
<1> DEFINE o == operation[c]
           old == row[c]
           again == [old EXCEPT !.status = "executing", !.projected = FALSE, !.retry = o.claim]
           r == [old EXCEPT !.status = "superseded"]
<1>1. /\ old.admitted /\ ~old.held /\ old.projected /\ old.retry # o.claim /\ o.status \in Undone
      /\ old.status = "failed" /\ UNCHANGED <<target, operation, worker>>
      /\ \A d \in Commands \ {c} : row[d].status \notin CapitalPending
      /\ \/ row' = [row EXCEPT ![c] = again] /\ target = old.prior
         \/ row' = [row EXCEPT ![c] = r]
  BY CapitalRuns DEF Capital!Retry, Capital!Write, Capital!Competes, Capital!InFlight,
     CapitalPending, Capital!CapMoved
<1>2. /\ CapitalFits(o, old) /\ old \in Capital!Increase /\ Sound(o) /\ o.claim \in 0..MaxClaims
      /\ \A d \in Commands : row[d].status \notin CapitalPending
  BY <1>1 DEF CapitalInv, OperationsSound, CapitalPending, Sound, Operation
<1>3. old.retry \in Nat /\ o.claim \in Nat /\ old.bound
  BY <1>1, <1>2, CapitalColumns, Bounded DEF CapitalFits
<1>4. CASE row' = [row EXCEPT ![c] = again] /\ target = old.prior
  <2>1. /\ again \in Capital!Increase /\ again.status = "executing"
        /\ again.admitted = old.admitted /\ again.prior = old.prior /\ ~again.projected
        /\ again.total = old.total /\ again.bound = old.bound /\ again.held = old.held
        /\ again.retry = o.claim /\ again.record = old.record /\ again.receipt = old.receipt
        /\ row'[c] = again
    BY <1>2, <1>4 DEF Capital!Increase, CapitalInv
  <2> HIDE DEF again
  <2>2. CapitalFits(o, again)
    BY <1>1, <1>2, <1>3, <2>1 DEF CapitalFits, Attempted
  <2>3. \A v \in Run : CapitalSuits(v, o, old) => CapitalSuits(v, o, again)
    <3>1. SUFFICES ASSUME NEW v \in Run, CapitalSuits(v, o, old) PROVE CapitalSuits(v, o, again)
      OBVIOUS
    <3>2. v.retry \in Nat
      BY Bounded DEF Run
    <3> QED BY <1>2, <1>3, <2>1, <3>1, <3>2 DEF CapitalSuits, CapitalFits
  <2>4. Capital!ExecutionGuard(c) /\ Capital!RequestGuard(c)
    BY <1>1, <1>2, <1>3, <2>1 DEF CapitalFits, Capital!ExecutionGuard, Capital!RequestGuard,
       Capital!Undone, Capital!Attempted, Attempted
  <2> QED BY <1>1, <1>2, <1>4, <2>1, <2>2, <2>3, <2>4, CapitalStaff
<1>5. CASE row' = [row EXCEPT ![c] = r]
  <2>1. /\ r \in Capital!Increase /\ r.status = "superseded"
        /\ r.admitted = old.admitted /\ r.prior = old.prior /\ r.projected = old.projected
        /\ r.total = old.total /\ r.bound = old.bound /\ r.held = old.held
        /\ r.retry = old.retry /\ r.record = old.record /\ r.receipt = old.receipt
        /\ row'[c] = r
    BY <1>2, <1>5 DEF Capital!Increase, CapitalInv
  <2> HIDE DEF r
  <2>2. CapitalFits(o, r)
    BY <1>1, <1>2, <1>3, <2>1 DEF CapitalFits, Attempted
  <2>3. \A v \in Run : CapitalSuits(v, o, old) => CapitalSuits(v, o, r)
    BY <1>3, <2>1 DEF CapitalSuits
  <2>4. Capital!ExecutionGuard(c) /\ Capital!RequestGuard(c)
    BY <1>1, <1>2, <1>3, <2>1 DEF CapitalFits, Capital!ExecutionGuard, Capital!RequestGuard,
       Capital!Undone, Capital!Attempted, Attempted
  <2>5. r.status \notin CapitalPending
    BY <2>1 DEF CapitalPending
  <2> QED BY <1>1, <1>2, <1>5, <2>1, <2>2, <2>3, <2>4, <2>5, CapitalStaff
<1> QED BY <1>1, <1>4, <1>5

-----------------------------------------------------------------------------
(* The runs of recover.                                                    *)

LEMMA CapitalBegins ==
    ASSUME CapitalInv, NEW w \in Workers, Capital!Begin(w)
    PROVE  CapitalInv' /\ CapitalGuards
<1>1. PICK c \in Commands :
         /\ row[c].admitted /\ ~row[c].projected
         /\ Take(w, IF row[c].bound THEN "read" ELSE "open", c, 0)
  BY CapitalRuns DEF Capital!Begin, Capital!Recoverable
<1> DEFINE pc == IF row[c].bound THEN "read" ELSE "open"
<1>2. row' = row /\ target' = target /\ UNCHANGED operation
  BY DEF Capital!Begin
<1>3. pc \in Steps /\ 0 \in 0..MaxClaims /\ (row[c].bound \/ pc = "open") /\ pc # "bind"
  BY Bounded DEF Steps
<1>4. CapitalFits(operation[c], row[c]) /\ RunsSound /\ 0 <= row[c].retry
  <2>1. CapitalFits(operation[c], row[c]) /\ RunsSound /\ row[c] \in Capital!Increase
    BY DEF CapitalInv
  <2> QED BY <2>1, CapitalColumns
<1> HIDE DEF pc
<1>5. Take(w, pc, c, 0)
  BY <1>1 DEF pc
<1>6. /\ RunsSound' /\ Only(w) /\ worker'[w].command = c /\ worker'[w].retry = 0
      /\ worker'[w].pc = pc
  BY <1>3, <1>4, <1>5, TakeGoes
<1>7. CapitalSuits(worker'[w], operation[c], row[c])
  BY <1>1, <1>3, <1>4, <1>6 DEF CapitalSuits, CapitalFits
<1> QED BY <1>2, <1>6, <1>7, NoneMoves, CapitalAdvances DEF CapitalInv, Only

\* A receipt retained, or a hold put on what is not projected.
LEMMA CapitalNotes ==
    ASSUME CapitalInv, NEW w \in Workers, worker[w].pc \notin {"idle", "open", "bind"},
           UNCHANGED operation, target' = target, RunsSound', Only(w),
           NEW c, c = worker[w].command,
           NEW r, r \in Capital!Increase, row' = [row EXCEPT ![c] = r],
           \/ worker'[w].pc = "idle"
           \/ (worker'[w].command = c /\ CapitalSuits(worker'[w], operation[c], row[c])),
           r.status = row[c].status, r.total = row[c].total, r.prior = row[c].prior,
           r.admitted = row[c].admitted, r.bound = row[c].bound,
           r.projected = row[c].projected, r.retry = row[c].retry, r.record = row[c].record,
           \/ r.receipt = row[c].receipt
           \/ (operation[c].status \in {"confirmed", "reverted"} /\ r.receipt = operation[c].status),
           r.held = row[c].held \/ (~row[c].projected /\ r.held)
    PROVE  CapitalInv' /\ CapitalGuards
<1> DEFINE o == operation[c]
           old == row[c]
<1>1. /\ c \in Commands /\ CapitalFits(o, old) /\ old \in Capital!Increase
      /\ CapitalSuits(worker[w], o, old)
  BY CapitalInHand
<1>2. old.bound /\ old.admitted /\ row'[c] = r
  BY <1>1 DEF CapitalSuits, CapitalInv
<1> HIDE DEF o, old
<1>3. CapitalFits(o, r)
  BY <1>1, <1>2 DEF CapitalFits, Attempted, o, old
<1>4. \A v : CapitalSuits(v, o, old) => CapitalSuits(v, o, r)
  BY <1>1 DEF CapitalSuits, o, old
<1>5. Capital!ExecutionGuard(c)
  BY <1>1, <1>2, <1>3 DEF CapitalFits, Capital!ExecutionGuard, Capital!Undone,
     Capital!Attempted, Attempted, o, old
<1>6. Capital!RequestGuard(c)
  BY <1>1, <1>2, <1>3 DEF CapitalFits, Capital!RequestGuard, Capital!Undone, o, old
<1> QED BY <1>1, <1>3, <1>4, <1>5, <1>6, CapitalWrites DEF o, old

\* The same, by a run that goes on with the row it has.
LEMMA CapitalNoted ==
    ASSUME CapitalInv, NEW w \in Workers, worker[w].pc \notin {"idle", "open", "bind"},
           UNCHANGED operation, target' = target,
           NEW pc \in Steps \ {"open", "bind"}, NEW seen \in BOOLEAN,
           Goto(w, pc) \/ GotoSeeing(w, pc, seen) \/ Finish(w)
    PROVE  /\ RunsSound' /\ Only(w)
           /\ \/ worker'[w].pc = "idle"
              \/ /\ worker'[w].command = worker[w].command
                 /\ CapitalSuits(worker'[w], operation[worker[w].command], row[worker[w].command])
<1>1. /\ worker[w].command \in Commands /\ RunsSound
      /\ CapitalSuits(worker[w], operation[worker[w].command], row[worker[w].command])
  BY CapitalInHand
<1>2. CASE Goto(w, pc)
  BY <1>1, <1>2, GotoGoes DEF Carries, CapitalSuits
<1>3. CASE GotoSeeing(w, pc, seen)
  BY <1>1, <1>3, GotoSeeingGoes DEF Carries, CapitalSuits
<1>4. CASE Finish(w)
  BY <1>1, <1>4, FinishGoes, IdleRun
<1> QED BY <1>2, <1>3, <1>4

\* _retain_receipt.
LEMMA CapitalRetained ==
    ASSUME CapitalInv, NEW c \in Commands
    PROVE  /\ Capital!Retained(c) \in Capital!Increase
           /\ Capital!Retained(c).status = row[c].status /\ Capital!Retained(c).total = row[c].total
           /\ Capital!Retained(c).prior = row[c].prior
           /\ Capital!Retained(c).admitted = row[c].admitted
           /\ Capital!Retained(c).bound = row[c].bound
           /\ Capital!Retained(c).projected = row[c].projected
           /\ Capital!Retained(c).retry = row[c].retry
           /\ Capital!Retained(c).record = row[c].record
           /\ Capital!Retained(c).held = row[c].held
           /\ IF operation[c].status \in {"confirmed", "reverted"}
              THEN Capital!Retained(c).receipt = operation[c].status
              ELSE Capital!Retained(c).receipt = row[c].receipt
BY DEF CapitalInv, Capital!Retained, Capital!Increase, Capital!Receipt

LEMMA CapitalReads ==
    ASSUME CapitalInv, NEW w \in Workers, Capital!ReadClaim(w)
    PROVE  CapitalInv' /\ CapitalGuards
<1> DEFINE c == worker[w].command
           o == operation[c]
           old == row[c]
           r == Capital!Retained(c)
<1>1. /\ worker[w].pc = "read" /\ UNCHANGED operation /\ target' = target
      /\ row' = row \/ row' = [row EXCEPT ![c] = r]
      /\ \/ worker' = [worker EXCEPT ![w].pc = "open", ![w].retry = old.retry]
         \/ worker' = [worker EXCEPT ![w].pc = "resume", ![w].claim = o.claim]
  BY CapitalRuns DEF Capital!ReadClaim, Capital!Row
<1>2. /\ c \in Commands /\ CapitalFits(o, old) /\ old \in Capital!Increase /\ RunsSound
      /\ CapitalSuits(worker[w], o, old) /\ Sound(o)
  BY <1>1, CapitalInHand
<1>3. o.claim \in 0..MaxClaims /\ old.retry \in 0..MaxClaims /\ old.retry <= old.retry
  BY <1>2, CapitalColumns DEF Sound, Operation
<1>4. RunsSound' /\ Only(w) /\ worker'[w].command = c /\ CapitalSuits(worker'[w], o, old)
  <2>1. "open" \in Steps /\ "resume" \in Steps
    BY DEF Steps
  <2>2. CASE worker' = [worker EXCEPT ![w].pc = "open", ![w].retry = old.retry]
    <3>1. PICK retry \in 0..MaxClaims : retry = old.retry
      BY <1>3
    <3>2. worker' = [worker EXCEPT ![w].pc = "open", ![w].retry = retry]
      BY <2>2, <3>1
    <3>3. /\ RunsSound' /\ Only(w) /\ worker'[w].command = c /\ worker'[w].pc = "open"
          /\ worker'[w].retry = retry
      BY <1>2, <2>1, <3>2, RetryGoes
    <3> QED BY <1>2, <1>3, <3>1, <3>3 DEF CapitalSuits
  <2>3. CASE worker' = [worker EXCEPT ![w].pc = "resume", ![w].claim = o.claim]
    <3>1. PICK claim \in 0..MaxClaims : claim = o.claim
      BY <1>3
    <3>2. worker' = [worker EXCEPT ![w].pc = "resume", ![w].claim = claim]
      BY <2>3, <3>1
    <3>3. /\ RunsSound' /\ Only(w) /\ Carries(w) /\ worker'[w].pc = "resume"
      BY <1>2, <2>1, <3>2, ClaimGoes
    <3> QED BY <1>1, <1>2, <3>3 DEF CapitalSuits, Carries
  <2> QED BY <1>1, <2>2, <2>3
<1>5. CASE row' = row
  BY <1>1, <1>2, <1>4, <1>5, NoneMoves, CapitalAdvances DEF CapitalInv, Only
<1>6. CASE row' = [row EXCEPT ![c] = r]
  <2> HIDE DEF r, c, o, old
  <2>2. /\ r \in Capital!Increase /\ r.status = old.status /\ r.total = old.total
        /\ r.prior = old.prior /\ r.admitted = old.admitted /\ r.bound = old.bound
        /\ r.projected = old.projected /\ r.retry = old.retry /\ r.record = old.record
        /\ \/ r.receipt = old.receipt
           \/ (o.status \in {"confirmed", "reverted"} /\ r.receipt = o.status)
        /\ r.held = old.held
    BY <1>2, CapitalRetained DEF r, o, old
  <2> QED BY <1>1, <1>4, <1>6, <2>2, CapitalNotes DEF c, o, old
<1> QED BY <1>1, <1>5, <1>6

LEMMA CapitalBinds ==
    ASSUME CapitalInv, NEW w \in Workers, Capital!Bind(w)
    PROVE  CapitalInv' /\ CapitalGuards
<1> DEFINE c == worker[w].command
           o == operation[c]
           old == row[c]
           r == [old EXCEPT !.bound = TRUE]
<1>1. /\ worker[w].pc = "bind" /\ UNCHANGED operation /\ target' = target
      /\ \/ old.bound /\ row' = row
         \/ old.status = "executing" /\ row' = [row EXCEPT ![c] = r]
      /\ worker' = [worker EXCEPT ![w].pc = "resume", ![w].claim = o.claim]
  BY CapitalRuns DEF Capital!Bind, Capital!Row, Capital!Write
<1>2. /\ c \in Commands /\ CapitalFits(o, old) /\ old \in Capital!Increase /\ RunsSound
      /\ CapitalSuits(worker[w], o, old) /\ Sound(o)
  BY <1>1, CapitalInHand
<1>3. o.claim \in 0..MaxClaims /\ "resume" \in Steps
  BY <1>2 DEF Sound, Operation, Steps
<1>4. /\ RunsSound' /\ Only(w) /\ worker'[w].command = c /\ worker'[w].pc = "resume"
      /\ worker'[w].retry = worker[w].retry
  BY <1>1, <1>2, <1>3, ClaimGoes DEF Carries
<1>5. o.status # "none"
  BY <1>1, <1>2 DEF CapitalSuits
<1>6. CASE old.bound /\ row' = row
  <2>1. CapitalSuits(worker'[w], o, old)
    BY <1>2, <1>4, <1>6 DEF CapitalSuits
  <2> QED BY <1>1, <1>2, <1>4, <1>6, <2>1, NoneMoves, CapitalAdvances DEF CapitalInv, Only
<1>7. CASE old.status = "executing" /\ row' = [row EXCEPT ![c] = r]
  <2>1. /\ r \in Capital!Increase /\ r.status = old.status /\ r.total = old.total
        /\ r.prior = old.prior /\ r.admitted = old.admitted /\ r.bound
        /\ r.projected = old.projected /\ r.retry = old.retry /\ r.record = old.record
        /\ r.receipt = old.receipt /\ r.held = old.held /\ row'[c] = r
    BY <1>2, <1>7 DEF Capital!Increase, CapitalInv
  <2> HIDE DEF r
  <2>2. CapitalFits(o, r)
    BY <1>2, <1>5, <1>7, <2>1 DEF CapitalFits, Attempted
  <2>3. \A v \in Run : CapitalSuits(v, o, old) => CapitalSuits(v, o, r)
    BY <2>1 DEF CapitalSuits
  <2>4. CapitalSuits(worker'[w], o, r)
    BY <1>2, <1>4, <2>1 DEF CapitalSuits
  <2>5. old.admitted /\ ~old.projected
    BY <1>2, <1>7 DEF CapitalFits
  <2>6. Capital!ExecutionGuard(c)
    BY <1>1, <1>2, <2>1, <2>2, <2>5 DEF CapitalFits, Capital!ExecutionGuard, Capital!Attempted,
       Attempted
  <2>7. Capital!RequestGuard(c)
    BY <1>7, <2>1, <2>5 DEF Capital!RequestGuard
  <2> QED BY <1>1, <1>2, <1>4, <1>7, <2>1, <2>2, <2>3, <2>4, <2>6, <2>7, CapitalWrites
<1> QED BY <1>1, <1>6, <1>7

LEMMA CapitalQuiet ==
    ASSUME CapitalInv, NEW w \in Workers, Capital!Resume(w) \/ Capital!GiveUp(w)
    PROVE  CapitalInv' /\ CapitalGuards
<1>1. {"project", "decide", "look"} \subseteq Steps \ {"open", "bind"}
  BY DEF Steps
<1>2. CASE Capital!Resume(w)
  <2>1. /\ AllAdvance /\ NoneSigned /\ OperationsSound' /\ worker[w].pc = "resume"
        /\ row' = row /\ target' = target
    BY <1>2, NoneMoves, CapitalRuns DEF CapitalInv, Capital!Resume
  <2>2. Goto(w, "project") \/ Goto(w, "decide") \/ Goto(w, "look") \/ Finish(w)
    BY <1>2, CapitalRuns DEF Capital!Resume
  <2> QED BY <1>1, <2>1, <2>2, CapitalLeads
<1>3. CASE Capital!GiveUp(w)
  <2>1. /\ FailPreparing(w) \/ UNCHANGED operation
        /\ worker[w].pc = "prepare" /\ Goto(w, "look") /\ row' = row /\ target' = target
    BY <1>3, CapitalIs, CapitalRuns DEF Capital!GiveUp
  <2>2. AllAdvance /\ NoneSigned /\ OperationsSound'
    BY <2>1, FailAdvances, NoneMoves DEF CapitalInv
  <2> QED BY <1>1, <2>1, <2>2, CapitalLeads
<1> QED BY <1>2, <1>3

LEMMA CapitalChecks ==
    ASSUME CapitalInv, NEW w \in Workers, Capital!CheckPreparation(w) \/ Capital!HoldForChain(w)
    PROVE  CapitalInv' /\ CapitalGuards
<1> DEFINE c == worker[w].command
           r == [row[c] EXCEPT !.held = TRUE]
<1>1. /\ worker[w].pc \in {"decide", "refused"} /\ UNCHANGED operation /\ target' = target
      /\ \/ row' = [row EXCEPT ![c] = r] /\ ~row[c].projected /\ Goto(w, "look")
         \/ /\ row' = row
            /\ Goto(w, "look") \/ Goto(w, "prepare") \/ Goto(w, "refused")
  <2>1. CASE Capital!CheckPreparation(w)
    BY <2>1, CapitalRuns DEF Capital!CheckPreparation, Capital!Row, Capital!Write, Capital!Prepares
  <2>2. CASE Capital!HoldForChain(w)
    BY <2>2, CapitalRuns DEF Capital!HoldForChain, Capital!Row, Capital!Write, Capital!Prepares
  <2> QED BY <2>1, <2>2
<1>2. CASE row' = [row EXCEPT ![c] = r] /\ ~row[c].projected /\ Goto(w, "look")
  <2> DEFINE o == operation[c]
             old == row[c]
  <2>1. "look" \in Steps \ {"open", "bind"} /\ TRUE \in BOOLEAN
    BY DEF Steps
  <2>2. /\ RunsSound' /\ Only(w)
        /\ worker'[w].pc = "idle" \/ (worker'[w].command = c /\ CapitalSuits(worker'[w], o, old))
    BY <1>1, <1>2, <2>1, CapitalNoted
  <2>3. old \in Capital!Increase
    BY <1>1, CapitalInHand
  <2>4. row' = [row EXCEPT ![c] = r] /\ ~old.projected /\ c = worker[w].command
    BY <1>2
  <2> HIDE DEF c, o, old
  <2>5. /\ r \in Capital!Increase /\ r.status = old.status /\ r.total = old.total
        /\ r.prior = old.prior /\ r.admitted = old.admitted /\ r.bound = old.bound
        /\ r.projected = old.projected /\ r.retry = old.retry /\ r.record = old.record
        /\ r.receipt = old.receipt /\ r.held
    BY <2>3 DEF Capital!Increase, old
  <2> HIDE DEF r
  <2>6. r.held = old.held \/ (~old.projected /\ r.held)
    BY <2>4, <2>5
  <2> QED BY <1>1, <2>2, <2>4, <2>5, <2>6, CapitalNotes DEF o, old
<1>3. CASE row' = row /\ (Goto(w, "look") \/ Goto(w, "prepare") \/ Goto(w, "refused"))
  <2>1. AllAdvance /\ NoneSigned /\ OperationsSound'
    BY <1>1, NoneMoves DEF CapitalInv
  <2>2. {"look", "prepare", "refused"} \subseteq Steps \ {"open", "bind"}
    BY DEF Steps
  <2> QED BY <1>1, <1>3, <2>1, <2>2, CapitalLeads
<1> QED BY <1>1, <1>2, <1>3

LEMMA CapitalSigns ==
    ASSUME CapitalInv, NEW w \in Workers, Capital!SignIncrease(w)
    PROVE  CapitalInv' /\ CapitalGuards
<1> DEFINE c == worker[w].command
           k == worker[w].claim
           o == operation[c]
           p == operation'[c]
           old == row[c]
           r == [old EXCEPT !.record = k, !.receipt = "submitted"]
<1>1. /\ Sign(w) /\ old.status = "executing" /\ ~old.held /\ ~old.projected
      /\ row' = [row EXCEPT ![c] = r] /\ target' = target
  BY CapitalIs, CapitalRuns DEF Capital!SignIncrease, Capital!Write, Capital!Row
<1>2. OperationsSound' /\ worker[w].pc = "prepare" /\ Goto(w, "look")
  BY <1>1, SignAdvances DEF CapitalInv, At
<1>3. /\ c \in Commands /\ CapitalFits(o, old) /\ old \in Capital!Increase /\ RunsSound
      /\ CapitalSuits(worker[w], o, old) /\ Sound(o) /\ worker[w] \in Run
  BY <1>2, CapitalInHand
<1>4. /\ o.status = "preparing" /\ o.claim = k
      /\ operation' = [operation EXCEPT ![c].status = "signed", ![c].tx[k] = "signed"]
  BY <1>1, <1>3 DEF Sign, Signs, Own, Owns
<1>5. p.status = "signed" /\ p.claim = k /\ \A d \in Commands : d # c => operation'[d] = operation[d]
  BY <1>3, <1>4 DEF CapitalInv, OperationsSound, Sound, Operation
<1>6. k \in 0..MaxClaims /\ k \in Nat \ {0}
  BY <1>3, <1>4, Bounded DEF Sound, Operation
<1>7. /\ r \in Capital!Increase /\ r.status = old.status /\ r.total = old.total
      /\ r.prior = old.prior /\ r.admitted = old.admitted /\ r.bound = old.bound
      /\ r.projected = old.projected /\ r.held = old.held /\ r.retry = old.retry
      /\ r.record = k /\ r.receipt = "submitted" /\ row'[c] = r
  BY <1>1, <1>3, <1>6 DEF Capital!Increase, Capital!Receipt, CapitalInv
<1> HIDE DEF r
<1>8. /\ RunsSound' /\ Only(w) /\ worker'[w].command = c /\ worker'[w].pc = "look"
      /\ worker'[w].retry = worker[w].retry
  BY <1>2, <1>3, GotoGoes DEF Carries, Steps
<1>9. old.retry \in Nat /\ old.retry # k /\ old.bound /\ old.admitted
  BY <1>2, <1>3, <1>4, <1>6, CapitalColumns DEF CapitalFits, CapitalSuits
<1>10. CapitalFits(p, r)
  BY <1>1, <1>3, <1>4, <1>5, <1>7, <1>9 DEF CapitalFits, Attempted
<1>11. \A v \in Run : CapitalSuits(v, o, old) => CapitalSuits(v, p, r)
  BY <1>4, <1>5, <1>7 DEF CapitalSuits
<1>12. CapitalSuits(worker'[w], p, r)
  BY <1>3, <1>5, <1>7, <1>8, <1>9 DEF CapitalSuits
<1>13. old.record # 0 => old.receipt = "reverted"
  BY <1>3, <1>4 DEF CapitalFits, Attempted
<1>14. r.status \in CapitalPending => row[c].status \in CapitalPending
  BY <1>7
<1>15. r.status = "executing" => r.prior = target
  BY <1>1, <1>3, <1>7 DEF CapitalInv
<1>16. Capital!ExecutionGuard(c) /\ Capital!RequestGuard(c)
  <2> HIDE DEF p, old
  <2>1. Capital!ExecutionGuard(c)
    BY <1>1, <1>5, <1>6, <1>7, <1>9, <1>13 DEF Capital!ExecutionGuard, Capital!Attempted, p, old
  <2>2. Capital!RequestGuard(c)
    BY <1>1, <1>7 DEF Capital!RequestGuard
  <2> QED BY <2>1, <2>2
<1>17. \A x \in Workers : worker'[x] = worker[x]
                           \/ (worker'[x].command = c /\ CapitalSuits(worker'[x], p, r))
  BY <1>8, <1>12 DEF Only
<1> QED BY <1>1, <1>2, <1>3, <1>5, <1>7, <1>8, <1>10, <1>11, <1>14, <1>15, <1>16, <1>17, CapitalSteps

\* Steps that keep a receipt, and nothing else.
LEMMA CapitalRetains ==
    ASSUME CapitalInv, NEW w \in Workers, worker[w].pc \notin {"idle", "open", "bind"},
           UNCHANGED operation, target' = target, RunsSound', Only(w), NEW c \in Commands,
           c = worker[w].command, NEW r, row' = [row EXCEPT ![c] = r], r = Capital!Retained(c),
           \/ worker'[w].pc = "idle"
           \/ (worker'[w].command = c /\ CapitalSuits(worker'[w], operation[c], row[c]))
    PROVE  CapitalInv' /\ CapitalGuards
<1> DEFINE o == operation[c]
           old == row[c]
<1> HIDE DEF o, old
<1>1. /\ r \in Capital!Increase /\ r.status = old.status /\ r.total = old.total
      /\ r.prior = old.prior /\ r.admitted = old.admitted /\ r.bound = old.bound
      /\ r.projected = old.projected /\ r.retry = old.retry /\ r.record = old.record
      /\ \/ r.receipt = old.receipt
         \/ (o.status \in {"confirmed", "reverted"} /\ r.receipt = o.status)
      /\ r.held = old.held
  BY CapitalRetained DEF o, old
<1> QED BY <1>1, CapitalNotes DEF o, old

LEMMA CapitalSettles ==
    ASSUME CapitalInv, NEW w \in Workers, Capital!Settle(w)
    PROVE  CapitalInv' /\ CapitalGuards
<1> DEFINE c == worker[w].command
           o == operation[c]
           old == row[c]
           q == Capital!Retained(c)
           held == q.held \/ ~old.projected
           r == [q EXCEPT !.held = held]
<1>1. /\ worker[w].pc = "settle" /\ UNCHANGED operation /\ target' = target
      /\ \/ Goto(w, "project") /\ row' = row
         \/ GotoSeeing(w, "project", ~old.held) /\ row' = [row EXCEPT ![c] = q]
         \/ Goto(w, "project") /\ row' = [row EXCEPT ![c] = r]
  BY CapitalRuns DEF Capital!Settle, Capital!Row, Capital!Write
<1>2. c \in Commands /\ old \in Capital!Increase
  BY <1>1, CapitalInHand
<1>3. "project" \in Steps \ {"open", "bind"} /\ TRUE \in BOOLEAN
  BY DEF Steps
<1>4. CASE Goto(w, "project") /\ row' = row
  BY <1>1, <1>3, <1>4, NoneMoves, CapitalLeads DEF CapitalInv
<1>5. CASE GotoSeeing(w, "project", ~old.held) /\ row' = [row EXCEPT ![c] = q]
  <2>1. PICK seen \in BOOLEAN : seen = ~old.held
    BY <1>2 DEF Capital!Increase
  <2>2. GotoSeeing(w, "project", seen)
    BY <1>5, <2>1
  <2>3. /\ RunsSound' /\ Only(w)
        /\ worker'[w].pc = "idle" \/ (worker'[w].command = c /\ CapitalSuits(worker'[w], o, old))
    BY <1>1, <1>3, <2>2, CapitalNoted
  <2> QED BY <1>1, <1>2, <1>5, <2>3, CapitalRetains
<1>6. CASE Goto(w, "project") /\ row' = [row EXCEPT ![c] = r]
  <2>1. /\ RunsSound' /\ Only(w)
        /\ worker'[w].pc = "idle" \/ (worker'[w].command = c /\ CapitalSuits(worker'[w], o, old))
    BY <1>1, <1>3, <1>6, CapitalNoted
  <2> HIDE DEF c, o, old, q
  <2>2. /\ q \in Capital!Increase /\ q.status = old.status /\ q.total = old.total
        /\ q.prior = old.prior /\ q.admitted = old.admitted /\ q.bound = old.bound
        /\ q.projected = old.projected /\ q.retry = old.retry /\ q.record = old.record
        /\ \/ q.receipt = old.receipt
           \/ (o.status \in {"confirmed", "reverted"} /\ q.receipt = o.status)
        /\ q.held = old.held
    BY <1>2, CapitalRetained DEF q, o, old
  <2>3. old.held \in BOOLEAN /\ old.projected \in BOOLEAN
    BY <1>2 DEF Capital!Increase
  <2>4. held \in BOOLEAN /\ (held = old.held \/ (~old.projected /\ held))
    BY <2>2, <2>3
  <2> HIDE DEF held
  <2>5. /\ r \in Capital!Increase /\ r.status = q.status /\ r.total = q.total
        /\ r.prior = q.prior /\ r.admitted = q.admitted /\ r.bound = q.bound
        /\ r.projected = q.projected /\ r.retry = q.retry /\ r.record = q.record
        /\ r.receipt = q.receipt /\ r.held = held
    BY <2>2, <2>4 DEF Capital!Increase
  <2> HIDE DEF r
  <2>6. row' = [row EXCEPT ![c] = r] /\ c = worker[w].command
    BY <1>6 DEF c
  <2>7. /\ r \in Capital!Increase /\ r.status = old.status /\ r.total = old.total
        /\ r.prior = old.prior /\ r.admitted = old.admitted /\ r.bound = old.bound
        /\ r.projected = old.projected /\ r.retry = old.retry /\ r.record = old.record
        /\ \/ r.receipt = old.receipt
           \/ (o.status \in {"confirmed", "reverted"} /\ r.receipt = o.status)
        /\ r.held = old.held \/ (~old.projected /\ r.held)
    BY <2>2, <2>4, <2>5
  <2> QED BY <1>1, <2>1, <2>6, <2>7, CapitalNotes DEF o, old
<1> QED BY <1>1, <1>4, <1>5, <1>6

\* The outcome of the attempt written to the request, and to the token.
LEMMA CapitalProjects ==
    ASSUME CapitalInv, NEW w \in Workers, worker[w].pc = "project", UNCHANGED operation, Finish(w),
           ~row[worker[w].command].projected, ~row[worker[w].command].held,
           row[worker[w].command].retry # operation[worker[w].command].claim,
           NEW status,
           row' = [row EXCEPT ![worker[w].command] =
                      [Capital!Retained(worker[w].command) EXCEPT !.status = status,
                                                                  !.projected = TRUE]],
           \/ /\ status = "executed" /\ operation[worker[w].command].status = "confirmed"
              /\ target' = row[worker[w].command].total
           \/ /\ status = "failed" /\ operation[worker[w].command].status \in Undone
              /\ target' = target
    PROVE  CapitalInv' /\ CapitalGuards
<1> DEFINE c == worker[w].command
           o == operation[c]
           old == row[c]
           q == Capital!Retained(c)
           r == [q EXCEPT !.status = status, !.projected = TRUE]
<1>1. /\ c \in Commands /\ CapitalFits(o, old) /\ old \in Capital!Increase /\ RunsSound
      /\ CapitalSuits(worker[w], o, old) /\ Sound(o)
  BY CapitalInHand
<1>2. /\ old.admitted /\ old.bound /\ old.status = "executing" /\ old.total > old.prior
      /\ target = old.prior /\ ~old.projected /\ ~old.held /\ old.retry # o.claim
  BY <1>1 DEF CapitalSuits, CapitalFits, CapitalInv
<1>3. /\ target' \in Capital!Totals /\ target' >= target
  <2>1. old.total \in Nat /\ old.prior \in Nat /\ old.total \in Capital!Totals
        /\ old.prior \in Capital!Totals
    BY <1>1, CapitalColumns
  <2> QED BY <1>2, <2>1
<1>4. RunsSound' /\ Only(w) /\ worker'[w].pc = "idle"
  BY <1>1, FinishGoes, IdleRun
<1>5. row' = [row EXCEPT ![c] = r]
  OBVIOUS
<1>6. /\ \/ status = "executed" /\ o.status = "confirmed"
         \/ status = "failed" /\ o.status \in Undone
  OBVIOUS
<1>7. c = worker[w].command /\ worker[w].pc = "project" /\ UNCHANGED operation
  OBVIOUS
<1> HIDE DEF c, o, q
<1>8. /\ q \in Capital!Increase /\ q.total = old.total
      /\ q.prior = old.prior /\ q.admitted = old.admitted /\ q.bound = old.bound
      /\ q.retry = old.retry /\ q.record = old.record /\ q.held = old.held
      /\ o.status \in {"confirmed", "reverted"} => q.receipt = o.status
      /\ o.status \notin {"confirmed", "reverted"} => q.receipt = old.receipt
  BY <1>1, CapitalRetained DEF q, o
<1>9. /\ r \in Capital!Increase /\ r.status = status /\ r.total = old.total
      /\ r.prior = old.prior /\ r.admitted = old.admitted /\ r.bound = old.bound
      /\ r.projected /\ r.retry = old.retry /\ r.record = old.record
      /\ r.receipt = q.receipt /\ r.held = old.held /\ row'[c] = r
  BY <1>1, <1>5, <1>6, <1>8 DEF Capital!Increase, CapitalInv
<1> HIDE DEF r
<1>10. CapitalFits(o, r)
  BY <1>1, <1>2, <1>6, <1>8, <1>9 DEF CapitalFits, Attempted
<1>11. \A v \in Run : CapitalSuits(v, o, old) => CapitalSuits(v, o, r)
  BY <1>2, <1>9 DEF CapitalSuits
<1>12. Capital!ExecutionGuard(c)
  BY <1>2, <1>6, <1>7, <1>9, <1>10 DEF CapitalFits, Capital!ExecutionGuard, Capital!Undone,
     Capital!Attempted, Attempted, o
<1>13. Capital!RequestGuard(c)
  BY <1>2, <1>6, <1>7, <1>9 DEF Capital!RequestGuard, Capital!Undone, o
<1>14. r.status \notin CapitalPending /\ r.status # "executing"
  BY <1>6, <1>9 DEF CapitalPending
<1> HIDE DEF old
<1> QED BY <1>1, <1>2, <1>3, <1>4, <1>5, <1>7, <1>9, <1>10, <1>11, <1>12, <1>13, <1>14,
           CapitalWrites DEF o, old

LEMMA CapitalEnds ==
    ASSUME CapitalInv, NEW w \in Workers,
           Capital!ProjectExecuted(w) \/ Capital!ProjectFailed(w) \/ Capital!ProjectNothing(w)
    PROVE  CapitalInv' /\ CapitalGuards
<1> DEFINE c == worker[w].command
           q == Capital!Retained(c)
<1>1. CASE Capital!ProjectExecuted(w)
  <2>1. /\ worker[w].pc = "project" /\ UNCHANGED operation /\ Finish(w) /\ ~row[c].projected
        /\ ~row[c].held /\ row[c].retry # operation[c].claim
        /\ operation[c].status = "confirmed" /\ target' = row[c].total
        /\ row' = [row EXCEPT ![c] = [q EXCEPT !.status = "executed", !.projected = TRUE]]
    BY <1>1, CapitalRuns DEF Capital!ProjectExecuted, Capital!Projects, Capital!Row, Capital!Write
  <2> HIDE DEF q
  <2> QED BY <2>1, CapitalProjects DEF q
<1>2. CASE Capital!ProjectFailed(w)
  <2>1. /\ worker[w].pc = "project" /\ UNCHANGED operation /\ Finish(w) /\ ~row[c].projected
        /\ ~row[c].held /\ row[c].retry # operation[c].claim
        /\ operation[c].status \in Undone /\ target' = target
        /\ row' = [row EXCEPT ![c] = [q EXCEPT !.status = "failed", !.projected = TRUE]]
    BY <1>2, CapitalRuns DEF Capital!ProjectFailed, Capital!Projects, Capital!Row, Capital!Write
  <2> HIDE DEF q
  <2> QED BY <2>1, CapitalProjects DEF q
<1>3. CASE Capital!ProjectNothing(w)
  <2>1. /\ worker[w].pc = "project" /\ UNCHANGED operation /\ Finish(w) /\ target' = target
        /\ row' = row \/ row' = [row EXCEPT ![c] = q]
    BY <1>3, CapitalRuns DEF Capital!ProjectNothing, Capital!Row, Capital!Write
  <2>2. "look" \in Steps \ {"open", "bind"} /\ TRUE \in BOOLEAN
    BY DEF Steps
  <2>3. CASE row' = row
    BY <2>1, <2>2, <2>3, NoneMoves, CapitalLeads DEF CapitalInv
  <2>4. CASE row' = [row EXCEPT ![c] = q]
    <3>1. /\ RunsSound' /\ Only(w) /\ c \in Commands
          /\ \/ worker'[w].pc = "idle"
             \/ (worker'[w].command = c /\ CapitalSuits(worker'[w], operation[c], row[c]))
      BY <2>1, <2>2, CapitalNoted, CapitalInHand
    <3> QED BY <2>1, <2>4, <3>1, CapitalRetains
  <2> QED BY <2>1, <2>3, <2>4
<1> QED BY <1>1, <1>2, <1>3

\* Every step of an increase keeps the invariant and passes the triggers, and
\* none lowers the cap.
LEMMA CapitalKeeps ==
    ASSUME CapitalInv, Capital!Next
    PROVE  CapitalInv' /\ CapitalGuards
<1>1. CASE Capital!Staff
  BY <1>1, CapitalDrafts, CapitalDecides, CapitalAdmits, CapitalRetries DEF Capital!Staff
<1>2. ASSUME NEW w \in Workers, Capital!Recover(w)
      PROVE  CapitalInv' /\ CapitalGuards
  <2>1. CASE (Capital!Journal(w) \/ Capital!Look(w)) /\ UNCHANGED <<row, target, contract>>
    BY <2>1, CapitalRuns, CapitalOpens, CapitalFollows
  <2> QED BY <1>2, <2>1, CapitalBegins, CapitalReads, CapitalBinds, CapitalQuiet, CapitalChecks,
             CapitalSigns, CapitalSettles, CapitalEnds DEF Capital!Recover
<1>3. CASE Capital!SetElsewhere
  BY <1>3, NoneMoves, CapitalAdvances DEF Capital!SetElsewhere, CapitalInv, RunsSound
<1>4. ASSUME NEW c \in Commands, NEW k \in Claims, NEW outcome \in {"mined", "reverted"},
             Capital!Mine(c, k, outcome)
      PROVE  CapitalInv' /\ CapitalGuards
  <2>1. Mined(c, k, outcome) /\ row' = row /\ target' = target
    BY <1>4, CapitalIs DEF Capital!Mine
  <2>2. OperationsSound' /\ AllAdvance /\ NoneSigned /\ worker' = worker
    BY <2>1, MinedAdvances DEF CapitalInv
  <2>3. RunsSound'
    BY <2>2 DEF CapitalInv, RunsSound
  <2> QED BY <2>1, <2>2, <2>3, CapitalAdvances
<1> QED BY <1>1, <1>2, <1>3, <1>4 DEF Capital!Next, Capital!Claims, Claims

-----------------------------------------------------------------------------
(* TokenDeployment.                                                        *)

\* The last transaction is the current attempt's, or one known to have been
\* reverted; an address is the confirmed attempt's; a hold has no transaction.
DeployFits(o, r) ==
    /\ r \in Deploy!Deployment
    /\ ~r.admitted => ~r.bound /\ ~r.held /\ o.status = "none"
    /\ r.bound => o.status # "none"
    /\ ~r.bound => r.transaction = 0
    /\ IF o.status \in Attempted THEN r.transaction = o.claim
       ELSE r.transaction # 0 => r.transaction < o.claim /\ r.record[r.transaction] = "reverted"
    /\ r.address # 0 => r.address = o.claim /\ o.status = "confirmed"
    /\ r.projected => r.address # 0
    /\ r.held => o.status \in {"preparing", "failed"}

\* A run about to reopen the current attempt knows it came to nothing, and the
\* row says so of a transaction that was reverted.
DeploySuits(v, o, r) ==
    /\ r.admitted
    /\ v.retry <= o.claim /\ v.claim <= o.claim
    /\ v.retry # 0 => r.bound
    /\ v.pc = "bind" => o.status # "none"
    /\ v.pc \notin {"read", "open", "bind"} => r.bound
    /\ v.pc = "retain" /\ v.claim = o.claim => o.status = "reverted"
    /\ v.pc = "open" /\ v.retry # 0 /\ v.retry = o.claim =>
          o.status \in Undone /\ (o.status = "reverted" => r.record[o.claim] = "reverted")
    /\ v.pc \in {"project", "finish"} => r.address # 0

DeployInv ==
    /\ OperationsSound /\ RunsSound
    /\ row \in [Commands -> Deploy!Deployment]
    /\ \A c \in Commands : DeployFits(operation[c], row[c])
    /\ \A w \in Workers : worker[w].pc # "idle" =>
          /\ worker[w].command \in Commands
          /\ DeploySuits(worker[w], operation[worker[w].command], row[worker[w].command])

LEMMA DeployRuns ==
    /\ \A w, pc : Deploy!At(w, pc) <=> worker[w].pc = pc
    /\ \A w, pc : Deploy!Goto(w, pc) <=> Goto(w, pc)
    /\ \A w, pc, seen : Deploy!GotoSeeing(w, pc, seen) <=> GotoSeeing(w, pc, seen)
    /\ \A w : Deploy!Finish(w) <=> Finish(w)
    /\ \A w, pc, c, retry : Deploy!Take(w, pc, c, retry) <=> Take(w, pc, c, retry)
    /\ \A w : Deploy!Own(w) = operation[worker[w].command]
    /\ \A w : Deploy!Owns(w) <=> operation[worker[w].command].claim = worker[w].claim
    /\ \A w : Deploy!Journal(w) \/ Deploy!Look(w) <=> Open(w) \/ Followed(w)
    /\ Deploy!Undone = Undone
<1>1. \A w : Deploy!Journal(w) \/ Deploy!Look(w) <=> Open(w) \/ Followed(w)
  BY DeployIs DEF Deploy!Journal, Deploy!Look, Look, Deploy!ReceiveNothing, ReceiveNothing,
     Deploy!Abandon, Abandon, Followed, Deploy!At, At, Deploy!Goto, Goto, Deploy!Finish, Finish,
     Deploy!Idle, Idle, Deploy!Own, Own, Deploy!Owns, Owns
<1>2. /\ \A w, pc : Deploy!Goto(w, pc) <=> Goto(w, pc)
      /\ \A w, pc, seen : Deploy!GotoSeeing(w, pc, seen) <=> GotoSeeing(w, pc, seen)
      /\ \A w : Deploy!Finish(w) <=> Finish(w)
      /\ \A w, pc, c, retry : Deploy!Take(w, pc, c, retry) <=> Take(w, pc, c, retry)
  BY DEF Deploy!Goto, Goto, Deploy!GotoSeeing, GotoSeeing, Deploy!Finish, Finish, Deploy!Idle, Idle,
     Deploy!Take, Take
<1>3. /\ \A w, pc : Deploy!At(w, pc) <=> worker[w].pc = pc
      /\ \A w : Deploy!Own(w) = operation[worker[w].command]
      /\ \A w : Deploy!Owns(w) <=> operation[worker[w].command].claim = worker[w].claim
      /\ Deploy!Undone = Undone
  BY DEF Deploy!At, Deploy!Own, Deploy!Owns, Deploy!Undone
<1> QED BY <1>1, <1>2, <1>3

LEMMA DeployColumns ==
    ASSUME NEW r \in Deploy!Deployment
    PROVE  /\ r.transaction \in 0..MaxClaims /\ r.address \in 0..MaxClaims
           /\ r.transaction \in Nat /\ r.address \in Nat
           /\ r.record \in [Claims -> {"none", "submitted", "confirmed", "reverted"}]
BY Bounded DEF Deploy!Deployment, Deploy!Claims, Claims

LEMMA DeployFitsOn ==
    ASSUME NEW o, NEW p, NEW r, DeployFits(o, r), Advances(o, p),
           p.status = "signed" => o.status = "signed"
    PROVE  DeployFits(p, r)
BY DEF DeployFits, Advances, Attempted

LEMMA DeploySuitsOn ==
    ASSUME NEW v, NEW o, NEW p, NEW r, DeploySuits(v, o, r), Advances(o, p)
    PROVE  DeploySuits(v, p, r)
BY DEF DeploySuits, Advances

LEMMA DeployInHand ==
    ASSUME DeployInv, NEW w \in Workers, worker[w].pc # "idle"
    PROVE  LET c == worker[w].command IN
           /\ c \in Commands /\ DeploySuits(worker[w], operation[c], row[c])
           /\ DeployFits(operation[c], row[c]) /\ row[c] \in Deploy!Deployment /\ Sound(operation[c])
           /\ worker[w] \in Run /\ RunsSound /\ OperationsSound
BY DEF DeployInv, OperationsSound, RunsSound

\* What the trigger asks of a new row follows from what fits; the rest of it is
\* about what became of the old one.
LEMMA DeployAllows ==
    ASSUME NEW c \in Commands, DeployFits(operation'[c], row'[c]), Sound(operation'[c]),
           NEW old, old = row[c], NEW r, r = row'[c],
           ~old.admitted => ~r.bound /\ r.transaction = 0 /\ r.address = 0 /\ ~r.held,
           old.bound => r.bound, old.address \in {0, r.address},
           old.projected => r.projected, old.held => r.held,
           old.transaction \notin {0, r.transaction} =>
              r.transaction # 0 /\ old.record[old.transaction] = "reverted"
    PROVE  Deploy!DeploymentGuard(c)
<1> DEFINE p == operation'[c]
<1>1. /\ p.claim \in 0..MaxClaims /\ (p.status = "none" <=> p.claim = 0)
      /\ (p.claim # 0 /\ p.tx[p.claim] # "none") <=> p.status \in Attempted
  BY SignedIsAttempted DEF Sound
<1>2. /\ r.transaction # 0 => IF p.status \in Attempted THEN r.transaction = p.claim
                              ELSE r.record[r.transaction] = "reverted"
      /\ r.address # 0 => p.status = "confirmed" /\ r.transaction # 0
      /\ ~r.bound => r.transaction = 0 /\ r.address = 0
      /\ r.projected => r.address # 0
  BY <1>1 DEF DeployFits, Attempted
<1> HIDE DEF p
<1> QED BY <1>1, <1>2 DEF Deploy!DeploymentGuard, p

LEMMA DeployTouched ==
    ASSUME NEW c \in Commands, DeployFits(operation'[c], row[c]), row'[c] = row[c],
           Sound(operation'[c]), row[c].admitted
    PROVE  Deploy!DeploymentGuard(c)
BY DeployAllows

\* Steps that move operations on, sign none and write no row.
LEMMA DeployAdvances ==
    ASSUME DeployInv, OperationsSound', RunsSound', AllAdvance, NoneSigned, row' = row,
           \A w \in Workers :
              \/ worker'[w] = worker[w] \/ worker'[w].pc = "idle"
              \/ /\ worker'[w].command \in Commands
                 /\ DeploySuits(worker'[w], operation[worker'[w].command], row[worker'[w].command])
    PROVE  DeployInv' /\ Deploy!Guards
<1>1. \A c \in Commands : DeployFits(operation'[c], row'[c])
  BY DeployFitsOn DEF DeployInv, AllAdvance, NoneSigned
<1>2. ASSUME NEW w \in Workers, worker'[w].pc # "idle"
      PROVE  /\ worker'[w].command \in Commands
             /\ DeploySuits(worker'[w], operation'[worker'[w].command], row'[worker'[w].command])
  <2> DEFINE c == worker'[w].command
  <2>1. c \in Commands /\ DeploySuits(worker'[w], operation[c], row[c])
    BY <1>2 DEF DeployInv
  <2>2. Advances(operation[c], operation'[c])
    BY <2>1 DEF AllAdvance
  <2> QED BY <2>1, <2>2, DeploySuitsOn
<1>3. ASSUME NEW c \in Commands, row'[c].admitted
      PROVE  Deploy!DeploymentGuard(c)
  BY <1>1, <1>3, DeployTouched DEF OperationsSound
<1> QED BY <1>1, <1>2, <1>3 DEF DeployInv, Deploy!Guards

\* A step of one row, its operation and the runs that have it in hand.
LEMMA DeploySteps ==
    ASSUME DeployInv, OperationsSound', RunsSound', NEW c \in Commands, NEW r \in Deploy!Deployment,
           row' = [row EXCEPT ![c] = r],
           \A d \in Commands : d # c => operation'[d] = operation[d],
           DeployFits(operation'[c], r),
           \A v \in Run : DeploySuits(v, operation[c], row[c]) => DeploySuits(v, operation'[c], r),
           \A w \in Workers :
              \/ worker'[w] = worker[w] \/ worker'[w].pc = "idle"
              \/ (worker'[w].command = c /\ DeploySuits(worker'[w], operation'[c], r)),
           r.admitted => Deploy!DeploymentGuard(c)
    PROVE  DeployInv' /\ Deploy!Guards
<1>1. row' \in [Commands -> Deploy!Deployment] /\ row'[c] = r
      /\ \A d \in Commands : d # c => row'[d] = row[d]
  BY DEF DeployInv
<1>2. \A d \in Commands : DeployFits(operation'[d], row'[d])
  BY <1>1 DEF DeployInv
<1>3. ASSUME NEW w \in Workers, worker'[w].pc # "idle"
      PROVE  /\ worker'[w].command \in Commands
             /\ DeploySuits(worker'[w], operation'[worker'[w].command], row'[worker'[w].command])
  <2>1. CASE worker'[w].command = c /\ DeploySuits(worker'[w], operation'[c], r)
    BY <1>1, <2>1
  <2>2. CASE worker'[w] = worker[w]
    <3>1. worker[w] \in Run /\ worker[w].command \in Commands
          /\ DeploySuits(worker[w], operation[worker[w].command], row[worker[w].command])
      BY <1>3, <2>2 DEF DeployInv, RunsSound
    <3>2. CASE worker[w].command = c
      BY <1>1, <2>2, <3>1, <3>2
    <3>3. CASE worker[w].command # c
      BY <1>1, <2>2, <3>1, <3>3
    <3> QED BY <3>2, <3>3
  <2> QED BY <1>3, <2>1, <2>2
<1>4. ASSUME NEW d \in Commands, row'[d].admitted
      PROVE  Deploy!DeploymentGuard(d)
  <2>1. CASE d = c
    BY <1>1, <1>4, <2>1
  <2>2. CASE d # c
    BY <1>1, <1>2, <1>4, <2>2, DeployTouched DEF OperationsSound
  <2> QED BY <2>1, <2>2
<1> QED BY <1>1, <1>2, <1>3, <1>4 DEF DeployInv, Deploy!Guards

\* Steps of one run that write the row it has in hand.
LEMMA DeployWrites ==
    ASSUME DeployInv, NEW w \in Workers, NEW c \in Commands, NEW r \in Deploy!Deployment,
           UNCHANGED operation, row' = [row EXCEPT ![c] = r], RunsSound', Only(w),
           DeployFits(operation[c], r),
           \A v \in Run : DeploySuits(v, operation[c], row[c]) => DeploySuits(v, operation[c], r),
           \/ worker'[w] = worker[w] \/ worker'[w].pc = "idle"
           \/ (worker'[w].command = c /\ DeploySuits(worker'[w], operation[c], r)),
           r.admitted => Deploy!DeploymentGuard(c)
    PROVE  DeployInv' /\ Deploy!Guards
<1>1. OperationsSound'
  BY NoneMoves DEF DeployInv
<1>2. \A x \in Workers :
         \/ worker'[x] = worker[x] \/ worker'[x].pc = "idle"
         \/ (worker'[x].command = c /\ DeploySuits(worker'[x], operation[c], r))
  BY DEF Only
<1> QED BY <1>1, <1>2, DeploySteps

LEMMA DeployOpens ==
    ASSUME DeployInv, NEW w \in Workers, Open(w), row' = row
    PROVE  DeployInv' /\ Deploy!Guards
<1> DEFINE c == worker[w].command
           o == operation[c]
           p == operation'[c]
           r == row[c]
<1>1. /\ OperationsSound' /\ RunsSound' /\ Only(w) /\ Carries(w) /\ c \in Commands
      /\ worker[w].pc = "open" /\ worker'[w].pc = "bind" /\ worker'[w].claim = p.claim
      /\ \A d \in Commands : d # c => operation'[d] = operation[d]
      /\ \/ operation' = operation /\ o.status # "none"
         \/ /\ o.status = "none" \/ Reopens(o, worker[w].retry)
            /\ p.status = "preparing" /\ p.claim = o.claim + 1
  BY OpenDoes DEF DeployInv
<1>2. /\ r \in Deploy!Deployment /\ DeployFits(o, r) /\ DeploySuits(worker[w], o, r)
      /\ worker[w] \in Run /\ Sound(o) /\ worker'[w].command = c
  BY <1>1, DeployInHand DEF Carries
<1>3. /\ o.claim \in Nat /\ p.claim \in Nat /\ p.claim <= p.claim /\ worker[w].retry \in Nat
      /\ o.status = "none" <=> o.claim = 0
  <2>1. Sound(p)
    BY <1>1 DEF OperationsSound
  <2> QED BY <1>2, <2>1, SignedIsAttempted, Bounded DEF Run, Sound
<1>4. CASE operation' = operation /\ o.status # "none"
  <2>1. DeploySuits(worker'[w], o, r)
    BY <1>1, <1>2, <1>3, <1>4 DEF DeploySuits, Carries
  <2> QED BY <1>1, <1>2, <1>4, <2>1, NoneMoves, DeployAdvances DEF Only, DeployInv
<1>5. CASE /\ o.status = "none" \/ Reopens(o, worker[w].retry)
           /\ p.status = "preparing" /\ p.claim = o.claim + 1
  <2>1. \/ o.status = "none"
        \/ /\ o.status \in Undone /\ worker[w].retry = o.claim /\ worker[w].retry # 0
           /\ o.status = "reverted" => r.record[o.claim] = "reverted"
    BY <1>1, <1>2, <1>3, <1>5 DEF Reopens, DeploySuits
  <2>2. r.transaction \in Nat /\ r.transaction # 0 =>
           r.transaction <= o.claim /\ r.record[r.transaction] = "reverted"
    BY <1>2, <1>3, <2>1 DEF DeployFits, Attempted
  <2>3. r.transaction \in Nat /\ r.admitted /\ r.address = 0
    BY <1>2, <2>1, DeployColumns DEF DeployFits, DeploySuits
  <2>4. DeployFits(p, r)
    BY <1>2, <1>3, <1>5, <2>2, <2>3 DEF DeployFits, Attempted
  <2>5. \A v \in Run : DeploySuits(v, o, r) => DeploySuits(v, p, r)
    <3>1. SUFFICES ASSUME NEW v \in Run, DeploySuits(v, o, r) PROVE DeploySuits(v, p, r)
      OBVIOUS
    <3>2. v.retry \in Nat /\ v.claim \in Nat
      BY Bounded DEF Run
    <3> QED BY <1>3, <1>5, <2>1, <3>1, <3>2 DEF DeploySuits
  <2>6. DeploySuits(worker'[w], p, r)
    BY <1>1, <1>2, <1>3, <1>5 DEF DeploySuits, Carries
  <2>7. Deploy!DeploymentGuard(c)
    BY <1>1, <2>3, <2>4, DeployTouched DEF OperationsSound
  <2>8. row' = [row EXCEPT ![c] = r]
    BY DEF DeployInv
  <2> HIDE DEF c, o, p, r
  <2>9. \A x \in Workers : worker'[x] = worker[x]
                             \/ (worker'[x].command = c /\ DeploySuits(worker'[x], p, r))
    BY <1>1, <1>2, <2>6 DEF Only
  <2> QED BY <1>1, <1>2, <2>4, <2>5, <2>7, <2>8, <2>9, DeploySteps DEF o, p, r
<1> QED BY <1>1, <1>4, <1>5

\* Steps of a run that leave the row as it is.
LEMMA DeployLeads ==
    ASSUME DeployInv, NEW w \in Workers, worker[w].pc \notin {"idle", "read", "open", "bind"},
           row' = row, OperationsSound', AllAdvance, NoneSigned,
           NEW pc \in Steps \ {"open", "bind", "retain", "project", "finish"},
           NEW seen \in BOOLEAN, Goto(w, pc) \/ GotoSeeing(w, pc, seen) \/ Finish(w)
    PROVE  DeployInv' /\ Deploy!Guards
<1> DEFINE c == worker[w].command
<1>1. c \in Commands /\ DeploySuits(worker[w], operation[c], row[c]) /\ RunsSound
  BY DeployInHand
<1>2. \/ RunsSound' /\ Only(w) /\ worker'[w] = Idle
      \/ /\ RunsSound' /\ Only(w) /\ Carries(w) /\ worker'[w].pc = pc
         /\ worker'[w].claim = worker[w].claim
  BY <1>1, GotoGoes, GotoSeeingGoes, FinishGoes
<1>3. \/ worker'[w].pc = "idle"
      \/ (worker'[w].command = c /\ DeploySuits(worker'[w], operation[c], row[c]))
  BY <1>1, <1>2, IdleRun DEF DeploySuits, Carries
<1> HIDE DEF c
<1> QED BY <1>1, <1>2, <1>3, DeployAdvances DEF Only

LEMMA DeployFollows ==
    ASSUME DeployInv, NEW w \in Workers, Followed(w), row' = row
    PROVE  DeployInv' /\ Deploy!Guards
<1> DEFINE c == worker[w].command
<1>1. OperationsSound' /\ AllAdvance /\ NoneSigned /\ RunsSound' /\ Only(w)
  BY FollowedAdvances, FollowedGoes DEF DeployInv
<1>2. worker[w].pc # "idle"
  BY DEF Followed, Receive, ReceiveNothing, Broadcast, Abandon, Look, At
<1>3. c \in Commands /\ DeploySuits(worker[w], operation[c], row[c])
  BY <1>2, DeployInHand
<1>4. \/ worker'[w].pc = "idle"
      \/ /\ Carries(w) /\ worker'[w].claim = worker[w].claim
         /\ worker[w].pc \in {"reconcile", "broadcast", "observe", "look"}
         /\ worker'[w].pc \in {"reconcile", "broadcast", "observe", "settle"}
  BY FollowedGoes, IdleRun DEF DeployInv
<1>5. \/ worker'[w].pc = "idle"
      \/ (worker'[w].command = c /\ DeploySuits(worker'[w], operation[c], row[c]))
  BY <1>3, <1>4 DEF DeploySuits, Carries
<1> HIDE DEF c
<1> QED BY <1>1, <1>3, <1>5, DeployAdvances DEF Only

LEMMA DeployBegins ==
    ASSUME DeployInv, NEW w \in Workers, NEW c \in Commands, Deploy!Begin(w, c)
    PROVE  DeployInv' /\ Deploy!Guards
<1>1. row[c].admitted /\ Take(w, "read", c, 0) /\ UNCHANGED operation /\ row' = row
  BY DeployRuns DEF Deploy!Begin, Deploy!Recoverable, Deploy!rows
<1>2. /\ "read" \in Steps /\ operation[c].claim \in Nat /\ 0 \in 0..MaxClaims /\ RunsSound
  BY SignedIsAttempted, Bounded DEF Steps, DeployInv, OperationsSound
<1>3. /\ RunsSound' /\ Only(w) /\ worker'[w].pc = "read" /\ worker'[w].command = c
      /\ worker'[w].claim = 0 /\ worker'[w].retry = 0
  BY <1>1, <1>2, TakeGoes
<1>4. DeploySuits(worker'[w], operation[c], row[c])
  BY <1>1, <1>2, <1>3 DEF DeploySuits
<1> QED BY <1>1, <1>3, <1>4, NoneMoves, DeployAdvances DEF DeployInv, Only

LEMMA DeployAdmits ==
    ASSUME DeployInv, NEW w \in Workers, NEW c \in Commands, NEW named \in Deploy!Named(c),
           Deploy!Deploy(w, c, named)
    PROVE  DeployInv' /\ Deploy!Guards
<1> DEFINE o == operation[c]
           old == row[c]
           r == [old EXCEPT !.admitted = TRUE]
<1>1. /\ row' = [row EXCEPT ![c] = r] /\ UNCHANGED operation
      /\ worker' = worker \/ Take(w, "read", c, named)
  BY DeployRuns DEF Deploy!Deploy, Deploy!Write
<1>2. DeployFits(o, old) /\ old \in Deploy!Deployment /\ RunsSound /\ Sound(o)
  BY DEF DeployInv, OperationsSound
<1>3. /\ "read" \in Steps /\ o.claim \in Nat /\ named \in 0..MaxClaims /\ named <= o.claim
      /\ named # 0 => old.bound
  BY <1>2, SignedIsAttempted, Bounded DEF Steps, Deploy!Named, Deploy!Claims
<1>4. /\ r \in Deploy!Deployment /\ r.admitted /\ r.bound = old.bound /\ r.held = old.held
      /\ r.transaction = old.transaction /\ r.record = old.record /\ r.address = old.address
      /\ r.projected = old.projected /\ row'[c] = r
  BY <1>1, <1>2 DEF Deploy!Deployment, DeployInv
<1> HIDE DEF r
<1>5. DeployFits(o, r)
  BY <1>2, <1>4 DEF DeployFits
<1>6. \A v \in Run : DeploySuits(v, o, old) => DeploySuits(v, o, r)
  BY <1>4 DEF DeploySuits
<1>7. /\ RunsSound' /\ Only(w)
      /\ worker'[w] = worker[w] \/ (worker'[w].command = c /\ DeploySuits(worker'[w], o, r))
  <2>1. CASE worker' = worker
    BY <1>2, <2>1 DEF RunsSound, Only
  <2>2. CASE Take(w, "read", c, named)
    <3>1. /\ RunsSound' /\ Only(w) /\ worker'[w].pc = "read" /\ worker'[w].command = c
          /\ worker'[w].claim = 0 /\ worker'[w].retry = named
      BY <1>2, <1>3, <2>2, TakeGoes
    <3> QED BY <1>3, <1>4, <3>1 DEF DeploySuits
  <2> QED BY <1>1, <2>1, <2>2
<1>8. Deploy!DeploymentGuard(c)
  <2>1. ~old.admitted => ~r.bound /\ r.transaction = 0 /\ r.address = 0 /\ ~r.held
    BY <1>2, <1>4 DEF DeployFits
  <2> QED BY <1>1, <1>2, <1>4, <1>5, <2>1, DeployAllows
<1> QED BY <1>1, <1>4, <1>5, <1>6, <1>7, <1>8, DeployWrites

LEMMA DeployReads ==
    ASSUME DeployInv, NEW w \in Workers, Deploy!ReadClaim(w)
    PROVE  DeployInv' /\ Deploy!Guards
<1> DEFINE c == worker[w].command
           o == operation[c]
           old == row[c]
           claim == IF old.bound THEN o.claim ELSE 0
           pc == IF Deploy!Keeps(w) THEN "resume"
                 ELSE IF old.bound /\ o.status = "reverted" THEN "retain" ELSE "open"
           v == [worker[w] EXCEPT !.claim = claim, !.pc = pc]
<1>1. /\ worker[w].pc = "read" /\ UNCHANGED operation /\ row' = row
      /\ worker' = [worker EXCEPT ![w] = v]
  BY DeployRuns DEF Deploy!ReadClaim, Deploy!Row, Deploy!rows
<1>2. /\ c \in Commands /\ DeployFits(o, old) /\ old \in Deploy!Deployment /\ RunsSound
      /\ DeploySuits(worker[w], o, old) /\ Sound(o) /\ worker[w] \in Run
  BY <1>1, DeployInHand
<1>3. claim \in 0..MaxClaims /\ claim <= o.claim
  BY <1>2, SignedIsAttempted, Bounded
<1>4. /\ pc \in {"resume", "retain", "open"} /\ (pc = "resume" => old.bound)
      /\ pc = "retain" => old.bound /\ o.status = "reverted"
      /\ pc = "open" /\ worker[w].retry # 0 => o.status = "failed"
  <2>1. Deploy!Keeps(w) <=> old.bound /\ (worker[w].retry = 0 \/ o.status \notin Undone)
    BY DeployRuns DEF Deploy!Keeps, Deploy!Row
  <2> QED BY <1>2, <2>1 DEF DeploySuits
<1> HIDE DEF claim, pc
<1>5. v \in Run /\ v.command = c /\ v.claim = claim /\ v.pc = pc /\ v.retry = worker[w].retry
  BY <1>2, <1>3, <1>4 DEF Run, Steps
<1> HIDE DEF v
<1>6. RunsSound' /\ Only(w) /\ worker'[w] = v
  BY <1>1, <1>2, <1>5, RunGoes
<1>7. worker'[w].command = c /\ DeploySuits(worker'[w], o, old)
  BY <1>2, <1>3, <1>4, <1>5, <1>6 DEF DeploySuits
<1> QED BY <1>1, <1>2, <1>6, <1>7, NoneMoves, DeployAdvances DEF DeployInv, Only

\* What record_outcome makes of a row, with what its operation says.
LEMMA DeployOutcome ==
    ASSUME DeployInv, NEW w \in Workers, NEW c \in Commands, c = worker[w].command,
           operation[c].claim = worker[w].claim, row[c].bound,
           NEW r, r = Deploy!Outcome(w)
    PROVE  /\ r \in Deploy!Deployment /\ DeployFits(operation[c], r)
           /\ r.admitted /\ r.bound /\ r.held = row[c].held /\ r.projected = row[c].projected
           /\ r.transaction = row[c].transaction
           /\ row[c].address # 0 => r.address = row[c].address
           /\ operation[c].status = "reverted" => r.record[operation[c].claim] = "reverted"
<1> DEFINE o == operation[c]
           old == row[c]
           k == worker[w].claim
           entry == IF o.status \in {"confirmed", "reverted"} THEN o.status ELSE old.record[k]
           address == IF o.status = "confirmed" /\ worker[w].seen THEN k ELSE old.address
           record == [old.record EXCEPT ![k] = entry]
<1>1. /\ DeployFits(o, old) /\ old \in Deploy!Deployment /\ Sound(o) /\ old.admitted /\ old.bound
      /\ o.status # "none"
  BY DEF DeployInv, OperationsSound, DeployFits
<1>2. /\ o.claim = k /\ k \in Claims /\ k \in 0..MaxClaims /\ k \in Nat \ {0}
      /\ o.status \in {"preparing", "signed", "confirmed", "reverted", "failed"}
      /\ o.status \in {"confirmed", "reverted"} => o.tx[k] # "none"
  BY <1>1, Bounded DEF Sound, Operation
<1>3. CASE o.tx[k] = "none"
  <2>1. r = old
    BY <1>3, DeployRuns DEF Deploy!Outcome, Deploy!Row
  <2> QED BY <1>1, <1>2, <1>3, <2>1
<1>4. CASE o.tx[k] # "none"
  <2>1. old.record \in [Claims -> {"none", "submitted", "confirmed", "reverted"}]
        /\ old.address \in 0..MaxClaims /\ old.transaction \in Nat /\ old.transaction \in 0..MaxClaims
    BY <1>1, DeployColumns
  <2>2. r = [old EXCEPT !.record[k] = entry, !.address = address]
    BY <1>1, <1>4, DeployRuns DEF Deploy!Outcome, Deploy!Row, Deploy!Deployment
  <2>3. r = [old EXCEPT !.record = record, !.address = address]
    BY <1>1, <2>2 DEF Deploy!Deployment
  <2>4. /\ entry \in {"none", "submitted", "confirmed", "reverted"} /\ address \in 0..MaxClaims
        /\ o.status = "reverted" => entry = "reverted"
        /\ address # 0 => address = k /\ o.status = "confirmed"
        /\ old.address # 0 => address = old.address
    BY <1>1, <1>2, <2>1 DEF DeployFits
  <2>5. old.transaction # 0 => old.transaction \in Claims
    BY <2>1, Bounded
  <2> HIDE DEF entry, address
  <2>6. /\ record \in [Claims -> {"none", "submitted", "confirmed", "reverted"}]
        /\ record[k] = entry /\ \A j \in Claims : j # k => record[j] = old.record[j]
    BY <1>2, <2>1, <2>4
  <2> HIDE DEF record
  <2>7. /\ r \in Deploy!Deployment /\ r.record = record /\ r.address = address
        /\ r.admitted /\ r.bound /\ r.held = old.held /\ r.projected = old.projected
        /\ r.transaction = old.transaction
    BY <1>1, <2>3, <2>4, <2>6 DEF Deploy!Deployment, Deploy!Claims, Claims
  <2>8. DeployFits(o, r)
    BY <1>1, <1>2, <2>1, <2>4, <2>5, <2>6, <2>7 DEF DeployFits, Attempted
  <2> QED BY <1>2, <2>4, <2>6, <2>7, <2>8
<1> QED BY <1>3, <1>4

LEMMA DeployRecorded ==
    ASSUME DeployInv, NEW w \in Workers, NEW c \in Commands, c = worker[w].command,
           operation[c].claim = worker[w].claim, row[c].bound, UNCHANGED operation,
           NEW r, r = Deploy!Outcome(w), row' = [row EXCEPT ![c] = r], RunsSound', Only(w),
           \/ worker'[w].pc = "idle"
           \/ (worker'[w].command = c /\ DeploySuits(worker'[w], operation[c], r))
    PROVE  DeployInv' /\ Deploy!Guards
<1> DEFINE o == operation[c]
           old == row[c]
<1>1. /\ r \in Deploy!Deployment /\ DeployFits(o, r)
      /\ r.admitted /\ r.bound /\ r.held = old.held /\ r.projected = old.projected
      /\ r.transaction = old.transaction
      /\ old.address # 0 => r.address = old.address
      /\ o.status = "reverted" => r.record[o.claim] = "reverted"
  BY DeployOutcome
<1>2. row'[c] = r /\ Sound(o) /\ old.admitted
  BY DEF DeployInv, OperationsSound, DeployFits
<1>3. \A v \in Run : DeploySuits(v, o, old) => DeploySuits(v, o, r)
  BY <1>1 DEF DeploySuits
<1>4. Deploy!DeploymentGuard(c)
  BY <1>1, <1>2, DeployAllows
<1> QED BY <1>1, <1>3, <1>4, DeployWrites

LEMMA DeployRetains ==
    ASSUME DeployInv, NEW w \in Workers, Deploy!Retain(w)
    PROVE  DeployInv' /\ Deploy!Guards
<1> DEFINE c == worker[w].command
           o == operation[c]
           old == row[c]
           r == Deploy!Outcome(w)
<1>1. worker[w].pc = "retain" /\ UNCHANGED operation
  BY DeployRuns DEF Deploy!Retain
<1>2. /\ c \in Commands /\ old.bound /\ RunsSound /\ DeploySuits(worker[w], o, old) /\ Sound(o)
  BY <1>1, DeployInHand DEF DeploySuits
<1>3. CASE o.claim = worker[w].claim /\ row' = [row EXCEPT ![c] = r] /\ Goto(w, "open")
  <2> HIDE DEF r
  <2>1. r.admitted /\ r.bound /\ o.status = "reverted" /\ r.record[o.claim] = "reverted"
    BY <1>1, <1>2, <1>3, DeployOutcome DEF r, DeploySuits
  <2>2. /\ RunsSound' /\ Only(w) /\ worker'[w].command = c /\ worker'[w].pc = "open"
        /\ worker'[w].claim = worker[w].claim /\ worker'[w].retry = worker[w].retry
    BY <1>2, <1>3, GotoGoes DEF Carries, Steps
  <2>3. DeploySuits(worker'[w], o, r)
    BY <1>2, <2>1, <2>2 DEF DeploySuits
  <2> QED BY <1>1, <1>2, <1>3, <2>2, <2>3, DeployRecorded DEF r
<1>4. CASE worker' = [worker EXCEPT ![w].pc = "resume", ![w].claim = o.claim] /\ row' = row
  <2>1. o.claim \in 0..MaxClaims /\ o.claim <= o.claim /\ "resume" \in Steps
    BY <1>2, SignedIsAttempted, Bounded DEF Steps
  <2>2. /\ RunsSound' /\ Only(w) /\ Carries(w) /\ worker'[w].pc = "resume"
        /\ worker'[w].claim = o.claim
    <3>1. PICK claim \in 0..MaxClaims : claim = o.claim
      BY <2>1
    <3>2. worker' = [worker EXCEPT ![w].pc = "resume", ![w].claim = claim]
      BY <1>4, <3>1
    <3> HIDE DEF o
    <3> QED BY <1>2, <2>1, <3>1, <3>2, ClaimGoes
  <2>3. worker'[w].command = c /\ DeploySuits(worker'[w], o, old)
    BY <1>2, <2>1, <2>2 DEF DeploySuits, Carries
  <2> QED BY <1>1, <1>2, <1>4, <2>2, <2>3, NoneMoves, DeployAdvances DEF DeployInv, Only
<1> QED BY <1>3, <1>4, DeployRuns DEF Deploy!Retain, Deploy!Write

LEMMA DeployRecords ==
    ASSUME DeployInv, NEW w \in Workers, Deploy!RecordOutcome(w)
    PROVE  DeployInv' /\ Deploy!Guards
<1> DEFINE c == worker[w].command
           o == operation[c]
           old == row[c]
           r == Deploy!Outcome(w)
<1>1. /\ worker[w].pc = "outcome" /\ UNCHANGED operation
      /\ o.claim = worker[w].claim /\ old.bound /\ row' = [row EXCEPT ![c] = r]
      /\ (r.address # 0 /\ Goto(w, "project")) \/ Finish(w)
  BY DeployRuns DEF Deploy!RecordOutcome, Deploy!Write, Deploy!Row
<1>2. c \in Commands /\ RunsSound /\ DeploySuits(worker[w], o, old)
  BY <1>1, DeployInHand
<1> HIDE DEF r
<1>3. r.admitted /\ r.bound
  BY <1>1, <1>2, DeployOutcome DEF r
<1>4. CASE r.address # 0 /\ Goto(w, "project")
  <2>1. /\ RunsSound' /\ Only(w) /\ worker'[w].command = c /\ worker'[w].pc = "project"
        /\ worker'[w].claim = worker[w].claim /\ worker'[w].retry = worker[w].retry
    BY <1>2, <1>4, GotoGoes DEF Carries, Steps
  <2>2. DeploySuits(worker'[w], o, r)
    BY <1>2, <1>3, <1>4, <2>1 DEF DeploySuits
  <2> QED BY <1>1, <1>2, <2>1, <2>2, DeployRecorded DEF r
<1>5. CASE Finish(w)
  <2>1. RunsSound' /\ Only(w) /\ worker'[w].pc = "idle"
    BY <1>2, <1>5, FinishGoes, IdleRun
  <2> QED BY <1>1, <1>2, <2>1, DeployRecorded DEF r
<1> QED BY <1>1, <1>4, <1>5

LEMMA DeployBinds ==
    ASSUME DeployInv, NEW w \in Workers, Deploy!Bind(w)
    PROVE  DeployInv' /\ Deploy!Guards
<1> DEFINE c == worker[w].command
           o == operation[c]
           old == row[c]
           r == [old EXCEPT !.bound = TRUE]
<1>1. /\ worker[w].pc = "bind" /\ UNCHANGED operation /\ Goto(w, "resume")
      /\ row' = [row EXCEPT ![c] = r]
  BY DeployRuns DEF Deploy!Bind, Deploy!Row, Deploy!Write
<1>2. /\ c \in Commands /\ DeployFits(o, old) /\ old \in Deploy!Deployment /\ RunsSound
      /\ DeploySuits(worker[w], o, old) /\ Sound(o)
  BY <1>1, DeployInHand
<1>3. /\ r \in Deploy!Deployment /\ r.admitted = old.admitted /\ r.bound /\ r.held = old.held
      /\ r.transaction = old.transaction /\ r.record = old.record /\ r.address = old.address
      /\ r.projected = old.projected /\ row'[c] = r
  BY <1>1, <1>2 DEF Deploy!Deployment, DeployInv
<1> HIDE DEF r
<1>4. old.admitted /\ o.status # "none"
  BY <1>1, <1>2 DEF DeploySuits
<1>5. DeployFits(o, r)
  BY <1>2, <1>3, <1>4 DEF DeployFits
<1>6. \A v \in Run : DeploySuits(v, o, old) => DeploySuits(v, o, r)
  BY <1>3 DEF DeploySuits
<1>7. /\ RunsSound' /\ Only(w) /\ worker'[w].command = c /\ worker'[w].pc = "resume"
      /\ worker'[w].claim = worker[w].claim /\ worker'[w].retry = worker[w].retry
  BY <1>1, <1>2, GotoGoes DEF Carries, Steps
<1>8. DeploySuits(worker'[w], o, r)
  BY <1>2, <1>3, <1>7 DEF DeploySuits
<1>9. Deploy!DeploymentGuard(c)
  BY <1>1, <1>2, <1>3, <1>4, <1>5, DeployAllows
<1> QED BY <1>1, <1>2, <1>3, <1>5, <1>6, <1>7, <1>8, <1>9, DeployWrites

LEMMA DeployQuiet ==
    ASSUME DeployInv, NEW w \in Workers,
           Deploy!Resume(w) \/ Deploy!ReadFactory(w) \/ Deploy!GiveUp(w) \/ Deploy!Settle(w)
    PROVE  DeployInv' /\ Deploy!Guards
<1>1. /\ {"outcome", "decide", "look", "prepare", "refused"}
            \subseteq Steps \ {"open", "bind", "retain", "project", "finish"}
      /\ TRUE \in BOOLEAN
  BY DEF Steps
<1>2. CASE Deploy!Resume(w) \/ Deploy!ReadFactory(w)
  <2>1. /\ AllAdvance /\ NoneSigned /\ OperationsSound' /\ row' = row
        /\ worker[w].pc \in {"resume", "decide"}
    BY <1>2, NoneMoves, DeployRuns DEF DeployInv, Deploy!Resume, Deploy!ReadFactory, Deploy!rows
  <2>2. \E pc \in {"outcome", "decide", "look", "prepare", "refused"} : Goto(w, pc)
    BY <1>2, DeployRuns DEF Deploy!Resume, Deploy!ReadFactory
  <2> QED BY <1>1, <2>1, <2>2, DeployLeads
<1>3. CASE Deploy!GiveUp(w)
  <2>1. FailPreparing(w) /\ worker[w].pc \in {"decide", "prepare"} /\ row' = row
    BY <1>3, DeployIs DEF Deploy!GiveUp, Deploy!rows
  <2>2. AllAdvance /\ NoneSigned /\ OperationsSound'
    BY <2>1, FailAdvances DEF DeployInv
  <2>3. Goto(w, "look") \/ Finish(w)
    BY <1>3, DeployRuns DEF Deploy!GiveUp
  <2> QED BY <1>1, <2>1, <2>2, <2>3, DeployLeads
<1>4. CASE Deploy!Settle(w)
  <2>1. /\ AllAdvance /\ NoneSigned /\ OperationsSound' /\ row' = row /\ worker[w].pc = "settle"
    BY <1>4, NoneMoves, DeployRuns DEF DeployInv, Deploy!Settle, Deploy!rows
  <2>2. PICK event \in {FALSE, operation[worker[w].command].status = "confirmed"} :
           GotoSeeing(w, "outcome", event)
    BY <1>4, DeployRuns DEF Deploy!Settle
  <2>3. event \in BOOLEAN
    BY <2>2
  <2> QED BY <1>1, <2>1, <2>2, <2>3, DeployLeads
<1> QED BY <1>2, <1>3, <1>4

LEMMA DeployHolds ==
    ASSUME DeployInv, NEW w \in Workers, Deploy!HoldExistingContract(w)
    PROVE  DeployInv' /\ Deploy!Guards
<1> DEFINE c == worker[w].command
           o == operation[c]
           p == operation'[c]
           old == row[c]
           r == [old EXCEPT !.held = TRUE]
<1>1. /\ worker[w].pc = "refused"
      /\ \/ /\ Signs(w) /\ row' = [row EXCEPT ![c] = r] /\ Finish(w)
            /\ operation' = [operation EXCEPT ![c].status = "failed"]
         \/ Goto(w, "prepare") /\ row' = row /\ UNCHANGED operation
  BY DeployRuns DEF Deploy!HoldExistingContract, Deploy!Holds, Deploy!Row, Deploy!Write, Signs, Own, Owns
<1>2. /\ c \in Commands /\ DeployFits(o, old) /\ old \in Deploy!Deployment /\ RunsSound
      /\ DeploySuits(worker[w], o, old) /\ Sound(o) /\ OperationsSound
  BY <1>1, DeployInHand
<1>3. CASE Goto(w, "prepare") /\ row' = row /\ UNCHANGED operation
  <2>1. "prepare" \in Steps \ {"open", "bind", "retain", "project", "finish"} /\ TRUE \in BOOLEAN
    BY DEF Steps
  <2>2. OperationsSound' /\ AllAdvance /\ NoneSigned
    BY <1>2, <1>3, NoneMoves
  <2> QED BY <1>1, <1>3, <2>1, <2>2, DeployLeads
<1>4. CASE /\ Signs(w) /\ row' = [row EXCEPT ![c] = r] /\ Finish(w)
           /\ operation' = [operation EXCEPT ![c].status = "failed"]
  <2>1. FailPreparing(w) /\ o.status = "preparing"
    BY <1>4 DEF FailPreparing, Signs, Own
  <2>2. /\ p.status = "failed" /\ p.claim = o.claim
        /\ \A d \in Commands : d # c => operation'[d] = operation[d]
    BY <1>2, <1>4 DEF OperationsSound, Sound, Operation
  <2>3. OperationsSound'
    BY <1>2, <2>1, FailAdvances
  <2>4. /\ r \in Deploy!Deployment /\ r.admitted = old.admitted /\ r.bound = old.bound /\ r.held
        /\ r.transaction = old.transaction /\ r.record = old.record /\ r.address = old.address
        /\ r.projected = old.projected /\ row'[c] = r
    BY <1>2, <1>4 DEF Deploy!Deployment, DeployInv
  <2>5. RunsSound' /\ Only(w) /\ worker'[w].pc = "idle"
    BY <1>2, <1>4, FinishGoes, IdleRun
  <2> HIDE DEF r
  <2>6. old.admitted /\ DeployFits(p, r)
    BY <1>2, <2>1, <2>2, <2>4 DEF DeployFits, DeploySuits, Attempted
  <2>7. \A v \in Run : DeploySuits(v, o, old) => DeploySuits(v, p, r)
    BY <2>1, <2>2, <2>4 DEF DeploySuits
  <2>8. Deploy!DeploymentGuard(c)
    <3>1. Sound(p)
      BY <1>2, <2>3 DEF OperationsSound
    <3> QED BY <1>2, <2>4, <2>6, <3>1, DeployAllows
  <2>9. \A x \in Workers :
           \/ worker'[x] = worker[x] \/ worker'[x].pc = "idle"
           \/ (worker'[x].command = c /\ DeploySuits(worker'[x], p, r))
    BY <2>5 DEF Only
  <2> QED BY <1>2, <1>4, <2>2, <2>3, <2>4, <2>5, <2>6, <2>7, <2>8, <2>9, DeploySteps
<1> QED BY <1>1, <1>3, <1>4

LEMMA DeploySigns ==
    ASSUME DeployInv, NEW w \in Workers, Deploy!SignDeployment(w)
    PROVE  DeployInv' /\ Deploy!Guards
<1> DEFINE c == worker[w].command
           k == worker[w].claim
           o == operation[c]
           p == operation'[c]
           old == row[c]
           record == [old.record EXCEPT ![k] = "submitted"]
           r == [old EXCEPT !.transaction = k, !.record[k] = "submitted"]
<1>1. Sign(w) /\ ~old.held /\ old.bound /\ row' = [row EXCEPT ![c] = r]
  BY DeployIs, DeployRuns DEF Deploy!SignDeployment, Deploy!Bindable, Deploy!Write, Deploy!Row
<1>2. OperationsSound' /\ AllAdvance /\ worker[w].pc = "prepare" /\ Goto(w, "look")
  BY <1>1, SignAdvances DEF DeployInv, At
<1>3. /\ c \in Commands /\ DeployFits(o, old) /\ old \in Deploy!Deployment /\ RunsSound
      /\ DeploySuits(worker[w], o, old) /\ Sound(o) /\ worker[w] \in Run
  BY <1>2, DeployInHand
<1>4. /\ o.status = "preparing" /\ o.claim = k
      /\ operation' = [operation EXCEPT ![c].status = "signed", ![c].tx[k] = "signed"]
  BY <1>1, <1>3 DEF Sign, Signs, Own, Owns
<1>5. /\ p.status = "signed" /\ p.claim = k
      /\ \A d \in Commands : d # c => operation'[d] = operation[d]
  BY <1>3, <1>4 DEF DeployInv, OperationsSound, Sound, Operation
<1>6. k \in Claims /\ k \in Nat \ {0} /\ k \in 0..MaxClaims
  BY <1>3, <1>4, Bounded DEF Sound, Operation
<1>7. /\ record \in [Claims -> {"none", "submitted", "confirmed", "reverted"}]
      /\ \A j \in Claims : j # k => record[j] = old.record[j]
  BY <1>3, <1>6, DeployColumns
<1>8. r = [old EXCEPT !.transaction = k, !.record = record] /\ row'[c] = r
  BY <1>1, <1>3 DEF Deploy!Deployment, DeployInv
<1> HIDE DEF record, r
<1>9. /\ r \in Deploy!Deployment /\ r.admitted = old.admitted /\ r.bound /\ ~r.held
      /\ r.transaction = k /\ r.record = record /\ r.address = old.address
      /\ r.projected = old.projected
  BY <1>1, <1>3, <1>6, <1>7, <1>8 DEF Deploy!Deployment, Deploy!Claims, Claims
<1>10. old.transaction \in Nat /\ old.admitted
  BY <1>3, DeployColumns DEF DeploySuits
<1>11. DeployFits(p, r)
  BY <1>3, <1>4, <1>5, <1>6, <1>9, <1>10 DEF DeployFits, Attempted
<1>12. \A v \in Run : DeploySuits(v, o, old) => DeploySuits(v, p, r)
  BY <1>4, <1>5, <1>9 DEF DeploySuits
<1>13. /\ RunsSound' /\ Only(w) /\ worker'[w].command = c /\ worker'[w].pc = "look"
       /\ worker'[w].claim = worker[w].claim /\ worker'[w].retry = worker[w].retry
  BY <1>2, <1>3, GotoGoes DEF Carries, Steps
<1>14. DeploySuits(worker'[w], p, r)
  BY <1>3, <1>5, <1>9, <1>10, <1>13, <1>4 DEF DeploySuits
<1>15. Deploy!DeploymentGuard(c)
  <2>1. old.transaction \notin {0, k} => old.record[old.transaction] = "reverted"
    BY <1>3, <1>4 DEF DeployFits, Attempted
  <2>2. Sound(p)
    BY <1>2, <1>3 DEF OperationsSound
  <2> QED BY <1>1, <1>3, <1>6, <1>8, <1>9, <1>10, <1>11, <2>1, <2>2, DeployAllows
<1>16. \A x \in Workers : worker'[x] = worker[x]
                           \/ (worker'[x].command = c /\ DeploySuits(worker'[x], p, r))
  BY <1>13, <1>14 DEF Only
<1>17. row' = [row EXCEPT ![c] = r]
  BY <1>1 DEF r
<1> QED BY <1>2, <1>3, <1>5, <1>9, <1>11, <1>12, <1>13, <1>15, <1>16, <1>17, DeploySteps

\* The token row first, then the mark that it was written.
LEMMA DeployProjects ==
    ASSUME DeployInv, NEW w \in Workers, Deploy!Project(w)
    PROVE  DeployInv' /\ Deploy!Guards
<1> DEFINE c == worker[w].command
<1>1. /\ worker[w].pc = "project" /\ UNCHANGED operation /\ row' = row /\ Goto(w, "finish")
  BY DeployRuns DEF Deploy!Project
<1>2. /\ c \in Commands /\ RunsSound /\ DeploySuits(worker[w], operation[c], row[c])
  BY <1>1, DeployInHand
<1>3. /\ RunsSound' /\ Only(w) /\ worker'[w].command = c /\ worker'[w].pc = "finish"
      /\ worker'[w].claim = worker[w].claim /\ worker'[w].retry = worker[w].retry
  BY <1>1, <1>2, GotoGoes DEF Carries, Steps
<1>4. worker'[w].command = c /\ DeploySuits(worker'[w], operation[c], row[c])
  BY <1>1, <1>2, <1>3 DEF DeploySuits
<1> HIDE DEF c
<1> QED BY <1>1, <1>2, <1>3, <1>4, NoneMoves, DeployAdvances DEF DeployInv, Only

LEMMA DeployMarks ==
    ASSUME DeployInv, NEW w \in Workers, Deploy!MarkProjected(w)
    PROVE  DeployInv' /\ Deploy!Guards
<1> DEFINE c == worker[w].command
           o == operation[c]
           old == row[c]
           r == [old EXCEPT !.projected = TRUE]
<1>1. /\ worker[w].pc = "finish" /\ UNCHANGED operation /\ Finish(w)
      /\ row' = [row EXCEPT ![c] = r]
  BY DeployRuns DEF Deploy!MarkProjected, Deploy!Row, Deploy!Write
<1>2. /\ c \in Commands /\ DeployFits(o, old) /\ old \in Deploy!Deployment /\ RunsSound
      /\ DeploySuits(worker[w], o, old) /\ Sound(o)
  BY <1>1, DeployInHand
<1>3. /\ r \in Deploy!Deployment /\ r.admitted = old.admitted /\ r.bound = old.bound
      /\ r.held = old.held /\ r.transaction = old.transaction /\ r.record = old.record
      /\ r.address = old.address /\ r.projected /\ row'[c] = r
  BY <1>1, <1>2 DEF Deploy!Deployment, DeployInv
<1> HIDE DEF r
<1>4. old.admitted /\ old.address # 0
  BY <1>1, <1>2 DEF DeploySuits
<1>5. DeployFits(o, r)
  BY <1>2, <1>3, <1>4 DEF DeployFits
<1>6. \A v \in Run : DeploySuits(v, o, old) => DeploySuits(v, o, r)
  BY <1>3 DEF DeploySuits
<1>7. RunsSound' /\ Only(w) /\ worker'[w].pc = "idle"
  BY <1>1, <1>2, FinishGoes, IdleRun
<1>8. Deploy!DeploymentGuard(c)
  BY <1>1, <1>2, <1>3, <1>4, <1>5, DeployAllows
<1> QED BY <1>1, <1>2, <1>3, <1>5, <1>6, <1>7, <1>8, DeployWrites

\* Every step of a deployment keeps the invariant and passes the trigger.
LEMMA DeployKeeps ==
    ASSUME DeployInv, Deploy!Next
    PROVE  DeployInv' /\ Deploy!Guards
<1>1. ASSUME NEW w \in Workers, Deploy!Recover(w)
      PROVE  DeployInv' /\ Deploy!Guards
  <2>1. CASE (Deploy!Journal(w) \/ Deploy!Look(w)) /\ UNCHANGED <<Deploy!rows, contract>>
    <3>1. row' = row
      BY <2>1 DEF Deploy!rows
    <3> QED BY <2>1, <3>1, DeployRuns, DeployOpens, DeployFollows
  <2> QED BY <1>1, <2>1, DeployReads, DeployRetains, DeployBinds, DeployQuiet, DeployHolds,
             DeploySigns, DeployRecords, DeployProjects, DeployMarks DEF Deploy!Recover
<1>2. ASSUME NEW c \in Commands, Deploy!Start(c) \/ Deploy!CreateElsewhere(c)
      PROVE  DeployInv' /\ Deploy!Guards
  <2>1. row' = row /\ UNCHANGED operation /\ worker' = worker
    BY <1>2 DEF Deploy!Start, Deploy!CreateElsewhere, Deploy!rows
  <2>2. RunsSound'
    BY <2>1 DEF DeployInv, RunsSound
  <2> QED BY <2>1, <2>2, NoneMoves, DeployAdvances DEF DeployInv
<1>3. ASSUME NEW c \in Commands, NEW k \in Claims, NEW outcome \in {"mined", "reverted"},
             Deploy!Mine(c, k, outcome)
      PROVE  DeployInv' /\ Deploy!Guards
  <2>1. Mined(c, k, outcome) /\ row' = row
    BY <1>3, DeployIs DEF Deploy!Mine, Deploy!rows
  <2>2. OperationsSound' /\ AllAdvance /\ NoneSigned /\ worker' = worker
    BY <2>1, MinedAdvances DEF DeployInv
  <2>3. RunsSound'
    BY <2>2 DEF DeployInv, RunsSound
  <2> QED BY <2>1, <2>2, <2>3, DeployAdvances
<1> QED BY <1>1, <1>2, <1>3, DeployBegins, DeployAdmits DEF Deploy!Next, Deploy!Claims, Claims

-----------------------------------------------------------------------------
(* The seven clients together.                                             *)

LEMMA LiveIs ==
    /\ \A c : Pause!Live(c) <=> Live(c)
    /\ \A c : NAV!Live(c) <=> Live(c)
    /\ \A c : Whitelist!Live(c) <=> Live(c)
    /\ \A c : Approval!Live(c) <=> Live(c)
    /\ \A c : Capital!Live(c) <=> Live(c)
    /\ \A c : Mint!Live(c) <=> Live(c)
    /\ \A c : Deploy!Live(c) <=> Live(c)
BY DEF Live, Claims, Pause!Live, Pause!Claims, NAV!Live, NAV!Claims, Whitelist!Live, Whitelist!Claims,
   Approval!Live, Approval!Claims, Capital!Live, Capital!Claims, Mint!Live, Mint!Claims,
   Deploy!Live, Deploy!Claims

LEMMA PauseIsOver == PauseInv => Pause!FailedIsOver
BY LiveIs, LiveIsSigned DEF PauseInv, PauseFits, Pause!FailedIsOver

LEMMA NAVIsOver == NAVInv => NAV!FailedIsOver
BY LiveIs, LiveIsSigned DEF NAVInv, NAVFits, NAV!FailedIsOver

LEMMA WhitelistIsOver == WhitelistInv => Whitelist!FailedIsOver
BY LiveIs, LiveIsSigned DEF WhitelistInv, WhitelistFits, Whitelist!FailedIsOver

LEMMA ApprovalIsOver == ApprovalInv => Approval!FailedIsOver
BY LiveIs, LiveIsSigned DEF ApprovalInv, ApprovalFits, Approval!FailedIsOver

LEMMA CapitalIsOver == CapitalInv => Capital!FailedIsOver
<1> SUFFICES ASSUME CapitalInv, NEW c \in Commands, Live(c),
                    row[c].status \in {"rejected", "failed", "superseded"}
             PROVE  FALSE
  BY LiveIs DEF Capital!FailedIsOver
<1>1. operation[c].status \in {"signed", "confirmed"} /\ CapitalFits(operation[c], row[c])
  BY LiveIsSigned DEF CapitalInv
<1>2. row[c].admitted
  BY <1>1 DEF CapitalFits
<1>3. row[c].status \in {"failed", "superseded"} /\ row[c].projected
  BY <1>1, <1>2 DEF CapitalFits
<1> QED BY <1>1, <1>3 DEF CapitalFits

LEMMA MintIsOver == MintInv => Mint!FailedIsOver
BY LiveIs, LiveIsSigned DEF MintInv, MintFits, Mint!FailedIsOver, Mint!Recoverable

LEMMA DeployIsOver == DeployInv => Deploy!FailedIsOver
<1> SUFFICES ASSUME DeployInv, NEW c \in Commands
             PROVE  /\ Live(c) /\ ~row[c].projected => Deploy!Recoverable(c)
                    /\ row[c].held => ~Live(c)
                    /\ operation[c].status = "reverted" /\ row[c].record[operation[c].claim] # "reverted" =>
                          Deploy!Recoverable(c)
  BY LiveIs DEF Deploy!FailedIsOver
<1>1. DeployFits(operation[c], row[c]) /\ Sound(operation[c])
  BY DEF DeployInv, OperationsSound
<1>2. Live(c) => operation[c].status \in {"signed", "confirmed"}
  BY LiveIsSigned DEF DeployInv
<1>3. operation[c].status = "reverted" => operation[c].claim # 0
  BY <1>1 DEF Sound
<1> QED BY <1>1, <1>2, <1>3 DEF DeployFits, Attempted, Deploy!Recoverable

\* What the chain says stays a Boolean.
LEMMA SwitchesStay ==
    /\ PauseInv /\ contract \in BOOLEAN /\ Pause!Next => contract' \in BOOLEAN
    /\ WhitelistInv /\ contract \in BOOLEAN /\ Whitelist!Next => contract' \in BOOLEAN
    /\ contract \in BOOLEAN /\ Approval!Next => contract' \in BOOLEAN
<1>1. PauseInv /\ contract \in BOOLEAN /\ Pause!Next => contract' \in BOOLEAN
  BY DEF PauseInv, Pause!Change, Pause!Next, Pause!Submit, Pause!ChangeOwner, Pause!Recover, Pause!Begin,
     Pause!ReadContract, Pause!RecordDecision, Pause!RefuseUnsigned, Pause!Bind, Pause!Resume,
     Pause!SignPause, Pause!GiveUp, Pause!Settle, Pause!RecordOutcome, Pause!Project, Pause!Mine
<1>2. WhitelistInv /\ contract \in BOOLEAN /\ Whitelist!Next => contract' \in BOOLEAN
  BY DEF WhitelistInv, Whitelist!Change, Whitelist!Next, Whitelist!Admit, Whitelist!Begin,
     Whitelist!Recover, Whitelist!ReadMembership, Whitelist!RecordUnchanged, Whitelist!RecordDecision,
     Whitelist!Bind, Whitelist!Resume, Whitelist!SignChange, Whitelist!GiveUp, Whitelist!Project,
     Whitelist!Sync, Whitelist!SyncBegin, Whitelist!SyncRead, Whitelist!SyncWrite, Whitelist!Mine
<1>3. contract \in BOOLEAN /\ Approval!Next => contract' \in BOOLEAN
  BY DEF Approval!Next, Approval!Retry, Approval!Begin, Approval!Recover, Approval!ReadContract,
     Approval!Decide, Approval!Bind, Approval!Resume, Approval!SignApproval, Approval!GiveUp,
     Approval!Settle, Approval!RecordOutcome, Approval!Mine, Approval!ApproveElsewhere
<1> QED BY <1>1, <1>2, <1>3

\* Nobody has a command in hand yet, and no operation was opened.
LEMMA BeginsIdle ==
    ASSUME worker = [w \in Workers |-> Idle], operation = [c \in Commands |-> NoOperation]
    PROVE  /\ OperationsSound /\ RunsSound /\ \A w \in Workers : worker[w].pc = "idle"
           /\ \A c \in Commands : operation[c].status = "none" /\ operation[c].claim = 0
BY BeginsSound, IdleRun DEF RunsSound, NoOperation

LEMMA PauseInitFits == Pause!Init => PauseInv /\ contract \in BOOLEAN
<1> SUFFICES ASSUME Pause!Init PROVE PauseInv /\ contract \in BOOLEAN
  OBVIOUS
<1>1. worker = [w \in Workers |-> Idle] /\ operation = [c \in Commands |-> NoOperation]
  BY DEF Pause!Init, Pause!JournalInit, Pause!Idle, Idle, Pause!NoOperation, NoOperation,
     Pause!Claims, Claims
<1> QED BY <1>1, BeginsIdle DEF Pause!Init, PauseInv, PauseFits, Pause!NoChange, Pause!Change, Pause!ChangeStatus

LEMMA NAVInitFits == NAV!Init => NAVInv
<1> SUFFICES ASSUME NAV!Init PROVE NAVInv
  OBVIOUS
<1>1. worker = [w \in Workers |-> Idle] /\ operation = [c \in Commands |-> NoOperation]
  BY DEF NAV!Init, NAV!JournalInit, NAV!Idle, Idle, NAV!NoOperation, NoOperation,
     NAV!Claims, Claims
<1> QED BY <1>1, BeginsIdle DEF NAV!Init, NAVInv, NAVFits, NAV!NoUpdate, NAV!Update, NAV!Unresolved, NAV!UpdateStatus

LEMMA WhitelistInitFits == Whitelist!Init => WhitelistInv /\ contract \in BOOLEAN
<1> SUFFICES ASSUME Whitelist!Init PROVE WhitelistInv /\ contract \in BOOLEAN
  OBVIOUS
<1>1. worker = [w \in Workers |-> Idle] /\ operation = [c \in Commands |-> NoOperation]
  BY DEF Whitelist!Init, Whitelist!JournalInit, Whitelist!Idle, Idle, Whitelist!NoOperation, NoOperation,
     Whitelist!Claims, Claims
<1> QED BY <1>1, BeginsIdle DEF Whitelist!Init, WhitelistInv, WhitelistFits, Whitelist!NoChange,
           Whitelist!Change, Whitelist!Unresolved, Syncs

LEMMA ApprovalInitFits == Approval!Init => ApprovalInv /\ contract \in BOOLEAN
<1> SUFFICES ASSUME Approval!Init PROVE ApprovalInv /\ contract \in BOOLEAN
  OBVIOUS
<1>1. worker = [w \in Workers |-> Idle] /\ operation = [c \in Commands |-> NoOperation]
  BY DEF Approval!Init, Approval!JournalInit, Approval!Idle, Idle, Approval!NoOperation, NoOperation,
     Approval!Claims, Claims
<1>2. ASSUME NEW outcome \in {"pending", "not_configured"}
      PROVE  LET r == Approval!NewApproval(outcome) IN
             /\ r \in Approval!Approval /\ r.outcome \in {"pending", "not_configured"}
             /\ ~r.bound /\ r.retry = 0 /\ r.transaction = 0
  <2>1. [k \in Approval!Claims |-> "none"]
           \in [Approval!Claims -> {"none", "submitted", "confirmed", "reverted"}]
    OBVIOUS
  <2>2. 0 \in 0..MaxClaims
    BY Bounded
  <2> QED BY <1>2, <2>1, <2>2 DEF Approval!NewApproval, Approval!Approval, Approval!Active
<1>3. \A c \in Commands : \/ row[c] = Approval!NewApproval("pending")
                           \/ row[c] = Approval!NewApproval("not_configured")
  BY DEF Approval!Init
<1>4. /\ row \in [Commands -> Approval!Approval]
      /\ \A c \in Commands : /\ row[c].outcome \in {"pending", "not_configured"} /\ ~row[c].bound
                             /\ row[c].retry = 0 /\ row[c].transaction = 0
  BY <1>2, <1>3 DEF Approval!Init
<1>5. ASSUME NEW c \in Commands PROVE ApprovalFits(operation[c], row[c])
  <2>1. operation[c].status = "none" /\ operation[c].claim = 0
    BY <1>1, BeginsIdle
  <2>2. /\ row[c] \in Approval!Approval /\ row[c].outcome \in {"pending", "not_configured"}
        /\ ~row[c].bound /\ row[c].retry = 0 /\ row[c].transaction = 0
    BY <1>4
  <2> QED BY <2>1, <2>2 DEF ApprovalFits, Attempted
<1> QED BY <1>1, <1>4, <1>5, BeginsIdle DEF ApprovalInv, Approval!Init

LEMMA CapitalInitFits == Capital!Init => CapitalInv
<1> SUFFICES ASSUME Capital!Init PROVE CapitalInv
  OBVIOUS
<1>1. worker = [w \in Workers |-> Idle] /\ operation = [c \in Commands |-> NoOperation]
  BY DEF Capital!Init, Capital!JournalInit, Capital!Idle, Idle, Capital!NoOperation, NoOperation,
     Capital!Claims, Claims
<1>2. 1 \in Capital!Totals
  BY SubjectAssumption DEF Capital!TotalAssumption, Capital!Totals
<1>3. Capital!NoIncrease \in Capital!Increase
  BY <1>2, Bounded DEF Capital!NoIncrease, Capital!Increase, Capital!Receipt
<1> QED BY <1>1, <1>2, <1>3, BeginsIdle
        DEF Capital!Init, CapitalInv, CapitalFits, Capital!NoIncrease, CapitalPending, Attempted

LEMMA MintInitFits == Mint!Init => MintInv
<1> SUFFICES ASSUME Mint!Init PROVE MintInv
  OBVIOUS
<1>1. worker = [w \in Workers |-> Idle] /\ operation = [c \in Commands |-> NoOperation]
  BY DEF Mint!Init, Mint!JournalInit, Mint!Idle, Idle, Mint!NoOperation, NoOperation,
     Mint!Claims, Claims
<1>2. /\ Mint!NewRequest \in Mint!Request /\ Mint!NewRequest.status = "pending"
      /\ ~Mint!NewRequest.admitted /\ ~Mint!NewRequest.bound
  BY DEF Mint!NewRequest, Mint!Request
<1>3. /\ Mint!LegacyRequest \in Mint!Request /\ Mint!LegacyRequest.status = "legacy"
      /\ ~Mint!LegacyRequest.admitted /\ ~Mint!LegacyRequest.bound
  BY <1>2 DEF Mint!LegacyRequest, Mint!Request
<1>4. \A c \in Commands : row[c] = Mint!NewRequest \/ row[c] = Mint!LegacyRequest
  BY DEF Mint!Init
<1>5. /\ row \in [Commands -> Mint!Request]
      /\ \A c \in Commands : row[c].status \in {"pending", "legacy"} /\ ~row[c].admitted /\ ~row[c].bound
  BY <1>2, <1>3, <1>4 DEF Mint!Init
<1>6. \A c \in Commands : MintFits(operation[c], row[c])
  BY <1>1, <1>5, BeginsIdle DEF MintFits
<1> QED BY <1>1, <1>5, <1>6, BeginsIdle DEF MintInv

LEMMA DeployInitFits == Deploy!Init => DeployInv
<1> SUFFICES ASSUME Deploy!Init PROVE DeployInv
  OBVIOUS
<1>1. worker = [w \in Workers |-> Idle] /\ operation = [c \in Commands |-> NoOperation]
  BY DEF Deploy!Init, Deploy!JournalInit, Deploy!Idle, Idle, Deploy!NoOperation, NoOperation,
     Deploy!Claims, Claims
<1>2. Deploy!NoDeployment \in Deploy!Deployment
  BY Bounded DEF Deploy!NoDeployment, Deploy!Deployment
<1> QED BY <1>1, <1>2, BeginsIdle DEF Deploy!Init, DeployInv, DeployFits, Deploy!NoDeployment, Attempted

\* A behaviour is about one client, whose invariant holds in it.
ClientInv ==
    /\ subject = "pause" => PauseInv /\ contract \in BOOLEAN
    /\ subject = "nav" => NAVInv
    /\ subject = "capital" => CapitalInv
    /\ subject = "mint" => MintInv
    /\ subject = "deploy" => DeployInv
    /\ subject = "approval" => ApprovalInv /\ contract \in BOOLEAN
    /\ subject = "whitelist" => WhitelistInv /\ contract \in BOOLEAN

LEMMA ClientBegins == Init => ClientInv
BY PauseInitFits, NAVInitFits, CapitalInitFits, MintInitFits, DeployInitFits, ApprovalInitFits,
   WhitelistInitFits DEF Init, ClientInv

LEMMA ClientStands == ClientInv /\ UNCHANGED vars => ClientInv'
<1> SUFFICES ASSUME ClientInv, UNCHANGED vars PROVE ClientInv'
  OBVIOUS
<1>1. /\ OperationsSound => OperationsSound'
      /\ RunsSound => RunsSound'
      /\ row' = row /\ target' = target /\ contract' = contract /\ operation' = operation
      /\ worker' = worker /\ subject' = subject
  BY DEF vars, OperationsSound, RunsSound
<1>2. PauseInv => PauseInv'
  BY <1>1 DEF PauseInv
<1>3. NAVInv => NAVInv'
  BY <1>1 DEF NAVInv, NAV!Unresolved
<1>4. CapitalInv => CapitalInv'
  BY <1>1 DEF CapitalInv
<1>5. MintInv => MintInv'
  BY <1>1 DEF MintInv
<1>6. DeployInv => DeployInv'
  BY <1>1 DEF DeployInv
<1>7. ApprovalInv => ApprovalInv'
  BY <1>1 DEF ApprovalInv
<1>8. WhitelistInv => WhitelistInv'
  BY <1>1 DEF WhitelistInv, Whitelist!Unresolved
<1> QED BY <1>1, <1>2, <1>3, <1>4, <1>5, <1>6, <1>7, <1>8 DEF ClientInv

LEMMA ClientSteps ==
    ASSUME ClientInv, Next
    PROVE  /\ ClientInv'
           /\ subject = "pause" => Pause!Guards
           /\ subject = "nav" => NAV!Guards
           /\ subject = "capital" => Capital!Guards /\ Capital!CapOnlyRises
           /\ subject = "mint" => Mint!Guards
           /\ subject = "deploy" => Deploy!Guards
           /\ subject = "approval" => Approval!Guards
           /\ subject = "whitelist" => Whitelist!Guards
<1>0. subject' = subject
  BY DEF Next
<1>1. CASE subject = "pause"
  BY <1>0, <1>1, PauseKeeps, SwitchesStay DEF Next, ClientInv
<1>2. CASE subject = "nav"
  BY <1>0, <1>2, NAVKeeps DEF Next, ClientInv
<1>3. CASE subject = "capital"
  BY <1>0, <1>3, CapitalKeeps DEF Next, ClientInv, CapitalGuards
<1>4. CASE subject = "mint"
  BY <1>0, <1>4, MintKeeps DEF Next, ClientInv
<1>5. CASE subject = "deploy"
  BY <1>0, <1>5, DeployKeeps DEF Next, ClientInv
<1>6. CASE subject = "approval"
  BY <1>0, <1>6, ApprovalKeeps, SwitchesStay DEF Next, ClientInv
<1>7. CASE subject = "whitelist"
  BY <1>0, <1>7, WhitelistKeeps, SwitchesStay DEF Next, ClientInv
<1>8. CASE subject \notin {"pause", "nav", "capital", "mint", "deploy", "approval", "whitelist"}
  BY <1>0, <1>8 DEF ClientInv
<1> QED BY <1>1, <1>2, <1>3, <1>4, <1>5, <1>6, <1>7, <1>8

\* In every behaviour the rows of its client, their operations and the runs that
\* carry them agree.
THEOREM ClientInvariant == Spec => []ClientInv
<1>1. ClientInv /\ [Next]_vars => ClientInv'
  BY ClientSteps, ClientStands
<1> QED BY ClientBegins, <1>1, PTL DEF Spec

\* A row that ended without effect, or is held, has no transaction left that
\* could execute, and what may still execute is work a sweep takes, whatever
\* runs, retries, crashes and lost receipts came before.
THEOREM NothingRunsBehindAFailedRow == Spec => []FailedIsOver
<1>1. ClientInv => FailedIsOver
  BY PauseIsOver, NAVIsOver, CapitalIsOver, MintIsOver, DeployIsOver, ApprovalIsOver,
     WhitelistIsOver DEF ClientInv, FailedIsOver
<1> QED BY <1>1, ClientInvariant, PTL

\* No decision and no projection of the seven services is what a trigger of its
\* migration refuses.  Of the rows a step leaves alone only a failed mint over an
\* attempt opened again would be refused a touch: the services' writes of notes
\* and of the time of a stopped recovery.
THEOREM TriggersNeverRefuse == Spec => GuardsNeverRefuse
<1> DEFINE G == /\ subject = "pause" => Pause!Guards
                /\ subject = "nav" => NAV!Guards
                /\ subject = "capital" => Capital!Guards
                /\ subject = "mint" => Mint!Guards
                /\ subject = "deploy" => Deploy!Guards
                /\ subject = "approval" => Approval!Guards
                /\ subject = "whitelist" => Whitelist!Guards
<1>1. ClientInv /\ [Next]_vars => [G]_vars
  BY ClientSteps
<1> QED BY <1>1, ClientInvariant, PTL DEF Spec, GuardsNeverRefuse

\* The recorded cap of a token never goes down, whichever approved totals are
\* executed, retried or overtaken.
THEOREM CapNeverFalls == Spec => CapOnlyRises
<1>1. ClientInv /\ [Next]_vars => [subject = "capital" => Capital!CapOnlyRises]_vars
  BY ClientSteps
<1> QED BY <1>1, ClientInvariant, PTL DEF Spec, CapOnlyRises
==============================================================================
