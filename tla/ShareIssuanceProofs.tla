------------------------- MODULE ShareIssuanceProofs -------------------------
(***************************************************************************)
(* Proofs about ShareIssuance, for any number of concurrent runs, any      *)
(* amount of money and any number of attempts.                             *)
(***************************************************************************)
EXTENDS ShareIssuance, TLAPS

-----------------------------------------------------------------------------
(* What every step does to the runs that do not take it.                   *)

\* Retries, claims and the link to the operation only move forward, and a
\* retry or claim that stays leaves behind what runs rely on.
Forward ==
    /\ execution.retry <= execution'.retry
    /\ execution.bound => execution'.bound
    /\ operation.claim <= operation'.claim
    /\ execution'.retry = execution.retry /\ operation'.claim = execution'.retry =>
          /\ operation'.claim = operation.claim
          /\ execution.status = "executing" => execution'.status = "executing"
    /\ operation'.claim = operation.claim
       /\ operation.status \in {"signed", "confirmed", "reverted"} =>
          operation'.status \in {"signed", "confirmed", "reverted"}

LEMMA RunKept ==
    ASSUME TypeOK, TypeOK', Forward, NEW v \in Workers, RunAgrees(v), worker'[v] = worker[v]
    PROVE  RunAgrees(v)'
<1>1. worker[v] \in Worker /\ execution \in Execution /\ operation \in Operation
      /\ execution' \in Execution /\ operation' \in Operation
  BY DEF TypeOK
<1>2. worker[v].retry \in Nat /\ worker[v].claim \in Nat /\ execution.retry \in Nat
      /\ execution'.retry \in Nat /\ operation.claim \in Nat /\ operation'.claim \in Nat
  BY <1>1, MoneyAssumption DEF Worker, Execution, Operation
<1> QED BY <1>2 DEF Forward, RunAgrees, Owns

\* A step of one run w: it is enough to look at w.
LEMMA RunsKept ==
    ASSUME TypeOK, TypeOK', Forward, \A v \in Workers : RunAgrees(v),
           NEW w \in Workers, RunAgrees(w)', \A v \in Workers \ {w} : worker'[v] = worker[v]
    PROVE  (\A v \in Workers : RunAgrees(v))'
<1> SUFFICES ASSUME NEW v \in Workers PROVE RunAgrees(v)'
  OBVIOUS
<1> QED BY RunKept

LEMMA IdleType == Idle \in Worker
BY MoneyAssumption DEF Idle, Worker, Steps

LEMMA HoldingType ==
    ASSUME TypeOK, NEW pc \in Steps
    PROVE  Holding(pc) \in Worker
<1>1. execution.bound \in BOOLEAN /\ execution.retry \in 0..MaxClaims
  BY DEF TypeOK, Execution
<1>2. 0 \in 0..MaxClaims
  BY MoneyAssumption
<1> QED BY <1>1, <1>2 DEF Holding, Worker

-----------------------------------------------------------------------------
(* Staff.                                                                  *)

LEMMA StaffKeeps ==
    ASSUME IssuanceInv, Staff
    PROVE  IssuanceInv'
<1> USE MoneyAssumption DEF IssuanceInv
<1>0. execution \in Execution /\ operation \in Operation /\ subscription \in Subscription
      /\ worker' = worker
  BY DEF TypeOK, Staff, Allot, RecordRefund, Close, OpenRetryForm, Retry
<1>1. CASE Allot
  <2>1. TypeOK'
    BY <1>0, <1>1 DEF TypeOK, Allot, Execution, ExecutionStatus, RequestStatus, journal
  <2>2. RowsAgree'
    BY <1>0, <1>1 DEF RowsAgree, Allot, Execution, Follows, Held
  <2>3. ClaimsAgree' /\ MintsAgree' /\ Forward
    BY <1>0, <1>1 DEF ClaimsAgree, MintsAgree, Forward, Allot, Execution, journal
  <2> QED BY <1>0, <2>1, <2>2, <2>3, RunKept
<1>2. ASSUME NEW amount \in 1..Paid, RecordRefund(amount)
      PROVE  IssuanceInv'
  <2>a. Held \in 0..Paid /\ Backing \in {0, Cost}
        /\ subscription.returned \in Nat /\ amount \in Nat /\ amount <= Refundable
    BY <1>0, <1>2 DEF Held, Backing, Subscription, RecordRefund
  <2>b. subscription.returned + amount \in 0..Paid
        /\ Paid - (subscription.returned + amount) >= Backing
    BY <2>a DEF Refundable, Held
  <2>c. subscription' = [status |-> IF subscription.status = "allotted" THEN "allotted" ELSE "refunded",
                         returned |-> subscription.returned + amount]
        /\ subscription.status \in {"paid", "allotted", "refunded"}
        /\ UNCHANGED <<issuance, confirmations, journal, worker>>
    BY <1>2 DEF RecordRefund
  <2>d. \/ /\ execution.status \in {"queued", "failed"}
           /\ execution' = [execution EXCEPT !.status = "cancelled"]
           /\ request' = "rejected"
        \/ /\ execution.status \in {"none", "executed", "cancelled"}
           /\ UNCHANGED <<execution, request>>
    BY <1>2 DEF RecordRefund, CancelQueued, Cancellable, RowsAgree
  <2>e. execution.status \in {"queued", "failed"} => subscription.status # "allotted"
    BY DEF RowsAgree
  <2>1. TypeOK'
    BY <1>0, <2>b, <2>c, <2>d DEF TypeOK, Subscription, Execution, ExecutionStatus, RequestStatus, journal
  <2>2. RowsAgree'
    BY <1>0, <2>b, <2>c, <2>d, <2>e DEF RowsAgree, Execution, Follows, Held, Backing
  <2>3. ClaimsAgree' /\ MintsAgree' /\ Forward
    BY <1>0, <2>c, <2>d DEF ClaimsAgree, MintsAgree, Forward, Execution, Operation, Undone, journal
  <2> QED BY <1>0, <2>1, <2>2, <2>3, RunKept
<1>3. CASE Close
  <2>1. TypeOK'
    BY <1>0, <1>3 DEF TypeOK, Close, Subscription, journal
  <2>2. RowsAgree'
    BY <1>0, <1>3 DEF RowsAgree, Close, Subscription, Follows, Held
  <2>3. ClaimsAgree' /\ MintsAgree' /\ Forward
    BY <1>0, <1>3 DEF ClaimsAgree, MintsAgree, Forward, Close, Execution, Operation, journal
  <2> QED BY <1>0, <2>1, <2>2, <2>3, RunKept
<1>4. CASE OpenRetryForm
  <2>a. operation.claim \in Claims
    BY <1>0, <1>4 DEF OpenRetryForm, ClaimsAgree, Claims, Operation
  <2>1. TypeOK'
    BY <1>0, <1>4, <2>a DEF TypeOK, OpenRetryForm, journal
  <2>2. RowsAgree'
    BY <1>0, <1>4 DEF RowsAgree, OpenRetryForm, Held
  <2>3. ClaimsAgree' /\ MintsAgree' /\ Forward
    BY <1>0, <1>4 DEF ClaimsAgree, MintsAgree, Forward, OpenRetryForm, Execution, Operation, journal
  <2> QED BY <1>0, <2>1, <2>2, <2>3, RunKept
<1>5. ASSUME NEW c \in Claims, Retry(c)
      PROVE  IssuanceInv'
  <2>a. c \in 0..MaxClaims
    BY DEF Claims
  <2>b. execution' = [execution EXCEPT !.status = "queued", !.retry = c]
    BY <1>5 DEF Retry
  <2>c. execution' \in Execution
    BY <1>0, <2>a, <2>b DEF Execution, ExecutionStatus
  <2>1. TypeOK'
    BY <1>0, <1>5, <2>c DEF TypeOK, Retry, RequestStatus, journal
  <2>2. RowsAgree'
    BY <1>0, <1>5 DEF RowsAgree, Retry, Execution, Follows, Held
  <2>3. ClaimsAgree' /\ MintsAgree' /\ Forward
    BY <1>0, <1>5 DEF ClaimsAgree, MintsAgree, Forward, Retry, RetryNames, Claims, Undone, Execution,
                      Operation, journal
  <2> QED BY <1>0, <2>1, <2>2, <2>3, RunKept
<1> QED BY <1>1, <1>2, <1>3, <1>4, <1>5 DEF Staff

-----------------------------------------------------------------------------
(* The steps of a run that read, and change only what the run carries.     *)

LEMMA ReadsKeep ==
    ASSUME IssuanceInv, UNCHANGED <<rows, journal>>, NEW w \in Workers,
           NEW r \in Worker, worker' = [worker EXCEPT ![w] = r], RunAgrees(w)'
    PROVE  IssuanceInv'
<1> USE DEF IssuanceInv, rows, journal
<1>1. TypeOK'
  BY DEF TypeOK
<1>2. RowsAgree' /\ ClaimsAgree' /\ MintsAgree'
  BY DEF RowsAgree, ClaimsAgree, MintsAgree, Held
<1>3. Forward
  <2>1. execution.retry \in Nat /\ operation.claim \in Nat
    BY MoneyAssumption DEF TypeOK, Execution, Operation
  <2> QED BY <2>1 DEF Forward
<1>4. \A v \in Workers \ {w} : worker'[v] = worker[v]
  BY DEF TypeOK
<1> QED BY <1>1, <1>2, <1>3, <1>4, RunsKept

LEMMA FinishKeeps ==
    ASSUME IssuanceInv, UNCHANGED <<rows, journal>>, NEW w \in Workers, Finish(w)
    PROVE  IssuanceInv'
<1>1. worker' = [worker EXCEPT ![w] = Idle]
  BY DEF Finish
<1>2. worker'[w] = Idle
  BY <1>1 DEF IssuanceInv, TypeOK
<1>3. execution \in Execution /\ operation \in Operation
  BY DEF IssuanceInv, TypeOK
<1>4. RunAgrees(w)'
  BY <1>2, <1>3, MoneyAssumption DEF RunAgrees, Idle, Owns, rows, journal, Execution, Operation
<1> QED BY <1>1, <1>4, IdleType, ReadsKeep

LEMMA GotoKeeps ==
    ASSUME IssuanceInv, UNCHANGED <<rows, journal>>, NEW w \in Workers,
           NEW pc \in Steps \ {"idle", "start", "claim", "bind"}, Goto(w, pc),
           pc = "open" => worker[w].pc = "claim",
           pc # "open" => worker[w].claim # 0 /\ execution.bound,
           pc \in {"reconcile", "broadcast", "observe"} /\ Owns(w) =>
              operation.status \in {"signed", "confirmed", "reverted"}
    PROVE  IssuanceInv'
<1> DEFINE r == [worker[w] EXCEPT !.pc = pc]
<1>1. worker[w] \in Worker
  BY DEF IssuanceInv, TypeOK
<1>2. worker' = [worker EXCEPT ![w] = r] /\ r \in Worker
  BY <1>1 DEF Goto, Worker
<1>3. worker'[w] = r
  BY <1>2 DEF IssuanceInv, TypeOK
<1>4. RunAgrees(w)
  BY DEF IssuanceInv
<1>5. RunAgrees(w)'
  BY <1>1, <1>3, <1>4 DEF RunAgrees, Owns, rows, journal, Worker
<1> HIDE DEF r
<1> QED BY <1>2, <1>5, ReadsKeep

LEMMA ReadingKeeps ==
    ASSUME IssuanceInv, NEW w \in Workers,
           \/ Begin(w) \/ StartTaken(w) \/ ReadClaim(w) \/ Resume(w) \/ Look(w)
           \/ ReceiveNothing(w) \/ Abandon(w)
    PROVE  IssuanceInv'
<1>0. worker[w] \in Worker /\ execution \in Execution /\ operation \in Operation
      /\ RunAgrees(w) /\ ClaimsAgree
  BY DEF IssuanceInv, TypeOK
<1>a. ASSUME NEW pc \in {"start", "claim"}, worker' = [worker EXCEPT ![w] = Holding(pc)],
             UNCHANGED <<rows, journal>>, pc = "claim" => execution.status = "executing"
      PROVE  IssuanceInv'
  <2>1. Holding(pc) \in Worker
    BY HoldingType DEF IssuanceInv, Steps
  <2>2. worker'[w] = Holding(pc)
    BY <1>a DEF IssuanceInv, TypeOK
  <2>3. RunAgrees(w)'
    BY <1>0, <1>a, <2>2, MoneyAssumption
    DEF RunAgrees, Holding, Owns, rows, journal, Execution, Operation
  <2> QED BY <1>a, <2>1, <2>3, ReadsKeep
<1>1. CASE Begin(w)
  BY <1>1, <1>a DEF Begin, Recoverable
<1>2. CASE StartTaken(w)
  BY <1>2, <1>a DEF StartTaken
<1>3. CASE ReadClaim(w)
  <2>1. CASE Goto(w, "open")
    BY <1>3, <2>1, GotoKeeps DEF ReadClaim, Steps
  <2>2. CASE /\ worker[w].bound
             /\ worker' = [worker EXCEPT ![w].pc = "resume", ![w].claim = operation.claim]
    <3> DEFINE r == [worker[w] EXCEPT !.pc = "resume", !.claim = operation.claim]
    <3>1. worker' = [worker EXCEPT ![w] = r] /\ r \in Worker
      BY <1>0, <2>2 DEF Worker, Steps, Operation
    <3>2. worker'[w] = r
      BY <3>1 DEF IssuanceInv, TypeOK
    <3>3. execution.bound /\ operation.claim # 0
      BY <1>0, <2>2 DEF RunAgrees, ClaimsAgree
    <3>4. RunAgrees(w)'
      BY <1>0, <1>3, <3>2, <3>3 DEF RunAgrees, ReadClaim, Owns, rows, journal, Worker, Operation, Execution
    <3> HIDE DEF r
    <3> QED BY <1>3, <3>1, <3>4, ReadsKeep DEF ReadClaim
  <2> QED BY <1>3, <2>1, <2>2 DEF ReadClaim
<1>4. CASE Resume(w)
  <2>1. worker[w].claim # 0 /\ execution.bound
    BY <1>0, <1>4 DEF Resume, RunAgrees
  <2> QED BY <1>4, <2>1, FinishKeeps, GotoKeeps DEF Resume, Steps
<1>5. CASE Look(w)
  <2>1. worker[w].claim # 0 /\ execution.bound
    BY <1>0, <1>5 DEF Look, RunAgrees
  <2> QED BY <1>5, <2>1, FinishKeeps, GotoKeeps DEF Look, Onward, Steps
<1>6. CASE ReceiveNothing(w)
  <2>1. worker[w].claim # 0 /\ execution.bound
    BY <1>0, <1>6 DEF ReceiveNothing, RunAgrees
  <2> QED BY <1>6, <2>1, GotoKeeps DEF ReceiveNothing, Onward, Steps
<1>7. CASE Abandon(w)
  BY <1>7, FinishKeeps DEF Abandon
<1> QED BY <1>1, <1>2, <1>3, <1>4, <1>5, <1>6, <1>7

-----------------------------------------------------------------------------
(* The steps of a run that write.                                          *)

\* Facts every one of them starts from.
LEMMA Before ==
    ASSUME IssuanceInv, NEW w \in Workers
    PROVE  /\ worker[w] \in Worker /\ execution \in Execution /\ operation \in Operation
           /\ subscription \in Subscription
           /\ RunAgrees(w) /\ RowsAgree /\ ClaimsAgree /\ MintsAgree
           /\ execution.retry \in Nat /\ operation.claim \in Nat /\ worker[w].claim \in Nat
           /\ worker[w].retry \in Nat
           /\ worker \in [Workers -> Worker]
BY MoneyAssumption DEF IssuanceInv, TypeOK, Execution, Operation, Worker

\* What is left to show once the rows are: the run itself.
LEMMA WriteKeeps ==
    ASSUME IssuanceInv, TypeOK', RowsAgree', ClaimsAgree', MintsAgree', Forward,
           NEW w \in Workers, NEW r \in Worker, worker' = [worker EXCEPT ![w] = r],
           RunAgrees(w)'
    PROVE  IssuanceInv'
<1>1. \A v \in Workers \ {w} : worker'[v] = worker[v]
  BY DEF IssuanceInv, TypeOK
<1> QED BY <1>1, RunsKept DEF IssuanceInv

LEMMA StartKeeps ==
    ASSUME IssuanceInv, NEW w \in Workers, Start(w)
    PROVE  IssuanceInv'
<1> USE Before DEF journal
<1>1. Holding("claim") \in Worker
  BY HoldingType DEF IssuanceInv, Steps
<1>2. /\ execution' = [execution EXCEPT !.status = "executing"]
      /\ request' = "executing"
      /\ issuance' = IF issuance = "none" THEN "pending" ELSE issuance
      /\ worker' = [worker EXCEPT ![w] = Holding("claim")]
      /\ UNCHANGED <<subscription, confirmations, operation, record, tx>>
      /\ execution.status = "queued" /\ subscription.status = "paid"
  BY DEF Start
<1>3. execution' \in Execution /\ execution'.status = "executing"
      /\ execution'.retry = execution.retry /\ execution'.bound = execution.bound
      /\ execution'.record = execution.record
  BY <1>2 DEF Execution, ExecutionStatus
<1>4. issuance' \in IssuanceStatus /\ issuance' # "none"
  BY <1>2 DEF IssuanceInv, TypeOK, IssuanceStatus
<1>5. TypeOK'
  BY <1>1, <1>2, <1>3, <1>4 DEF IssuanceInv, TypeOK, RequestStatus
<1>6. RowsAgree'
  BY <1>2, <1>3, <1>4 DEF RowsAgree, Follows, Held
<1>7. ClaimsAgree'
  BY <1>2, <1>3 DEF ClaimsAgree, Undone
<1>8. MintsAgree'
  BY <1>2, <1>3 DEF MintsAgree
<1>9. Forward
  BY <1>2, <1>3 DEF Forward
<1>10. worker'[w] = Holding("claim")
  BY <1>2
<1>11. RunAgrees(w)'
  BY <1>2, <1>3, <1>10 DEF RunAgrees, Holding, Owns
<1> QED BY <1>1, <1>2, <1>5, <1>6, <1>7, <1>8, <1>9, <1>11, WriteKeeps

LEMMA OpenKeeps ==
    ASSUME IssuanceInv, NEW w \in Workers, Open(w)
    PROVE  IssuanceInv'
<1> USE Before, MoneyAssumption DEF rows
<1> DEFINE r == [worker[w] EXCEPT !.pc = "bind", !.claim = operation'.claim]
<1>1. /\ worker' = [worker EXCEPT ![w] = r]
      /\ UNCHANGED <<subscription, request, execution, issuance, confirmations, record, tx>>
      /\ worker[w].pc = "open"
  BY DEF Open
<1>2. CASE UNCHANGED operation /\ ~Restarts(w)
  <2>1. operation.claim # 0
    BY <1>2 DEF Restarts, ClaimsAgree
  <2>2. r \in Worker
    BY <1>2 DEF Worker, Steps, Operation
  <2>3. worker'[w] = r
    BY <1>1
  <2>4. RunAgrees(w)'
    BY <1>1, <1>2, <2>1, <2>3 DEF RunAgrees, Owns, Worker
  <2> HIDE DEF r
  <2> QED BY <1>1, <1>2, <2>2, <2>4, ReadsKeep DEF journal
<1>3. CASE Restarts(w) /\ operation' = [status |-> "preparing", claim |-> operation.claim + 1]
  <2>1. operation.claim = execution.retry /\ worker[w].retry = execution.retry
    BY <1>1, <1>3 DEF Restarts, RunAgrees, ClaimsAgree
  <2>2. execution.status = "executing"
    BY <1>1, <2>1 DEF RunAgrees
  <2>3. operation' \in Operation /\ operation'.status = "preparing"
        /\ operation'.claim = operation.claim + 1 /\ operation.claim + 1 \in Claims
    BY <1>3, <2>1 DEF Operation, ClaimsAgree, Claims, Execution
  <2>4. r \in Worker
    BY <2>3 DEF Worker, Steps, Operation
  <2>5. TypeOK'
    BY <1>1, <2>3, <2>4 DEF IssuanceInv, TypeOK
  <2>6. RowsAgree'
    BY <1>1 DEF RowsAgree, Held
  <2>7. ClaimsAgree'
    <3>1. \A c \in confirmations : c \in Nat
      BY DEF IssuanceInv, TypeOK, Claims
    <3> QED BY <1>1, <2>1, <2>2, <2>3, <3>1 DEF ClaimsAgree, Undone
  <2>8. MintsAgree'
    <3>1. \A c \in Claims : c \in Nat
      BY DEF Claims
    <3>2. operation.claim # 0 => operation.status \in {"failed", "reverted"}
      BY <2>1 DEF ClaimsAgree, Undone
    <3>2a. ASSUME NEW c \in Claims PROVE tx[c] \in {"none", "reverted"}
      <4>1. CASE c = operation.claim
        BY <3>1, <3>2, <4>1 DEF MintsAgree, Claims
      <4>2. CASE c # operation.claim
        BY <4>2 DEF MintsAgree
      <4> QED BY <4>1, <4>2
    <3>3. tx[operation.claim + 1] = "none"
      BY <2>3 DEF MintsAgree
    <3>4. execution.record # 0 => record[execution.record] = "reverted"
      BY <2>1, <1>3 DEF MintsAgree, ClaimsAgree, Restarts, Undone
    <3> QED BY <1>1, <2>2, <2>3, <3>1, <3>2a, <3>3, <3>4 DEF MintsAgree
  <2>9. Forward
    BY <1>1, <2>1, <2>3 DEF Forward
  <2>10. worker'[w] = r
    BY <1>1
  <2>11. RunAgrees(w)'
    BY <1>1, <2>1, <2>3, <2>10 DEF RunAgrees, Owns, Worker
  <2> HIDE DEF r
  <2> QED BY <1>1, <2>4, <2>5, <2>6, <2>7, <2>8, <2>9, <2>11, WriteKeeps
<1> QED BY <1>2, <1>3 DEF Open

LEMMA BindKeeps ==
    ASSUME IssuanceInv, NEW w \in Workers, Bind(w)
    PROVE  IssuanceInv'
<1> USE Before, MoneyAssumption DEF journal, Terminal
<1> DEFINE r == [worker[w] EXCEPT !.pc = "resume", !.claim = operation.claim]
<1>1. /\ worker' = [worker EXCEPT ![w] = r]
      /\ UNCHANGED <<subscription, request, issuance, confirmations, operation, record, tx>>
      /\ worker[w].pc = "bind"
  BY DEF Bind
<1>2. operation.claim # 0 /\ operation.status # "none"
  BY <1>1 DEF RunAgrees, ClaimsAgree
<1>3. execution' \in Execution /\ execution'.bound
      /\ execution'.status = execution.status
      /\ execution'.retry = execution.retry /\ execution'.record = execution.record
      /\ (execution.bound \/ execution.status = "executing")
  BY DEF Bind, Execution
<1>4. r \in Worker
  BY DEF Worker, Steps, Operation
<1>5. TypeOK'
  BY <1>1, <1>3, <1>4 DEF IssuanceInv, TypeOK
<1>6. RowsAgree'
  BY <1>1, <1>3 DEF RowsAgree, Held
<1>7. ClaimsAgree'
  BY <1>1, <1>2, <1>3 DEF ClaimsAgree
<1>8. MintsAgree'
  BY <1>1, <1>3 DEF MintsAgree
<1>9. Forward
  BY <1>1, <1>3 DEF Forward
<1>10. worker'[w] = r
  BY <1>1
<1>11. RunAgrees(w)'
  BY <1>1, <1>2, <1>3, <1>10 DEF RunAgrees, Owns, Worker
<1> HIDE DEF r
<1> QED BY <1>1, <1>4, <1>5, <1>6, <1>7, <1>8, <1>9, <1>11, WriteKeeps

LEMMA SignKeeps ==
    ASSUME IssuanceInv, NEW w \in Workers, Sign(w)
    PROVE  IssuanceInv'
<1> USE Before, MoneyAssumption
<1> DEFINE k == worker[w].claim
           r == [worker[w] EXCEPT !.pc = "look"]
<1>1. /\ worker' = [worker EXCEPT ![w] = r]
      /\ UNCHANGED <<subscription, request, confirmations>>
      /\ issuance' = "processing"
      /\ worker[w].pc = "prepare"
      /\ operation.claim = k /\ operation.status = "preparing"
      /\ execution.bound /\ execution.status = "executing"
  BY DEF Sign, StillPreparing, Owns, Goto
<1>2. k \in Claims /\ k \in 0..MaxClaims
  BY <1>1 DEF RunAgrees, Worker, Claims
<1>3. operation' \in Operation /\ operation'.status = "signed" /\ operation'.claim = k
  BY <1>1 DEF Sign, Operation
<1>4. execution' \in Execution /\ execution'.bound /\ execution'.status = "executing"
      /\ execution'.retry = execution.retry /\ execution'.record = k
  BY <1>1, <1>2 DEF Sign, Execution
<1>5. /\ tx' \in [Claims -> TxState] /\ tx'[k] = "signed"
      /\ \A c \in Claims : c # k => tx'[c] = tx[c]
      /\ record' \in [Claims -> RecordStatus] /\ record'[k] = "submitted"
      /\ \A c \in Claims : c # k => record'[c] = record[c]
  BY <1>2 DEF Sign, IssuanceInv, TypeOK, TxState, RecordStatus
<1>6. r \in Worker
  BY DEF Worker, Steps
<1>7. TypeOK'
  BY <1>1, <1>3, <1>4, <1>5, <1>6 DEF IssuanceInv, TypeOK, IssuanceStatus
<1>8. RowsAgree'
  BY <1>1, <1>4 DEF RowsAgree, Held
<1>9. ClaimsAgree'
  BY <1>1, <1>3, <1>4 DEF ClaimsAgree, Undone
<1>10. MintsAgree'
  <2>1. \A c \in Claims : c # k =>
           /\ tx'[c] \in {"none", "reverted"}
           /\ record'[c] = "confirmed" => tx'[c] = "mined"
           /\ record'[c] = "reverted" => tx'[c] = "reverted"
    BY <1>1, <1>5 DEF MintsAgree
  <2>2. \A c \in Claims : c > k => tx'[c] = "none"
    BY <1>1, <1>5, <1>2 DEF MintsAgree, Claims
  <2> HIDE DEF k
  <2> QED BY <1>3, <1>4, <1>5, <2>1, <2>2, <1>1 DEF MintsAgree
<1>11. Forward
  BY <1>1, <1>3, <1>4 DEF Forward
<1>12. worker'[w] = r
  BY <1>1
<1>13. RunAgrees(w)'
  BY <1>1, <1>3, <1>4, <1>12 DEF RunAgrees, Owns, Worker
<1> HIDE DEF r, k
<1> QED BY <1>1, <1>6, <1>7, <1>8, <1>9, <1>10, <1>11, <1>13, WriteKeeps

LEMMA GiveUpKeeps ==
    ASSUME IssuanceInv, NEW w \in Workers, GiveUp(w)
    PROVE  IssuanceInv'
<1> USE Before, MoneyAssumption DEF rows
<1>1. worker[w].claim # 0 /\ execution.bound /\ Goto(w, "look")
      /\ UNCHANGED <<subscription, request, execution, issuance, confirmations, record, tx>>
  BY DEF GiveUp, RunAgrees
<1>2. CASE UNCHANGED operation
  BY <1>1, <1>2, GotoKeeps DEF journal, Steps
<1>3. CASE StillPreparing(w) /\ operation' = [operation EXCEPT !.status = "failed"]
  <2> DEFINE r == [worker[w] EXCEPT !.pc = "look"]
  <2>1. worker' = [worker EXCEPT ![w] = r] /\ r \in Worker /\ worker'[w] = r
    BY <1>1 DEF Goto, Worker, Steps
  <2>2. operation' \in Operation /\ operation'.status = "failed"
        /\ operation'.claim = operation.claim /\ operation.status = "preparing"
    BY <1>3 DEF Operation, StillPreparing
  <2>3. TypeOK'
    BY <1>1, <2>1, <2>2 DEF IssuanceInv, TypeOK
  <2>4. RowsAgree'
    BY <1>1 DEF RowsAgree, Held
  <2>5. ClaimsAgree'
    BY <1>1, <2>2 DEF ClaimsAgree, Undone
  <2>6. MintsAgree'
    BY <1>1, <2>2 DEF MintsAgree
  <2>7. Forward
    BY <1>1, <2>2 DEF Forward
  <2>8. RunAgrees(w)'
    BY <1>1, <2>1, <2>2 DEF RunAgrees, Owns, Worker
  <2> HIDE DEF r
  <2> QED BY <2>1, <2>3, <2>4, <2>5, <2>6, <2>7, <2>8, WriteKeeps
<1> QED BY <1>2, <1>3 DEF GiveUp

LEMMA ReceiveKeeps ==
    ASSUME IssuanceInv, NEW w \in Workers, Receive(w)
    PROVE  IssuanceInv'
<1> USE Before, MoneyAssumption DEF rows
<1> DEFINE k == worker[w].claim
           end == IF tx[k] = "mined" THEN "confirmed" ELSE "reverted"
           r == [worker[w] EXCEPT !.pc = IF tx[k] = "mined" THEN "retain" ELSE "project"]
<1>1. /\ worker' = [worker EXCEPT ![w] = r]
      /\ UNCHANGED <<subscription, request, execution, issuance, confirmations, record, tx>>
      /\ operation.claim = k /\ operation.status = "signed"
      /\ tx[k] \in {"mined", "reverted"}
      /\ worker[w].pc \in {"reconcile", "observe"}
  BY DEF Receive, Owns, Goto
<1>2. k # 0 /\ execution.bound
  BY <1>1 DEF RunAgrees
<1>3. operation' \in Operation /\ operation'.status = end /\ operation'.claim = k
  BY <1>1 DEF Receive, Operation
<1>4. r \in Worker
  BY DEF Worker, Steps
<1>5. TypeOK'
  BY <1>1, <1>3, <1>4 DEF IssuanceInv, TypeOK
<1>6. RowsAgree'
  BY <1>1 DEF RowsAgree, Held
<1>7. /\ operation.claim # execution.retry
      /\ execution.status \notin {"failed", "executed", "cancelled", "none", "queued"}
  BY <1>1 DEF ClaimsAgree, Undone
<1>8. ClaimsAgree'
  BY <1>1, <1>2, <1>3, <1>7 DEF ClaimsAgree, Undone
<1>9. MintsAgree'
  BY <1>1, <1>3, <1>7 DEF MintsAgree
<1>10. Forward
  BY <1>1, <1>3 DEF Forward
<1>11. worker'[w] = r
  BY <1>1
<1>12. RunAgrees(w)'
  BY <1>1, <1>2, <1>3, <1>11 DEF RunAgrees, Owns, Worker
<1> HIDE DEF r
<1> QED BY <1>1, <1>4, <1>5, <1>6, <1>8, <1>9, <1>10, <1>12, WriteKeeps

LEMMA BroadcastKeeps ==
    ASSUME IssuanceInv, NEW w \in Workers, Broadcast(w)
    PROVE  IssuanceInv'
<1> USE Before, MoneyAssumption DEF rows
<1> DEFINE k == worker[w].claim
<1>1. /\ Goto(w, "observe") /\ worker[w].pc = "broadcast"
      /\ operation.claim = k /\ operation.status \in {"signed", "confirmed"}
      /\ UNCHANGED <<subscription, request, execution, issuance, confirmations, operation, record>>
  BY DEF Broadcast, Owns
<1>2. k # 0 /\ execution.bound
  BY <1>1 DEF RunAgrees
<1>3. CASE UNCHANGED tx
  BY <1>1, <1>2, <1>3, GotoKeeps DEF journal, Steps
<1>4. CASE tx[k] = "signed" /\ tx' = [tx EXCEPT ![k] = "sent"]
  <2> DEFINE r == [worker[w] EXCEPT !.pc = "observe"]
  <2>1. worker' = [worker EXCEPT ![w] = r] /\ r \in Worker /\ worker'[w] = r
    BY <1>1 DEF Goto, Worker, Steps
  <2>2. k \in Claims
    BY <1>2 DEF Worker, Claims
  <2>3. tx' \in [Claims -> TxState] /\ tx'[k] = "sent"
        /\ \A c \in Claims : c # k => tx'[c] = tx[c]
    BY <1>4, <2>2 DEF IssuanceInv, TypeOK, TxState
  <2>4. TypeOK'
    BY <1>1, <2>1, <2>3 DEF IssuanceInv, TypeOK
  <2>5. RowsAgree' /\ ClaimsAgree' /\ Forward
    BY <1>1 DEF RowsAgree, ClaimsAgree, Held, Forward
  <2>6. MintsAgree'
    <3>1. operation.status = "signed"
          /\ record[k] \notin {"confirmed", "reverted"}
      BY <1>1, <1>4, <2>2 DEF MintsAgree
    <3>2. \A c \in Claims : c > k => c # k
      BY <2>2 DEF Claims
    <3> HIDE DEF k
    <3> QED BY <1>1, <2>3, <3>1, <3>2 DEF MintsAgree
  <2>7. RunAgrees(w)'
    BY <1>1, <1>2, <2>1 DEF RunAgrees, Owns, Worker
  <2> HIDE DEF r
  <2> QED BY <2>1, <2>4, <2>5, <2>6, <2>7, WriteKeeps
<1> QED BY <1>3, <1>4 DEF Broadcast

\* The receipt kept on the current transaction is the one the chain gave.
LEMMA RetainedIsTrue ==
    ASSUME IssuanceInv, RetainReceipt
    PROVE  /\ record' \in [Claims -> RecordStatus]
           /\ \A c \in Claims : c # operation.claim => record'[c] = record[c]
           /\ \A c \in Claims :
                 /\ record'[c] = "confirmed" => tx[c] = "mined"
                 /\ record'[c] = "reverted" => tx[c] = "reverted"
           /\ operation.status \in {"confirmed", "reverted"} =>
                 execution.record = operation.claim /\ record'[operation.claim] = operation.status
           /\ operation.status \notin {"confirmed", "reverted"} => record' = record
<1>1. record \in [Claims -> RecordStatus] /\ operation \in Operation /\ MintsAgree /\ ClaimsAgree
  BY DEF IssuanceInv, TypeOK
<1>2. CASE operation.status \in {"confirmed", "reverted"}
  <2>1. operation.claim \in Claims /\ execution.record = operation.claim
    BY <1>1, <1>2 DEF MintsAgree, ClaimsAgree, Operation, Claims
  <2>2. record' = [record EXCEPT ![operation.claim] = operation.status]
    BY <1>2, <2>1 DEF RetainReceipt
  <2>3. operation.status \in RecordStatus
    BY <1>2 DEF RecordStatus
  <2>4. record' \in [Claims -> RecordStatus] /\ record'[operation.claim] = operation.status
        /\ \A c \in Claims : c # operation.claim => record'[c] = record[c]
    BY <1>1, <2>1, <2>2, <2>3
  <2>5. ASSUME NEW c \in Claims
        PROVE  /\ record'[c] = "confirmed" => tx[c] = "mined"
               /\ record'[c] = "reverted" => tx[c] = "reverted"
    <3>1. CASE c = operation.claim
      BY <1>1, <1>2, <2>4, <3>1 DEF MintsAgree
    <3>2. CASE c # operation.claim
      BY <1>1, <2>4, <3>2 DEF MintsAgree
    <3> QED BY <3>1, <3>2
  <2> QED BY <1>2, <2>1, <2>4, <2>5
<1>3. CASE operation.status \notin {"confirmed", "reverted"}
  <2>1. record' = record
    BY <1>3 DEF RetainReceipt
  <2> QED BY <1>1, <1>3, <2>1 DEF MintsAgree
<1> QED BY <1>2, <1>3

\* Keeping it disturbs nothing the rows say of the chain.
LEMMA RetainedAgrees ==
    ASSUME IssuanceInv, RetainReceipt, UNCHANGED <<operation, tx>>,
           execution'.retry = execution.retry, execution'.record = execution.record,
           execution'.status \in {execution.status} \cup Terminal,
           execution'.status # execution.status =>
              /\ execution'.status = "executed" => operation.status = "confirmed"
              /\ execution'.status # "cancelled"
    PROVE  MintsAgree'
<1>1. /\ \A c \in Claims : c # operation.claim => record'[c] = record[c]
      /\ \A c \in Claims :
            /\ record'[c] = "confirmed" => tx[c] = "mined"
            /\ record'[c] = "reverted" => tx[c] = "reverted"
      /\ operation.status \in {"confirmed", "reverted"} =>
            execution.record = operation.claim /\ record'[operation.claim] = operation.status
      /\ operation.status \notin {"confirmed", "reverted"} => record' = record
  BY RetainedIsTrue
<1>2. MintsAgree /\ ClaimsAgree
  BY DEF IssuanceInv
<1>3. execution'.status = "executed" => operation.status = "confirmed"
  BY <1>2 DEF ClaimsAgree
<1> QED BY <1>1, <1>2, <1>3 DEF MintsAgree

LEMMA RetainKeeps ==
    ASSUME IssuanceInv, NEW w \in Workers, Retain(w)
    PROVE  IssuanceInv'
<1> USE Before DEF rows
<1> DEFINE r == [worker[w] EXCEPT !.pc = "project", !.verified = TRUE]
<1>1. /\ worker' = [worker EXCEPT ![w] = r] /\ r \in Worker /\ worker'[w] = r
      /\ UNCHANGED <<subscription, request, execution, issuance, confirmations, operation, tx>>
      /\ worker[w].claim # 0 /\ execution.bound
  BY DEF Retain, Worker, Steps, RunAgrees
<1>2. record' \in [Claims -> RecordStatus]
  BY RetainedIsTrue DEF Retain
<1>3. TypeOK'
  BY <1>1, <1>2 DEF IssuanceInv, TypeOK
<1>4. RowsAgree' /\ ClaimsAgree' /\ Forward
  BY <1>1 DEF RowsAgree, ClaimsAgree, Held, Forward
<1>5. MintsAgree'
  BY <1>1, RetainedAgrees DEF Retain
<1>6. RunAgrees(w)'
  BY <1>1 DEF RunAgrees, Owns, Worker
<1> HIDE DEF r
<1> QED BY <1>1, <1>3, <1>4, <1>5, <1>6, WriteKeeps

LEMMA ProjectKeeps ==
    ASSUME IssuanceInv, NEW w \in Workers,
           ProjectExecuted(w) \/ ProjectFailed(w) \/ ProjectNothing(w)
    PROVE  IssuanceInv'
<1> USE Before, MoneyAssumption DEF rows
<1>1. /\ worker' = [worker EXCEPT ![w] = Idle] /\ worker'[w] = Idle
      /\ UNCHANGED <<confirmations, operation, tx>>
  BY DEF ProjectExecuted, ProjectFailed, ProjectNothing, Finish
<1>2. record' \in [Claims -> RecordStatus]
  <2>1. UNCHANGED record => record' \in [Claims -> RecordStatus]
    BY DEF IssuanceInv, TypeOK
  <2> QED BY <2>1, RetainedIsTrue DEF ProjectExecuted, ProjectFailed, ProjectNothing
<1>3. ASSUME ProjectExecuted(w)
      PROVE  IssuanceInv'
  <2>1. /\ execution.bound /\ execution.status \in {"none", "queued", "executing"}
        /\ execution.retry # operation.claim
        /\ operation.status = "confirmed" /\ subscription.status = "paid"
    BY <1>3 DEF ProjectExecuted, Projects, Terminal, Execution, ExecutionStatus
  <2>2. /\ execution' \in Execution /\ execution'.status = "executed" /\ execution'.bound
        /\ execution'.retry = execution.retry /\ execution'.record = execution.record
    BY <1>3, <2>1 DEF ProjectExecuted, Execution, ExecutionStatus
  <2>3. /\ subscription' \in Subscription /\ subscription'.status = "allotted"
        /\ subscription'.returned = subscription.returned
        /\ request' = "executed" /\ issuance' = "completed"
    BY <1>3 DEF ProjectExecuted, Subscription
  <2>4. TypeOK'
    BY <1>1, <1>2, <2>2, <2>3, IdleType
    DEF IssuanceInv, TypeOK, RequestStatus, IssuanceStatus
  <2>5. RowsAgree'
    BY <2>1, <2>2, <2>3 DEF RowsAgree, Held, Follows
  <2>6. ClaimsAgree'
    BY <1>1, <2>1, <2>2 DEF ClaimsAgree, Undone
  <2>7. MintsAgree'
    BY <1>1, <1>3, <2>1, <2>2, RetainedAgrees DEF ProjectExecuted, Terminal
  <2>8. Forward
    BY <1>1, <2>1, <2>2 DEF Forward, ClaimsAgree
  <2>9. RunAgrees(w)'
    BY <1>1, <2>2 DEF RunAgrees, Owns, Idle
  <2> QED BY <1>1, <2>4, <2>5, <2>6, <2>7, <2>8, <2>9, IdleType, WriteKeeps
<1>4. ASSUME ProjectFailed(w)
      PROVE  IssuanceInv'
  <2>1. /\ execution.bound /\ execution.status = "executing"
        /\ execution.retry # operation.claim
        /\ operation.status \in Undone
    BY <1>4 DEF ProjectFailed, Projects, Terminal, Execution, ExecutionStatus, ClaimsAgree
  <2>2. /\ execution' \in Execution /\ execution'.status = "failed" /\ execution'.bound
        /\ execution'.retry = execution.retry /\ execution'.record = execution.record
    BY <1>4, <2>1 DEF ProjectFailed, Execution, ExecutionStatus
  <2>3. /\ UNCHANGED subscription /\ request' = "failed" /\ issuance' = "failed"
    BY <1>4 DEF ProjectFailed
  <2>4. TypeOK'
    BY <1>1, <1>2, <2>2, <2>3, IdleType
    DEF IssuanceInv, TypeOK, RequestStatus, IssuanceStatus
  <2>5. RowsAgree'
    BY <2>1, <2>2, <2>3 DEF RowsAgree, Held, Follows
  <2>6. ClaimsAgree'
    BY <1>1, <2>1, <2>2 DEF ClaimsAgree
  <2>7. MintsAgree'
    BY <1>1, <1>4, <2>1, <2>2, RetainedAgrees DEF ProjectFailed, Terminal
  <2>8. Forward
    BY <1>1, <2>1, <2>2 DEF Forward
  <2>9. RunAgrees(w)'
    BY <1>1, <2>2 DEF RunAgrees, Owns, Idle
  <2> QED BY <1>1, <2>4, <2>5, <2>6, <2>7, <2>8, <2>9, IdleType, WriteKeeps
<1>5. ASSUME ProjectNothing(w)
      PROVE  IssuanceInv'
  <2>1. UNCHANGED <<subscription, request, execution, issuance>>
    BY <1>5 DEF ProjectNothing
  <2>2. TypeOK'
    BY <1>1, <1>2, <2>1, IdleType DEF IssuanceInv, TypeOK
  <2>3. RowsAgree' /\ ClaimsAgree' /\ Forward
    BY <1>1, <2>1 DEF RowsAgree, ClaimsAgree, Held, Forward
  <2>4. MintsAgree'
    <3>1. CASE RetainReceipt
      BY <1>1, <2>1, <3>1, RetainedAgrees
    <3>2. CASE UNCHANGED record
      BY <1>1, <2>1, <3>2 DEF MintsAgree
    <3> QED BY <1>5, <3>1, <3>2 DEF ProjectNothing
  <2>5. RunAgrees(w)'
    BY <1>1, <2>1 DEF RunAgrees, Owns, Idle
  <2> QED BY <1>1, <2>2, <2>3, <2>4, <2>5, IdleType, WriteKeeps
<1> QED BY <1>3, <1>4, <1>5

-----------------------------------------------------------------------------
(* The chain.                                                              *)

LEMMA MineKeeps ==
    ASSUME IssuanceInv, NEW k \in Claims, NEW outcome \in {"mined", "reverted"},
           Mine(k, outcome)
    PROVE  IssuanceInv'
<1> USE MoneyAssumption DEF IssuanceInv, rows
<1>1. /\ UNCHANGED <<subscription, request, execution, issuance, confirmations, operation,
                      record, worker>>
      /\ tx[k] = "sent"
  BY DEF Mine
<1>2. tx' \in [Claims -> TxState] /\ tx'[k] = outcome
      /\ \A c \in Claims : c # k => tx'[c] = tx[c]
  BY DEF Mine, TypeOK, TxState
<1>3. TypeOK'
  BY <1>1, <1>2 DEF TypeOK
<1>4. RowsAgree' /\ ClaimsAgree'
  BY <1>1 DEF RowsAgree, ClaimsAgree, Held
<1>5. execution.retry \in Nat /\ operation.claim \in Nat
  BY DEF TypeOK, Execution, Operation
<1>6. Forward
  BY <1>1, <1>5 DEF Forward
<1>7. k = operation.claim /\ operation.status \notin {"preparing", "failed", "confirmed", "reverted"}
      /\ record[k] \notin {"confirmed", "reverted"}
  BY <1>1 DEF MintsAgree
<1>8. \A c \in Claims : c > k => c # k
  BY DEF Claims
<1>9. MintsAgree'
  BY <1>1, <1>2, <1>7, <1>8 DEF MintsAgree
<1> QED BY <1>1, <1>3, <1>4, <1>6, <1>9, RunKept

-----------------------------------------------------------------------------
(* The invariant.                                                          *)

LEMMA InitKeeps == Init => IssuanceInv
<1> SUFFICES ASSUME Init PROVE IssuanceInv
  OBVIOUS
<1> USE MoneyAssumption DEF Init
<1>1. \A w \in Workers : worker[w] = Idle
  OBVIOUS
<1>2. execution \in Execution /\ operation \in Operation /\ subscription \in Subscription
  BY DEF Execution, ExecutionStatus, Operation, Subscription
<1>3. TypeOK
  BY <1>2, IdleType DEF TypeOK, RequestStatus, IssuanceStatus, RecordStatus, TxState
<1>4. RowsAgree
  BY DEF RowsAgree, Held
<1>5. ClaimsAgree
  BY DEF ClaimsAgree
<1>6. MintsAgree
  BY DEF MintsAgree, Claims
<1>7. \A w \in Workers : RunAgrees(w)
  BY <1>1 DEF RunAgrees, Idle
<1> QED BY <1>3, <1>4, <1>5, <1>6, <1>7 DEF IssuanceInv

LEMMA StutterKeeps == IssuanceInv /\ UNCHANGED vars => IssuanceInv'
BY DEF IssuanceInv, vars, rows, journal, TypeOK, RowsAgree, ClaimsAgree, MintsAgree, RunAgrees,
       Held, Owns

LEMMA StepKeeps == IssuanceInv /\ [Next]_vars => IssuanceInv'
<1> SUFFICES ASSUME IssuanceInv, [Next]_vars PROVE IssuanceInv'
  OBVIOUS
<1>1. CASE UNCHANGED vars
  BY <1>1, StutterKeeps
<1>2. CASE Staff
  BY <1>2, StaffKeeps
<1>3. ASSUME NEW w \in Workers, Recover(w) \/ Abandon(w)
      PROVE  IssuanceInv'
  BY <1>3, ReadingKeeps, StartKeeps, OpenKeeps, BindKeeps, SignKeeps, GiveUpKeeps, ReceiveKeeps,
     BroadcastKeeps, RetainKeeps, ProjectKeeps
  DEF Recover
<1>4. CASE Chain
  BY <1>4, MineKeeps DEF Chain
<1> QED BY <1>1, <1>2, <1>3, <1>4 DEF Next

\* The invariant everything below rests on.
THEOREM IssuanceInvariant == Spec => []IssuanceInv
BY InitKeeps, StepKeeps, PTL DEF Spec

\* Rows, journal and runs keep their types.
THEOREM TypeCorrect == Spec => []TypeOK
<1>1. IssuanceInv => TypeOK
  BY DEF IssuanceInv
<1> QED BY <1>1, IssuanceInvariant, PTL

-----------------------------------------------------------------------------
(* Money and shares.                                                       *)

\* A mint that is out is the current attempt of an execution under way or
\* done, and its money is held.
LEMMA LiveIsCurrent ==
    ASSUME IssuanceInv, NEW c \in Claims, Live(c)
    PROVE  /\ c = operation.claim
           /\ operation.status \in {"signed", "confirmed"}
           /\ execution.status \in {"executing", "executed"}
           /\ Held >= Cost
<1> USE MoneyAssumption
<1>1. operation \in Operation /\ execution \in Execution /\ tx[c] \notin {"none", "reverted"}
  BY DEF IssuanceInv, TypeOK, Live
<1>2. c = operation.claim /\ c # 0
  BY <1>1 DEF IssuanceInv, MintsAgree, Claims
<1>3. operation.status \in {"signed", "confirmed"}
  BY <1>1, <1>2 DEF IssuanceInv, MintsAgree, ClaimsAgree, Operation
<1>4. execution.status \in {"executing", "executed"}
  BY <1>1, <1>3 DEF IssuanceInv, ClaimsAgree, Undone, Execution, ExecutionStatus
<1>5. Held >= Cost
  BY <1>4 DEF IssuanceInv, RowsAgree, Held
<1> QED BY <1>2, <1>3, <1>4, <1>5

\* While a mint is signed, sent or executed, the money its shares cost has not
\* been sent back, however refunds and runs of recover interleave.
THEOREM MoneyStays == Spec => []MoneyBehindShares
<1>1. IssuanceInv => MoneyBehindShares
  BY LiveIsCurrent DEF MoneyBehindShares
<1> QED BY <1>1, IssuanceInvariant, PTL

\* The subscriber gets the shares once: two mints that took or can still take
\* effect are the same attempt.
THEOREM MintedOnce == Spec => []OneMint
<1>1. ASSUME IssuanceInv, NEW c \in Claims, NEW d \in Claims, tx[c] = "mined", Live(d)
      PROVE  c = d
  <2>1. Live(c)
    BY <1>1 DEF Live
  <2> QED BY <1>1, <2>1, LiveIsCurrent
<1>2. IssuanceInv => OneMint
  BY <1>1 DEF OneMint
<1> QED BY <1>2, IssuanceInvariant, PTL

\* An issuance that may be cancelled, or was, has no mint out.
THEOREM CancellingIsSafe == Spec => []ReleasedIsUnsigned
<1>1. IssuanceInv => ReleasedIsUnsigned
  BY LiveIsCurrent DEF ReleasedIsUnsigned
<1> QED BY <1>1, IssuanceInvariant, PTL

\* "allotted" is only said of a mint that executed, and a transaction row only
\* claims the receipt the chain gave.
THEOREM ToldTheTruth == Spec => []RecordsAreTrue
<1>1. ASSUME IssuanceInv PROVE RecordsAreTrue
  <2>1. ASSUME subscription.status = "allotted"
        PROVE  /\ execution.record # 0 /\ tx[execution.record] = "mined"
               /\ record[execution.record] = "confirmed" /\ issuance = "completed"
    <3>1. execution.status = "executed" /\ issuance = "completed"
      BY <1>1, <2>1 DEF IssuanceInv, RowsAgree
    <3>2. operation.status = "confirmed" /\ operation.claim # 0
      BY <1>1, <3>1 DEF IssuanceInv, ClaimsAgree
    <3>3. execution.record = operation.claim /\ operation.claim \in Claims
      BY <1>1, <3>2, MoneyAssumption DEF IssuanceInv, MintsAgree, TypeOK, Operation, Claims
    <3> QED BY <1>1, <3>1, <3>2, <3>3 DEF IssuanceInv, MintsAgree
  <2>2. \A c \in Claims :
          /\ record[c] = "confirmed" => tx[c] = "mined"
          /\ record[c] = "reverted" => tx[c] = "reverted"
    BY <1>1 DEF IssuanceInv, MintsAgree
  <2> QED BY <2>1, <2>2 DEF RecordsAreTrue
<1>2. IssuanceInv => RecordsAreTrue
  BY <1>1
<1> QED BY <1>2, IssuanceInvariant, PTL

-----------------------------------------------------------------------------
(* Only a restart staff asked for replaces an attempt.                     *)

LEMMA OnlyOpenClaims ==
    ASSUME [Next]_vars, operation'.claim # operation.claim, operation \in Operation
    PROVE  \E w \in Workers :
              Restarts(w) /\ worker[w].pc = "open" /\ UNCHANGED <<rows, record, tx>>
<1>1. ASSUME Staff \/ Chain \/ UNCHANGED vars
      PROVE  FALSE
  BY <1>1 DEF Staff, Allot, RecordRefund, Close, OpenRetryForm, Retry, Chain, Mine, vars, journal
<1>2. ASSUME NEW w \in Workers, Recover(w) \/ Abandon(w)
      PROVE  Open(w) /\ ~UNCHANGED operation
  <2>1. ~Sign(w) /\ ~GiveUp(w) /\ ~Receive(w)
    BY DEF Sign, GiveUp, Receive, Operation
  <2> QED BY <1>2, <2>1
      DEF Recover, Abandon, Begin, Start, StartTaken, ReadClaim, Bind, Resume, Look, ReceiveNothing,
          Broadcast, Retain, ProjectExecuted, ProjectFailed, ProjectNothing, journal
<1>3. PICK w \in Workers : Open(w) /\ ~UNCHANGED operation
  BY <1>1, <1>2 DEF Next
<1> QED BY <1>3 DEF Open

\* No run opens a second attempt that staff did not ask for by naming exactly
\* the attempt that failed, however old what the run read is.
THEOREM RestartsAreAuthorised == Spec => RestartIsAuthorised
<1>1. ASSUME IssuanceInv, [Next]_vars, operation'.claim # operation.claim
      PROVE  /\ execution.status = "executing"
             /\ execution.retry = operation.claim
             /\ operation.claim \in confirmations \cup {0}
  <2>1. operation \in Operation /\ worker \in [Workers -> Worker] /\ execution \in Execution
    BY <1>1 DEF IssuanceInv, TypeOK
  <2>2. PICK w \in Workers : Restarts(w) /\ worker[w].pc = "open"
    BY <1>1, <2>1, OnlyOpenClaims
  <2>3. worker[w].retry \in Nat /\ execution.retry \in Nat /\ operation.claim \in Nat
    BY <2>1, MoneyAssumption DEF Operation, Worker, Execution
  <2>4. operation.claim = execution.retry /\ worker[w].retry = execution.retry
    BY <1>1, <2>2, <2>3 DEF Restarts, IssuanceInv, RunAgrees, ClaimsAgree
  <2> QED BY <1>1, <2>2, <2>4 DEF IssuanceInv, RunAgrees, ClaimsAgree
<1>2. IssuanceInv /\ [Next]_vars =>
        [operation'.claim # operation.claim =>
          /\ execution.status = "executing"
          /\ execution.retry = operation.claim
          /\ operation.claim \in confirmations \cup {0}]_vars
  BY <1>1
<1> QED BY <1>2, IssuanceInvariant, PTL DEF Spec, RestartIsAuthorised

-----------------------------------------------------------------------------
(* The triggers.                                                           *)

\* The rows a step writes pass.
GuardsPass ==
    /\ UNCHANGED execution \/ ExecutionGuard
    /\ UNCHANGED request \/ RequestGuard
    /\ UNCHANGED subscription \/ request = "none" \/ SubscriptionGuard

\* The facts about the rows each case starts from.
LEMMA RowsBefore ==
    ASSUME IssuanceInv
    PROVE  /\ execution \in Execution /\ operation \in Operation /\ subscription \in Subscription
           /\ execution.retry \in Nat /\ operation.claim \in Nat /\ subscription.returned \in Nat
           /\ RowsAgree /\ ClaimsAgree /\ MintsAgree
BY MoneyAssumption DEF IssuanceInv, TypeOK, Execution, Operation, Subscription

LEMMA StaffPassGuards ==
    ASSUME IssuanceInv, Staff
    PROVE  GuardsPass
<1> USE RowsBefore, MoneyAssumption DEF Transitions, Follows
<1>1. CASE Allot
  <2>1. /\ execution' = [status |-> "queued", bound |-> FALSE, retry |-> 0, record |-> 0]
        /\ request' = "approved" /\ request = "none" /\ execution.status = "none"
        /\ ~execution.bound
        /\ UNCHANGED <<subscription, operation, record, issuance>>
    BY <1>1 DEF Allot, RowsAgree, ClaimsAgree, Execution, journal
  <2>1a. subscription = [status |-> "paid", returned |-> 0]
    BY <1>1 DEF Allot, RowsAgree, Subscription
  <2>1b. /\ execution'.status = "queued" /\ ~execution'.bound
         /\ execution'.retry = 0 /\ execution'.record = 0
         /\ execution.retry = 0 /\ execution.record = 0
    BY <2>1 DEF ClaimsAgree
  <2>1c. subscription' = [status |-> "paid", returned |-> 0]
    BY <2>1, <2>1a
  <2>2. ExecutionGuard
    BY <2>1, <2>1b, <2>1c DEF ExecutionGuard
  <2>3. RequestGuard
    BY <2>1 DEF RequestGuard
  <2> QED BY <2>1, <2>2, <2>3 DEF GuardsPass
<1>2. ASSUME NEW amount \in 1..Paid, RecordRefund(amount)
      PROVE  GuardsPass
  <2>1. /\ subscription'.status = IF subscription.status = "allotted" THEN "allotted" ELSE "refunded"
        /\ subscription'.returned = subscription.returned + amount
        /\ subscription'.returned >= subscription.returned
        /\ UNCHANGED <<issuance, operation, record>>
    BY <1>2 DEF RecordRefund, Subscription, journal
  <2>2. CASE /\ execution.status \in {"queued", "failed"}
             /\ execution' = [execution EXCEPT !.status = "cancelled"] /\ request' = "rejected"
    <3>1. /\ execution'.status = "cancelled" /\ execution'.bound = execution.bound
          /\ execution'.retry = execution.retry /\ execution'.record = execution.record
      BY <2>2 DEF Execution
    <3>2. subscription'.status = "refunded"
      BY <2>1, <2>2 DEF RowsAgree
    <3>3. execution.bound => operation.status \in Undone
      BY <2>2 DEF ClaimsAgree
    <3>4. /\ execution.record # 0 /\ operation.status \notin {"signed", "confirmed", "reverted"} =>
                record[execution.record] = "reverted"
          /\ operation.status = "reverted" => record[execution.record] = "reverted"
      BY <2>2, <3>3 DEF MintsAgree, Undone, ClaimsAgree
    <3>5. execution.bound => issuance # "none"
      BY DEF RowsAgree
    <3>6. operation.status \in {"signed", "confirmed", "reverted"} =>
             execution.record = operation.claim
      BY DEF MintsAgree
    <3>7. ~execution.bound => execution.record = 0 /\ execution.retry = 0
      BY DEF ClaimsAgree
    <3>8. ExecutionGuard
      BY <2>1, <2>2, <3>1, <3>3, <3>4, <3>5, <3>6, <3>7 DEF ExecutionGuard
    <3>9. RequestGuard /\ SubscriptionGuard
      BY <2>1, <2>2, <3>1, <3>2 DEF RequestGuard, SubscriptionGuard
    <3> QED BY <3>8, <3>9 DEF GuardsPass
  <2>3. CASE UNCHANGED <<execution, request>>
             /\ (subscription.status = "allotted" \/ execution.status \in {"none", "cancelled"})
    <3>1. request = "none" \/ SubscriptionGuard
      BY <2>1, <2>3 DEF RowsAgree, SubscriptionGuard
    <3> QED BY <2>3, <3>1 DEF GuardsPass
  <2> QED BY <1>2, <2>2, <2>3 DEF RecordRefund, CancelQueued, Cancellable
<1>3. CASE Close
  <2>1. /\ request \in {"none", "rejected"} /\ UNCHANGED <<request, execution>>
        /\ subscription'.status = "closed" /\ subscription'.returned = subscription.returned
    BY <1>3 DEF Close, Subscription
  <2> QED BY <2>1 DEF GuardsPass, SubscriptionGuard
<1>4. CASE OpenRetryForm
  BY <1>4 DEF OpenRetryForm, GuardsPass
<1>5. ASSUME NEW c \in Claims, Retry(c)
      PROVE  GuardsPass
  <2>1. /\ execution' = [execution EXCEPT !.status = "queued", !.retry = c]
        /\ c = operation.claim /\ execution.retry # c
        /\ execution.status = "failed" /\ request = "failed" /\ request' = "approved"
        /\ operation.status \in Undone
        /\ UNCHANGED <<subscription, issuance, operation, record>>
    BY <1>5 DEF Retry, RetryNames, journal
  <2>2. /\ execution'.status = "queued" /\ execution'.bound = execution.bound
        /\ execution'.retry = operation.claim /\ execution'.record = execution.record
    BY <2>1 DEF Execution
  <2>3. /\ execution.bound /\ issuance # "none"
        /\ operation.status = "reverted" => record[execution.record] = "reverted"
        /\ execution.record # 0 /\ operation.status \notin {"signed", "confirmed", "reverted"} =>
              record[execution.record] = "reverted"
        /\ operation.status \in {"signed", "confirmed", "reverted"} =>
              execution.record = operation.claim
    BY <2>1 DEF MintsAgree, Undone, ClaimsAgree, RowsAgree
  <2>4. ExecutionGuard
    BY <2>1, <2>2, <2>3 DEF ExecutionGuard
  <2>5. RequestGuard
    BY <2>1, <2>2 DEF RequestGuard
  <2> QED BY <2>1, <2>4, <2>5 DEF GuardsPass
<1> QED BY <1>1, <1>2, <1>3, <1>4, <1>5 DEF Staff

LEMMA RunsPassGuards ==
    ASSUME IssuanceInv, NEW w \in Workers, Recover(w) \/ Abandon(w)
    PROVE  GuardsPass
<1> USE RowsBefore, MoneyAssumption DEF Transitions, Follows
<1>1. CASE Start(w)
  <2>1. /\ execution.status = "queued" /\ execution' = [execution EXCEPT !.status = "executing"]
        /\ request = "approved" /\ request' = "executing" /\ issuance' # "none"
        /\ UNCHANGED <<subscription, operation, record>>
    BY <1>1 DEF Start, journal
  <2>2. /\ execution'.status = "executing" /\ execution'.bound = execution.bound
        /\ execution'.retry = execution.retry /\ execution'.record = execution.record
    BY <2>1 DEF Execution
  <2>3. /\ operation.status \in {"signed", "confirmed", "reverted"} =>
              execution.record = operation.claim
        /\ execution.record # 0 /\ operation.status \notin {"signed", "confirmed", "reverted"} =>
              record[execution.record] = "reverted"
        /\ ~execution.bound => execution.record = 0 /\ execution.retry = 0
    BY <2>1 DEF MintsAgree, ClaimsAgree, Undone, Operation
  <2>4. ExecutionGuard
    BY <2>1, <2>2, <2>3 DEF ExecutionGuard
  <2> QED BY <2>1, <2>2, <2>4 DEF GuardsPass, RequestGuard
<1>2. CASE Bind(w) /\ ~UNCHANGED execution
  <2>1. /\ execution.status = "executing" /\ execution' = [execution EXCEPT !.bound = TRUE]
        /\ UNCHANGED <<subscription, request, issuance, operation, record>>
    BY <1>2 DEF Bind, journal
  <2>2. /\ execution'.status = "executing" /\ execution'.bound
        /\ execution'.retry = execution.retry /\ execution'.record = execution.record
    BY <2>1 DEF Execution
  <2>3. /\ issuance # "none"
        /\ operation.status \in {"signed", "confirmed", "reverted"} =>
              execution.record = operation.claim
        /\ execution.record # 0 /\ operation.status \notin {"signed", "confirmed", "reverted"} =>
              record[execution.record] = "reverted"
    BY <2>1 DEF MintsAgree, ClaimsAgree, RowsAgree, Undone, Operation
  <2>4. ExecutionGuard
    BY <2>1, <2>2, <2>3 DEF ExecutionGuard
  <2> QED BY <2>1, <2>4 DEF GuardsPass
<1>3. CASE Sign(w)
  <2> DEFINE k == operation.claim
  <2>1. /\ execution.status = "executing" /\ execution.bound
        /\ execution' = [execution EXCEPT !.record = k]
        /\ operation.status = "preparing"
        /\ operation' = [operation EXCEPT !.status = "signed"]
        /\ record' = [record EXCEPT ![k] = "submitted"]
        /\ issuance' = "processing" /\ UNCHANGED <<subscription, request>>
    BY <1>3 DEF Sign, StillPreparing, Owns
  <2>2. /\ execution'.status = "executing" /\ execution'.bound
        /\ execution'.retry = execution.retry /\ execution'.record = k
        /\ operation'.status = "signed" /\ operation'.claim = k
    BY <2>1 DEF Execution, Operation
  <2>3. k # 0 /\ (execution.record # 0 => record[execution.record] = "reverted")
    BY <2>1 DEF MintsAgree, ClaimsAgree
  <2>4. execution.record \notin {0, k} => record'[execution.record] = "reverted"
    <3>1. record \in [Claims -> RecordStatus] /\ execution.record \in 0..MaxClaims
      BY DEF IssuanceInv, TypeOK, Execution
    <3>2. execution.record # 0 => execution.record \in Claims
      BY <3>1 DEF Claims
    <3> QED BY <2>1, <2>3, <3>1, <3>2
  <2>5. ExecutionGuard
    <3> HIDE DEF k
    <3> QED BY <2>1, <2>2, <2>3, <2>4 DEF ExecutionGuard
  <2> QED BY <2>1, <2>5 DEF GuardsPass
<1>4. CASE ProjectExecuted(w) \/ ProjectFailed(w)
  <2>1. /\ operation.status \in {"confirmed", "reverted"} =>
              execution.record = operation.claim /\ record'[operation.claim] = operation.status
        /\ operation.status \notin {"confirmed", "reverted"} => record' = record
    BY <1>4, RetainedIsTrue DEF ProjectExecuted, ProjectFailed
  <2>2. /\ execution.bound /\ execution.status = "executing"
        /\ execution.retry # operation.claim /\ operation.status \in {"confirmed", "failed", "reverted"}
        /\ UNCHANGED operation
    BY <1>4 DEF ProjectExecuted, ProjectFailed, Projects, Terminal, Undone, ClaimsAgree, Execution,
                ExecutionStatus
  <2>3. /\ execution'.status = IF operation.status = "confirmed" THEN "executed" ELSE "failed"
        /\ execution'.bound /\ execution'.retry = execution.retry
        /\ execution'.record = execution.record
        /\ request' = execution'.status /\ issuance' # "none"
    BY <1>4, <2>2 DEF ProjectExecuted, ProjectFailed, Undone, Execution
  <2>4. execution.record # 0 /\ operation.status = "failed" => record[execution.record] = "reverted"
    BY DEF MintsAgree
  <2>5. ExecutionGuard
    BY <2>1, <2>2, <2>3, <2>4 DEF ExecutionGuard, Undone
  <2>6. RequestGuard
    BY <2>2, <2>3 DEF RequestGuard, RowsAgree
  <2>7. UNCHANGED subscription \/ SubscriptionGuard
    <3>1. CASE ProjectExecuted(w)
      <4>1. request' = "executed" /\ subscription'.returned = subscription.returned
        BY <3>1 DEF ProjectExecuted, Subscription
      <4> QED BY <4>1 DEF SubscriptionGuard
    <3>2. CASE ProjectFailed(w)
      BY <3>2 DEF ProjectFailed
    <3> QED BY <1>4, <3>1, <3>2
  <2> QED BY <2>5, <2>6, <2>7 DEF GuardsPass
<1>5. CASE UNCHANGED <<execution, request, subscription>>
  BY <1>5 DEF GuardsPass
<1>6. Bind(w) => UNCHANGED <<request, subscription>>
  BY DEF Bind
<1> QED BY <1>1, <1>2, <1>3, <1>4, <1>5, <1>6
    DEF Recover, Abandon, Begin, StartTaken, ReadClaim, Open, Resume, GiveUp, Look, Receive,
        ReceiveNothing, Broadcast, Retain, ProjectNothing, rows

\* A row a step leaves as it was passes too: what the rows, the operation and the
\* mints say of each other after the step is what its trigger asks.
LEMMA UntouchedPass ==
    ASSUME IssuanceInv'
    PROVE  /\ UNCHANGED execution /\ execution'.status # "none" => ExecutionGuard
           /\ UNCHANGED request /\ request' # "none" => RequestGuard
           /\ UNCHANGED subscription => SubscriptionGuard
<1> USE MoneyAssumption DEF Undone
<1>1. /\ execution' \in Execution /\ operation' \in Operation /\ subscription' \in Subscription
      /\ subscription'.returned \in Nat
      /\ RowsAgree' /\ ClaimsAgree' /\ MintsAgree'
  BY DEF IssuanceInv, TypeOK, Subscription
<1>2. ASSUME UNCHANGED execution, execution'.status # "none"
      PROVE  ExecutionGuard
  <2>1. execution' = execution /\ execution.status # "none"
    BY <1>2
  <2>2. execution'.status \in {"executing", "executed", "failed"} \/ execution'.bound =>
            issuance' # "none"
    BY <1>1 DEF RowsAgree
  <2>3. ~execution'.bound =>
            /\ execution'.record = 0 /\ execution'.retry = 0
            /\ execution'.status \notin {"executed", "failed"}
    BY <1>1 DEF ClaimsAgree
  <2>4. execution'.record # 0 =>
            IF operation'.status \in {"signed", "confirmed", "reverted"}
            THEN execution'.record = operation'.claim
            ELSE record'[execution'.record] = "reverted"
    BY <1>1, <2>3 DEF ClaimsAgree, MintsAgree, Operation
  <2>5. execution'.status = "executed" =>
            /\ operation'.status = "confirmed"
            /\ record'[execution'.record] = "confirmed"
            /\ execution'.retry # operation'.claim
    BY <1>1 DEF ClaimsAgree, MintsAgree
  <2>6. execution'.status \in {"failed", "cancelled", "queued"} /\ execution'.bound =>
            /\ operation'.status \in Undone
            /\ execution'.status = "failed" => execution'.retry # operation'.claim
    BY <1>1 DEF ClaimsAgree
  <2>7. execution'.status \in {"failed", "cancelled", "queued"} /\ operation'.status = "reverted" =>
            record'[execution'.record] = "reverted"
    BY <1>1 DEF ClaimsAgree, MintsAgree
  <2> QED BY <2>1, <2>2, <2>3, <2>4, <2>5, <2>6, <2>7 DEF ExecutionGuard
<1>3. ASSUME UNCHANGED request, request' # "none"
      PROVE  RequestGuard
  BY <1>1, <1>3 DEF RowsAgree, RequestGuard
<1>4. ASSUME UNCHANGED subscription
      PROVE  SubscriptionGuard
  BY <1>1, <1>4 DEF RowsAgree, SubscriptionGuard, Follows, Execution, ExecutionStatus
<1> QED BY <1>2, <1>3, <1>4

\* The triggers of migration 0048 refuse no step of the services, nor a touch of
\* a row beside it: the second line of defence is never what stops a
\* subscriber's allotment.
THEOREM TriggersNeverRefuse == Spec => GuardsNeverRefuse
<1> DEFINE Passes ==
        /\ execution'.status = "none" \/ ExecutionGuard
        /\ request' = "none" \/ RequestGuard
        /\ request = "none" \/ SubscriptionGuard
<1>1. ASSUME IssuanceInv, [Next]_vars
      PROVE  GuardsPass
  <2>1. CASE UNCHANGED vars \/ Chain
    BY <2>1 DEF GuardsPass, vars, rows, Chain, Mine
  <2> QED BY <1>1, <2>1, StaffPassGuards, RunsPassGuards DEF Next
<1>2. ASSUME IssuanceInv, [Next]_vars
      PROVE  Passes
  <2>1. IssuanceInv'
    BY <1>2, StepKeeps
  <2> QED BY <1>1, <1>2, <2>1, UntouchedPass DEF GuardsPass
<1>3. IssuanceInv /\ [Next]_vars => [Passes]_vars
  BY <1>2
<1> QED BY <1>3, IssuanceInvariant, PTL DEF Spec, GuardsNeverRefuse

-----------------------------------------------------------------------------
(* The abstract specifications.                                            *)

\* Only the chain changes whether the shares exist: once, and only by way of a
\* signed mint.
LEMMA MintingSteps ==
    ASSUME IssuanceInv, [Next]_vars
    PROVE  /\ Minted => Minted'
           /\ ~Minted /\ Minted' =>
                 operation.status = "signed" /\ execution.status = "executing" /\ Chain
           /\ Minted => operation.status \in {"signed", "confirmed"}
           /\ operation.status = "confirmed" => Minted
<1> USE MoneyAssumption
<1>1. Minted => operation.status \in {"signed", "confirmed"}
  BY LiveIsCurrent DEF Minted, Live
<1>2. ASSUME operation.status = "confirmed" PROVE Minted
  <2>1. operation.claim \in Claims
    BY <1>2 DEF IssuanceInv, TypeOK, Operation, ClaimsAgree, Claims
  <2> QED BY <1>2, <2>1 DEF Minted, IssuanceInv, MintsAgree
<1>3. ASSUME NEW w \in Workers, Recover(w) \/ Abandon(w)
      PROVE  \A c \in Claims : tx[c] = "mined" <=> tx'[c] = "mined"
  <2>1. CASE UNCHANGED tx
    BY <2>1
  <2>2. CASE Sign(w)
    <3>1. tx' = [tx EXCEPT ![operation.claim] = "signed"] /\ operation.status = "preparing"
      BY <2>2 DEF Sign, StillPreparing, Owns
    <3>2. ~Minted
      BY <1>1, <3>1
    <3> QED BY <3>1, <3>2 DEF Minted, IssuanceInv, TypeOK
  <2>3. CASE Broadcast(w) /\ ~UNCHANGED tx
    <3>1. tx' = [tx EXCEPT ![worker[w].claim] = "sent"] /\ tx[worker[w].claim] = "signed"
      BY <2>3 DEF Broadcast
    <3> QED BY <3>1 DEF IssuanceInv, TypeOK
  <2> QED BY <1>3, <2>1, <2>2, <2>3
      DEF Recover, Abandon, Begin, Start, StartTaken, ReadClaim, Open, Bind, Resume, GiveUp, Look,
          Receive, ReceiveNothing, Retain, ProjectExecuted, ProjectFailed, ProjectNothing, journal
<1>4. CASE Staff \/ UNCHANGED vars
  <2>1. UNCHANGED tx
    BY <1>4 DEF Staff, Allot, RecordRefund, Close, OpenRetryForm, Retry, vars, journal
  <2> QED BY <1>1, <1>2, <2>1 DEF Minted
<1>5. ASSUME NEW k \in Claims, NEW outcome \in {"mined", "reverted"}, Mine(k, outcome)
      PROVE  /\ Minted => Minted'
             /\ operation.status = "signed" /\ execution.status = "executing"
  <2>1. tx[k] = "sent" /\ tx' = [tx EXCEPT ![k] = outcome] /\ tx \in [Claims -> TxState]
    BY <1>5 DEF Mine, IssuanceInv, TypeOK
  <2>2. \A c \in Claims : c # k => tx'[c] = tx[c]
    BY <2>1
  <2>3. Minted => Minted'
    BY <2>1, <2>2 DEF Minted
  <2>4. k = operation.claim /\ operation.status = "signed"
    BY <2>1, LiveIsCurrent DEF Live, IssuanceInv, MintsAgree
  <2>5. execution.status = "executing"
    BY <2>1, <2>4, LiveIsCurrent DEF Live, IssuanceInv, ClaimsAgree
  <2> QED BY <2>3, <2>4, <2>5
<1> QED BY <1>1, <1>2, <1>3, <1>4, <1>5 DEF Next, Chain, Minted

\* Shares or money, never both: the detailed allotment implements
\* SharesOrMoney, in which what pays for claimed or issued shares cannot go back.
THEOREM SharesOrMoneyHolds == Spec => IsSharesOrMoney
<1> USE MoneyAssumption
<1>1. ASSUME Init PROVE Escrow!Init
  <2>1. ~Minted
    BY <1>1 DEF Init, Minted
  <2> QED BY <1>1, <2>1 DEF Init, Escrow!Init, Shares
<1>2. ASSUME IssuanceInv, IssuanceInv', [Next]_vars
      PROVE  [Escrow!Next]_Escrow!vars
  <2>0. /\ subscription \in Subscription /\ execution \in Execution
        /\ RowsAgree /\ ClaimsAgree
    BY <1>2 DEF IssuanceInv, TypeOK
  <2>m. /\ Minted => Minted'
        /\ ~Minted /\ Minted' =>
              operation.status = "signed" /\ execution.status = "executing" /\ Chain
        /\ Minted => operation.status \in {"signed", "confirmed"}
    BY <1>2, MintingSteps
  <2>1. CASE UNCHANGED <<execution, subscription>> /\ (Minted <=> Minted')
    BY <2>1 DEF Escrow!vars, Shares
  <2>2. CASE Chain /\ ~(Minted <=> Minted')
    <3>1. UNCHANGED <<execution, subscription>> /\ ~Minted /\ Minted'
      BY <2>2, <2>m DEF Chain, Mine, rows
    <3>2. Shares = "claimed" /\ Shares' = "issued"
      BY <3>1, <2>m DEF Shares
    <3> QED BY <3>1, <3>2 DEF Escrow!Next, Escrow!Issue
  <2>3. ASSUME NEW amount \in 1..Paid, RecordRefund(amount), Minted <=> Minted'
        PROVE  [Escrow!Next]_Escrow!vars
    <3>1. /\ subscription'.returned = subscription.returned + amount
          /\ amount <= Refundable /\ subscription.returned \in Nat /\ amount \in Nat
          /\ subscription.status \in {"paid", "allotted", "refunded"}
      BY <2>0, <2>3 DEF RecordRefund, Subscription
    <3>2. CASE subscription.status = "allotted"
      <4>1. execution.status = "executed" /\ UNCHANGED execution
        BY <2>0, <2>3, <3>2 DEF RowsAgree, RecordRefund
      <4>2. Minted
        BY <1>2, <2>0, <4>1, MintingSteps DEF ClaimsAgree
      <4>3. Shares = "issued" /\ Shares' = "issued"
        BY <2>3, <4>2 DEF Shares
      <4>4. subscription.returned + amount <= Paid - Cost
        BY <3>1, <3>2 DEF Refundable, Held, Backing
      <4> QED BY <3>1, <4>3, <4>4 DEF Escrow!Next, Escrow!Return
    <3>3. CASE subscription.status # "allotted"
      <4>1. /\ execution.status \in {"none", "queued", "failed", "cancelled"}
            /\ execution'.status # "executing"
        BY <2>0, <2>3, <3>3 DEF RecordRefund, Cancellable, CancelQueued, Execution
      <4>2. ~Minted
        BY <2>0, <2>m, <4>1 DEF ClaimsAgree, Undone
      <4>3. Shares = "unclaimed" /\ Shares' = "unclaimed"
        BY <2>3, <4>1, <4>2 DEF Shares
      <4>4. subscription.returned + amount <= Paid
        BY <2>0, <3>1, <3>3 DEF Refundable, Held, Backing, Subscription
      <4> QED BY <3>1, <4>3, <4>4 DEF Escrow!Next, Escrow!Return
    <3> QED BY <3>2, <3>3
  <2>4. CASE /\ Minted <=> Minted'
             /\ Allot \/ Close \/ OpenRetryForm \/ \E c \in Claims : Retry(c)
    <3>1. /\ \/ execution.status # "executing" /\ execution'.status # "executing"
             \/ UNCHANGED execution
          /\ subscription'.returned = subscription.returned
      BY <2>0, <2>4 DEF Allot, Close, OpenRetryForm, Retry, Execution, Subscription
    <3> QED BY <2>4, <3>1 DEF Escrow!vars, Shares
  <2>5. ASSUME NEW w \in Workers, Start(w), Minted <=> Minted'
        PROVE  [Escrow!Next]_Escrow!vars
    <3>1. /\ execution.status = "queued" /\ execution'.status = "executing"
          /\ UNCHANGED subscription /\ subscription.status = "paid"
      BY <2>0, <2>5 DEF Start, Execution
    <3>2. ~Minted
      BY <2>0, <2>m, <3>1 DEF ClaimsAgree, Undone
    <3>3. Shares = "unclaimed" /\ Shares' = "claimed" /\ Paid - subscription.returned >= Cost
      BY <2>0, <2>5, <3>1, <3>2 DEF Shares, RowsAgree
    <3> QED BY <3>1, <3>3 DEF Escrow!Next, Escrow!Claim
  <2>6. ASSUME NEW w \in Workers, ProjectExecuted(w) \/ ProjectFailed(w), Minted <=> Minted'
        PROVE  [Escrow!Next]_Escrow!vars
    <3>1. subscription'.returned = subscription.returned
      BY <2>0, <2>6 DEF ProjectExecuted, ProjectFailed, Subscription
    <3>2. CASE ProjectExecuted(w)
      <4>1. Minted
        BY <1>2, <3>2, MintingSteps DEF ProjectExecuted
      <4> QED BY <2>6, <3>1, <4>1 DEF Escrow!vars, Shares
    <3>3. CASE ProjectFailed(w)
      <4>1. execution.status = "executing" /\ execution'.status = "failed" /\ ~Minted
        BY <2>0, <2>m, <3>3
        DEF ProjectFailed, Projects, Undone, Terminal, ClaimsAgree, Execution, ExecutionStatus
      <4>2. Shares = "claimed" /\ Shares' = "unclaimed"
        BY <2>6, <4>1 DEF Shares
      <4> QED BY <3>1, <4>2 DEF Escrow!Next, Escrow!Release
    <3> QED BY <2>6, <3>2, <3>3
  <2>7. ASSUME NEW w \in Workers, Bind(w) \/ Sign(w), Minted <=> Minted'
        PROVE  [Escrow!Next]_Escrow!vars
    <3>1. execution'.status = execution.status /\ UNCHANGED subscription
      BY <2>0, <2>7 DEF Bind, Sign, Execution
    <3> QED BY <2>7, <3>1 DEF Escrow!vars, Shares
  <2>8. CASE ~(Minted <=> Minted')
    BY <2>8, <2>m, <2>2
  <2>9. CASE Minted <=> Minted'
    BY <1>2, <2>9, <2>1, <2>3, <2>4, <2>5, <2>6, <2>7
    DEF Next, Staff, Chain, Mine, Recover, Abandon, Begin, StartTaken, ReadClaim, Open, Resume, GiveUp,
        Look, Receive, ReceiveNothing, Broadcast, Retain, ProjectNothing, vars, rows
  <2> QED BY <2>8, <2>9
<1> QED BY <1>1, <1>2, IssuanceInvariant, PTL DEF Spec, Escrow!Spec, IsSharesOrMoney

\* Moves of the operation, as OnceOnly sees them.
LEMMA OperationMoves ==
    ASSUME IssuanceInv, [Next]_vars, operation' # operation
    PROVE  \/ /\ operation.status \in {"none"} \cup Undone /\ operation'.status = "preparing"
              /\ UNCHANGED tx
           \/ /\ operation.status = "preparing" /\ operation'.status = "failed"
              /\ UNCHANGED tx
           \/ /\ operation.status = "preparing" /\ operation'.status = "signed"
              /\ ~Minted'
           \/ /\ operation.status = "signed" /\ operation'.status = "confirmed"
              /\ Minted /\ UNCHANGED tx
           \/ /\ operation.status = "signed" /\ operation'.status = "reverted"
              /\ ~Minted /\ UNCHANGED tx
<1>1. operation \in Operation /\ MintsAgree /\ IssuanceInv'
  BY StepKeeps DEF IssuanceInv, TypeOK
<1>2. PICK w \in Workers : Open(w) \/ Sign(w) \/ GiveUp(w) \/ Receive(w)
  BY DEF Next, Staff, Allot, RecordRefund, Close, OpenRetryForm, Retry, Chain, Mine, Recover, Abandon,
         Begin, Start, StartTaken, ReadClaim, Bind, Resume, Look, ReceiveNothing, Broadcast, Retain,
         ProjectExecuted, ProjectFailed, ProjectNothing, vars, rows, journal
<1>3. CASE Open(w)
  BY <1>3 DEF Open, Restarts
<1>4. CASE Sign(w)
  <2>1. operation.status = "preparing" /\ operation'.status = "signed"
        /\ tx' = [tx EXCEPT ![operation.claim] = "signed"]
    BY <1>1, <1>4 DEF Sign, StillPreparing, Owns, Operation
  <2>2. ~Minted
    BY <2>1, MintingSteps
  <2> QED BY <2>1, <2>2 DEF Minted, IssuanceInv, TypeOK
<1>5. CASE GiveUp(w)
  BY <1>1, <1>5 DEF GiveUp, StillPreparing, Operation
<1>6. CASE Receive(w)
  <2> DEFINE k == worker[w].claim
  <2>1. operation.status = "signed" /\ operation.claim = k /\ UNCHANGED tx
        /\ tx[k] \in {"mined", "reverted"}
        /\ operation'.status = IF tx[k] = "mined" THEN "confirmed" ELSE "reverted"
    BY <1>1, <1>6 DEF Receive, Owns, Operation
  <2>2. k \in Claims
    BY <1>1, <2>1, MoneyAssumption DEF IssuanceInv, ClaimsAgree, Operation, Claims
  <2>3. tx[k] = "mined" => Minted
    BY <2>2 DEF Minted
  <2>4. tx[k] = "reverted" => ~Minted
    BY <1>1, <2>1 DEF Minted, MintsAgree
  <2> QED BY <2>1, <2>3, <2>4
<1> QED BY <1>2, <1>3, <1>4, <1>5, <1>6

\* An issuance uses its journal operation as OnceOnly promises: one effect, and
\* another attempt only when the last provably had none.
THEOREM JournalIsUsed == Spec => UsesTheJournal
<1> DEFINE stage == [o \in {"mint"} |-> StageOf(operation.status)]
           applied == [o \in {"mint"} |-> Minted]
<1>1. ASSUME Init PROVE Journal!Init
  <2>1. StageOf(operation.status) = "absent" /\ ~Minted
    BY <1>1 DEF Init, StageOf, Undone, Minted, Claims
  <2>2. stage = [o \in {"mint"} |-> "absent"]
    BY <2>1
  <2>3. applied = [o \in {"mint"} |-> FALSE]
    <3>1. Minted = FALSE
      BY <2>1 DEF Minted
    <3> QED BY <3>1
  <2> QED BY <2>2, <2>3 DEF Journal!Init
<1>2. ASSUME IssuanceInv, [Next]_vars
      PROVE  [Journal!Next]_Journal!vars
  <2>1. /\ Minted => Minted'
        /\ ~Minted /\ Minted' => operation.status = "signed" /\ Chain
        /\ Minted => operation.status \in {"signed", "confirmed"}
    BY <1>2, MintingSteps
  <2>2. CASE UNCHANGED operation
    <3>1. CASE Minted <=> Minted'
      <4>1. applied' = applied /\ stage' = stage
        BY <2>2, <3>1
      <4> QED BY <4>1 DEF Journal!vars
    <3>2. CASE ~Minted /\ Minted'
      <4>1. StageOf(operation.status) = "dispatched"
        BY <2>1, <3>2 DEF StageOf, Undone
      <4>2. stage' = stage /\ stage["mint"] = "dispatched" /\ ~applied["mint"]
            /\ applied' = [applied EXCEPT !["mint"] = TRUE]
        BY <2>2, <3>2, <4>1
      <4> QED BY <4>2 DEF Journal!Next, Journal!TakeEffect
    <3> QED BY <2>1, <3>1, <3>2
  <2>3. CASE operation' # operation
    <3>1. Minted <=> Minted'
      BY <1>2, <2>1, <2>3, OperationMoves DEF Minted, Undone
    <3>2. applied' = applied
      BY <3>1
    <3>3. stage' = [stage EXCEPT !["mint"] = StageOf(operation'.status)]
      OBVIOUS
    <3>4. \/ /\ StageOf(operation.status) \in {"absent", "undone"}
             /\ StageOf(operation'.status) = "open"
          \/ StageOf(operation.status) = "open" /\ StageOf(operation'.status) = "undone"
          \/ StageOf(operation.status) = "open" /\ StageOf(operation'.status) = "dispatched"
          \/ /\ StageOf(operation.status) = "dispatched" /\ StageOf(operation'.status) = "done"
             /\ Minted
          \/ /\ StageOf(operation.status) = "dispatched" /\ StageOf(operation'.status) = "undone"
             /\ ~Minted
      BY <1>2, <2>3, OperationMoves DEF StageOf, Undone
    <3>5. stage["mint"] = StageOf(operation.status) /\ applied["mint"] = Minted
      OBVIOUS
    <3> QED BY <3>2, <3>3, <3>4, <3>5
        DEF Journal!Next, Journal!Open, Journal!GiveUp, Journal!Dispatch, Journal!Confirm,
            Journal!Reject, Journal!Move
  <2> QED BY <2>2, <2>3
<1>3. IssuanceInv /\ [Next]_vars => [Journal!Next]_Journal!vars
  BY <1>2
<1> QED BY <1>1, <1>3, IssuanceInvariant, PTL DEF Spec, Journal!Spec, UsesTheJournal
=============================================================================
