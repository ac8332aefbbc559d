------------------------ MODULE OutgoingJournalProofs ------------------------
(***************************************************************************)
(* Proofs about OutgoingJournal, for any number of operations, signers and *)
(* workers and any bounds.                                                 *)
(***************************************************************************)
EXTENDS OutgoingJournal, TLAPS

-----------------------------------------------------------------------------
(* Type correctness.                                                       *)

\* A caller that has just obtained or kept a claim is a well-formed worker.
LEMMA ClaimedType ==
    ASSUME NEW o \in Ops \cup {None}, NEW c \in Nat
    PROVE  Claimed(o, c) \in Worker
BY DEF Claimed, Idle, Worker, Steps, OptionalAttempt

LEMMA IdleType == Idle \in Worker
BY DEF Idle, Worker, Steps, OptionalAttempt

\* Returning to the claim keeps the callers' type.
LEMMA BackType ==
    ASSUME TypeOK, NEW w \in Workers, Back(w)
    PROVE  worker' \in [Workers -> Worker]
<1>1. worker[w].op \in Ops \cup {None} /\ worker[w].claim \in Nat
  BY DEF TypeOK, Worker
<1>2. Claimed(worker[w].op, worker[w].claim) \in Worker
  BY <1>1, ClaimedType
<1> QED BY <1>2 DEF Back, TypeOK

LEMMA AckedType ==
    ASSUME NEW r \in Operation
    PROVE  [r EXCEPT !.acked = TRUE] \in Operation
BY DEF Operation

\* Every step of a caller keeps the types.
LEMMA CallType ==
    ASSUME TypeOK, WorkersInv, NEW w \in Workers, Call(w)
    PROVE  TypeOK'
<1> USE ConstantsAssumption DEF TypeOK
<1> DEFINE o == worker[w].op
<1>0. worker[w] \in Worker
  OBVIOUS
<1>a. worker[w].pc # "idle" => o \in Ops
  BY DEF WorkersInv, WorkerInv
<1>1. ASSUME NEW p \in Ops, NEW r \in {None} \cup 0..MaxClaims, OpenOperation(w, p, r)
      PROVE  TypeOK'
  <2>0. operation[p].claim + 1 \in Nat
    BY DEF Operation
  <2>1a. NewClaim(p) \in Operation
    BY <2>0 DEF NewClaim, Operation, Statuses, OptionalAttempt
  <2>1. operation' \in [Ops -> Operation]
    BY <1>1, <2>1a DEF OpenOperation
  <2>2. Claimed(p, operation'[p].claim) \in Worker
    BY <2>1, ClaimedType DEF Operation
  <2> QED BY <1>1, <2>1, <2>2 DEF OpenOperation, chain
<1>2. CASE PrepareRead(w)
  <2>1. account[SignerOf[o]].gen \in Nat
    BY <1>2, <1>a DEF PrepareRead, Account
  <2>2. worker' \in [Workers -> Worker]
    BY <1>0, <1>2, <2>1 DEF PrepareRead, Worker, Steps
  <2> QED BY <1>2, <2>2 DEF PrepareRead, chain
<1>3. CASE PrepareObserve(w)
  <2>1. SignerOf[o] \in Signers
    BY <1>3, <1>a DEF PrepareObserve
  <2>2. PICK n \in PendingCounts(SignerOf[o]) :
            worker' = [worker EXCEPT ![w].pc = "prepared", ![w].observed = n]
    BY <1>3 DEF PrepareObserve
  <2>3. n \in Nat
    BY <2>1 DEF PendingCounts
  <2>4. worker' \in [Workers -> Worker]
    BY <1>0, <2>2, <2>3 DEF Worker, Steps
  <2> QED BY <1>3, <2>4 DEF PrepareObserve, chain
<1>4. CASE Sign(w)
  <2> DEFINE s == SignerOf[o]
             n == NextNonce(s, worker[w].observed)
             a == [op |-> o, claim |-> worker[w].claim, nonce |-> n, gen |-> worker[w].gen]
  <2>1. o \in Ops /\ s \in Signers
    BY <1>4, <1>a DEF Sign
  <2>2. n \in Nat
    BY <1>0, <2>1 DEF NextNonce, Worker, Account
  <2>3. a \in Attempt
    BY <1>0, <2>1, <2>2 DEF Attempt, Worker
  <2>4. attempts' \subseteq Attempt
    BY <1>4, <2>3 DEF Sign
  <2>5. account' \in [Signers -> Account]
    <3>1. account' = [account EXCEPT ![s].next = n + 1]
      BY <1>4 DEF Sign, Advance
    <3>2. n + 1 \in Nat /\ account[s] \in Account
      BY <2>1, <2>2
    <3>3. [account[s] EXCEPT !.next = n + 1] \in Account
      BY <3>2 DEF Account
    <3> HIDE DEF n
    <3> QED BY <2>1, <3>1, <3>3
  <2>6. operation' \in [Ops -> Operation]
    BY <1>4, <2>1, <2>3 DEF Sign, Operation, Statuses, OptionalAttempt
  <2>7. worker' \in [Workers -> Worker]
    BY <1>4, BackType DEF Sign
  <2> QED BY <1>4, <2>4, <2>5, <2>6, <2>7 DEF Sign, chain
<1>5. CASE SignRefused(w)
  BY <1>5, BackType DEF SignRefused, chain
<1>6. CASE FailPreparing(w)
  <2>1. operation' \in [Ops -> Operation]
    BY <1>6, <1>a DEF FailPreparing, Operation, Statuses
  <2> QED BY <1>6, <2>1 DEF FailPreparing, chain
<1>7. CASE BroadcastAdmit(w)
  <2>1. operation[o].attempt \in OptionalAttempt
    BY <1>7, <1>a DEF BroadcastAdmit, Operation
  <2>2. worker' \in [Workers -> Worker]
    BY <1>0, <1>7, <2>1 DEF BroadcastAdmit, Worker, Steps
  <2> QED BY <1>7, <2>2 DEF BroadcastAdmit, chain
<1>8. ASSUME NEW r \in {"acknowledged", "error"}, Deliver(w, r)
      PROVE  TypeOK'
  <2>1. worker[w].attempt \in Attempt
    BY <1>8 DEF Deliver, WorkersInv, WorkerInv
  <2>2. worker' \in [Workers -> Worker]
    BY <1>0, <1>8 DEF Deliver, Worker, Steps
  <2> QED BY <1>8, <2>1, <2>2 DEF Deliver
<1>9. CASE SendFails(w)
  <2>1. worker' \in [Workers -> Worker]
    BY <1>0, <1>9 DEF SendFails, Worker, Steps
  <2> QED BY <1>9, <2>1 DEF SendFails, chain
<1>10. CASE RecordBroadcast(w)
  <2>0. o \in Ops
    BY <1>10, <1>a DEF RecordBroadcast
  <2>1a. [operation[o] EXCEPT !.acked = TRUE] \in Operation
    BY <2>0, AckedType
  <2>1. operation' \in [Ops -> Operation]
    BY <1>10, <2>0, <2>1a DEF RecordBroadcast
  <2> QED BY <1>10, <2>1, BackType DEF RecordBroadcast, chain
<1>11. CASE ReadReceipt(w)
  <2>1. operation[o].attempt \in OptionalAttempt
    BY <1>11, <1>a DEF ReadReceipt, Operation
  <2>2. worker' \in [Workers -> Worker]
    BY <1>0, <1>11, <2>1 DEF ReadReceipt, Worker, Steps
  <2> QED BY <1>11, <2>2 DEF ReadReceipt, chain
<1>12. CASE RecordReceipt(w)
  <2>1. worker[w].result \in Statuses
    BY <1>12 DEF RecordReceipt, WorkersInv, WorkerInv, Statuses
  <2>2. operation' \in [Ops -> Operation]
    BY <1>12, <1>a, <2>1 DEF RecordReceipt, Operation
  <2> QED BY <1>12, <2>2, BackType DEF RecordReceipt, chain
<1>13. CASE Stop(w)
  BY <1>13, IdleType DEF Stop, chain
<1> QED BY <1>1, <1>2, <1>3, <1>4, <1>5, <1>6, <1>7, <1>8, <1>9, <1>10, <1>11,
           <1>12, <1>13 DEF Call

\* The steps of the chain and of the operator keep the types.
LEMMA OutsideType ==
    ASSUME TypeOK, ChainInv, Chain \/ \E s \in Signers : CloseAdmission(s) \/ Admit(s)
    PROVE  TypeOK'
<1> USE ConstantsAssumption DEF TypeOK
<1>1. ASSUME NEW s \in Signers, CloseAdmission(s) \/ Admit(s)
      PROVE  TypeOK'
  <2>1. account' \in [Signers -> Account]
    BY <1>1 DEF CloseAdmission, Admit, Account
  <2> QED BY <1>1, <2>1 DEF CloseAdmission, Admit, chain
<1>2. ASSUME NEW a \in pool, Evict(a)
      PROVE  TypeOK'
  BY <1>2 DEF Evict
<1>3. ASSUME NEW a \in pool, NEW ok \in BOOLEAN, Execute(a, ok)
      PROVE  TypeOK'
  <2>1. a \in Attempt /\ SignerOf[a.op] \in Signers
    BY DEF Attempt
  <2>2. mined' \in [Signers -> Nat]
    BY <1>3, <2>1 DEF Execute
  <2>3. CASE ok
    BY <1>3, <2>1, <2>2, <2>3 DEF Execute
  <2>4. CASE ~ok
    BY <1>3, <2>1, <2>2, <2>4 DEF Execute
  <2> QED BY <2>3, <2>4
<1>4. ASSUME NEW s \in Signers, ForeignSend(s)
      PROVE  TypeOK'
  <2>1. PICK n \in mined[s]..(MaxNonce - 1) : foreign' = [foreign EXCEPT ![s] = @ \cup {n}]
    BY <1>4 DEF ForeignSend
  <2>2. n \in Nat
    BY <2>1
  <2> QED BY <1>4, <2>1, <2>2 DEF ForeignSend
<1>5. ASSUME NEW s \in Signers, ForeignExecute(s)
      PROVE  TypeOK'
  BY <1>5 DEF ForeignExecute
<1> QED BY <1>1, <1>2, <1>3, <1>4, <1>5 DEF Chain

-----------------------------------------------------------------------------
(* What one caller knows survives the steps of everyone else: attempts and *)
(* receipts are only added, and executed counts only grow.                 *)

LEMMA SpokenGrows ==
    ASSUME TypeOK, NEW s \in Signers, NEW n \in Nat, Spoken(s, n), mined'[s] \in Nat,
           attempts \subseteq attempts', mined[s] <= mined'[s], foreign[s] \subseteq foreign'[s]
    PROVE  Spoken(s, n)'
<1>1. mined[s] \in Nat
  BY DEF TypeOK
<1> QED BY <1>1 DEF Spoken, Holds

LEMMA CoveredGrows ==
    ASSUME TypeOK, NEW s \in Signers, NEW n \in Nat, Covered(s, n), mined'[s] \in Nat,
           attempts \subseteq attempts', mined[s] <= mined'[s], foreign[s] \subseteq foreign'[s]
    PROVE  Covered(s, n)'
BY SpokenGrows DEF Covered

LEMMA WorkerKept ==
    ASSUME TypeOK, TypeOK', NEW v \in Workers, WorkerInv(v), worker'[v] = worker[v],
           attempts \subseteq attempts', accepted \subseteq accepted',
           succeeded \subseteq succeeded', reverted \subseteq reverted',
           \A s \in Signers : mined[s] <= mined'[s] /\ foreign[s] \subseteq foreign'[s]
    PROVE  WorkerInv(v)'
<1>1. ASSUME worker[v].pc = "prepared"
      PROVE  Covered(SignerOf[worker[v].op], worker[v].observed)'
  <2>1. SignerOf[worker[v].op] \in Signers
    BY <1>1, ConstantsAssumption DEF WorkerInv
  <2>2. worker[v].observed \in Nat
    BY DEF TypeOK, Worker
  <2>3. mined'[SignerOf[worker[v].op]] \in Nat
    BY <2>1 DEF TypeOK
  <2>4. Covered(SignerOf[worker[v].op], worker[v].observed)
    BY <1>1 DEF WorkerInv
  <2> HIDE DEF Covered
  <2> QED BY <2>1, <2>2, <2>3, <2>4, CoveredGrows
<1> QED BY <1>1 DEF WorkerInv, Covered

LEMMA ClaimedKept ==
    ASSUME NEW w \in Workers, NEW o \in Ops, NEW c, worker'[w] = Claimed(o, c)
    PROVE  WorkerInv(w)'
BY DEF WorkerInv, Claimed, Idle

\* A step in which only callers change: the rest of the invariant stands.
LEMMA OnlyWorkers ==
    ASSUME JournalInv, UNCHANGED <<operation, account, attempts, chain>>, TypeOK', WorkersInv'
    PROVE  JournalInv'
BY DEF JournalInv, RowsInv, AttemptsInv, ChainInv, OutcomeIsTrue, AckIsForThisAttempt,
       NonceUnique, NoNonceGap, Spoken, Holds, NoDelayedPreparer, chain

\* Callers other than w keep what they know when only w's record changes.
LEMMA OthersKept ==
    ASSUME TypeOK, TypeOK', WorkersInv, NEW w \in Workers, NEW r,
           worker' = [worker EXCEPT ![w] = r],
           attempts \subseteq attempts', accepted \subseteq accepted',
           succeeded \subseteq succeeded', reverted \subseteq reverted',
           mined' = mined, foreign' = foreign
    PROVE  \A v \in Workers \ {w} : WorkerInv(v)'
<1>1. \A s \in Signers : mined[s] <= mined'[s] /\ foreign[s] \subseteq foreign'[s]
  BY DEF TypeOK
<1>2. ASSUME NEW v \in Workers \ {w}
      PROVE  WorkerInv(v)'
  <2>1. worker'[v] = worker[v]
    BY DEF TypeOK
  <2>2. WorkerInv(v)
    BY DEF WorkersInv
  <2> QED BY <1>1, <2>1, <2>2, WorkerKept
<1> QED BY <1>2

\* The steps of one caller that write no row.
LEMMA ReadOnlyCalls ==
    ASSUME JournalInv, TypeOK', NEW w \in Workers,
           PrepareRead(w) \/ PrepareObserve(w) \/ SignRefused(w) \/ BroadcastAdmit(w)
               \/ SendFails(w) \/ ReadReceipt(w) \/ Stop(w)
    PROVE  JournalInv'
<1> DEFINE o == worker[w].op
<1>1. UNCHANGED <<operation, account, attempts, chain>>
  BY DEF PrepareRead, PrepareObserve, SignRefused, BroadcastAdmit, SendFails, ReadReceipt, Stop
<1>2. worker' = [worker EXCEPT ![w] = worker'[w]]
  BY DEF PrepareRead, PrepareObserve, SignRefused, BroadcastAdmit, SendFails, ReadReceipt, Stop,
         Back, JournalInv, TypeOK
<1>3. \A v \in Workers \ {w} : WorkerInv(v)'
  BY <1>1, <1>2, OthersKept DEF JournalInv, chain
<1>4. worker[w] \in Worker /\ WorkerInv(w)
  BY DEF JournalInv, TypeOK, WorkersInv
<1>5. WorkerInv(w)'
  <2>1. CASE PrepareRead(w)
    BY <1>4, <2>1 DEF PrepareRead, WorkerInv, JournalInv, TypeOK
  <2>2. CASE PrepareObserve(w)
    <3>1. o \in Ops /\ SignerOf[o] \in Signers
      BY <1>4, <2>2, ConstantsAssumption DEF PrepareObserve, WorkerInv
    <3>2. PICK n \in PendingCounts(SignerOf[o]) :
              worker' = [worker EXCEPT ![w].pc = "prepared", ![w].observed = n]
      BY <2>2 DEF PrepareObserve
    <3>3. Covered(SignerOf[o], n)
      <4>1. mined[SignerOf[o]] \in Nat /\ n \in Nat /\ n >= mined[SignerOf[o]]
        BY <3>1, ConstantsAssumption DEF PendingCounts, JournalInv, TypeOK
      <4>2. pool \subseteq attempts /\ (SignerOf[o] \notin ForeignUse => foreign[SignerOf[o]] = {})
        BY <3>1 DEF JournalInv, ChainInv
      <4>3. \A k \in mined[SignerOf[o]]..(n - 1) :
                Holds(pool, SignerOf[o], k) \/ k \in foreign[SignerOf[o]]
        BY DEF PendingCounts
      <4>4. ASSUME NEW k \in 0..(n - 1)
            PROVE  Spoken(SignerOf[o], k)
        <5>1. k < mined[SignerOf[o]] \/ k \in mined[SignerOf[o]]..(n - 1)
          BY <4>1
        <5> QED BY <4>2, <4>3, <5>1 DEF Spoken, Holds
      <4> QED BY <4>4 DEF Covered
    <3>4. /\ worker'[w].pc = "prepared"
          /\ worker'[w].op = o
          /\ worker'[w].observed = n
      <4>1. worker'[w] = [worker[w] EXCEPT !.pc = "prepared", !.observed = n]
        BY <3>2 DEF JournalInv, TypeOK
      <4> QED BY <1>4, <4>1 DEF Worker
    <3>5. Covered(SignerOf[o], n)'
      BY <1>1, <3>3, <3>4 DEF Covered, Spoken, Holds, chain
    <3> QED BY <3>1, <3>4, <3>5 DEF WorkerInv
  <2>3. CASE SignRefused(w)
    <3>1. o \in Ops
      BY <1>4, <2>3 DEF SignRefused, WorkerInv
    <3>2. worker'[w] = Claimed(o, worker[w].claim)
      BY <2>3 DEF SignRefused, Back, JournalInv, TypeOK
    <3> QED BY <3>1, <3>2, ClaimedKept
  <2>4. CASE BroadcastAdmit(w)
    <3>1. o \in Ops
      BY <1>4, <2>4 DEF BroadcastAdmit, WorkerInv
    <3>2. operation[o].attempt \in attempts /\ operation[o].attempt.op = o
      BY <2>4, <3>1 DEF BroadcastAdmit, JournalInv, RowsInv
    <3>3. worker'[w].pc = "sending" /\ worker'[w].op = o
             /\ worker'[w].attempt = operation[o].attempt
      BY <1>4, <2>4 DEF BroadcastAdmit, JournalInv, TypeOK, Worker
    <3> QED BY <1>1, <3>1, <3>2, <3>3 DEF WorkerInv
  <2>5. CASE SendFails(w)
    BY <1>4, <2>5 DEF SendFails, WorkerInv, JournalInv, TypeOK, Worker
  <2>6. CASE ReadReceipt(w)
    <3>1. o \in Ops
      BY <1>4, <2>6 DEF ReadReceipt, WorkerInv
    <3>2. /\ worker'[w].pc = "found" /\ worker'[w].op = o
          /\ worker'[w].attempt = operation[o].attempt
          /\ worker'[w].result = IF operation[o].attempt \in succeeded THEN "confirmed" ELSE "reverted"
      BY <1>4, <2>6 DEF ReadReceipt, JournalInv, TypeOK, Worker
    <3> QED BY <1>1, <2>6, <3>1, <3>2 DEF WorkerInv, ReadReceipt, chain
  <2>7. CASE Stop(w)
    BY <2>7 DEF Stop, WorkerInv, Idle, JournalInv, TypeOK
  <2> QED BY <2>1, <2>2, <2>3, <2>4, <2>5, <2>6, <2>7
<1>6. WorkersInv'
  BY <1>3, <1>5 DEF WorkersInv
<1> QED BY <1>1, <1>6, OnlyWorkers

\* open_operation writes the row of p only, and only when nothing it has done
\* under its present claim can still succeed.
LEMMA OpenKeeps ==
    ASSUME JournalInv, TypeOK', NEW w \in Workers, NEW p \in Ops,
           NEW r \in {None} \cup 0..MaxClaims, OpenOperation(w, p, r)
    PROVE  JournalInv'
<1>1. UNCHANGED <<account, attempts, chain>>
  BY DEF OpenOperation
<1>2. worker' = [worker EXCEPT ![w] = Claimed(p, operation'[p].claim)]
  BY DEF OpenOperation
<1>3. WorkersInv'
  <2>1. \A v \in Workers \ {w} : WorkerInv(v)'
    BY <1>1, <1>2, OthersKept DEF JournalInv, chain
  <2>2. worker'[w] = Claimed(p, operation'[p].claim)
    BY <1>2 DEF JournalInv, TypeOK
  <2>3. WorkerInv(w)'
    BY <2>2, ClaimedKept
  <2> QED BY <2>1, <2>3 DEF WorkersInv
<1>4. CASE UNCHANGED operation
  BY <1>1, <1>3, <1>4 DEF JournalInv, RowsInv, AttemptsInv, ChainInv, OutcomeIsTrue,
     AckIsForThisAttempt, NonceUnique, NoNonceGap, Spoken, Holds, NoDelayedPreparer, chain
<1>5. CASE operation' = [operation EXCEPT ![p] = NewClaim(p)]
           /\ operation[p].status \in {"absent", "failed", "reverted"}
  <2>1. operation[p].claim \in Nat
    BY DEF JournalInv, TypeOK, Operation
  <2>2. /\ operation'[p].status = "preparing" /\ operation'[p].claim = operation[p].claim + 1
        /\ operation'[p].attempt = None /\ ~operation'[p].acked
        /\ \A q \in Ops \ {p} : operation'[q] = operation[q]
    BY <1>5 DEF NewClaim, JournalInv, TypeOK
  <2>3. \A a \in attempts : a \in Attempt /\ a.op \in Ops /\ a.claim \in Nat
    BY DEF JournalInv, TypeOK, Attempt
  <2>4. \A a \in attempts : a.op = p => a.claim <= operation[p].claim /\ a \in reverted
    <3>1. SUFFICES ASSUME NEW a \in attempts, a.op = p
                   PROVE  a.claim <= operation[p].claim /\ a \in reverted
      OBVIOUS
    <3>2. a.claim <= operation[p].claim
      BY <3>1 DEF JournalInv, AttemptsInv
    <3>3. CASE a.claim < operation[p].claim
      BY <3>1, <3>2, <3>3 DEF JournalInv, AttemptsInv
    <3>4. CASE a.claim = operation[p].claim
      <4>1. operation[p].attempt = a
        BY <3>1, <3>4 DEF JournalInv, AttemptsInv
      <4>2. operation[p].status = "reverted"
        BY <1>5, <2>1, <2>3, <3>1, <3>4 DEF JournalInv, RowsInv
      <4> QED BY <3>2, <4>1, <4>2 DEF JournalInv, OutcomeIsTrue
    <3> QED BY <2>1, <2>3, <3>2, <3>3, <3>4
  <2>5. RowsInv'
    BY <1>1, <2>1, <2>2, <2>3, <2>4 DEF JournalInv, RowsInv
  <2>6. AttemptsInv'
    BY <1>1, <2>1, <2>2, <2>3, <2>4 DEF JournalInv, AttemptsInv, chain
  <2>7. OutcomeIsTrue'
    <3>1. \A a \in succeeded : a \in attempts /\ a \notin reverted
      BY DEF JournalInv, ChainInv
    <3> QED BY <1>1, <2>2, <2>3, <2>4, <3>1 DEF JournalInv, OutcomeIsTrue, chain
  <2>8. AckIsForThisAttempt'
    BY <1>1, <2>2 DEF JournalInv, AckIsForThisAttempt, chain
  <2> QED BY <1>1, <1>3, <2>5, <2>6, <2>7, <2>8
          DEF JournalInv, ChainInv, NonceUnique, NoNonceGap, Spoken, Holds, NoDelayedPreparer, chain
<1> QED BY <1>4, <1>5 DEF OpenOperation, Restartable

\* sign_operation adds one attempt, above every nonce reserved before it.
LEMMA SignKeeps ==
    ASSUME JournalInv, TypeOK', NEW w \in Workers, Sign(w)
    PROVE  JournalInv'
<1> PICK o \in Ops : o = worker[w].op
  BY DEF Sign, JournalInv, WorkersInv, WorkerInv
<1> PICK s \in Signers : s = SignerOf[o]
  BY ConstantsAssumption
<1> DEFINE n == NextNonce(s, worker[w].observed)
           a == [op |-> o, claim |-> worker[w].claim, nonce |-> n, gen |-> worker[w].gen]
<1>1. /\ worker[w].pc = "prepared"
      /\ operation[o].claim = worker[w].claim
      /\ operation[o].status = "preparing"
      /\ account[s].gen = worker[w].gen
      /\ attempts' = attempts \cup {a}
      /\ account' = [account EXCEPT ![s].next = n + 1]
      /\ operation' = [operation EXCEPT ![o].status = "signed", ![o].attempt = a]
      /\ worker' = [worker EXCEPT ![w] = Claimed(o, worker[w].claim)]
      /\ UNCHANGED chain
  BY DEF Sign, IsCurrent, AdmittedAt, Advance, Back
<1>2. /\ worker[w] \in Worker
      /\ account[s].next \in Nat /\ account[s].gen \in Nat
      /\ worker[w].observed \in Nat /\ worker[w].claim \in Nat /\ worker[w].gen \in Nat
      /\ n \in Nat /\ n >= account[s].next
  BY DEF JournalInv, TypeOK, Worker, Account, NextNonce
<1>3. /\ a.op = o /\ a.claim = operation[o].claim /\ a.nonce = n /\ a.gen = account[s].gen
      /\ a \in Attempt /\ a \in attempts'
  BY <1>1, <1>2 DEF Attempt
<1>4. /\ operation'[o].status = "signed" /\ operation'[o].attempt = a
      /\ operation'[o].claim = operation[o].claim /\ operation'[o].acked = operation[o].acked
      /\ \A q \in Ops \ {o} : operation'[q] = operation[q]
  BY <1>1 DEF JournalInv, TypeOK, Operation
<1>5. /\ account'[s].next = n + 1 /\ account'[s].gen = account[s].gen
      /\ \A t \in Signers \ {s} : account'[t] = account[t]
  BY <1>1 DEF JournalInv, TypeOK, Account
<1>6. \A b \in attempts : /\ b \in Attempt /\ b.op \in Ops /\ SignerOf[b.op] \in Signers
                          /\ b.claim \in Nat /\ b.nonce \in Nat /\ b.gen \in Nat
  BY ConstantsAssumption DEF JournalInv, TypeOK, Attempt
<1>7. \A b \in attempts : b.op = o => b.claim < operation[o].claim
  BY <1>1 DEF JournalInv, RowsInv
<1>8. \A b \in attempts : SignerOf[b.op] = s => b.nonce < n /\ b.gen <= a.gen
  BY <1>2, <1>3, <1>6 DEF JournalInv, AttemptsInv
<1>9. operation[o].claim \in Nat
  BY DEF JournalInv, TypeOK, Operation
<1> HIDE DEF a, n
<1>10. RowsInv'
  <2>1. SUFFICES ASSUME NEW q \in Ops
                 PROVE  /\ operation'[q].status \in {"signed", "confirmed", "reverted"} =>
                              /\ operation'[q].attempt \in attempts'
                              /\ operation'[q].attempt.op = q
                              /\ operation'[q].attempt.claim = operation'[q].claim
                        /\ operation'[q].status \in {"absent", "preparing", "failed"} =>
                              /\ operation'[q].attempt = None
                              /\ ~operation'[q].acked
                              /\ \A b \in attempts' : b.op = q => b.claim < operation'[q].claim
    BY DEF RowsInv
  <2>2. CASE q = o
    BY <1>3, <1>4, <2>2
  <2>3. CASE q # o
    <3>1. operation'[q] = operation[q]
      BY <1>4, <2>3
    <3>2. attempts' = attempts \cup {a} /\ a.op # q
      BY <1>1, <1>3, <2>3
    <3> QED BY <3>1, <3>2 DEF JournalInv, RowsInv
  <2> QED BY <2>2, <2>3
<1>11. AttemptsInv'
  <2>1. SUFFICES ASSUME NEW b \in attempts'
                 PROVE  /\ b.claim <= operation'[b.op].claim
                        /\ b.claim = operation'[b.op].claim => operation'[b.op].attempt = b
                        /\ b.claim < operation'[b.op].claim => b \in reverted'
                        /\ b.nonce < account'[SignerOf[b.op]].next
                        /\ b.gen <= account'[SignerOf[b.op]].gen
    BY DEF AttemptsInv
  <2>2. CASE b = a
    BY <1>2, <1>3, <1>4, <1>5, <1>9, <2>2
  <2>3. CASE b \in attempts
    <3>1. /\ b.claim <= operation[b.op].claim
          /\ b.claim = operation[b.op].claim => operation[b.op].attempt = b
          /\ b.claim < operation[b.op].claim => b \in reverted
          /\ b.nonce < account[SignerOf[b.op]].next
          /\ b.gen <= account[SignerOf[b.op]].gen
      BY <2>3 DEF JournalInv, AttemptsInv
    <3>2. /\ b.claim <= operation'[b.op].claim
          /\ b.claim = operation'[b.op].claim => operation'[b.op].attempt = b
          /\ b.claim < operation'[b.op].claim => b \in reverted'
      <4>1. reverted' = reverted
        BY <1>1 DEF chain
      <4>2. CASE b.op = o
        BY <1>4, <1>6, <1>7, <1>9, <2>3, <3>1, <4>1, <4>2
      <4>3. CASE b.op # o
        BY <1>4, <1>6, <2>3, <3>1, <4>1, <4>3
      <4> QED BY <4>2, <4>3
    <3>3. b.nonce < account'[SignerOf[b.op]].next /\ b.gen <= account'[SignerOf[b.op]].gen
      BY <1>2, <1>5, <1>6, <1>8, <2>3, <3>1
    <3> QED BY <3>2, <3>3
  <2> QED BY <1>1, <2>2, <2>3
<1>12. ChainInv'
  BY <1>1 DEF JournalInv, ChainInv, chain
<1>13. WorkersInv'
  <2>1. \A v \in Workers \ {w} : WorkerInv(v)'
    BY <1>1, OthersKept DEF JournalInv, chain
  <2>2. worker'[w] = Claimed(o, worker[w].claim)
    BY <1>1 DEF JournalInv, TypeOK
  <2> QED BY <2>1, <2>2, ClaimedKept DEF WorkersInv
<1>14. OutcomeIsTrue'
  <2>1. \A b \in succeeded : b.op # o
    BY <1>1 DEF JournalInv, OutcomeIsTrue
  <2>2. succeeded' = succeeded /\ reverted' = reverted
    BY <1>1 DEF chain
  <2>3. \A b \in succeeded : b.op \in Ops
    BY <1>6 DEF JournalInv, ChainInv
  <2>4. operation'[o].status = "signed"
    BY <1>4
  <2> QED BY <1>4, <2>1, <2>2, <2>3, <2>4 DEF JournalInv, OutcomeIsTrue
<1>15. AckIsForThisAttempt'
  <2>1. ~operation[o].acked
    BY <1>1 DEF JournalInv, RowsInv
  <2>2. accepted' = accepted
    BY <1>1 DEF chain
  <2>3. ~operation'[o].acked
    BY <1>4, <2>1
  <2> QED BY <1>4, <2>2, <2>3 DEF JournalInv, AckIsForThisAttempt
<1>16. NonceUnique'
  BY <1>1, <1>2, <1>3, <1>6, <1>8 DEF JournalInv, NonceUnique
<1>17. NoNonceGap'
  <2>1. SUFFICES ASSUME NEW t \in Signers, NEW k \in 0..(account'[t].next - 1)
                 PROVE  Spoken(t, k)'
    BY DEF NoNonceGap
  <2>1a. Spoken(t, k) => Spoken(t, k)'
    BY <1>1 DEF Spoken, Holds, chain
  <2>2. CASE t # s
    BY <1>5, <2>1a, <2>2 DEF JournalInv, NoNonceGap
  <2>3. CASE t = s /\ k < account[s].next
    BY <1>2, <2>1a, <2>3 DEF JournalInv, NoNonceGap
  <2>4. CASE t = s /\ k = n
    BY <1>3, <2>4 DEF Spoken, Holds
  <2>5. CASE t = s /\ k >= account[s].next /\ k < n
    <3>1. n = worker[w].observed
      BY <1>2, <2>5 DEF n, NextNonce
    <3>2. Covered(s, n)
      BY <1>1, <3>1 DEF JournalInv, WorkersInv, WorkerInv
    <3>3. k \in 0..(n - 1)
      BY <1>2, <2>5
    <3> QED BY <2>1a, <2>5, <3>2, <3>3 DEF Covered
  <2> QED BY <1>2, <1>5, <2>2, <2>3, <2>4, <2>5
<1>18. NoDelayedPreparer'
  BY <1>1, <1>2, <1>3, <1>6, <1>8 DEF JournalInv, NoDelayedPreparer
<1> QED BY <1>10, <1>11, <1>12, <1>13, <1>14, <1>15, <1>16, <1>17, <1>18 DEF JournalInv

\* The steps that write one row's status or acknowledgement.
LEMMA RowWritesKeep ==
    ASSUME JournalInv, TypeOK', NEW w \in Workers,
           FailPreparing(w) \/ RecordBroadcast(w) \/ RecordReceipt(w)
    PROVE  JournalInv'
<1>1. UNCHANGED <<account, attempts, chain>>
  BY DEF FailPreparing, RecordBroadcast, RecordReceipt
<1>2. PICK o \in Ops : o = worker[w].op
  BY DEF FailPreparing, RecordBroadcast, RecordReceipt, JournalInv, WorkersInv, WorkerInv
<1>3. WorkersInv'
  <2>1. \A t \in Signers : mined[t] <= mined'[t] /\ foreign[t] \subseteq foreign'[t]
    BY <1>1 DEF JournalInv, TypeOK, chain
  <2>2. CASE worker' = worker
    <3>1. ASSUME NEW v \in Workers
          PROVE  WorkerInv(v)'
      BY <1>1, <2>1, <2>2, WorkerKept DEF JournalInv, WorkersInv, chain
    <3> QED BY <3>1 DEF WorkersInv
  <2>3. CASE worker' = [worker EXCEPT ![w] = Claimed(o, worker[w].claim)]
    <3>1. \A v \in Workers \ {w} : WorkerInv(v)'
      BY <1>1, <2>3, OthersKept DEF JournalInv, chain
    <3>2. worker'[w] = Claimed(o, worker[w].claim)
      BY <2>3 DEF JournalInv, TypeOK
    <3> QED BY <3>1, <3>2, ClaimedKept DEF WorkersInv
  <2> QED BY <1>2, <2>2, <2>3 DEF FailPreparing, RecordBroadcast, RecordReceipt, Back
<1>4. ASSUME RowsInv', AttemptsInv', OutcomeIsTrue', AckIsForThisAttempt'
      PROVE  JournalInv'
  BY <1>1, <1>3, <1>4 DEF JournalInv, ChainInv, NonceUnique, NoNonceGap, Spoken, Holds, NoDelayedPreparer, chain
<1>5. /\ succeeded' = succeeded /\ reverted' = reverted /\ accepted' = accepted
      /\ attempts' = attempts /\ account' = account
  BY <1>1 DEF chain
<1>6. \A a \in succeeded : a.op \in Ops
  BY DEF JournalInv, TypeOK, Attempt
<1>7. CASE UNCHANGED operation
  BY <1>4, <1>5, <1>7
     DEF JournalInv, RowsInv, AttemptsInv, OutcomeIsTrue, AckIsForThisAttempt
<1>8. CASE FailPreparing(w)
  <2>1. operation[o].status = "preparing" /\ operation' = [operation EXCEPT ![o].status = "failed"]
    BY <1>2, <1>8 DEF FailPreparing
  <2>2. /\ operation'[o].status = "failed" /\ operation'[o].claim = operation[o].claim
        /\ operation'[o].attempt = operation[o].attempt /\ operation'[o].acked = operation[o].acked
        /\ \A q \in Ops \ {o} : operation'[q] = operation[q]
    BY <2>1 DEF JournalInv, TypeOK, Operation
  <2>3. RowsInv'
    BY <1>5, <2>1, <2>2 DEF JournalInv, RowsInv
  <2>4. AttemptsInv'
    BY <1>5, <2>2 DEF JournalInv, AttemptsInv, TypeOK, Attempt
  <2>5. OutcomeIsTrue'
    BY <1>5, <1>6, <2>1, <2>2 DEF JournalInv, OutcomeIsTrue
  <2>6. AckIsForThisAttempt'
    BY <1>5, <2>2 DEF JournalInv, AckIsForThisAttempt
  <2> QED BY <1>4, <2>3, <2>4, <2>5, <2>6
<1>9. CASE RecordBroadcast(w) /\ StillSigned(w) /\ worker[w].result = "acknowledged"
           /\ operation' = [operation EXCEPT ![o].acked = TRUE]
  <2>1. operation[o].status = "signed" /\ operation[o].attempt \in accepted
    BY <1>2, <1>9 DEF RecordBroadcast, StillSigned, JournalInv, WorkersInv, WorkerInv
  <2>2. /\ operation'[o].status = operation[o].status /\ operation'[o].claim = operation[o].claim
        /\ operation'[o].attempt = operation[o].attempt
        /\ \A q \in Ops \ {o} : operation'[q] = operation[q]
    BY <1>9 DEF JournalInv, TypeOK, Operation
  <2>3. RowsInv'
    BY <1>5, <2>1, <2>2 DEF JournalInv, RowsInv
  <2>4. AttemptsInv'
    BY <1>5, <2>2 DEF JournalInv, AttemptsInv, TypeOK, Attempt
  <2>5. OutcomeIsTrue'
    BY <1>5, <1>6, <2>1, <2>2 DEF JournalInv, OutcomeIsTrue
  <2>6. AckIsForThisAttempt'
    BY <1>5, <2>1, <2>2 DEF JournalInv, AckIsForThisAttempt
  <2> QED BY <1>4, <2>3, <2>4, <2>5, <2>6
<1>10. CASE RecordReceipt(w) /\ StillSigned(w)
           /\ operation' = [operation EXCEPT ![o].status = worker[w].result]
  <2>1. /\ operation[o].status = "signed" /\ operation[o].attempt = worker[w].attempt
        /\ \/ worker[w].result = "confirmed" /\ worker[w].attempt \in succeeded
           \/ worker[w].result = "reverted" /\ worker[w].attempt \in reverted
    BY <1>2, <1>10 DEF RecordReceipt, StillSigned, JournalInv, WorkersInv, WorkerInv
  <2>2. /\ operation'[o].status = worker[w].result /\ operation'[o].claim = operation[o].claim
        /\ operation'[o].attempt = operation[o].attempt /\ operation'[o].acked = operation[o].acked
        /\ \A q \in Ops \ {o} : operation'[q] = operation[q]
    BY <1>10 DEF JournalInv, TypeOK, Operation
  <2>3. RowsInv'
    BY <1>5, <2>1, <2>2 DEF JournalInv, RowsInv
  <2>4. AttemptsInv'
    BY <1>5, <2>2 DEF JournalInv, AttemptsInv, TypeOK, Attempt
  <2>5. OutcomeIsTrue'
    <3>1. \A a \in succeeded : a.op = o => a = operation[o].attempt
      <4>1. SUFFICES ASSUME NEW a \in succeeded, a.op = o
                     PROVE  a = operation[o].attempt
        OBVIOUS
      <4>2. a \in attempts /\ a \notin reverted
        BY DEF JournalInv, ChainInv
      <4>3. a.claim \in Nat /\ operation[o].claim \in Nat
        BY <4>2 DEF JournalInv, TypeOK, Attempt, Operation
      <4> QED BY <4>1, <4>2, <4>3 DEF JournalInv, AttemptsInv
    <3>2. succeeded \cap reverted = {}
      BY DEF JournalInv, ChainInv
    <3> QED BY <1>5, <1>6, <2>1, <2>2, <3>1, <3>2 DEF JournalInv, OutcomeIsTrue
  <2>6. AckIsForThisAttempt'
    BY <1>5, <2>2 DEF JournalInv, AckIsForThisAttempt
  <2> QED BY <1>4, <2>3, <2>4, <2>5, <2>6
<1> QED BY <1>2, <1>7, <1>8, <1>9, <1>10 DEF RecordBroadcast, RecordReceipt

\* A send only hands saved bytes to a node.
LEMMA DeliverKeeps ==
    ASSUME JournalInv, TypeOK', NEW w \in Workers,
           NEW answer \in {"acknowledged", "error"}, Deliver(w, answer)
    PROVE  JournalInv'
<1>1. /\ UNCHANGED <<operation, account, attempts, mined, foreign, succeeded, reverted>>
      /\ pool' = pool \cup {worker[w].attempt}
      /\ accepted' = accepted \cup {worker[w].attempt}
      /\ worker' = [worker EXCEPT ![w].pc = "sent", ![w].result = answer]
      /\ worker[w].pc = "sending"
  BY DEF Deliver
<1>2. worker[w] \in Worker /\ worker[w].op \in Ops /\ worker[w].attempt \in attempts
  BY <1>1 DEF JournalInv, TypeOK, WorkersInv, WorkerInv
<1>3. ChainInv'
  BY <1>1, <1>2 DEF JournalInv, ChainInv
<1>4. WorkersInv'
  <2>1. worker' = [worker EXCEPT ![w] = worker'[w]]
    BY <1>1 DEF JournalInv, TypeOK
  <2>2. \A v \in Workers \ {w} : WorkerInv(v)'
    BY <1>1, <2>1, OthersKept DEF JournalInv
  <2>3. /\ worker'[w].pc = "sent" /\ worker'[w].op = worker[w].op
        /\ worker'[w].attempt = worker[w].attempt /\ worker'[w].result = answer
    <3>1. worker'[w] = [worker[w] EXCEPT !.pc = "sent", !.result = answer]
      BY <1>1 DEF JournalInv, TypeOK
    <3> QED BY <1>2, <3>1 DEF Worker
  <2>4. WorkerInv(w)'
    BY <1>1, <1>2, <2>3 DEF WorkerInv
  <2> QED BY <2>2, <2>4 DEF WorkersInv
<1>5. AckIsForThisAttempt'
  BY <1>1 DEF JournalInv, AckIsForThisAttempt
<1>6. NoNonceGap'
  BY <1>1 DEF JournalInv, NoNonceGap, Spoken, Holds
<1> QED BY <1>1, <1>3, <1>4, <1>5, <1>6
        DEF JournalInv, RowsInv, AttemptsInv, OutcomeIsTrue, NonceUnique, NoDelayedPreparer

\* Executing a pending transaction can only be the first success of its
\* operation: an attempt that was replaced is dead, and so has no nonce left.
LEMMA ExecuteKeeps ==
    ASSUME JournalInv, TypeOK', NEW a \in pool, NEW ok \in BOOLEAN, Execute(a, ok)
    PROVE  JournalInv'
<1> DEFINE s == SignerOf[a.op]
<1>1. /\ UNCHANGED <<operation, account, attempts, worker, foreign, accepted>>
      /\ a.nonce = mined[s] /\ mined' = [mined EXCEPT ![s] = @ + 1]
      /\ pool' = pool \ {a}
      /\ \/ succeeded' = succeeded \cup {a} /\ reverted' = reverted
         \/ succeeded' = succeeded /\ reverted' = reverted \cup {a}
  BY DEF Execute
<1>2. a \in attempts /\ a.op \in Ops /\ s \in Signers /\ a.nonce \in Nat /\ a.claim \in Nat
  BY ConstantsAssumption DEF JournalInv, ChainInv, TypeOK, Attempt
<1>3. a \notin succeeded /\ a \notin reverted
  BY <1>1, <1>2 DEF JournalInv, ChainInv
<1>4. operation[a.op].attempt = a /\ operation[a.op].status = "signed"
  <2>1. operation[a.op].claim \in Nat /\ operation[a.op].status \in Statuses
    BY <1>2 DEF JournalInv, TypeOK, Operation
  <2>2. a.claim = operation[a.op].claim /\ operation[a.op].attempt = a
    BY <1>2, <1>3, <2>1 DEF JournalInv, AttemptsInv
  <2>3. operation[a.op].status \in {"signed", "confirmed", "reverted"}
    BY <1>2, <2>1, <2>2 DEF JournalInv, RowsInv, Statuses
  <2> QED BY <1>2, <1>3, <2>2, <2>3 DEF JournalInv, OutcomeIsTrue
<1>5. /\ mined'[s] = mined[s] + 1 /\ mined[s] \in Nat
      /\ \A t \in Signers : mined[t] \in Nat /\ mined'[t] \in Nat /\ mined[t] <= mined'[t]
  BY <1>1, <1>2 DEF JournalInv, TypeOK
<1>6. ChainInv'
  <2>1. \A b \in succeeded \cup reverted :
            SignerOf[b.op] \in Signers /\ b.nonce \in Nat /\ b.nonce < mined[SignerOf[b.op]]
    BY ConstantsAssumption DEF JournalInv, ChainInv, TypeOK, Attempt
  <2>2. \A b \in succeeded' \cup reverted' : b.nonce < mined'[SignerOf[b.op]]
    BY <1>1, <1>2, <1>5, <2>1
  <2> QED BY <1>1, <1>2, <1>3, <2>2 DEF JournalInv, ChainInv
<1>7. AttemptsInv'
  BY <1>1 DEF JournalInv, AttemptsInv
<1>8. WorkersInv'
  <2>1. ASSUME NEW v \in Workers
        PROVE  WorkerInv(v)'
    BY <1>1, <1>5, WorkerKept DEF JournalInv, WorkersInv
  <2> QED BY <2>1 DEF WorkersInv
<1>9. OutcomeIsTrue'
  BY <1>1, <1>4 DEF JournalInv, OutcomeIsTrue
<1>10. NoNonceGap'
  <2>1. SUFFICES ASSUME NEW t \in Signers, NEW k \in 0..(account[t].next - 1)
                 PROVE  Spoken(t, k)'
    BY <1>1 DEF NoNonceGap
  <2>2. k \in Nat /\ Spoken(t, k)
    BY DEF JournalInv, NoNonceGap
  <2> QED BY <1>1, <1>5, <2>2, SpokenGrows DEF JournalInv
<1> QED BY <1>1, <1>6, <1>7, <1>8, <1>9, <1>10
        DEF JournalInv, RowsInv, AckIsForThisAttempt, NonceUnique, NoDelayedPreparer

\* Eviction, foreign transactions and admission changes.
LEMMA OutsideKeeps ==
    ASSUME JournalInv, TypeOK',
           \/ \E a \in pool : Evict(a)
           \/ \E s \in Signers :
                 ForeignSend(s) \/ ForeignExecute(s) \/ CloseAdmission(s) \/ Admit(s)
    PROVE  JournalInv'
<1>1. /\ UNCHANGED <<operation, attempts, worker, accepted, succeeded, reverted>>
      /\ pool' \subseteq pool
  BY DEF Evict, ForeignSend, ForeignExecute, CloseAdmission, Admit, chain
<1> DEFINE Grown ==
        \A t \in Signers : /\ mined[t] \in Nat /\ mined'[t] \in Nat /\ mined[t] <= mined'[t]
                         /\ account[t].next \in Nat /\ account'[t].next = account[t].next
                         /\ account[t].gen \in Nat /\ account'[t].gen \in Nat
                         /\ account[t].gen <= account'[t].gen
<1>2. Grown
  <2>1. /\ \A t \in Signers : account[t] \in Account /\ mined[t] \in Nat
        /\ account \in [Signers -> Account] /\ mined \in [Signers -> Nat]
    BY DEF JournalInv, TypeOK
  <2>2. CASE \E a \in pool : Evict(a)
    BY <2>1, <2>2 DEF Evict, Account
  <2>3. ASSUME NEW s \in Signers, ForeignSend(s) \/ ForeignExecute(s)
        PROVE  Grown
    BY <2>1, <2>3 DEF ForeignSend, ForeignExecute, Account
  <2>4. ASSUME NEW s \in Signers, CloseAdmission(s) \/ Admit(s)
        PROVE  Grown
    BY <2>1, <2>4 DEF CloseAdmission, Admit, chain, Account
  <2> QED BY <2>2, <2>3, <2>4
<1>2a. \A t \in Signers : /\ foreign[t] \subseteq foreign'[t]
                          /\ t \notin ForeignUse => foreign'[t] = foreign[t]
  <2>1. foreign \in [Signers -> SUBSET Nat]
    BY DEF JournalInv, TypeOK
  <2>2. ASSUME NEW s \in Signers, ForeignSend(s), NEW t \in Signers
        PROVE  /\ foreign[t] \subseteq foreign'[t]
               /\ t \notin ForeignUse => foreign'[t] = foreign[t]
    <3>1. PICK n \in mined[s]..(MaxNonce - 1) : foreign' = [foreign EXCEPT ![s] = @ \cup {n}]
      BY <2>2 DEF ForeignSend
    <3>2. s \in ForeignUse
      BY <2>2 DEF ForeignSend
    <3>3. CASE t = s
      BY <2>1, <3>1, <3>2, <3>3
    <3>4. CASE t # s
      BY <2>1, <3>1, <3>4
    <3> QED BY <3>3, <3>4
  <2>3. CASE foreign' = foreign
    BY <2>3
  <2> QED BY <2>2, <2>3 DEF Evict, ForeignExecute, CloseAdmission, Admit, chain
<1>3. \A a \in attempts : a.op \in Ops /\ SignerOf[a.op] \in Signers /\ a.nonce \in Nat /\ a.gen \in Nat
  BY ConstantsAssumption DEF JournalInv, TypeOK, Attempt
<1>4. ChainInv'
  <2>1. \A b \in succeeded \cup reverted : b \in attempts /\ b.nonce < mined[SignerOf[b.op]]
    BY DEF JournalInv, ChainInv
  <2>2. \A b \in succeeded \cup reverted : b.nonce < mined'[SignerOf[b.op]]
    BY <1>2, <1>3, <2>1
  <2>3. \A t \in Signers \ ForeignUse : foreign'[t] = {}
    BY <1>2a DEF JournalInv, ChainInv
  <2> QED BY <1>1, <2>2, <2>3 DEF JournalInv, ChainInv
<1>5. AttemptsInv'
  BY <1>1, <1>2, <1>3 DEF JournalInv, AttemptsInv
<1>6. WorkersInv'
  <2>1. ASSUME NEW v \in Workers
        PROVE  WorkerInv(v)'
    <3>1. TypeOK /\ WorkerInv(v) /\ worker'[v] = worker[v]
      BY <1>1 DEF JournalInv, WorkersInv
    <3>2. \A t \in Signers : mined[t] <= mined'[t] /\ foreign[t] \subseteq foreign'[t]
      BY <1>2, <1>2a
    <3> QED BY <1>1, <3>1, <3>2, WorkerKept
  <2> QED BY <2>1 DEF WorkersInv
<1>7. NoNonceGap'
  <2>1. SUFFICES ASSUME NEW t \in Signers, NEW k \in 0..(account'[t].next - 1)
                 PROVE  Spoken(t, k)'
    BY DEF NoNonceGap
  <2>2. k \in Nat /\ Spoken(t, k)
    BY <1>2 DEF JournalInv, NoNonceGap
  <2> QED BY <1>1, <1>2, <1>2a, <2>2, SpokenGrows DEF JournalInv
<1> QED BY <1>1, <1>4, <1>5, <1>6, <1>7
        DEF JournalInv, RowsInv, OutcomeIsTrue, AckIsForThisAttempt, NonceUnique, NoDelayedPreparer

-----------------------------------------------------------------------------
LEMMA InitKeeps == Init => JournalInv
<1> SUFFICES ASSUME Init PROVE JournalInv
  OBVIOUS
<1> USE DEF Init
<1>1. TypeOK
  <2>1. worker \in [Workers -> Worker]
    BY IdleType
  <2>2. operation \in [Ops -> Operation]
    BY DEF Operation, Statuses, OptionalAttempt
  <2>3. account \in [Signers -> Account]
    BY DEF Account
  <2> QED BY <2>1, <2>2, <2>3 DEF TypeOK
<1>2. RowsInv /\ AttemptsInv /\ ChainInv /\ OutcomeIsTrue /\ AckIsForThisAttempt
  BY DEF RowsInv, AttemptsInv, ChainInv, OutcomeIsTrue, AckIsForThisAttempt
<1>3. WorkersInv
  BY DEF WorkersInv, WorkerInv, Idle
<1>4. NonceUnique /\ NoNonceGap /\ NoDelayedPreparer
  BY DEF NonceUnique, NoNonceGap, Spoken, Holds, NoDelayedPreparer
<1> QED BY <1>1, <1>2, <1>3, <1>4 DEF JournalInv

LEMMA StepKeeps == JournalInv /\ [Next]_vars => JournalInv'
<1> SUFFICES ASSUME JournalInv, [Next]_vars PROVE JournalInv'
  OBVIOUS
<1>0. TypeOK /\ WorkersInv /\ ChainInv
  BY DEF JournalInv
<1>1. ASSUME NEW w \in Workers, Call(w)
      PROVE  JournalInv'
  <2>1. TypeOK'
    BY <1>0, <1>1, CallType
  <2>2. CASE \E o \in Ops, r \in {None} \cup 0..MaxClaims : OpenOperation(w, o, r)
    BY <2>1, <2>2, OpenKeeps
  <2>3. CASE \/ PrepareRead(w) \/ PrepareObserve(w) \/ SignRefused(w) \/ BroadcastAdmit(w)
             \/ SendFails(w) \/ ReadReceipt(w) \/ Stop(w)
    BY <2>1, <2>3, ReadOnlyCalls
  <2>4. CASE Sign(w)
    BY <2>1, <2>4, SignKeeps
  <2>5. CASE FailPreparing(w) \/ RecordBroadcast(w) \/ RecordReceipt(w)
    BY <2>1, <2>5, RowWritesKeep
  <2>6. CASE \E answer \in {"acknowledged", "error"} : Deliver(w, answer)
    BY <2>1, <2>6, DeliverKeeps
  <2> QED BY <1>1, <2>2, <2>3, <2>4, <2>5, <2>6 DEF Call
<1>2. CASE \E s \in Signers : CloseAdmission(s) \/ Admit(s)
  <2>1. TypeOK'
    BY <1>0, <1>2, OutsideType
  <2> QED BY <1>2, <2>1, OutsideKeeps
<1>3. CASE Chain
  <2>1. TypeOK'
    BY <1>0, <1>3, OutsideType
  <2> QED BY <1>3, <2>1, OutsideKeeps, ExecuteKeeps DEF Chain
<1>4. CASE UNCHANGED vars
  <2>1. NoNonceGap'
    BY <1>4 DEF vars, chain, JournalInv, NoNonceGap, Spoken, Holds
  <2>2. WorkersInv'
    BY <1>4 DEF vars, chain, JournalInv, WorkersInv, WorkerInv, Covered, Spoken, Holds
  <2> QED BY <1>4, <2>1, <2>2 DEF vars, chain, JournalInv, TypeOK, RowsInv, AttemptsInv,
          ChainInv, OutcomeIsTrue, AckIsForThisAttempt, NonceUnique, NoDelayedPreparer
<1> QED BY <1>1, <1>2, <1>3, <1>4 DEF Next

\* The inductive invariant holds in every reachable state.
THEOREM JournalInvariant == Spec => []JournalInv
BY InitKeeps, StepKeeps, PTL DEF Spec

\* Rows, callers and chain keep their types.
THEOREM TypeCorrect == Spec => []TypeOK
<1>1. JournalInv => TypeOK
  BY DEF JournalInv
<1> QED BY <1>1, JournalInvariant, PTL

\* The chain carries out every operation at most once: two successes of one
\* operation would both be its current attempt.
THEOREM AtMostOnce == Spec => []AppliedOnce
<1>1. ASSUME JournalInv, NEW a \in succeeded
      PROVE  a = operation[a.op].attempt
  <2>1. a \in attempts /\ a \notin reverted
    BY <1>1 DEF JournalInv, ChainInv
  <2>2. a.claim \in Nat /\ operation[a.op].claim \in Nat
    BY <1>1, <2>1 DEF JournalInv, TypeOK, Attempt, Operation
  <2> QED BY <1>1, <2>1, <2>2 DEF JournalInv, AttemptsInv
<1>2. JournalInv => AppliedOnce
  BY <1>1 DEF AppliedOnce
<1> QED BY <1>2, JournalInvariant, PTL

\* An attempt another claim has replaced can never be carried out.
THEOREM ReplacedIsDead == Spec => []ReplacedAttemptIsDead
<1>1. ASSUME JournalInv, NEW a \in attempts, operation[a.op].attempt # a
      PROVE  a \in reverted
  <2>1. a.claim \in Nat /\ operation[a.op].claim \in Nat
    BY <1>1 DEF JournalInv, TypeOK, Attempt, Operation
  <2> QED BY <1>1, <2>1 DEF JournalInv, AttemptsInv
<1>2. JournalInv => ReplacedAttemptIsDead
  BY <1>1 DEF ReplacedAttemptIsDead
<1> QED BY <1>2, JournalInvariant, PTL

\* Racing preparers never reserve one nonce twice, whatever the provider told
\* them (sign_operation).
THEOREM NoncesAreUnique == Spec => []NonceUnique
<1>1. JournalInv => NonceUnique
  BY DEF JournalInv
<1> QED BY <1>1, JournalInvariant, PTL

\* No reservation leaves a hole of its own below a signer's counter: with a key
\* the platform uses alone, no transaction of the account waits for one that was
\* neither executed nor saved; with a shared key, only for one another program
\* had sent when the provider counted it.
THEOREM NoncesAreGapless == Spec => []NoNonceGap
<1>1. JournalInv => NoNonceGap
  BY DEF JournalInv
<1> QED BY <1>1, JournalInvariant, PTL

\* A preparation from before a close and reopen of the signer is never signed
\* after one from after it.
THEOREM NoncesFollowGenerations == Spec => []NoDelayedPreparer
<1>1. JournalInv => NoDelayedPreparer
  BY DEF JournalInv
<1> QED BY <1>1, JournalInvariant, PTL

\* The attempt an operation points at is of the claim the operation is at: a
\* worker of an earlier claim has left nothing there (_current).
THEOREM ClaimsFence == Spec => []ClaimFencesWorkers
<1>1. ASSUME JournalInv, NEW o \in Ops, operation[o].attempt # None
      PROVE  operation[o].attempt.claim = operation[o].claim
  <2>1. operation[o].status \in Statuses
    BY <1>1 DEF JournalInv, TypeOK, Operation
  <2>2. operation[o].status \notin {"absent", "preparing", "failed"}
    BY <1>1 DEF JournalInv, RowsInv
  <2> QED BY <1>1, <2>1, <2>2 DEF JournalInv, RowsInv, Statuses
<1>2. JournalInv => ClaimFencesWorkers
  BY <1>1 DEF ClaimFencesWorkers
<1> QED BY <1>2, JournalInvariant, PTL

\* Recorded outcomes and acknowledgements are the chain's, of this attempt.
THEOREM RecordsAreTrue == Spec => []RecordedIsTrue
<1>1. JournalInv => RecordedIsTrue
  BY DEF JournalInv, RecordedIsTrue
<1> QED BY <1>1, JournalInvariant, PTL

-----------------------------------------------------------------------------
(* Closure is a drain barrier.                                             *)

THEOREM ClosureIsADrain == Spec => ClosureDrains
<1> DEFINE Drains(s) ==
        account[s].state = "closed" =>
          /\ Sending(s)' \subseteq Sending(s)
          /\ \A a \in attempts' \ attempts : SignerOf[a.op] # s
          /\ Sending(s) = {} => \A a \in pool' \ pool : SignerOf[a.op] # s
<1>1. ASSUME JournalInv, [Next]_vars, NEW s \in Signers, account[s].state = "closed"
      PROVE  Drains(s)
  <2>1. ASSUME NEW w \in Workers, Call(w)
        PROVE  Drains(s)
    <3>1. \A v \in Workers \ {w} : worker'[v] = worker[v]
      BY <1>1, <2>1 DEF JournalInv, TypeOK, Call, OpenOperation, PrepareRead, PrepareObserve, Sign,
         SignRefused, FailPreparing, BroadcastAdmit, Deliver, SendFails, RecordBroadcast,
         ReadReceipt, RecordReceipt, Stop, Back
    <3>2. CASE BroadcastAdmit(w)
      <4>1. SignerOf[worker[w].op] # s
        BY <1>1, <3>2 DEF BroadcastAdmit, Admitted
      <4>2. worker'[w].op = worker[w].op
        BY <1>1, <3>2 DEF BroadcastAdmit, JournalInv, TypeOK, Worker
      <4> QED BY <3>1, <3>2, <4>1, <4>2 DEF Sending, BroadcastAdmit, chain
    <3>3. CASE Sign(w)
      <4>1. SignerOf[worker[w].op] # s
        BY <1>1, <3>3 DEF Sign, AdmittedAt, Admitted
      <4>2. worker'[w].pc = "claimed"
        BY <1>1, <3>3 DEF Sign, Back, Claimed, Idle, JournalInv, TypeOK
      <4>3. pool' = pool
        BY <3>3 DEF Sign, chain
      <4>4. \A a \in attempts' \ attempts : a.op = worker[w].op
        BY <3>3 DEF Sign
      <4> QED BY <3>1, <4>1, <4>2, <4>3, <4>4 DEF Sending
    <3>4. CASE \E r \in {"acknowledged", "error"} : Deliver(w, r)
      <4>1. worker'[w].pc = "sent" /\ worker[w].pc = "sending"
        BY <1>1, <3>4 DEF Deliver, JournalInv, TypeOK, Worker
      <4>2. pool' = pool \cup {worker[w].attempt} /\ attempts' = attempts
        BY <3>4 DEF Deliver
      <4>3. worker[w].attempt.op = worker[w].op
        BY <1>1, <4>1 DEF JournalInv, WorkersInv, WorkerInv
      <4> QED BY <3>1, <4>1, <4>2, <4>3 DEF Sending
    <3>5. CASE \/ \E o \in Ops, r \in {None} \cup 0..MaxClaims : OpenOperation(w, o, r)
               \/ PrepareRead(w) \/ PrepareObserve(w) \/ SignRefused(w) \/ FailPreparing(w)
               \/ SendFails(w) \/ RecordBroadcast(w) \/ ReadReceipt(w) \/ RecordReceipt(w)
               \/ Stop(w)
      <4>1. attempts' = attempts /\ pool' = pool
        BY <3>5 DEF OpenOperation, PrepareRead, PrepareObserve, SignRefused, FailPreparing,
           SendFails, RecordBroadcast, ReadReceipt, RecordReceipt, Stop, chain
      <4>2. worker'[w].pc # "sending"
        <5>1. worker \in [Workers -> Worker]
          BY <1>1 DEF JournalInv, TypeOK
        <5>2. CASE \/ \E o \in Ops, r \in {None} \cup 0..MaxClaims : OpenOperation(w, o, r)
                   \/ SignRefused(w) \/ RecordBroadcast(w) \/ RecordReceipt(w) \/ Stop(w)
          <6>1. worker'[w] = Idle \/ \E p, c : worker'[w] = Claimed(p, c)
            BY <5>1, <5>2 DEF OpenOperation, SignRefused, RecordBroadcast, RecordReceipt, Stop, Back
          <6>2. Idle.pc = "idle" /\ \A p, c : Claimed(p, c).pc = "claimed"
            BY DEF Claimed, Idle
          <6> QED BY <6>1, <6>2
        <5>3. CASE PrepareRead(w)
          BY <5>1, <5>3 DEF PrepareRead, Worker
        <5>4. CASE PrepareObserve(w)
          BY <5>1, <5>4 DEF PrepareObserve, Worker
        <5>5. CASE FailPreparing(w)
          BY <5>5 DEF FailPreparing
        <5>6. CASE SendFails(w)
          BY <5>1, <5>6 DEF SendFails, Worker
        <5>7. CASE ReadReceipt(w)
          BY <5>1, <5>7 DEF ReadReceipt, Worker
        <5> QED BY <3>5, <5>2, <5>3, <5>4, <5>5, <5>6, <5>7
      <4> QED BY <3>1, <4>1, <4>2 DEF Sending
    <3> QED BY <2>1, <3>2, <3>3, <3>4, <3>5 DEF Call
  <2>2. CASE \/ \E t \in Signers : CloseAdmission(t) \/ Admit(t)
             \/ Chain
    <3>1. worker' = worker /\ attempts' = attempts /\ pool' \subseteq pool
      BY <2>2 DEF CloseAdmission, Admit, Chain, Evict, Execute, ForeignSend, ForeignExecute,
         chain
    <3> QED BY <3>1 DEF Sending
  <2>3. CASE UNCHANGED vars
    BY <2>3 DEF vars, chain, Sending
  <2> QED BY <1>1, <2>1, <2>2, <2>3 DEF Next
<1>2. JournalInv /\ [Next]_vars => [\A s \in Signers : Drains(s)]_vars
  BY <1>1
<1> QED BY <1>2, JournalInvariant, PTL DEF Spec, ClosureDrains

-----------------------------------------------------------------------------
(* The journal implements OnceOnly.                                        *)

\* A step that changes the status of one row and no receipt is a move of that
\* operation.
LEMMA RowMoves ==
    ASSUME TypeOK, NEW o \in Ops, succeeded' = succeeded,
           \A q \in Ops \ {o} : operation'[q].status = operation[q].status
    PROVE  /\ Stage' = [Stage EXCEPT ![o] = StageOf(operation'[o].status)]
           /\ Applied' = Applied
<1>1. Stage' = [q \in Ops |-> StageOf(operation'[q].status)]
  BY DEF Stage
<1>2. \A q \in Ops \ {o} : StageOf(operation'[q].status) = StageOf(operation[q].status)
  OBVIOUS
<1> QED BY <1>1, <1>2 DEF Stage, Applied

LEMMA RowStutters ==
    ASSUME succeeded' = succeeded,
           \A q \in Ops : operation'[q].status = operation[q].status
    PROVE  Promise!vars' = Promise!vars
BY DEF Promise!vars, Stage, Applied

LEMMA StepRefines == JournalInv /\ JournalInv' /\ [Next]_vars => [Promise!Next]_Promise!vars
<1> SUFFICES ASSUME JournalInv, JournalInv', [Next]_vars
             PROVE  [Promise!Next]_Promise!vars
  OBVIOUS
<1>0. TypeOK
  BY DEF JournalInv
<1>1. ASSUME NEW w \in Workers, NEW o \in Ops, NEW r, OpenOperation(w, o, r)
      PROVE  [Promise!Next]_Promise!vars
  <2>1. succeeded' = succeeded
    BY <1>1 DEF OpenOperation, chain
  <2>2. CASE UNCHANGED operation
    BY <2>1, <2>2, RowStutters
  <2>3. CASE operation' = [operation EXCEPT ![o] = NewClaim(o)]
             /\ operation[o].status \in {"absent", "failed", "reverted"}
    <3>1. /\ operation'[o].status = "preparing"
          /\ \A q \in Ops \ {o} : operation'[q].status = operation[q].status
      BY <1>0, <2>3 DEF TypeOK, NewClaim
    <3>2. Stage[o] \in {"absent", "undone"}
      BY <2>3 DEF Stage, StageOf
    <3>3. StageOf("preparing") = "open"
      BY DEF StageOf
    <3> QED BY <1>0, <2>1, <3>1, <3>2, <3>3, RowMoves DEF Promise!Next, Promise!Open, Promise!Move
  <2> QED BY <1>1, <2>2, <2>3 DEF OpenOperation, Restartable
<1>2. ASSUME NEW w \in Workers, Sign(w)
      PROVE  [Promise!Next]_Promise!vars
  <2> PICK o \in Ops : o = worker[w].op
    BY <1>2 DEF Sign, JournalInv, WorkersInv, WorkerInv
  <2>1. /\ succeeded' = succeeded /\ operation[o].status = "preparing"
        /\ operation'[o].status = "signed"
        /\ \A q \in Ops \ {o} : operation'[q].status = operation[q].status
    BY <1>0, <1>2 DEF Sign, TypeOK, Operation, chain
  <2>2. Stage[o] = "open" /\ StageOf("signed") = "dispatched"
    BY <2>1 DEF Stage, StageOf
  <2> QED BY <1>0, <2>1, <2>2, RowMoves DEF Promise!Next, Promise!Dispatch, Promise!Move
<1>3. ASSUME NEW w \in Workers, FailPreparing(w)
      PROVE  [Promise!Next]_Promise!vars
  <2> PICK o \in Ops : o = worker[w].op
    BY <1>3 DEF FailPreparing, JournalInv, WorkersInv, WorkerInv
  <2>1. /\ succeeded' = succeeded /\ operation[o].status = "preparing"
        /\ operation'[o].status = "failed"
        /\ \A q \in Ops \ {o} : operation'[q].status = operation[q].status
    BY <1>0, <1>3 DEF FailPreparing, TypeOK, Operation, chain
  <2>2. Stage[o] = "open" /\ StageOf("failed") = "undone"
    BY <2>1 DEF Stage, StageOf
  <2> QED BY <1>0, <2>1, <2>2, RowMoves DEF Promise!Next, Promise!GiveUp, Promise!Move
<1>4. ASSUME NEW w \in Workers, RecordReceipt(w)
      PROVE  [Promise!Next]_Promise!vars
  <2> PICK o \in Ops : o = worker[w].op
    BY <1>4 DEF RecordReceipt, JournalInv, WorkersInv, WorkerInv
  <2>1. succeeded' = succeeded
    BY <1>4 DEF RecordReceipt, chain
  <2>2. CASE UNCHANGED operation
    BY <2>1, <2>2, RowStutters
  <2>3. CASE StillSigned(w) /\ operation' = [operation EXCEPT ![o].status = worker[w].result]
    <3>1. /\ operation[o].status = "signed" /\ operation[o].attempt = worker[w].attempt
          /\ operation'[o].status = worker[w].result
          /\ \A q \in Ops \ {o} : operation'[q].status = operation[q].status
      BY <1>0, <2>3 DEF StillSigned, TypeOK, Operation
    <3>2. Stage[o] = "dispatched" /\ StageOf("confirmed") = "done" /\ StageOf("reverted") = "undone"
      BY <3>1 DEF Stage, StageOf
    <3>3. CASE worker[w].result = "confirmed" /\ worker[w].attempt \in succeeded
      <4>1. worker[w].attempt.op = o
        BY <3>1 DEF JournalInv, RowsInv
      <4>2. Applied[o]
        BY <3>3, <4>1 DEF Applied
      <4> QED BY <1>0, <2>1, <3>1, <3>2, <3>3, <4>2, RowMoves
              DEF Promise!Next, Promise!Confirm, Promise!Move
    <3>4. CASE worker[w].result = "reverted"
      <4>1. \A a \in succeeded : a.op \in Ops /\ a.op # o
        BY <2>1, <3>1, <3>4 DEF JournalInv, OutcomeIsTrue, TypeOK, Attempt
      <4>2. ~Applied[o]
        BY <4>1 DEF Applied
      <4> QED BY <1>0, <2>1, <3>1, <3>2, <3>4, <4>2, RowMoves
              DEF Promise!Next, Promise!Reject, Promise!Move
    <3> QED BY <1>4, <3>3, <3>4 DEF RecordReceipt, JournalInv, WorkersInv, WorkerInv
  <2> QED BY <1>4, <2>2, <2>3 DEF RecordReceipt
<1>5. ASSUME NEW a \in pool, NEW ok \in BOOLEAN, Execute(a, ok)
      PROVE  [Promise!Next]_Promise!vars
  <2>1. operation' = operation
    BY <1>5 DEF Execute
  <2>2. CASE succeeded' = succeeded
    BY <2>1, <2>2, RowStutters
  <2>3. CASE succeeded' = succeeded \cup {a} /\ a \notin succeeded
    <3>1. a.op \in Ops
      BY <1>0 DEF TypeOK, Attempt
    <3>2. operation[a.op].status = "signed"
      <4>1. operation[a.op].status \in {"signed", "confirmed"}
        BY <2>1, <2>3 DEF JournalInv, OutcomeIsTrue
      <4>2. a \in attempts /\ a \notin reverted'
        BY <2>3 DEF JournalInv, ChainInv
      <4>3. reverted' = reverted
        BY <1>5, <2>3, <4>2 DEF Execute
      <4>4. a.claim \in Nat /\ operation[a.op].claim \in Nat
        BY <1>0, <3>1 DEF TypeOK, Attempt, Operation
      <4>5. operation[a.op].attempt = a
        BY <4>2, <4>3, <4>4 DEF JournalInv, AttemptsInv
      <4> QED BY <2>3, <3>1, <4>1, <4>5 DEF JournalInv, OutcomeIsTrue
    <3>3. \A b \in succeeded : b.op # a.op
      <4>1. SUFFICES ASSUME NEW b \in succeeded, b.op = a.op PROVE FALSE
        OBVIOUS
      <4>2. b \in attempts /\ b \notin reverted /\ a \in attempts /\ a \notin reverted
        BY <1>5, <2>3 DEF JournalInv, ChainInv, Execute
      <4>3. b.claim \in Nat /\ a.claim \in Nat /\ operation[a.op].claim \in Nat
        BY <1>0, <3>1, <4>2 DEF TypeOK, Attempt, Operation
      <4> QED BY <2>3, <4>1, <4>2, <4>3 DEF JournalInv, AttemptsInv
    <3>4. Stage[a.op] = "dispatched" /\ ~Applied[a.op] /\ Stage' = Stage
      BY <2>1, <3>1, <3>2, <3>3 DEF Stage, StageOf, Applied
    <3>5. Applied' = [Applied EXCEPT ![a.op] = TRUE]
      BY <2>3, <3>1 DEF Applied
    <3> QED BY <3>1, <3>4, <3>5 DEF Promise!Next, Promise!TakeEffect
  <2>4. CASE succeeded' = succeeded \cup {a} /\ a \in succeeded
    <3>1. succeeded' = succeeded
      BY <2>4
    <3> QED BY <2>2, <3>1
  <2> QED BY <1>5, <2>2, <2>3, <2>4 DEF Execute
<1>6. CASE \/ \E w \in Workers :
                 \/ PrepareRead(w) \/ PrepareObserve(w) \/ SignRefused(w) \/ BroadcastAdmit(w)
                 \/ \E answer \in {"acknowledged", "error"} : Deliver(w, answer)
                 \/ SendFails(w) \/ ReadReceipt(w) \/ Stop(w)
           \/ \E s \in Signers : CloseAdmission(s) \/ Admit(s)
           \/ \E a \in pool : Evict(a)
           \/ \E s \in Signers : ForeignSend(s) \/ ForeignExecute(s)
           \/ UNCHANGED vars
  <2>1. operation' = operation /\ succeeded' = succeeded
    BY <1>6 DEF PrepareRead, PrepareObserve, SignRefused, BroadcastAdmit, Deliver, SendFails,
       ReadReceipt, Stop, CloseAdmission, Admit, Evict, ForeignSend, ForeignExecute,
       vars, chain
  <2> QED BY <2>1, RowStutters
<1>7. ASSUME NEW w \in Workers, RecordBroadcast(w)
      PROVE  [Promise!Next]_Promise!vars
  <2> PICK o \in Ops : o = worker[w].op
    BY <1>7 DEF RecordBroadcast, JournalInv, WorkersInv, WorkerInv
  <2>1. succeeded' = succeeded
    BY <1>7 DEF RecordBroadcast, chain
  <2>2. \A q \in Ops : operation'[q].status = operation[q].status
    BY <1>0, <1>7 DEF RecordBroadcast, TypeOK, Operation
  <2> QED BY <2>1, <2>2, RowStutters
<1> QED BY <1>1, <1>2, <1>3, <1>4, <1>5, <1>6, <1>7 DEF Next, Call, Chain

\* Whatever workers, nodes and operators do, the journal keeps its promise.
THEOREM JournalImplementsPromise == Spec => ImplementsOnceOnly
<1>1. Init => Promise!Init
  BY DEF Init, Promise!Init, Stage, StageOf, Applied
<1>2. JournalInv /\ JournalInv' /\ [Next]_vars => [Promise!Next]_Promise!vars
  BY StepRefines
<1> QED BY <1>1, <1>2, JournalInvariant, PTL DEF Spec, Promise!Spec, ImplementsOnceOnly
=============================================================================
