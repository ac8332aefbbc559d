----------------------------- MODULE RecordsProofs -----------------------------
(***************************************************************************)
(* The records that stand beside the journal, for any number of them: an   *)
(* owner's order intents, the evidence files, a wallet's balances and the  *)
(* archive of former holders.                                              *)
(*                                                                         *)
(* Intents.  The property counts: one spent challenge, one order made, as  *)
(* many modifications as were applied.  What makes it inductive is that an *)
(* order is not in the book before its submission has created it, so that  *)
(* nothing can have been applied to it when it is.                         *)
(*                                                                         *)
(* The others each have an invariant of what a run holds beside that of    *)
(* the rows: which bytes it may still name or delete, which balance it     *)
(* read and what has been taken from it since, up to which block it read.  *)
(* A wallet's balance is a sum and a history is read by a fold, so both    *)
(* rest on lemmas that the folds of the community modules have a value and *)
(* what that value is: by induction on a number, which is a fact about     *)
(* least members of sets of naturals.                                      *)
(***************************************************************************)
EXTENDS MCCommands, Sequences, FiniteSetTheorems, TLAPS

-----------------------------------------------------------------------------
(* OrderIntents.                                                           *)

Final == {"created", "applied", "refused"}

\* A request holds a challenge of the intent it verified.
SessionSound(s) ==
    /\ s \in [intent : Intents!Actions \cup {None}, number : 0..MaxChallenges]
    /\ s.intent # None => s.number \in Intents!Numbers

\* One challenge of an intent that ended is spent, and none of another.
SpentSound(i) ==
    \A n \in Intents!Numbers :
        contract[i][n] = "spent" <=> row[i].status \in Final /\ n = row[i].executed

\* An order and what was applied to it.
OrderSound(s) ==
    LET cancels == Intents!Applied(Cancels, s)
        modifies == Intents!Applied(Modifies, s)
    IN
    /\ target[s].made = IF row[s].status = "created" THEN 1 ELSE 0
    /\ row[s].status # "created" => target[s].status = "none"
    /\ IsFiniteSet(modifies) /\ target[s].modified = Cardinality(modifies)
    /\ target[s].status = "cancelled" <=> cancels # {}

IntentsInv ==
    /\ row \in [Intents!Intents -> Intents!Intent]
    /\ target \in [Submissions -> Intents!Order]
    /\ contract \in [Intents!Intents -> [Intents!Numbers -> Intents!ChallengeStatuses]]
    /\ DOMAIN worker = Workers
    /\ \A w \in Workers : SessionSound(worker[w])
    /\ \A i \in Intents!Intents : SpentSound(i) /\ (row[i].status \in Final => row[i].executed # 0)
    /\ \A s \in Submissions : OrderSound(s)

LEMMA Identities ==
    /\ Submissions \cap Intents!Actions = {} /\ Cancels \cap Modifies = {}
    /\ Intents!Actions = Cancels \cup Modifies
    /\ Intents!Intents = Submissions \cup Intents!Actions
    /\ None \notin Intents!Intents
    /\ OrderOf \in [Intents!Actions -> Submissions]
    /\ MaxChallenges \in Nat /\ Intents!Numbers = 1..MaxChallenges
BY SubjectAssumption
   DEF Intents!IntentAssumption, Intents!Actions, Intents!Intents, Intents!Numbers

LEMMA CardinalityIs == \A S : Intents!Cardinality(S) = Cardinality(S)
BY DEF Intents!Cardinality, Cardinality

LEMMA IntentsInvIsEnough == IntentsInv => Intents!OneEffect
<1> SUFFICES ASSUME IntentsInv PROVE Intents!OneEffect
  OBVIOUS
<1>1. ASSUME NEW i \in Intents!Intents
      PROVE  Intents!Spent(i) = IF row[i].status \in {"created", "applied", "refused"}
                                THEN {row[i].executed} ELSE {}
  <2>1. row[i].executed \in 0..MaxChallenges
    BY DEF IntentsInv, Intents!Intent
  <2>2. CASE row[i].status \in Final
    <3>1. row[i].executed \in Intents!Numbers
      BY <2>1, <2>2, Identities DEF IntentsInv
    <3>2. \A n \in Intents!Numbers : contract[i][n] = "spent" <=> n = row[i].executed
      BY <2>2 DEF IntentsInv, SpentSound
    <3>3. Intents!Spent(i) = {row[i].executed}
      BY <3>1, <3>2 DEF Intents!Spent
    <3> QED BY <2>2, <3>3 DEF Final
  <2>3. CASE row[i].status \notin Final
    BY <2>3 DEF IntentsInv, SpentSound, Intents!Spent, Final
  <2> QED BY <2>2, <2>3
<1> QED BY <1>1, CardinalityIs DEF IntentsInv, OrderSound, Intents!OneEffect

LEMMA IntentsBegin == Intents!Init => IntentsInv
<1> SUFFICES ASSUME Intents!Init PROVE IntentsInv
  OBVIOUS
<1>1. /\ row \in [Intents!Intents -> Intents!Intent]
      /\ \A i \in Intents!Intents : row[i].status = "none"
  BY Identities DEF Intents!Init, Intents!Intent, Intents!Statuses
<1>2. /\ target \in [Submissions -> Intents!Order]
      /\ \A s \in Submissions :
            target[s].status = "none" /\ target[s].made = 0 /\ target[s].modified = 0
  BY DEF Intents!Init, Intents!Order
<1>3. /\ contract \in [Intents!Intents -> [Intents!Numbers -> Intents!ChallengeStatuses]]
      /\ \A i \in Intents!Intents, n \in Intents!Numbers : contract[i][n] = "none"
  BY DEF Intents!Init, Intents!ChallengeStatuses
<1>4. DOMAIN worker = Workers /\ \A w \in Workers : SessionSound(worker[w])
  BY Identities DEF Intents!Init, Intents!Idle, SessionSound
<1>5. ASSUME NEW s \in Submissions PROVE OrderSound(s)
  <2>1. Intents!Applied(Cancels, s) = {} /\ Intents!Applied(Modifies, s) = {}
    BY <1>1, Identities DEF Intents!Applied
  <2>2. s \in Intents!Intents
    BY Identities
  <2> QED BY <1>1, <1>2, <2>1, <2>2, FS_EmptySet DEF OrderSound
<1> QED BY <1>1, <1>2, <1>3, <1>4, <1>5 DEF IntentsInv, SpentSound, Final

-----------------------------------------------------------------------------
(* Steps.  Those on messages leave orders and outcomes alone.              *)

\* A challenge that is not spent, before or after, and no outcome.
LEMMA MessagesKeepIntents ==
    ASSUME IntentsInv,
           row' \in [Intents!Intents -> Intents!Intent],
           contract' \in [Intents!Intents -> [Intents!Numbers -> Intents!ChallengeStatuses]],
           UNCHANGED target, DOMAIN worker' = Workers,
           \A w \in Workers : SessionSound(worker'[w]),
           \A i \in Intents!Intents :
              row'[i] = row[i] \/ (row[i].status \notin Final /\ row'[i].status \notin Final),
           \A i \in Intents!Intents, n \in Intents!Numbers :
              contract'[i][n] = "spent" <=> contract[i][n] = "spent"
    PROVE  IntentsInv'
<1>1. ASSUME NEW i \in Intents!Intents
      PROVE  SpentSound(i)' /\ (row'[i].status \in Final => row'[i].executed # 0)
  BY DEF IntentsInv, SpentSound
<1>2. ASSUME NEW s \in Submissions PROVE OrderSound(s)'
  <2>1. s \in Intents!Intents /\ (row'[s].status = "created" <=> row[s].status = "created")
    BY Identities DEF Final
  <2>2. \A a \in Cancels \cup Modifies : row'[a].status = "applied" <=> row[a].status = "applied"
    BY Identities DEF Final
  <2>3. /\ Intents!Applied(Cancels, s)' = Intents!Applied(Cancels, s)
        /\ Intents!Applied(Modifies, s)' = Intents!Applied(Modifies, s)
    BY <2>2 DEF Intents!Applied
  <2>4. OrderSound(s)
    BY DEF IntentsInv
  <2> QED BY <2>1, <2>3, <2>4 DEF OrderSound
<1> QED BY <1>1, <1>2 DEF IntentsInv

\* A row is registered.
LEMMA PendingIntent ==
    ASSUME IntentsInv, NEW i \in Intents!Intents, row[i].status \in {"none", "pending"},
           row' = [row EXCEPT ![i].status = "pending"]
    PROVE  /\ row' \in [Intents!Intents -> Intents!Intent]
           /\ \A j \in Intents!Intents :
                 row'[j] = row[j] \/ (row[j].status \notin Final /\ row'[j].status \notin Final)
<1>1. row \in [Intents!Intents -> [status : Intents!Statuses, executed : 0..MaxChallenges]]
  BY DEF IntentsInv, Intents!Intent
<1>2. "pending" \in Intents!Statuses
  BY DEF Intents!Statuses
<1>3. row' \in [Intents!Intents -> Intents!Intent]
  BY <1>1, <1>2 DEF Intents!Intent
<1>4. row'[i].status = "pending" /\ \A j \in Intents!Intents : j # i => row'[j] = row[j]
  BY <1>1
<1>5. ASSUME NEW j \in Intents!Intents
      PROVE  row'[j] = row[j] \/ (row[j].status \notin Final /\ row'[j].status \notin Final)
  <2>1. row[i].status \notin Final /\ row'[i].status \notin Final
    BY <1>4 DEF Final
  <2> QED BY <1>4, <2>1
<1> QED BY <1>3, <1>5

\* What issuing writes.
LEMMA IssuedChallenge ==
    ASSUME IntentsInv, NEW i \in Intents!Intents, NEW n \in Intents!Numbers,
           NEW from \in {"none", "issued", "expired"}, NEW to \in {"issued", "expired", "purged"},
           contract[i][n] = from, contract' = [contract EXCEPT ![i][n] = to]
    PROVE  /\ contract' \in [Intents!Intents -> [Intents!Numbers -> Intents!ChallengeStatuses]]
           /\ \A j \in Intents!Intents, m \in Intents!Numbers :
                 contract'[j][m] = "spent" <=> contract[j][m] = "spent"
BY DEF IntentsInv, Intents!ChallengeStatuses

\* A step on the challenges alone.
LEMMA IntentsStand ==
    ASSUME IntentsInv, UNCHANGED <<row, target, worker>>,
           contract' \in [Intents!Intents -> [Intents!Numbers -> Intents!ChallengeStatuses]],
           \A i \in Intents!Intents, n \in Intents!Numbers :
              contract'[i][n] = "spent" <=> contract[i][n] = "spent"
    PROVE  IntentsInv'
<1>1. /\ row' \in [Intents!Intents -> Intents!Intent]
      /\ DOMAIN worker' = Workers /\ \A w \in Workers : SessionSound(worker'[w])
  BY DEF IntentsInv
<1>2. row' = row /\ UNCHANGED target
  OBVIOUS
<1>3. ASSUME NEW i \in Intents!Intents PROVE row'[i] = row[i]
  BY <1>2
<1> QED BY <1>1, <1>2, <1>3, MessagesKeepIntents

LEMMA IssueKeepsIntents ==
    ASSUME IntentsInv, NEW n \in Intents!Numbers,
           \/ \E s \in Submissions : Intents!IssueSubmission(s, n)
           \/ \E a \in Intents!Actions : Intents!IssueAction(a, n)
    PROVE  IntentsInv'
<1>1. ASSUME NEW s \in Submissions, Intents!IssueSubmission(s, n) PROVE IntentsInv'
  <2>1. s \in Intents!Intents
    BY Identities
  <2>2. contract[s][n] = "none" /\ contract' = [contract EXCEPT ![s][n] = "issued"]
    BY <1>1 DEF Intents!IssueSubmission, Intents!IssueChallenge
  <2>3. /\ row[s].status \in {"none", "pending"} /\ UNCHANGED <<target, worker>>
        /\ row' = [row EXCEPT ![s].status = "pending"]
    BY <1>1 DEF Intents!IssueSubmission
  <2>4. /\ row' \in [Intents!Intents -> Intents!Intent]
        /\ \A i \in Intents!Intents :
              row'[i] = row[i] \/ (row[i].status \notin Final /\ row'[i].status \notin Final)
    BY <2>1, <2>3, PendingIntent
  <2>5. /\ contract' \in [Intents!Intents -> [Intents!Numbers -> Intents!ChallengeStatuses]]
        /\ \A j \in Intents!Intents, m \in Intents!Numbers :
              contract'[j][m] = "spent" <=> contract[j][m] = "spent"
    BY <2>1, <2>2, IssuedChallenge
  <2>6. DOMAIN worker' = Workers /\ \A w \in Workers : SessionSound(worker'[w])
    BY <2>3 DEF IntentsInv
  <2> QED BY <2>3, <2>4, <2>5, <2>6, MessagesKeepIntents
<1>2. ASSUME NEW a \in Intents!Actions, Intents!IssueAction(a, n) PROVE IntentsInv'
  <2>1. a \in Intents!Intents
    BY Identities
  <2>2. /\ contract[a][n] = "none" /\ contract' = [contract EXCEPT ![a][n] = "issued"]
        /\ UNCHANGED <<row, target, worker>>
    BY <1>2 DEF Intents!IssueAction, Intents!IssueChallenge
  <2>3. /\ contract' \in [Intents!Intents -> [Intents!Numbers -> Intents!ChallengeStatuses]]
        /\ \A j \in Intents!Intents, m \in Intents!Numbers :
              contract'[j][m] = "spent" <=> contract[j][m] = "spent"
    BY <2>1, <2>2, IssuedChallenge
  <2> QED BY <2>2, <2>3, IntentsStand
<1> QED BY <1>1, <1>2

LEMMA AgeKeepsIntents ==
    ASSUME IntentsInv, NEW i \in Intents!Intents, NEW n \in Intents!Numbers,
           Intents!Expire(i, n) \/ Intents!Purge(i, n)
    PROVE  IntentsInv'
<1>1. PICK from \in {"issued", "expired"}, to \in {"expired", "purged"} :
            contract[i][n] = from /\ contract' = [contract EXCEPT ![i][n] = to]
  BY DEF Intents!Expire, Intents!Purge, Intents!Purgeable
<1>2. UNCHANGED <<row, target, worker>>
  BY DEF Intents!Expire, Intents!Purge
<1>3. /\ contract' \in [Intents!Intents -> [Intents!Numbers -> Intents!ChallengeStatuses]]
      /\ \A j \in Intents!Intents, m \in Intents!Numbers :
            contract'[j][m] = "spent" <=> contract[j][m] = "spent"
  BY <1>1, IssuedChallenge
<1> QED BY <1>2, <1>3, IntentsStand

LEMMA RegisterKeepsIntents ==
    ASSUME IntentsInv, NEW a \in Intents!Actions, Intents!RegisterAction(a)
    PROVE  IntentsInv'
<1>1. a \in Intents!Intents
  BY Identities
<1>2. /\ row[a].status = "none" /\ row' = [row EXCEPT ![a].status = "pending"]
      /\ UNCHANGED <<target, contract, worker>>
  BY DEF Intents!RegisterAction
<1>3. /\ row' \in [Intents!Intents -> Intents!Intent]
      /\ \A i \in Intents!Intents :
            row'[i] = row[i] \/ (row[i].status \notin Final /\ row'[i].status \notin Final)
  BY <1>1, <1>2, PendingIntent
<1>4. /\ contract' \in [Intents!Intents -> [Intents!Numbers -> Intents!ChallengeStatuses]]
      /\ DOMAIN worker' = Workers /\ \A w \in Workers : SessionSound(worker'[w])
  BY <1>2 DEF IntentsInv
<1> QED BY <1>2, <1>3, <1>4, MessagesKeepIntents

LEMMA VerifyKeepsIntents ==
    ASSUME IntentsInv, NEW w \in Workers,
           \/ \E a \in Intents!Actions, n \in Intents!Numbers : Intents!VerifyAction(w, a, n)
           \/ Intents!GiveUp(w)
    PROVE  IntentsInv'
<1>1. /\ \E s : SessionSound(s) /\ worker' = [worker EXCEPT ![w] = s]
      /\ UNCHANGED <<row, target, contract>>
  <2>1. SessionSound(Intents!Idle)
    BY Identities DEF SessionSound, Intents!Idle
  <2>2. \A a \in Intents!Actions, n \in Intents!Numbers : SessionSound([intent |-> a, number |-> n])
    BY Identities DEF SessionSound
  <2> QED BY <2>1, <2>2 DEF Intents!VerifyAction, Intents!GiveUp
<1>2. DOMAIN worker' = Workers /\ \A v \in Workers : SessionSound(worker'[v])
  BY <1>1 DEF IntentsInv
<1>3. /\ row' \in [Intents!Intents -> Intents!Intent]
      /\ contract' \in [Intents!Intents -> [Intents!Numbers -> Intents!ChallengeStatuses]]
  BY <1>1 DEF IntentsInv
<1>4. UNCHANGED target
  BY <1>1
<1>5. ASSUME NEW i \in Intents!Intents PROVE row'[i] = row[i]
  BY <1>1
<1>6. ASSUME NEW i \in Intents!Intents, NEW n \in Intents!Numbers
      PROVE  contract'[i][n] = "spent" <=> contract[i][n] = "spent"
  BY <1>1
<1> QED BY <1>2, <1>3, <1>4, <1>5, <1>6, MessagesKeepIntents

LEMMA TradeKeepsIntents ==
    ASSUME IntentsInv, NEW s \in Submissions, Intents!Trade(s)
    PROVE  IntentsInv'
<1>1. UNCHANGED <<row, contract, worker>>
  BY DEF Intents!Trade
<1>2. PICK status \in {"open", "held", "filled"} :
         /\ target[s].status \in {"open", "held"}
         /\ target' = [target EXCEPT ![s].status = status]
  <2>1. PICK step \in {<<"open", "held">>, <<"held", "open">>, <<"held", "filled">>} :
           target[s].status = step[1] /\ target' = [target EXCEPT ![s].status = step[2]]
    BY DEF Intents!Trade
  <2>2. step[1] \in {"open", "held"} /\ step[2] \in {"open", "held", "filled"}
    OBVIOUS
  <2> QED BY <2>1, <2>2
<1>3. target' \in [Submissions -> Intents!Order]
  BY <1>2 DEF IntentsInv, Intents!Order
<1>4. \A t \in Submissions :
         /\ target'[t].made = target[t].made /\ target'[t].modified = target[t].modified
         /\ target'[t].status # target[t].status =>
               target[t].status \in {"open", "held"} /\ target'[t].status \in {"open", "held", "filled"}
  BY <1>2 DEF IntentsInv, Intents!Order
<1>5. ASSUME NEW t \in Submissions PROVE OrderSound(t)'
  <2>1. /\ Intents!Applied(Cancels, t)' = Intents!Applied(Cancels, t)
        /\ Intents!Applied(Modifies, t)' = Intents!Applied(Modifies, t)
    BY <1>1 DEF Intents!Applied
  <2>2. OrderSound(t)
    BY DEF IntentsInv
  <2> QED BY <1>1, <1>4, <2>1, <2>2 DEF OrderSound
<1> QED BY <1>1, <1>3, <1>5 DEF IntentsInv, SpentSound

-----------------------------------------------------------------------------
(* Executions: one outcome, with what it does to the order.                *)

\* The outcome spends the one challenge of an intent that had none.
LEMMA ResolveSpendsOne ==
    ASSUME IntentsInv, NEW i \in Intents!Intents, NEW n \in Intents!Numbers,
           NEW status \in Final, row[i].status = "pending", Intents!Resolve(i, n, status)
    PROVE  /\ row' \in [Intents!Intents -> Intents!Intent]
           /\ contract' \in [Intents!Intents -> [Intents!Numbers -> Intents!ChallengeStatuses]]
           /\ row'[i].status = status
           /\ \A j \in Intents!Intents : j # i => row'[j] = row[j]
           /\ \A j \in Intents!Intents :
                 SpentSound(j)' /\ (row'[j].status \in Final => row'[j].executed # 0)
<1>1. /\ contract' = [contract EXCEPT ![i][n] = "spent"]
      /\ row' = [row EXCEPT ![i] = [status |-> status, executed |-> n]]
  BY DEF Intents!Resolve
<1>2. n \in 0..MaxChallenges /\ n # 0
  BY Identities
<1>3. row' \in [Intents!Intents -> Intents!Intent]
  BY <1>1, <1>2 DEF IntentsInv, Intents!Intent, Intents!Statuses, Final
<1>4. contract' \in [Intents!Intents -> [Intents!Numbers -> Intents!ChallengeStatuses]]
  BY <1>1 DEF IntentsInv, Intents!ChallengeStatuses
<1>5. row'[i] = [status |-> status, executed |-> n] /\ \A j \in Intents!Intents : j # i => row'[j] = row[j]
  BY <1>1 DEF IntentsInv
<1>6. \A m \in Intents!Numbers : contract[i][m] # "spent"
  BY DEF IntentsInv, SpentSound, Final
<1>7. \A j \in Intents!Intents, m \in Intents!Numbers :
         contract'[j][m] = IF j = i /\ m = n THEN "spent" ELSE contract[j][m]
  BY <1>1 DEF IntentsInv
<1>8. ASSUME NEW j \in Intents!Intents
      PROVE  SpentSound(j)' /\ (row'[j].status \in Final => row'[j].executed # 0)
  <2>1. CASE j = i
    BY <1>2, <1>5, <1>6, <1>7, <2>1 DEF SpentSound
  <2>2. CASE j # i
    BY <1>5, <1>7, <2>2 DEF IntentsInv, SpentSound
  <2> QED BY <2>1, <2>2
<1> QED BY <1>3, <1>4, <1>5, <1>8

LEMMA ExecuteKeepsIntents ==
    ASSUME IntentsInv, NEW s \in Submissions, NEW n \in Intents!Numbers,
           Intents!ExecuteSubmission(s, n)
    PROVE  IntentsInv'
<1>1. row[s].status = "pending" /\ UNCHANGED worker /\ s \in Intents!Intents
  BY Identities DEF Intents!ExecuteSubmission
<1>2. ASSUME NEW status \in {"created", "refused"}, Intents!Resolve(s, n, status),
             target' \in [Submissions -> Intents!Order],
             \A t \in Submissions : t # s => target'[t] = target[t],
             target'[s].modified = target[s].modified,
             status = "created" => target'[s].made = 1 /\ target'[s].status \in {"open", "held"},
             status = "refused" => target'[s] = target[s]
      PROVE  IntentsInv'
  <2>1. /\ row' \in [Intents!Intents -> Intents!Intent]
        /\ contract' \in [Intents!Intents -> [Intents!Numbers -> Intents!ChallengeStatuses]]
        /\ row'[s].status = status
        /\ \A j \in Intents!Intents : j # s => row'[j] = row[j]
        /\ \A j \in Intents!Intents :
              SpentSound(j)' /\ (row'[j].status \in Final => row'[j].executed # 0)
    BY <1>1, <1>2, ResolveSpendsOne DEF Final
  <2>2. ASSUME NEW t \in Submissions PROVE OrderSound(t)'
    <3>1. \A a \in Cancels \cup Modifies : row'[a] = row[a]
      BY <2>1, Identities
    <3>2. /\ Intents!Applied(Cancels, t)' = Intents!Applied(Cancels, t)
          /\ Intents!Applied(Modifies, t)' = Intents!Applied(Modifies, t)
      BY <3>1 DEF Intents!Applied
    <3>3. OrderSound(t) /\ t \in Intents!Intents
      BY Identities DEF IntentsInv
    <3>4. CASE t = s
      BY <1>1, <1>2, <2>1, <3>2, <3>3, <3>4 DEF OrderSound
    <3>5. CASE t # s
      BY <1>2, <2>1, <3>2, <3>3, <3>5 DEF OrderSound
    <3> QED BY <3>4, <3>5
  <2> QED BY <1>1, <1>2, <2>1, <2>2 DEF IntentsInv
<1>3. ASSUME NEW status \in {"open", "held"}, Intents!Resolve(s, n, "created"),
             target' = [target EXCEPT ![s].status = status, ![s].made = @ + 1]
      PROVE  IntentsInv'
  <2>1. OrderSound(s) /\ target[s] \in Intents!Order
    BY DEF IntentsInv
  <2>2. target[s].made = 0
    BY <1>1, <2>1 DEF OrderSound
  <2>3. /\ target' \in [Submissions -> Intents!Order]
        /\ \A t \in Submissions : t # s => target'[t] = target[t]
        /\ target'[s].modified = target[s].modified
        /\ target'[s].made = 1 /\ target'[s].status = status
    BY <1>3, <2>2 DEF IntentsInv, Intents!Order
  <2> QED BY <1>2, <1>3, <2>3
<1>4. CASE Intents!Resolve(s, n, "refused") /\ UNCHANGED target
  BY <1>2, <1>4 DEF IntentsInv
<1> QED BY <1>3, <1>4 DEF Intents!ExecuteSubmission

\* An action takes effect on its order.
LEMMA AppliedCount ==
    ASSUME IntentsInv, NEW a \in Intents!Actions, NEW s \in Submissions,
           row[a].status = "pending", row'[a].status = "applied",
           \A b \in Intents!Actions : b # a => row'[b] = row[b]
    PROVE  /\ Intents!Applied(Cancels, s)' =
                 Intents!Applied(Cancels, s) \cup (IF a \in Cancels /\ OrderOf[a] = s THEN {a} ELSE {})
           /\ Intents!Applied(Modifies, s)' =
                 Intents!Applied(Modifies, s) \cup (IF a \in Modifies /\ OrderOf[a] = s THEN {a} ELSE {})
           /\ a \notin Intents!Applied(Modifies, s)
<1>1. Cancels \subseteq Intents!Actions /\ Modifies \subseteq Intents!Actions
  BY Identities
<1> QED BY <1>1 DEF Intents!Applied

LEMMA ApplyKeepsIntents ==
    ASSUME IntentsInv, NEW w \in Workers, Intents!ApplyAction(w)
    PROVE  IntentsInv'
<1> DEFINE a == worker[w].intent
           n == worker[w].number
           s == OrderOf[a]
<1>1. a \in Intents!Actions /\ n \in Intents!Numbers /\ worker' = [worker EXCEPT ![w] = Intents!Idle]
  BY DEF Intents!ApplyAction, IntentsInv, SessionSound
<1>2. a \in Intents!Intents /\ s \in Submissions /\ a \notin Submissions
  BY <1>1, Identities
<1>3. DOMAIN worker' = Workers /\ \A v \in Workers : SessionSound(worker'[v])
  <2>1. SessionSound(Intents!Idle)
    BY Identities DEF SessionSound, Intents!Idle
  <2> QED BY <1>1, <2>1 DEF IntentsInv
<1> HIDE DEF a, n, s
<1>4. CASE UNCHANGED <<row, target, contract>>
  <2>1. /\ row' \in [Intents!Intents -> Intents!Intent]
        /\ contract' \in [Intents!Intents -> [Intents!Numbers -> Intents!ChallengeStatuses]]
    BY <1>4 DEF IntentsInv
  <2>2. row' = row /\ target' = target /\ contract' = contract
    BY <1>4
  <2> QED BY <1>3, <2>1, <2>2, MessagesKeepIntents
<1>5. ASSUME NEW status \in {"applied", "refused"}, row[a].status = "pending",
             Intents!Resolve(a, n, status), target' \in [Submissions -> Intents!Order],
             \A t \in Submissions : OrderSound(t)'
      PROVE  IntentsInv'
  <2>1. status \in Final
    BY DEF Final
  <2> QED BY <1>1, <1>2, <1>3, <1>5, <2>1, ResolveSpendsOne DEF IntentsInv
<1>6. ASSUME row[a].status = "pending", Intents!Resolve(a, n, "refused"), UNCHANGED target
      PROVE  IntentsInv'
  <2>1. row'[a].status = "refused" /\ \A j \in Intents!Intents : j # a => row'[j] = row[j]
    BY <1>1, <1>2, <1>6, ResolveSpendsOne DEF Final
  <2>2. ASSUME NEW t \in Submissions PROVE OrderSound(t)'
    <3>1. t \in Intents!Intents /\ row'[t] = row[t]
      BY <1>2, <2>1, Identities
    <3>2. \A b \in Cancels \cup Modifies : row'[b].status = "applied" <=> row[b].status = "applied"
      BY <1>6, <2>1, Identities
    <3>3. /\ Intents!Applied(Cancels, t)' = Intents!Applied(Cancels, t)
          /\ Intents!Applied(Modifies, t)' = Intents!Applied(Modifies, t)
      BY <3>2 DEF Intents!Applied
    <3>4. OrderSound(t)
      BY DEF IntentsInv
    <3> QED BY <1>6, <3>1, <3>3, <3>4 DEF OrderSound
  <2>3. target' \in [Submissions -> Intents!Order]
    BY <1>6 DEF IntentsInv
  <2> QED BY <1>5, <1>6, <2>2, <2>3
<1>7. ASSUME row[a].status = "pending", target[s].status = "open", Intents!Resolve(a, n, "applied"),
             IF a \in Cancels
             THEN target' = [target EXCEPT ![s].status = "cancelled"]
             ELSE target' = [target EXCEPT ![s].modified = @ + 1]
      PROVE  IntentsInv'
  <2>1. row'[a].status = "applied" /\ \A j \in Intents!Intents : j # a => row'[j] = row[j]
    BY <1>1, <1>2, <1>7, ResolveSpendsOne DEF Final
  <2>2. \A b \in Intents!Actions : b # a => row'[b] = row[b]
    BY <2>1, Identities
  <2>3. target[s] \in Intents!Order /\ OrderSound(s)
    BY <1>2 DEF IntentsInv
  <2>5. /\ target' \in [Submissions -> Intents!Order]
        /\ \A t \in Submissions : t # s => target'[t] = target[t]
        /\ target'[s].made = target[s].made
        /\ target'[s].status = (IF a \in Cancels THEN "cancelled" ELSE "open")
        /\ target'[s].modified = target[s].modified + (IF a \in Cancels THEN 0 ELSE 1)
    <3>1. target \in [Submissions -> [status : {"none", "open", "held", "filled", "cancelled"},
                                       made : Nat, modified : Nat]]
      BY DEF IntentsInv, Intents!Order
    <3>2. CASE a \in Cancels
      <4>1. target' = [target EXCEPT ![s].status = "cancelled"]
        BY <1>7, <3>2
      <4>2. target' \in [Submissions -> Intents!Order]
        BY <1>2, <3>1, <4>1 DEF Intents!Order
      <4>3. target[s].modified \in Nat
        BY <1>2, <3>1
      <4> QED BY <1>2, <3>1, <3>2, <4>1, <4>2, <4>3
    <3>3. CASE a \notin Cancels
      <4>1. target' = [target EXCEPT ![s].modified = @ + 1] /\ target[s].status = "open"
        BY <1>7, <3>3
      <4>2. target' \in [Submissions -> Intents!Order]
        BY <1>2, <3>1, <4>1 DEF Intents!Order
      <4> QED BY <1>2, <3>1, <3>3, <4>1, <4>2
    <3> QED BY <3>2, <3>3
  <2>6. row[s].status = "created"
    BY <1>7, <2>3 DEF OrderSound
  <2>7. ASSUME NEW t \in Submissions PROVE OrderSound(t)'
    <3>1. t \in Intents!Intents /\ row'[t] = row[t] /\ OrderSound(t)
      BY <1>2, <2>1, Identities DEF IntentsInv
    <3>2. /\ Intents!Applied(Cancels, t)' =
                Intents!Applied(Cancels, t) \cup (IF a \in Cancels /\ s = t THEN {a} ELSE {})
          /\ Intents!Applied(Modifies, t)' =
                Intents!Applied(Modifies, t) \cup (IF a \in Modifies /\ s = t THEN {a} ELSE {})
          /\ a \notin Intents!Applied(Modifies, t)
      BY <1>1, <1>7, <2>1, <2>2, AppliedCount DEF s
    <3>3. CASE t # s
      BY <2>5, <3>1, <3>2, <3>3 DEF OrderSound
    <3>4. CASE t = s /\ a \in Cancels
      <4>1. a \notin Modifies
        BY <3>4, Identities
      <4> QED BY <2>5, <2>6, <3>1, <3>2, <3>4, <4>1 DEF OrderSound
    <3>5. CASE t = s /\ a \notin Cancels
      <4>1. a \in Modifies
        BY <1>1, <3>5, Identities
      <4>2. Intents!Applied(Cancels, t)' = Intents!Applied(Cancels, t)
        BY <3>2, <3>5
      <4>3. Intents!Applied(Modifies, t)' = Intents!Applied(Modifies, t) \cup {a}
        BY <3>2, <3>5, <4>1
      <4>4. /\ IsFiniteSet(Intents!Applied(Modifies, t)')
            /\ Cardinality(Intents!Applied(Modifies, t)') = Cardinality(Intents!Applied(Modifies, t)) + 1
        <5> DEFINE M == Intents!Applied(Modifies, t)
        <5>1. IsFiniteSet(M) /\ a \notin M
          BY <3>1, <3>2 DEF OrderSound
        <5> HIDE DEF M
        <5>2. IsFiniteSet(M \cup {a}) /\ Cardinality(M \cup {a}) = Cardinality(M) + 1
          BY <5>1, FS_AddElement
        <5> QED BY <4>3, <5>2 DEF M
      <4>5. target'[t].modified = target[t].modified + 1 /\ target'[t].status = "open"
        BY <2>5, <3>5
      <4>6. Intents!Applied(Cancels, t) = {}
        BY <1>7, <3>1, <3>5 DEF OrderSound
      <4> QED BY <2>5, <2>6, <3>1, <3>5, <4>2, <4>4, <4>5, <4>6 DEF OrderSound
    <3> QED BY <3>3, <3>4, <3>5
  <2> QED BY <1>5, <1>7, <2>5, <2>7
<1>8. CASE /\ row[a].status = "pending"
           /\ \/ /\ target[s].status = "open"
                 /\ Intents!Resolve(a, n, "applied")
                 /\ IF a \in Cancels
                    THEN target' = [target EXCEPT ![s].status = "cancelled"]
                    ELSE target' = [target EXCEPT ![s].modified = @ + 1]
              \/ Intents!Resolve(a, n, "refused") /\ UNCHANGED target
  BY <1>6, <1>7, <1>8
<1>9. \/ UNCHANGED <<row, target, contract>>
      \/ /\ row[a].status = "pending"
         /\ \/ /\ target[s].status = "open"
               /\ Intents!Resolve(a, n, "applied")
               /\ IF a \in Cancels
                  THEN target' = [target EXCEPT ![s].status = "cancelled"]
                  ELSE target' = [target EXCEPT ![s].modified = @ + 1]
            \/ Intents!Resolve(a, n, "refused") /\ UNCHANGED target
  BY DEF Intents!ApplyAction, Intents!StillPending, Intents!Actionable, Intents!Cancel,
     Intents!Modify, a, n, s
<1> QED BY <1>4, <1>8, <1>9

-----------------------------------------------------------------------------
LEMMA IntentsStep == IntentsInv /\ Intents!Next => IntentsInv'
BY IssueKeepsIntents, AgeKeepsIntents, RegisterKeepsIntents, VerifyKeepsIntents,
   TradeKeepsIntents, ExecuteKeepsIntents, ApplyKeepsIntents
   DEF Intents!Next

\* What a request carries, as a function on the requests.
SessionsTyped ==
    worker \in [Workers -> [intent : Intents!Actions \cup {None}, number : 0..MaxChallenges]]

LEMMA IntentsTypes == IntentsInv /\ SessionsTyped => Intents!TypeOK
BY DEF IntentsInv, SessionsTyped, Intents!TypeOK

LEMMA SessionsBegin == Intents!Init => SessionsTyped
BY Identities DEF Intents!Init, Intents!Idle, SessionsTyped

LEMMA SessionsStay ==
    ASSUME SessionsTyped, IntentsInv', Intents!Next
    PROVE  SessionsTyped'
<1>1. worker' = worker \/ \E w \in Workers : \E s : worker' = [worker EXCEPT ![w] = s]
  BY DEF Intents!Next, Intents!Trade, Intents!IssueSubmission, Intents!ExecuteSubmission,
     Intents!RegisterAction, Intents!IssueAction, Intents!VerifyAction, Intents!ApplyAction,
     Intents!GiveUp, Intents!Expire, Intents!Purge
<1>2. \A w \in Workers : worker'[w] \in [intent : Intents!Actions \cup {None}, number : 0..MaxChallenges]
  BY DEF IntentsInv, SessionSound
<1>3. worker' = [w \in Workers |-> worker'[w]]
  BY <1>1 DEF SessionsTyped
<1> QED BY <1>2, <1>3 DEF SessionsTyped

\* However often an intent is sent, signed and executed, and whoever races whom,
\* it takes effect once and names the challenge spent on it.
THEOREM IntentsTakeEffectOnce == Spec => []OneEffect
<1> DEFINE Inv == subject = "orders" => IntentsInv
<1>1. Init => Inv
  BY IntentsBegin DEF Init
<1>2. Inv /\ [Next]_vars => Inv'
  <2>1. ASSUME Inv, Next PROVE Inv'
    <3>1. CASE subject = "orders"
      <4>1. IntentsInv /\ Intents!Next
        BY <2>1, <3>1 DEF Next
      <4> QED BY <4>1, IntentsStep
    <3>2. CASE subject # "orders"
      BY <2>1, <3>2 DEF Next
    <3> QED BY <3>1, <3>2
  <2>2. ASSUME Inv, UNCHANGED vars PROVE Inv'
    BY <2>2 DEF vars, IntentsInv, SpentSound, OrderSound, Intents!Applied
  <2> QED BY <2>1, <2>2
<1>3. Inv => OneEffect
  BY IntentsInvIsEnough DEF OneEffect
<1> QED BY <1>1, <1>2, <1>3, PTL DEF Spec

-----------------------------------------------------------------------------
(* EvidenceFiles.                                                          *)

\* The runs that keep every other one off their document: by the row's lock,
\* or because no other run knows the row yet.
Keeping == {"upload", "attach", "purge"}

FileRun ==
    [pc : {"idle", "upload", "attach", "extract", "review", "purge", "sweep"},
     document : Documents \cup {None}, copy : Evidence!Numbers,
     names : SUBSET Evidence!Files, settled : SUBSET Evidence!Files,
     seen : {"none", "submitted", "verified"}]

FilesTyped ==
    /\ row \in [Documents -> Evidence!Document]
    /\ target \in Evidence!Claim
    /\ contract \in [Evidence!Files -> Evidence!Ages]
    /\ worker \in [Workers -> FileRun]

\* A row is of an upload that was written, names a copy once it is attached, and
\* says what is left of the bytes.
DocumentSound(d) ==
    LET r == row[d] IN
    /\ ~r.row => ~r.purged /\ ~r.attached
    /\ ~r.attached => r.file = 0
    /\ r.row => contract[<<d, 0>>] # "none" /\ contract[<<d, r.file>>] # "none"
    /\ r.row /\ ~r.purged /\ ~(IF r.attached THEN target.ran ELSE r.aged) =>
          contract[<<d, r.file>>] \in {"fresh", "old"}
    /\ r.purged => ~r.extracted /\ contract[<<d, r.file>>] \notin {"fresh", "old"}

\* What a run of document d has in hand is still as it left it.
FileRunSound(w) ==
    LET v == worker[w]
        d == v.document
    IN
    /\ v.pc \in Keeping \cup {"extract"} => d \in Documents
    /\ v.pc \in Keeping => contract[<<d, 0>>] # "none"
    /\ v.pc = "upload" => ~row[d].row /\ contract[<<d, 0>>] = "fresh"
    /\ v.pc = "attach" =>
          /\ ~row[d].purged /\ ~row[d].attached
          /\ v.copy # 0 /\ contract[<<d, v.copy>>] = "fresh"
    /\ v.pc = "purge" => row[d].row /\ contract[<<d, row[d].file>>] = "gone"

\* No two runs keep one document.
Alone(w) ==
    worker[w].pc \in Keeping =>
        \A u \in Workers \ {w} : worker[u].pc \in Keeping => worker[u].document # worker[w].document

NamesUpload(r) == r.row /\ ~r.purged /\ r.file = 0

\* A sweep deletes no upload a row names: what it found old was written before
\* it read the names, and a row that commits since names a fresh file.
SweepSound(w) ==
    worker[w].pc = "sweep" =>
        /\ worker[w].settled \subseteq Evidence!Swept
        /\ \A d \in Documents : <<d, 0>> \in worker[w].settled =>
              /\ contract[<<d, 0>>] \in {"old", "gone"}
              /\ NamesUpload(row[d]) => <<d, 0>> \in worker[w].names

FilesInv ==
    /\ FilesTyped
    /\ target.past => target.ran
    /\ \A d \in Documents : DocumentSound(d)
    /\ \A w \in Workers : FileRunSound(w) /\ SweepSound(w) /\ Alone(w)

LEMMA FilesInvIsEnough == FilesInv => Evidence!FilesAreKept /\ Evidence!TypeOK
BY DEF FilesInv, FilesTyped, FileRun, DocumentSound, Evidence!FilesAreKept, Evidence!RowsHaveFiles,
   Evidence!PurgedIsEmpty, Evidence!Stored, Evidence!TypeOK

LEMMA FileFacts ==
    /\ None \notin Documents /\ MaxCopies \in Nat \ {0} /\ Evidence!Numbers = 0..MaxCopies
    /\ 0 \in Evidence!Numbers
    /\ Evidence!NoDocument \in Evidence!Document
    /\ Evidence!Idle \in FileRun /\ Evidence!Idle.pc = "idle"
BY SubjectAssumption DEF Evidence!FileAssumption, Evidence!Numbers, Evidence!NoDocument,
   Evidence!Document, Evidence!Idle, FileRun

LEMMA FilesBegin == Evidence!Init => FilesInv
<1> SUFFICES ASSUME Evidence!Init PROVE FilesInv
  OBVIOUS
<1>1. FilesTyped
  BY FileFacts DEF Evidence!Init, FilesTyped, Evidence!Claim, Evidence!Ages
<1>2. \A d \in Documents : row[d] = Evidence!NoDocument
  BY DEF Evidence!Init
<1>3. \A w \in Workers : worker[w].pc = "idle"
  BY DEF Evidence!Init, Evidence!Idle
<1> QED BY <1>1, <1>2, <1>3 DEF FilesInv, DocumentSound, FileRunSound, SweepSound, Alone, Keeping,
     Evidence!NoDocument, Evidence!Init

\* Files grow old and are deleted, and never come back.
Ages(s, t) ==
    \/ t = s
    \/ s = "none" /\ t = "fresh"
    \/ s = "fresh" /\ t = "old"
    \/ s # "none" /\ t = "gone"

\* A step of the runs in W that touches the documents in D and their files, and
\* does right by these.
FilesStep(W, D) ==
    /\ FilesTyped'
    /\ \A u \in Workers \ W : worker'[u] = worker[u]
    /\ \A d \in Documents \ D :
          row'[d] = row[d]
          /\ \A n \in Evidence!Numbers : contract'[<<d, n>>] = contract[<<d, n>>]
    /\ (target.ran => target'.ran) /\ (target'.past => target'.ran)
    /\ \A f \in Evidence!Files : Ages(contract[f], contract'[f])
    /\ \A d \in D :
          /\ DocumentSound(d)'
          /\ NamesUpload(row'[d]) => NamesUpload(row[d]) \/ contract[<<d, 0>>] = "fresh"
    /\ \A w \in W : FileRunSound(w)' /\ SweepSound(w)' /\ Alone(w)'
    /\ \A u \in Workers \ W :
          worker[u].pc \in Keeping /\ worker[u].document \in D => FileRunSound(u)'

LEMMA FilesGoOn ==
    ASSUME FilesInv, NEW W \in SUBSET Workers, NEW D \in SUBSET Documents, FilesStep(W, D)
    PROVE  FilesInv'
<1> USE DEF FilesStep
<1>0. \A d \in Documents : row[d] \in Evidence!Document /\ row'[d] \in Evidence!Document
                           /\ row[d].file \in Evidence!Numbers
  BY DEF FilesInv, FilesTyped, Evidence!Document
<1>1. ASSUME NEW d \in Documents \ D PROVE DocumentSound(d)'
  <2>1. DocumentSound(d) /\ 0 \in Evidence!Numbers
    BY FileFacts DEF FilesInv
  <2> QED BY <1>0, <1>1, <2>1 DEF DocumentSound
<1>2. ASSUME NEW u \in Workers \ W PROVE FileRunSound(u)'
  <2>1. CASE worker[u].pc \in Keeping /\ worker[u].document \in D
    BY <2>1
  <2>2. CASE worker[u].pc \notin Keeping
    BY <2>2 DEF FilesInv, FileRunSound, Keeping
  <2>3. CASE worker[u].pc \in Keeping /\ worker[u].document \notin D
    <3>1. /\ worker[u].document \in Documents \ D /\ worker[u].copy \in Evidence!Numbers
          /\ 0 \in Evidence!Numbers /\ FileRunSound(u)
      BY <2>3, FileFacts DEF FilesInv, FilesTyped, FileRun, FileRunSound
    <3> QED BY <1>0, <3>1 DEF FileRunSound
  <2> QED BY <2>1, <2>2, <2>3
<1>3. ASSUME NEW u \in Workers \ W PROVE SweepSound(u)'
  <2>1. SweepSound(u) /\ worker'[u] = worker[u]
    BY DEF FilesInv
  <2>2. ASSUME NEW d \in Documents, worker[u].pc = "sweep", <<d, 0>> \in worker[u].settled
        PROVE  /\ contract'[<<d, 0>>] \in {"old", "gone"}
               /\ NamesUpload(row'[d]) => <<d, 0>> \in worker[u].names
    <3>1. contract[<<d, 0>>] \in {"old", "gone"} /\ (NamesUpload(row[d]) => <<d, 0>> \in worker[u].names)
      BY <2>1, <2>2 DEF SweepSound
    <3>2. <<d, 0>> \in Evidence!Files
      BY FileFacts DEF Evidence!Files
    <3>3. contract'[<<d, 0>>] \in {"old", "gone"}
      BY <3>1, <3>2 DEF Ages
    <3>4. NamesUpload(row'[d]) => NamesUpload(row[d])
      BY <3>1
    <3> QED BY <3>1, <3>3, <3>4
  <2> QED BY <2>1, <2>2 DEF SweepSound
<1>4. ASSUME NEW u \in Workers \ W PROVE Alone(u)'
  BY DEF FilesInv, Alone
<1> QED BY <1>1, <1>2, <1>3, <1>4 DEF FilesInv

-----------------------------------------------------------------------------
(* Uploads and attachments.                                                *)

LEMMA OtherKeeps ==
    ASSUME FilesInv, NEW u \in Workers, worker[u].pc \in Keeping
    PROVE  LET d == worker[u].document IN
           /\ d \in Documents /\ worker[u].copy \in Evidence!Numbers
           /\ contract[<<d, 0>>] # "none"
           /\ row[d].row => Evidence!Locked(d)
           /\ worker[u].pc # "upload" => Evidence!Locked(d)
<1> DEFINE d == worker[u].document
<1>1. FileRunSound(u) /\ worker[u] \in FileRun
  BY DEF FilesInv, FilesTyped
<1>2. /\ d \in Documents /\ worker[u].copy \in Evidence!Numbers /\ contract[<<d, 0>>] # "none"
      /\ worker[u].pc = "upload" => ~row[d].row
  BY <1>1 DEF FileRunSound, FileRun
<1>3. worker[u].pc # "upload" => Evidence!Locked(d)
  BY DEF Keeping, Evidence!Locked
<1> QED BY <1>2, <1>3

LEMMA UploadKeeps ==
    ASSUME FilesInv, NEW w \in Workers, NEW d \in Documents, Evidence!Upload(w, d)
    PROVE  FilesInv'
<1> DEFINE v == [Evidence!Idle EXCEPT !.pc = "upload", !.document = d]
<1>1. /\ worker' = [worker EXCEPT ![w] = v] /\ contract' = [contract EXCEPT ![<<d, 0>>] = "fresh"]
      /\ row' = row /\ target' = target /\ contract[<<d, 0>>] = "none"
      /\ row[d] = Evidence!NoDocument
  BY DEF Evidence!Upload
<1>2. v \in FileRun /\ v.pc = "upload" /\ v.document = d
  BY FileFacts DEF FileRun, Evidence!Idle
<1> HIDE DEF v
<1>3. FilesTyped'
  BY <1>1, <1>2 DEF FilesInv, FilesTyped, Evidence!Ages
<1>4. \A f \in Evidence!Files : contract'[f] = IF f = <<d, 0>> THEN "fresh" ELSE contract[f]
  BY <1>1 DEF FilesInv, FilesTyped
<1>5. \A u \in Workers : worker'[u] = IF u = w THEN v ELSE worker[u]
  BY <1>1 DEF FilesInv, FilesTyped
<1>6. <<d, 0>> \in Evidence!Files /\ \A e \in Documents, n \in Evidence!Numbers : <<e, n>> \in Evidence!Files
  BY FileFacts DEF Evidence!Files
<1>7. DocumentSound(d)' /\ ~NamesUpload(row'[d])
  BY <1>1 DEF DocumentSound, NamesUpload, Evidence!NoDocument
<1>8. FileRunSound(w)' /\ SweepSound(w)'
  BY <1>1, <1>2, <1>4, <1>5, <1>6 DEF FileRunSound, SweepSound, Keeping, Evidence!NoDocument
<1>9. \A u \in Workers : worker[u].pc \in Keeping => worker[u].document # d
  BY <1>1, OtherKeeps
<1>10. Alone(w)'
  BY <1>2, <1>5, <1>9 DEF Alone
<1>11. FilesStep({w}, {d})
  BY <1>1, <1>3, <1>4, <1>5, <1>6, <1>7, <1>8, <1>9, <1>10 DEF FilesStep, FilesInv, Ages
<1> QED BY <1>11, FilesGoOn

LEMMA AttachKeeps ==
    ASSUME FilesInv, NEW w \in Workers, NEW d \in Documents, NEW n \in Evidence!Numbers,
           Evidence!Attach(w, d, n)
    PROVE  FilesInv'
<1> DEFINE v == [Evidence!Idle EXCEPT !.pc = "attach", !.document = d, !.copy = n]
<1>1. /\ worker' = [worker EXCEPT ![w] = v] /\ contract' = [contract EXCEPT ![<<d, n>>] = "fresh"]
      /\ row' = row /\ target' = target /\ contract[<<d, n>>] = "none" /\ n # 0
      /\ contract[<<d, row[d].file>>] \in {"fresh", "old"}
  BY DEF Evidence!Attach, Evidence!Stored
<1>2. v \in FileRun /\ v.pc = "attach" /\ v.document = d /\ v.copy = n
  BY FileFacts DEF FileRun, Evidence!Idle
<1> HIDE DEF v
<1>3. FilesTyped'
  BY <1>1, <1>2 DEF FilesInv, FilesTyped, Evidence!Ages
<1>4. \A f \in Evidence!Files : contract'[f] = IF f = <<d, n>> THEN "fresh" ELSE contract[f]
  BY <1>1 DEF FilesInv, FilesTyped
<1>5. \A u \in Workers : worker'[u] = IF u = w THEN v ELSE worker[u]
  BY <1>1 DEF FilesInv, FilesTyped
<1>6. /\ 0 \in Evidence!Numbers /\ row[d].file \in Evidence!Numbers
      /\ \A e \in Documents, m \in Evidence!Numbers : <<e, m>> \in Evidence!Files
  BY FileFacts DEF Evidence!Files, FilesInv, FilesTyped, Evidence!Document
<1>7. /\ ~row[d].purged /\ ~row[d].attached /\ contract[<<d, 0>>] # "none"
      /\ \A u \in Workers \ {w} : worker[u].pc \in Keeping => worker[u].document # d
  <2>1. CASE Evidence!Available(d) /\ ~row[d].attached /\ ~Evidence!Locked(d)
    BY <2>1, OtherKeeps DEF Evidence!Available, FilesInv, DocumentSound
  <2>2. CASE worker[w].pc = "upload" /\ worker[w].document = d
    BY <2>2 DEF FilesInv, FileRunSound, DocumentSound, Alone, Keeping
  <2> QED BY <2>1, <2>2 DEF Evidence!Attach
<1>8. DocumentSound(d)'
  <2>1. DocumentSound(d)
    BY DEF FilesInv
  <2> QED BY <1>1, <1>4, <1>6, <2>1 DEF DocumentSound
<1>9. FileRunSound(w)' /\ SweepSound(w)'
  BY <1>1, <1>2, <1>4, <1>5, <1>6, <1>7 DEF FileRunSound, SweepSound, Keeping
<1>10. Alone(w)'
  BY <1>2, <1>5, <1>7 DEF Alone
<1>11. FilesStep({w}, {d})
  BY <1>1, <1>3, <1>4, <1>5, <1>6, <1>7, <1>8, <1>9, <1>10 DEF FilesStep, FilesInv, Ages
<1> QED BY <1>11, FilesGoOn

LEMMA CommitUploadKeeps ==
    ASSUME FilesInv, NEW w \in Workers, Evidence!CommitUpload(w)
    PROVE  FilesInv'
<1>0. PICK d \in Documents : d = worker[w].document
  BY DEF FilesInv, FileRunSound, Keeping, Evidence!CommitUpload
<1> DEFINE r == [Evidence!NoDocument EXCEPT !.row = TRUE]
<1>1. /\ worker' = [worker EXCEPT ![w] = Evidence!Idle] /\ row' = [row EXCEPT ![d] = r]
      /\ contract' = contract /\ target' = target /\ worker[w].pc = "upload"
  BY <1>0 DEF Evidence!CommitUpload, Evidence!Finish
<1>2. contract[<<d, 0>>] = "fresh" /\ Alone(w)
  BY <1>0, <1>1 DEF FilesInv, FileRunSound, Keeping
<1>3. r \in Evidence!Document /\ r.row /\ ~r.purged /\ ~r.attached /\ r.file = 0
  BY FileFacts DEF Evidence!NoDocument, Evidence!Document
<1> HIDE DEF r
<1>4. FilesTyped'
  BY <1>1, <1>2, <1>3, FileFacts DEF FilesInv, FilesTyped
<1>5. /\ \A u \in Workers : worker'[u] = IF u = w THEN Evidence!Idle ELSE worker[u]
      /\ \A e \in Documents : row'[e] = IF e = d THEN r ELSE row[e]
  BY <1>1 DEF FilesInv, FilesTyped
<1>6. DocumentSound(d)'
  BY <1>1, <1>2, <1>3, <1>5 DEF DocumentSound
<1>7. FileRunSound(w)' /\ SweepSound(w)' /\ Alone(w)'
  BY <1>5, FileFacts DEF FileRunSound, SweepSound, Alone, Keeping
<1>8. \A u \in Workers \ {w} : worker[u].pc \in Keeping => worker[u].document # d
  BY <1>0, <1>1, <1>2 DEF Alone, Keeping
<1>9. FilesStep({w}, {d})
  BY <1>1, <1>2, <1>4, <1>5, <1>6, <1>7, <1>8 DEF FilesStep, FilesInv, Ages
<1> QED BY <1>2, <1>9, FilesGoOn

LEMMA CommitAttachKeeps ==
    ASSUME FilesInv, NEW w \in Workers, NEW cleaned \in BOOLEAN, Evidence!CommitAttach(w, cleaned)
    PROVE  FilesInv'
<1>0. PICK d \in Documents, n \in Evidence!Numbers : d = worker[w].document /\ n = worker[w].copy
  BY DEF FilesInv, FilesTyped, FileRun, FileRunSound, Keeping, Evidence!CommitAttach
<1> DEFINE r == [row[d] EXCEPT !.row = TRUE, !.file = n, !.attached = TRUE]
<1>1. /\ worker' = [worker EXCEPT ![w] = Evidence!Idle]
      /\ contract' = contract \/ contract' = [contract EXCEPT ![<<d, 0>>] = "gone"]
      /\ target' = target /\ worker[w].pc = "attach"
  BY <1>0 DEF Evidence!CommitAttach, Evidence!Finish
<1>2. /\ n # 0 /\ Alone(w)
      /\ contract[<<d, n>>] = "fresh" /\ contract[<<d, 0>>] # "none" /\ ~row[d].purged
  BY <1>0, <1>1 DEF FilesInv, FilesTyped, FileRun, FileRunSound, Keeping
<1>3. r \in Evidence!Document /\ r.row /\ ~r.purged /\ r.attached /\ r.file = n
  BY <1>2 DEF FilesInv, FilesTyped, Evidence!Document
<1>10. row' = [row EXCEPT ![d] = r]
  BY <1>0 DEF Evidence!CommitAttach, FilesInv, FilesTyped, Evidence!Document
<1> HIDE DEF r
<1>4. FilesTyped'
  BY <1>1, <1>2, <1>3, <1>10, FileFacts DEF FilesInv, FilesTyped, Evidence!Ages
<1>5. /\ \A u \in Workers : worker'[u] = IF u = w THEN Evidence!Idle ELSE worker[u]
      /\ \A e \in Documents : row'[e] = IF e = d THEN r ELSE row[e]
      /\ \A f \in Evidence!Files :
            contract'[f] = contract[f] \/ (f = <<d, 0>> /\ contract'[f] = "gone")
  BY <1>1, <1>10 DEF FilesInv, FilesTyped
<1>6. /\ 0 \in Evidence!Numbers
      /\ \A e \in Documents, m \in Evidence!Numbers : <<e, m>> \in Evidence!Files
  BY FileFacts DEF Evidence!Files
<1>7. DocumentSound(d)' /\ ~NamesUpload(row'[d])
  BY <1>2, <1>3, <1>5, <1>6 DEF DocumentSound, NamesUpload
<1>8. FileRunSound(w)' /\ SweepSound(w)' /\ Alone(w)'
  BY <1>5, FileFacts DEF FileRunSound, SweepSound, Alone, Keeping
<1>9. \A u \in Workers \ {w} : worker[u].pc \in Keeping => worker[u].document # d
  BY <1>0, <1>1, <1>2 DEF Alone, Keeping
<1>11. FilesStep({w}, {d})
  BY <1>1, <1>2, <1>4, <1>5, <1>6, <1>7, <1>8, <1>9 DEF FilesStep, FilesInv, Ages
<1> QED BY <1>2, <1>11, FilesGoOn

LEMMA FailAttachKeeps ==
    ASSUME FilesInv, NEW w \in Workers, NEW cleaned \in BOOLEAN, Evidence!FailAttach(w, cleaned)
    PROVE  FilesInv'
<1>0. PICK d \in Documents, n \in Evidence!Numbers : d = worker[w].document /\ n = worker[w].copy
  BY DEF FilesInv, FilesTyped, FileRun, FileRunSound, Keeping, Evidence!FailAttach
<1>1. /\ worker' = [worker EXCEPT ![w] = Evidence!Idle] /\ row' = row
      /\ contract' = IF cleaned THEN [contract EXCEPT ![<<d, n>>] = "gone"] ELSE contract
      /\ target' = target /\ worker[w].pc = "attach"
  BY <1>0 DEF Evidence!FailAttach, Evidence!Finish
<1>2. /\ n # 0 /\ Alone(w)
      /\ contract[<<d, n>>] = "fresh" /\ ~row[d].attached /\ DocumentSound(d)
  BY <1>0, <1>1 DEF FilesInv, FilesTyped, FileRun, FileRunSound, Keeping
<1>4. FilesTyped'
  BY <1>1, <1>2, FileFacts DEF FilesInv, FilesTyped, Evidence!Ages
<1>5. /\ \A u \in Workers : worker'[u] = IF u = w THEN Evidence!Idle ELSE worker[u]
      /\ \A f \in Evidence!Files :
            contract'[f] = IF cleaned /\ f = <<d, n>> THEN "gone" ELSE contract[f]
  BY <1>1 DEF FilesInv, FilesTyped
<1>6. /\ 0 \in Evidence!Numbers
      /\ \A e \in Documents, m \in Evidence!Numbers : <<e, m>> \in Evidence!Files
  BY FileFacts DEF Evidence!Files
<1>7. DocumentSound(d)'
  BY <1>1, <1>2, <1>5, <1>6 DEF DocumentSound
<1>8. FileRunSound(w)' /\ SweepSound(w)' /\ Alone(w)'
  BY <1>5, FileFacts DEF FileRunSound, SweepSound, Alone, Keeping
<1>9. \A u \in Workers \ {w} : worker[u].pc \in Keeping => worker[u].document # d
  BY <1>0, <1>1, <1>2 DEF Alone, Keeping
<1>11. FilesStep({w}, {d})
  BY <1>1, <1>2, <1>4, <1>5, <1>6, <1>7, <1>8, <1>9 DEF FilesStep, FilesInv, Ages
<1> QED BY <1>2, <1>11, FilesGoOn

LEMMA DeleteKeeps ==
    ASSUME FilesInv, NEW d \in Documents, NEW cleaned \in BOOLEAN, Evidence!Delete(d, cleaned)
    PROVE  FilesInv'
<1>1. /\ worker' = worker /\ row' = [row EXCEPT ![d] = Evidence!NoDocument] /\ target' = target
      /\ row[d].row /\ ~Evidence!Locked(d)
      /\ contract' = contract \/ contract' = [contract EXCEPT ![<<d, 0>>] = "gone"]
  BY DEF Evidence!Delete
<1>2. contract[<<d, 0>>] # "none"
  BY <1>1 DEF FilesInv, DocumentSound
<1>3. FilesTyped'
  BY <1>1, FileFacts DEF FilesInv, FilesTyped, Evidence!Ages
<1>4. /\ \A e \in Documents : row'[e] = IF e = d THEN Evidence!NoDocument ELSE row[e]
      /\ \A f \in Evidence!Files : contract'[f] = contract[f] \/ (f = <<d, 0>> /\ contract'[f] = "gone")
  BY <1>1 DEF FilesInv, FilesTyped
<1>5. DocumentSound(d)' /\ ~NamesUpload(row'[d])
  BY <1>4 DEF DocumentSound, NamesUpload, Evidence!NoDocument
<1>6. \A u \in Workers : worker[u].pc \in Keeping => worker[u].document # d
  BY <1>1, OtherKeeps
<1>7. \A e \in Documents, m \in Evidence!Numbers : <<e, m>> \in Evidence!Files
  BY DEF Evidence!Files
<1>8. FilesStep({}, {d})
  BY <1>1, <1>2, <1>3, <1>4, <1>5, <1>6, <1>7 DEF FilesStep, FilesInv, Ages
<1> QED BY <1>8, FilesGoOn

-----------------------------------------------------------------------------
(* Extractions, purges and the claim's clock.                              *)

LEMMA ExtractKeeps ==
    ASSUME FilesInv, NEW w \in Workers, NEW d \in Documents, Evidence!Extract(w, d)
    PROVE  FilesInv'
<1> DEFINE v == [Evidence!Idle EXCEPT !.pc = "extract", !.document = d]
           r == [row[d] EXCEPT !.running = @ \cup {w}]
<1>1. /\ worker' = [worker EXCEPT ![w] = v] /\ contract' = contract /\ target' = target
      /\ row[d].row /\ ~Evidence!Locked(d)
  BY DEF Evidence!Extract, Evidence!Available
<1>2. row' = [row EXCEPT ![d] = r]
  BY DEF Evidence!Extract, FilesInv, FilesTyped, Evidence!Document
<1>3. v \in FileRun /\ v.pc = "extract" /\ v.document = d
  BY FileFacts DEF FileRun, Evidence!Idle
<1>4. /\ r \in Evidence!Document /\ r.row = row[d].row /\ r.file = row[d].file
      /\ r.attached = row[d].attached /\ r.purged = row[d].purged /\ r.aged = row[d].aged
      /\ r.extracted = row[d].extracted
  BY DEF FilesInv, FilesTyped, Evidence!Document
<1> HIDE DEF v, r
<1>5. FilesTyped'
  BY <1>1, <1>2, <1>3, <1>4 DEF FilesInv, FilesTyped
<1>6. /\ \A u \in Workers : worker'[u] = IF u = w THEN v ELSE worker[u]
      /\ \A e \in Documents : row'[e] = IF e = d THEN r ELSE row[e]
  BY <1>1, <1>2 DEF FilesInv, FilesTyped
<1>7. DocumentSound(d)' /\ (NamesUpload(row'[d]) => NamesUpload(row[d]))
  <2>1. DocumentSound(d)
    BY DEF FilesInv
  <2> QED BY <1>1, <1>4, <1>6, <2>1 DEF DocumentSound, NamesUpload
<1>8. FileRunSound(w)' /\ SweepSound(w)' /\ Alone(w)'
  BY <1>3, <1>6 DEF FileRunSound, SweepSound, Alone, Keeping
<1>9. \A u \in Workers : worker[u].pc \in Keeping => worker[u].document # d
  BY <1>1, OtherKeeps
<1>10. FilesStep({w}, {d})
  BY <1>1, <1>5, <1>6, <1>7, <1>8, <1>9 DEF FilesStep, FilesInv, Ages
<1> QED BY <1>10, FilesGoOn

LEMMA SaveExtractionKeeps ==
    ASSUME FilesInv, NEW w \in Workers, Evidence!SaveExtraction(w)
    PROVE  FilesInv'
<1>0. PICK d \in Documents : d = worker[w].document
  BY DEF FilesInv, FileRunSound, Keeping, Evidence!SaveExtraction
<1>1. PICK extracted \in BOOLEAN : extracted = (row[d].extracted \/ Evidence!Retained(d))
  OBVIOUS
<1> DEFINE r == [row[d] EXCEPT !.running = @ \ {w}, !.extracted = extracted]
<1>2. /\ worker' = [worker EXCEPT ![w] = Evidence!Idle] /\ contract' = contract /\ target' = target
      /\ worker[w].pc = "extract" /\ ~Evidence!Locked(d)
  BY <1>0 DEF Evidence!SaveExtraction, Evidence!Finish
<1>3. row' = [row EXCEPT ![d] = r]
  BY <1>0, <1>1 DEF Evidence!SaveExtraction, FilesInv, FilesTyped, Evidence!Document
<1>4. /\ r \in Evidence!Document /\ r.row = row[d].row /\ r.file = row[d].file
      /\ r.attached = row[d].attached /\ r.purged = row[d].purged /\ r.aged = row[d].aged
      /\ r.extracted = extracted
  BY DEF FilesInv, FilesTyped, Evidence!Document
<1> HIDE DEF r
<1>5. FilesTyped'
  BY <1>2, <1>3, <1>4, FileFacts DEF FilesInv, FilesTyped
<1>6. /\ \A u \in Workers : worker'[u] = IF u = w THEN Evidence!Idle ELSE worker[u]
      /\ \A e \in Documents : row'[e] = IF e = d THEN r ELSE row[e]
  BY <1>2, <1>3 DEF FilesInv, FilesTyped
<1>7. DocumentSound(d)' /\ (NamesUpload(row'[d]) => NamesUpload(row[d]))
  <2>1. DocumentSound(d) /\ (row[d].purged /\ extracted => row[d].extracted)
    BY <1>1 DEF FilesInv, Evidence!Retained, Evidence!Available
  <2> QED BY <1>2, <1>4, <1>6, <2>1 DEF DocumentSound, NamesUpload
<1>8. FileRunSound(w)' /\ SweepSound(w)' /\ Alone(w)'
  BY <1>6, FileFacts DEF FileRunSound, SweepSound, Alone, Keeping
<1>9. ASSUME NEW u \in Workers \ {w}, worker[u].pc \in Keeping, worker[u].document = d
      PROVE  FileRunSound(u)'
  <2>1. worker[u].pc = "upload" /\ worker'[u] = worker[u] /\ FileRunSound(u)
    BY <1>2, <1>6, <1>9, OtherKeeps DEF FilesInv
  <2> QED BY <1>2, <1>4, <1>6, <1>9, <2>1 DEF FileRunSound, Keeping
<1>10. FilesStep({w}, {d})
  BY <1>2, <1>5, <1>6, <1>7, <1>8, <1>9 DEF FilesStep, FilesInv, Ages
<1> QED BY <1>10, FilesGoOn

LEMMA PurgeFileKeeps ==
    ASSUME FilesInv, NEW w \in Workers, NEW d \in Documents, Evidence!Purge(w, d)
    PROVE  FilesInv'
<1> DEFINE v == [Evidence!Idle EXCEPT !.pc = "purge", !.document = d]
<1>1. /\ worker' = [worker EXCEPT ![w] = v] /\ row' = row /\ target' = target
      /\ contract' = [contract EXCEPT ![<<d, row[d].file>>] = "gone"]
      /\ row[d].row /\ ~row[d].purged /\ ~Evidence!Locked(d)
      /\ IF row[d].attached THEN target.ran ELSE row[d].aged
  BY DEF Evidence!Purge, Evidence!Due, FilesInv
<1>2. v \in FileRun /\ v.pc = "purge" /\ v.document = d
  BY FileFacts DEF FileRun, Evidence!Idle
<1> HIDE DEF v
<1>3. FilesTyped'
  BY <1>1, <1>2 DEF FilesInv, FilesTyped, Evidence!Ages
<1>4. /\ \A u \in Workers : worker'[u] = IF u = w THEN v ELSE worker[u]
      /\ \A f \in Evidence!Files :
            contract'[f] = IF f = <<d, row[d].file>> THEN "gone" ELSE contract[f]
  BY <1>1 DEF FilesInv, FilesTyped
<1>5. /\ 0 \in Evidence!Numbers /\ row[d].file \in Evidence!Numbers
      /\ \A e \in Documents, m \in Evidence!Numbers : <<e, m>> \in Evidence!Files
  BY FileFacts DEF Evidence!Files, FilesInv, FilesTyped, Evidence!Document
<1>6. DocumentSound(d)
  BY DEF FilesInv
<1>7. DocumentSound(d)'
  BY <1>1, <1>4, <1>5, <1>6 DEF DocumentSound
<1>8. \A u \in Workers : worker[u].pc \in Keeping => worker[u].document # d
  BY <1>1, OtherKeeps
<1>9. FileRunSound(w)' /\ SweepSound(w)' /\ Alone(w)'
  BY <1>1, <1>2, <1>4, <1>5, <1>6, <1>8 DEF FileRunSound, SweepSound, Alone, Keeping, DocumentSound
<1>10. FilesStep({w}, {d})
  BY <1>1, <1>3, <1>4, <1>5, <1>6, <1>7, <1>8, <1>9 DEF FilesStep, FilesInv, Ages, DocumentSound
<1> QED BY <1>10, FilesGoOn

LEMMA CommitPurgeKeeps ==
    ASSUME FilesInv, NEW w \in Workers, Evidence!CommitPurge(w)
    PROVE  FilesInv'
<1>0. PICK d \in Documents : d = worker[w].document
  BY DEF FilesInv, FileRunSound, Keeping, Evidence!CommitPurge
<1> DEFINE r == [row[d] EXCEPT !.purged = TRUE, !.running = {}, !.extracted = FALSE]
<1>1. /\ worker' = [worker EXCEPT ![w] = Evidence!Idle] /\ contract' = contract /\ target' = target
      /\ worker[w].pc = "purge" /\ row' = [row EXCEPT ![d] = r]
  BY <1>0 DEF Evidence!CommitPurge, Evidence!Finish
<1>2. row[d].row /\ contract[<<d, row[d].file>>] = "gone" /\ DocumentSound(d) /\ Alone(w)
  BY <1>0, <1>1 DEF FilesInv, FileRunSound
<1>3. /\ r \in Evidence!Document /\ r.row = row[d].row /\ r.file = row[d].file
      /\ r.attached = row[d].attached /\ r.purged /\ ~r.extracted
  BY DEF FilesInv, FilesTyped, Evidence!Document
<1> HIDE DEF r
<1>4. FilesTyped'
  BY <1>1, <1>3, FileFacts DEF FilesInv, FilesTyped
<1>5. /\ \A u \in Workers : worker'[u] = IF u = w THEN Evidence!Idle ELSE worker[u]
      /\ \A e \in Documents : row'[e] = IF e = d THEN r ELSE row[e]
  BY <1>1 DEF FilesInv, FilesTyped
<1>6. DocumentSound(d)' /\ ~NamesUpload(row'[d])
  BY <1>1, <1>2, <1>3, <1>5 DEF DocumentSound, NamesUpload
<1>7. FileRunSound(w)' /\ SweepSound(w)' /\ Alone(w)'
  BY <1>5, FileFacts DEF FileRunSound, SweepSound, Alone, Keeping
<1>8. \A u \in Workers \ {w} : worker[u].pc \in Keeping => worker[u].document # d
  BY <1>0, <1>1, <1>2 DEF Alone, Keeping
<1>9. FilesStep({w}, {d})
  BY <1>1, <1>4, <1>5, <1>6, <1>7, <1>8 DEF FilesStep, FilesInv, Ages
<1> QED BY <1>9, FilesGoOn

LEMMA DocumentAgesKeeps ==
    ASSUME FilesInv, NEW d \in Documents, Evidence!DocumentAges(d)
    PROVE  FilesInv'
<1> DEFINE r == [row[d] EXCEPT !.aged = TRUE]
<1>1. worker' = worker /\ contract' = contract /\ target' = target
  BY DEF Evidence!DocumentAges
<1>2. row' = [row EXCEPT ![d] = r]
  BY DEF Evidence!DocumentAges, FilesInv, FilesTyped, Evidence!Document
<1>3. /\ r \in Evidence!Document /\ r.row = row[d].row /\ r.file = row[d].file
      /\ r.attached = row[d].attached /\ r.purged = row[d].purged /\ r.aged
      /\ r.extracted = row[d].extracted
  BY DEF FilesInv, FilesTyped, Evidence!Document
<1> HIDE DEF r
<1>4. FilesTyped'
  BY <1>1, <1>2, <1>3 DEF FilesInv, FilesTyped
<1>5. \A e \in Documents : row'[e] = IF e = d THEN r ELSE row[e]
  BY <1>2 DEF FilesInv, FilesTyped
<1>6. DocumentSound(d)' /\ (NamesUpload(row'[d]) => NamesUpload(row[d]))
  <2>1. DocumentSound(d)
    BY DEF FilesInv
  <2> QED BY <1>1, <1>3, <1>5, <2>1 DEF DocumentSound, NamesUpload
<1>7. ASSUME NEW u \in Workers, worker[u].document = d
      PROVE  FileRunSound(u)'
  <2>1. FileRunSound(u)
    BY DEF FilesInv
  <2> QED BY <1>1, <1>3, <1>5, <1>7, <2>1 DEF FileRunSound
<1>8. FilesStep({}, {d})
  BY <1>1, <1>4, <1>5, <1>6, <1>7 DEF FilesStep, FilesInv, Ages
<1> QED BY <1>8, FilesGoOn

\* A run that ends, or begins to read, and the claim's clock touch no file.
LEMMA ClocksKeep ==
    ASSUME FilesInv,
           \/ Evidence!HorizonPasses
           \/ \E w \in Workers :
                 \/ Evidence!FailUpload(w) \/ Evidence!LoseExtraction(w) \/ Evidence!FailPurge(w)
                 \/ Evidence!ReadClaim(w)
                 \/ \E status \in {"verified", "ended"} : Evidence!Review(w, status)
    PROVE  FilesInv'
<1>1. CASE Evidence!HorizonPasses
  <2>1. /\ row' = row /\ contract' = contract /\ worker' = worker
        /\ target' \in Evidence!Claim /\ target'.ran
    BY <1>1 DEF Evidence!HorizonPasses, FilesInv, FilesTyped, Evidence!Claim
  <2>2. FilesTyped'
    BY <2>1 DEF FilesInv, FilesTyped
  <2>3. FilesStep({}, {})
    BY <2>1, <2>2 DEF FilesStep, Ages
  <2> QED BY <2>3, FilesGoOn
<1>2. ASSUME NEW w \in Workers, NEW v \in FileRun, v.pc \in {"idle", "review"},
             worker' = [worker EXCEPT ![w] = v], row' = row, contract' = contract,
             target' \in Evidence!Claim, target'.ran = target.ran, target'.past => target.past
      PROVE  FilesInv'
  <2>1. FilesTyped'
    BY <1>2 DEF FilesInv, FilesTyped
  <2>2. \A u \in Workers : worker'[u] = IF u = w THEN v ELSE worker[u]
    BY <1>2 DEF FilesInv, FilesTyped
  <2>3. FileRunSound(w)' /\ SweepSound(w)' /\ Alone(w)'
    BY <1>2, <2>2 DEF FileRunSound, SweepSound, Alone, Keeping
  <2>4. FilesStep({w}, {})
    BY <1>2, <2>1, <2>2, <2>3 DEF FilesStep, FilesInv, Ages
  <2> QED BY <2>4, FilesGoOn
<1>3. ASSUME NEW w \in Workers,
             Evidence!FailUpload(w) \/ Evidence!LoseExtraction(w) \/ Evidence!FailPurge(w)
      PROVE  FilesInv'
  BY <1>2, <1>3, FileFacts
     DEF FilesInv, FilesTyped, Evidence!FailUpload, Evidence!LoseExtraction, Evidence!FailPurge,
         Evidence!Finish
<1>4. ASSUME NEW w \in Workers, Evidence!ReadClaim(w) PROVE FilesInv'
  <2> DEFINE v == [Evidence!Idle EXCEPT !.pc = "review", !.seen = target.status]
  <2>1. /\ worker' = [worker EXCEPT ![w] = v] /\ row' = row /\ contract' = contract
        /\ target' = target /\ target.status \in {"submitted", "verified"}
    BY <1>4 DEF Evidence!ReadClaim, FilesInv, FilesTyped, Evidence!Claim
  <2>2. v \in FileRun /\ v.pc = "review"
    BY <2>1, FileFacts DEF FileRun, Evidence!Idle
  <2> HIDE DEF v
  <2> QED BY <1>2, <2>1, <2>2 DEF FilesInv, FilesTyped
<1>5. ASSUME NEW w \in Workers, NEW status \in {"verified", "ended"}, Evidence!Review(w, status)
      PROVE  FilesInv'
  <2>1. /\ target' \in Evidence!Claim /\ target'.ran = target.ran /\ ~target'.past
    BY <1>5 DEF Evidence!Review, FilesInv, FilesTyped, Evidence!Claim
  <2> QED BY <1>2, <1>5, <2>1, FileFacts DEF Evidence!Review, Evidence!Finish
<1> QED BY <1>1, <1>3, <1>4, <1>5

-----------------------------------------------------------------------------
(* The sweep.                                                              *)

LEMMA SweepReadsKeeps ==
    ASSUME FilesInv, NEW w \in Workers, Evidence!SweepReads(w)
    PROVE  FilesInv'
<1>1. PICK names \in SUBSET Evidence!Files, settled \in SUBSET Evidence!Files :
         names = Evidence!ReferencedNames /\ settled = Evidence!Settled
  <2>1. \A d \in Documents : row[d].file \in Evidence!Numbers
    BY DEF FilesInv, FilesTyped, Evidence!Document
  <2>2. Evidence!ReferencedNames \subseteq Evidence!Files
    BY <2>1 DEF Evidence!ReferencedNames, Evidence!Files
  <2>3. Evidence!Settled \subseteq Evidence!Files
    BY FileFacts DEF Evidence!Settled, Evidence!Swept, Evidence!Files
  <2> QED BY <2>2, <2>3
<1> DEFINE v == [Evidence!Idle EXCEPT !.pc = "sweep", !.names = names, !.settled = settled]
<1>2. worker' = [worker EXCEPT ![w] = v] /\ UNCHANGED <<row, target, contract>>
  BY <1>1 DEF Evidence!SweepReads
<1>3. v \in FileRun /\ v.pc = "sweep" /\ v.names = names /\ v.settled = settled
  BY FileFacts DEF FileRun, Evidence!Idle
<1> HIDE DEF v
<1>4. FilesTyped'
  BY <1>2, <1>3 DEF FilesInv, FilesTyped
<1>5. \A u \in Workers : worker'[u] = IF u = w THEN v ELSE worker[u]
  BY <1>2 DEF FilesInv, FilesTyped
<1>6. SweepSound(w)'
  <2>1. settled \subseteq Evidence!Swept /\ \A f \in settled : contract[f] = "old"
    BY <1>1 DEF Evidence!Settled
  <2>2. \A d \in Documents : NamesUpload(row[d]) => <<d, 0>> \in names
    BY <1>1 DEF Evidence!ReferencedNames, NamesUpload
  <2> QED BY <1>2, <1>3, <1>5, <2>1, <2>2 DEF SweepSound
<1>7. FileRunSound(w)' /\ Alone(w)'
  BY <1>3, <1>5 DEF FileRunSound, Alone, Keeping
<1>8. FilesStep({w}, {})
  BY <1>2, <1>4, <1>5, <1>6, <1>7 DEF FilesStep, FilesInv, Ages
<1> QED BY <1>8, FilesGoOn

LEMMA SweepDeletesKeeps ==
    ASSUME FilesInv, NEW w \in Workers, NEW gone \in SUBSET Evidence!Swept,
           Evidence!SweepDeletes(w, gone)
    PROVE  FilesInv'
<1>1. /\ worker' = [worker EXCEPT ![w] = Evidence!Idle] /\ UNCHANGED <<row, target>>
      /\ contract' = [f \in Evidence!Files |-> IF f \in gone THEN "gone" ELSE contract[f]]
  BY DEF Evidence!SweepDeletes, Evidence!Finish
<1>2. FilesTyped'
  BY <1>1, FileFacts DEF FilesInv, FilesTyped, Evidence!Ages
<1>3. /\ \A u \in Workers : worker'[u] = IF u = w THEN Evidence!Idle ELSE worker[u]
      /\ \A f \in Evidence!Files : contract'[f] = IF f \in gone THEN "gone" ELSE contract[f]
  BY <1>1 DEF FilesInv, FilesTyped
<1>4. \A f \in gone : \E e \in Documents :
         f = <<e, 0>> /\ contract[f] \in {"old", "gone"} /\ ~NamesUpload(row[e])
  <2> TAKE f \in gone
  <2>1. PICK e \in Documents : f = <<e, 0>>
    BY DEF Evidence!Swept
  <2>2. worker[w].pc = "sweep" /\ f \in worker[w].settled /\ f \notin worker[w].names /\ SweepSound(w)
    BY DEF Evidence!SweepDeletes, FilesInv
  <2> QED BY <2>1, <2>2 DEF SweepSound
<1>5. /\ 0 \in Evidence!Numbers
      /\ \A e \in Documents : row[e].file \in Evidence!Numbers
      /\ \A e \in Documents, m \in Evidence!Numbers : <<e, m>> \in Evidence!Files
  BY FileFacts DEF Evidence!Files, FilesInv, FilesTyped, Evidence!Document
<1>6. ASSUME NEW d \in Documents PROVE DocumentSound(d)'
  <2>1. DocumentSound(d) /\ row'[d] = row[d] /\ target' = target
    BY <1>1 DEF FilesInv
  <2>2. /\ contract[<<d, 0>>] # "none" => contract'[<<d, 0>>] # "none"
        /\ contract[<<d, row[d].file>>] # "none" => contract'[<<d, row[d].file>>] # "none"
        /\ contract[<<d, row[d].file>>] \notin {"fresh", "old"} =>
              contract'[<<d, row[d].file>>] \notin {"fresh", "old"}
    BY <1>3, <1>5
  <2>3. row[d].row /\ ~row[d].purged => contract'[<<d, row[d].file>>] = contract[<<d, row[d].file>>]
    <3>1. CASE <<d, row[d].file>> \in gone
      BY <1>4, <3>1 DEF NamesUpload
    <3>2. CASE <<d, row[d].file>> \notin gone
      BY <1>3, <1>5, <3>2
    <3> QED BY <3>1, <3>2
  <2> QED BY <2>1, <2>2, <2>3 DEF DocumentSound
<1>7. FileRunSound(w)' /\ SweepSound(w)' /\ Alone(w)'
  BY <1>3, FileFacts DEF FileRunSound, SweepSound, Alone, Keeping
<1>8. ASSUME NEW u \in Workers \ {w}, worker[u].pc \in Keeping PROVE FileRunSound(u)'
  <2>1. /\ FileRunSound(u) /\ worker'[u] = worker[u] /\ row' = row /\ worker[u].document \in Documents
        /\ worker[u].copy \in Evidence!Numbers
    BY <1>1, <1>3, <1>8, OtherKeeps DEF FilesInv
  <2>2. PICK d \in Documents, n \in Evidence!Numbers : d = worker[u].document /\ n = worker[u].copy
    BY <2>1
  <2>3. /\ contract[<<d, 0>>] # "none" => contract'[<<d, 0>>] # "none"
        /\ \A m \in Evidence!Numbers :
              /\ contract[<<d, m>>] = "fresh" => contract'[<<d, m>>] = "fresh"
              /\ contract[<<d, m>>] = "gone" => contract'[<<d, m>>] = "gone"
    BY <1>3, <1>4, <1>5
  <2> QED BY <1>5, <2>1, <2>2, <2>3 DEF FileRunSound
<1>9. \A f \in Evidence!Files : Ages(contract[f], contract'[f])
  BY <1>3, <1>4 DEF Ages
<1>10. FilesStep({w}, Documents)
  BY <1>1, <1>2, <1>3, <1>6, <1>7, <1>8, <1>9 DEF FilesStep, FilesInv
<1> QED BY <1>10, FilesGoOn

LEMMA SettleFileKeeps ==
    ASSUME FilesInv, NEW f \in Evidence!Files, Evidence!Settle(f)
    PROVE  FilesInv'
<1>0. PICK d \in Documents, n \in Evidence!Numbers : f = <<d, n>>
  BY DEF Evidence!Files
<1>1. /\ UNCHANGED <<row, target, worker>> /\ contract' = [contract EXCEPT ![<<d, n>>] = "old"]
      /\ contract[<<d, n>>] = "fresh" /\ <<d, n>> \notin Evidence!Uncommitted
  BY <1>0 DEF Evidence!Settle
<1>2. FilesTyped'
  BY <1>1 DEF FilesInv, FilesTyped, Evidence!Ages
<1>3. \A g \in Evidence!Files : contract'[g] = IF g = <<d, n>> THEN "old" ELSE contract[g]
  BY <1>1 DEF FilesInv, FilesTyped
<1>4. /\ 0 \in Evidence!Numbers /\ row[d].file \in Evidence!Numbers
      /\ \A e \in Documents, m \in Evidence!Numbers : <<e, m>> \in Evidence!Files
  BY FileFacts DEF Evidence!Files, FilesInv, FilesTyped, Evidence!Document
<1>5. DocumentSound(d)'
  <2>1. DocumentSound(d)
    BY DEF FilesInv
  <2> QED BY <1>1, <1>3, <1>4, <2>1 DEF DocumentSound
<1>6. ASSUME NEW u \in Workers, worker[u].pc \in Keeping, worker[u].document = d
      PROVE  FileRunSound(u)'
  <2>1. FileRunSound(u) /\ worker'[u] = worker[u] /\ row' = row /\ worker[u].copy \in Evidence!Numbers
    BY <1>1, <1>6, OtherKeeps DEF FilesInv
  <2>2. /\ worker[u].pc \in {"upload", "attach"} => n # 0
        /\ worker[u].pc = "attach" => n # worker[u].copy
    BY <1>1, <1>6 DEF Evidence!Uncommitted
  <2> QED BY <1>1, <1>3, <1>4, <1>6, <2>1, <2>2 DEF FileRunSound, Keeping
<1>7. FilesStep({}, {d})
  BY <1>1, <1>2, <1>3, <1>4, <1>5, <1>6 DEF FilesStep, FilesInv, Ages
<1> QED BY <1>7, FilesGoOn

LEMMA FilesStepOn == FilesInv /\ Evidence!Next => FilesInv'
BY UploadKeeps, AttachKeeps, CommitUploadKeeps, CommitAttachKeeps, FailAttachKeeps, DeleteKeeps,
   ExtractKeeps, SaveExtractionKeeps, PurgeFileKeeps, CommitPurgeKeeps, DocumentAgesKeeps, ClocksKeep,
   SweepReadsKeeps, SweepDeletesKeeps, SettleFileKeeps DEF Evidence!Next

LEMMA FilesStays ==
    ASSUME FilesInv, UNCHANGED <<row, target, contract, worker>>
    PROVE  FilesInv'
<1>1. FilesTyped' /\ (target.past => target.ran)'
  BY DEF FilesInv, FilesTyped
<1>2. FilesStep({}, {})
  BY <1>1 DEF FilesStep, Ages
<1> QED BY <1>2, FilesGoOn

-----------------------------------------------------------------------------
(* Folds.  A fold over a set is the value, at the set, of a function on its *)
(* subsets that is chosen by its equation; these lemmas say that there is  *)
(* one, and what the sums it gives are.                                    *)

\* Every set of naturals that has a member has a least one.
LEMMA LeastMember ==
    ASSUME NEW N \in SUBSET Nat, N # {}
    PROVE  \E n \in N : \A m \in N : n <= m
<1>1. PICK n \in N : \A m \in N : ~ (<<m, n>> \in OpToRel(<, Nat))
  BY NatLessThanWellFounded, WFMin
<1>2. \A m \in N : ~(m < n)
  BY <1>1 DEF OpToRel
<1> QED BY <1>2

\* Induction on a number, and on the subsets of a finite set, by removing one
\* element at a time.
LEMMA NumberInduction ==
    ASSUME NEW N, 0 \in N, \A n \in Nat : n \in N => n + 1 \in N
    PROVE  Nat \subseteq N
<1> SUFFICES ASSUME Nat \ N # {} PROVE FALSE
  OBVIOUS
<1>1. PICK n \in Nat \ N : \A m \in Nat \ N : n <= m
  BY LeastMember
<1>2. n - 1 \in Nat /\ n - 1 \notin Nat \ N
  BY <1>1
<1> QED BY <1>1, <1>2

Grows(S, F) == \A T \in SUBSET S : (\A x \in T : T \ {x} \in F) => T \in F

LEMMA SubsetInduction ==
    ASSUME NEW S, IsFiniteSet(S), NEW F, Grows(S, F)
    PROVE  SUBSET S \subseteq F
<1> DEFINE Bad == (SUBSET S) \ F
           N == {Cardinality(T) : T \in Bad}
<1> SUFFICES ASSUME Bad # {} PROVE FALSE
  OBVIOUS
<1>1. \A T \in SUBSET S : IsFiniteSet(T) /\ Cardinality(T) \in Nat
  BY FS_Subset, FS_CardinalityType
<1>2. N \in SUBSET Nat /\ N # {}
  BY <1>1
<1>3. PICK n \in N : \A m \in N : n <= m
  BY <1>2, LeastMember
<1>4. PICK T \in Bad : Cardinality(T) = n
  OBVIOUS
<1>5. PICK x \in T : T \ {x} \notin F
  BY <1>4 DEF Grows
<1>6. T \ {x} \in Bad
  BY <1>4, <1>5
<1>7. Cardinality(T \ {x}) = Cardinality(T) - 1
  BY <1>1, <1>4, <1>5, FS_RemoveElement
<1>8. Cardinality(T \ {x}) >= n
  BY <1>3, <1>6
<1> QED BY <1>1, <1>4, <1>7, <1>8

\* What a fold over S makes of its subset U, where p[U] is the member it takes
\* first and g has the others.
FoldOf(F, b, p, g, U) == IF U = {} THEN b ELSE F[<<p[U], g[U \ {p[U]}]>>]

Takes(p, S) == \A U \in SUBSET S : U # {} => p[U] \in U

Folds(F, b, p, S, g) == \A U \in SUBSET S : g[U] = FoldOf(F, b, p, g, U)

FoldIn(V, F, b, p, S) == \E g \in [SUBSET S -> V] : Folds(F, b, p, S, g)

LEMMA FoldExists ==
    ASSUME NEW S, IsFiniteSet(S), NEW V, NEW b \in V, NEW F \in [S \X V -> V], NEW p, Takes(p, S)
    PROVE  FoldIn(V, F, b, p, S)
<1> DEFINE Upto(n) == {T \in SUBSET S : Cardinality(T) <= n}
           Solved(n) == \E g \in [Upto(n) -> V] : \A U \in Upto(n) : g[U] = FoldOf(F, b, p, g, U)
           N == {n \in Nat : Solved(n)}
<1>0. \A T \in SUBSET S : IsFiniteSet(T) /\ Cardinality(T) \in Nat
                           /\ Cardinality(T) <= Cardinality(S)
  BY FS_Subset, FS_CardinalityType
<1>1. 0 \in N
  <2>1. Upto(0) = {{}}
    BY <1>0, FS_EmptySet
  <2> DEFINE g == [T \in Upto(0) |-> b]
  <2>2. g \in [Upto(0) -> V] /\ \A U \in Upto(0) : g[U] = FoldOf(F, b, p, g, U)
    BY <2>1 DEF FoldOf
  <2>3. Solved(0)
    BY <2>2
  <2> HIDE DEF Solved
  <2> QED BY <2>3
<1>2. ASSUME NEW n \in Nat, n \in N
      PROVE  n + 1 \in N
  <2>1. PICK g \in [Upto(n) -> V] : \A U \in Upto(n) : g[U] = FoldOf(F, b, p, g, U)
    BY <1>2
  <2> DEFINE h == [T \in Upto(n + 1) |-> FoldOf(F, b, p, g, T)]
  <2>2. ASSUME NEW T \in Upto(n + 1), T # {}
        PROVE  p[T] \in S /\ T \ {p[T]} \in Upto(n) /\ g[T \ {p[T]}] \in V
    <3>1. p[T] \in T
      BY <2>2 DEF Takes
    <3>2. T \ {p[T]} \in Upto(n)
      BY <1>0, <3>1, FS_RemoveElement
    <3> QED BY <2>1, <3>1, <3>2
  <2>3. ASSUME NEW T \in Upto(n + 1)
        PROVE  FoldOf(F, b, p, g, T) \in V
    <3>1. CASE T = {}
      BY <3>1 DEF FoldOf
    <3>2. CASE T # {}
      BY <2>2, <3>2 DEF FoldOf
    <3> QED BY <3>1, <3>2
  <2>4. ASSUME NEW T \in Upto(n)
        PROVE  T \in Upto(n + 1) /\ h[T] = g[T]
    <3>1. T \in Upto(n + 1)
      BY <1>0
    <3> QED BY <2>1, <3>1
  <2>5. ASSUME NEW T \in Upto(n + 1)
        PROVE  h[T] = FoldOf(F, b, p, h, T)
    <3>1. CASE T = {}
      BY <3>1 DEF FoldOf
    <3>2. CASE T # {}
      <4>1. h[T \ {p[T]}] = g[T \ {p[T]}]
        BY <2>2, <2>4, <3>2
      <4> QED BY <3>2, <4>1 DEF FoldOf
    <3> QED BY <3>1, <3>2
  <2>6. h \in [Upto(n + 1) -> V]
    BY <2>3
  <2> HIDE DEF h
  <2>7. Solved(n + 1)
    BY <2>5, <2>6
  <2> HIDE DEF Solved
  <2> QED BY <2>7
<1>3. Cardinality(S) \in N
  BY <1>0, <1>1, <1>2, NumberInduction
<1>4. Upto(Cardinality(S)) = SUBSET S
  BY <1>0
<1> QED BY <1>3, <1>4 DEF FoldIn, Folds

\* It is the only one.
LEMMA FoldIsOne ==
    ASSUME NEW S, IsFiniteSet(S), NEW F, NEW b, NEW p, Takes(p, S),
           NEW g, Folds(F, b, p, S, g), NEW h, Folds(F, b, p, S, h)
    PROVE  \A U \in SUBSET S : g[U] = h[U]
<1> DEFINE E == {U \in SUBSET S : g[U] = h[U]}
<1>1. ASSUME NEW U \in SUBSET S, \A x \in U : U \ {x} \in E
      PROVE  U \in E
  <2>1. CASE U = {}
    BY <2>1 DEF Folds, FoldOf
  <2>2. CASE U # {}
    <3>1. g[U \ {p[U]}] = h[U \ {p[U]}]
      BY <1>1, <2>2 DEF Takes
    <3> QED BY <2>2, <3>1 DEF Folds, FoldOf
  <2> QED BY <2>1, <2>2
<1>2. SUBSET S \subseteq E
  <2>1. Grows(S, E)
    BY <1>1 DEF Grows
  <2> HIDE DEF E
  <2> QED BY <2>1, SubsetInduction
<1> QED BY <1>2

-----------------------------------------------------------------------------
(* Sums.                                                                   *)

Some(S) == CHOOSE x \in S : TRUE

\* g has what the values of f at the members of each subset of S add up to.
Adds(f, S, g) ==
    \A U \in SUBSET S : g[U] = IF U = {} THEN 0 ELSE f[Some(U)] + g[U \ {Some(U)}]

SumOf(f, S) == (CHOOSE g \in [SUBSET S -> Int] : Adds(f, S, g))[S]

Counts(f, S) == \A x \in S : f[x] \in Int

LEMMA AddsExists ==
    ASSUME NEW S, IsFiniteSet(S), NEW f, Counts(f, S)
    PROVE  \E g \in [SUBSET S -> Int] : Adds(f, S, g)
<1> DEFINE F == [e \in S \X Int |-> f[e[1]] + e[2]]
           p == [U \in SUBSET S |-> Some(U)]
<1>1. \A x \in S, i \in Int : <<x, i>> \in S \X Int /\ F[<<x, i>>] = f[x] + i
  OBVIOUS
<1>2. F \in [S \X Int -> Int]
  BY DEF Counts
<1>3. \A U \in SUBSET S : p[U] = Some(U) /\ (U # {} => p[U] \in U)
  BY DEF Some
<1> HIDE DEF F, p
<1>4. PICK zero \in Int : zero = 0
  OBVIOUS
<1>5. PICK g \in [SUBSET S -> Int] : Folds(F, zero, p, S, g)
  <2>1. Takes(p, S)
    BY <1>3 DEF Takes
  <2>2. FoldIn(Int, F, zero, p, S)
    BY <1>2, <2>1, FoldExists
  <2> QED BY <2>2 DEF FoldIn
<1>6. ASSUME NEW U \in SUBSET S
      PROVE  g[U] = IF U = {} THEN 0 ELSE f[Some(U)] + g[U \ {Some(U)}]
  <2>1. CASE U = {}
    BY <1>4, <1>5, <2>1 DEF Folds, FoldOf
  <2>2. CASE U # {}
    <3>1. Some(U) \in S /\ g[U \ {Some(U)}] \in Int
      BY <1>3, <2>2
    <3>2. g[U] = F[<<Some(U), g[U \ {Some(U)}]>>]
      BY <1>3, <1>5, <2>2 DEF Folds, FoldOf
    <3> QED BY <1>1, <2>2, <3>1, <3>2
  <2> QED BY <2>1, <2>2
<1> QED BY <1>6 DEF Adds

LEMMA AddsAgree ==
    ASSUME NEW S, IsFiniteSet(S), NEW T \in SUBSET S, NEW f, NEW e, \A x \in T : f[x] = e[x],
           NEW g, Adds(f, S, g), NEW h, Adds(e, T, h)
    PROVE  g[T] = h[T]
<1> DEFINE E == {U \in SUBSET T : g[U] = h[U]}
<1>1. ASSUME NEW U \in SUBSET T, \A x \in U : U \ {x} \in E
      PROVE  U \in E
  <2>1. U # {} => Some(U) \in U
    BY DEF Some
  <2> QED BY <1>1, <2>1 DEF Adds
<1>2. IsFiniteSet(T)
  BY FS_Subset
<1>3. SUBSET T \subseteq E
  <2>1. Grows(T, E)
    BY <1>1 DEF Grows
  <2> HIDE DEF E
  <2> QED BY <1>2, <2>1, SubsetInduction
<1> QED BY <1>3

LEMMA SumIs ==
    ASSUME NEW S, IsFiniteSet(S), NEW f, Counts(f, S)
    PROVE  \E g \in [SUBSET S -> Int] :
              Adds(f, S, g) /\ \A T \in SUBSET S : g[T] = SumOf(f, T)
<1>1. PICK g \in [SUBSET S -> Int] : Adds(f, S, g)
  BY AddsExists
<1>2. ASSUME NEW T \in SUBSET S PROVE g[T] = SumOf(f, T)
  <2> DEFINE h == CHOOSE h \in [SUBSET T -> Int] : Adds(f, T, h)
  <2>1. Adds(f, T, h)
    <3>1. IsFiniteSet(T) /\ Counts(f, T)
      BY FS_Subset DEF Counts
    <3> QED BY <3>1, AddsExists
  <2>2. SumOf(f, T) = h[T]
    BY DEF SumOf
  <2> HIDE DEF h
  <2> QED BY <1>1, <2>1, <2>2, AddsAgree
<1> QED BY <1>1, <1>2

\* What adds up as the equation says is the sum.
LEMMA SumIsOne ==
    ASSUME NEW S, IsFiniteSet(S), NEW f, Counts(f, S), NEW h, Adds(f, S, h)
    PROVE  h[S] = SumOf(f, S)
<1>1. PICK g \in [SUBSET S -> Int] : Adds(f, S, g) /\ \A T \in SUBSET S : g[T] = SumOf(f, T)
  BY SumIs
<1>2. S \in SUBSET S
  OBVIOUS
<1>3. g[S] = h[S]
  BY <1>1, <1>2, AddsAgree
<1> QED BY <1>1, <1>2, <1>3

LEMMA SumOfNone == \A f : SumOf(f, {}) = 0
<1> TAKE f
<1>1. PICK g \in [SUBSET {} -> Int] : Adds(f, {}, g) /\ \A T \in SUBSET {} : g[T] = SumOf(f, T)
  BY SumIs, FS_EmptySet DEF Counts
<1>2. {} \in SUBSET {}
  OBVIOUS
<1> QED BY <1>1, <1>2 DEF Adds

LEMMA SumOfType ==
    ASSUME NEW S, IsFiniteSet(S), NEW f, Counts(f, S)
    PROVE  SumOf(f, S) \in Int
<1>1. PICK g \in [SUBSET S -> Int] : Adds(f, S, g) /\ \A T \in SUBSET S : g[T] = SumOf(f, T)
  BY SumIs
<1>2. S \in SUBSET S
  OBVIOUS
<1> QED BY <1>1, <1>2

\* The value at any one member, and the sum of the others.
LEMMA SumOfOne ==
    ASSUME NEW S, IsFiniteSet(S), NEW f, Counts(f, S), NEW x \in S
    PROVE  SumOf(f, S) = f[x] + SumOf(f, S \ {x})
<1>1. PICK g \in [SUBSET S -> Int] : Adds(f, S, g) /\ \A T \in SUBSET S : g[T] = SumOf(f, T)
  BY SumIs
<1> DEFINE F == {T \in SUBSET S : \A y \in T : g[T] = f[y] + g[T \ {y}]}
<1>2. ASSUME NEW T \in SUBSET S, \A y \in T : T \ {y} \in F, NEW y \in T
      PROVE  g[T] = f[y] + g[T \ {y}]
  <2>1. PICK z \in T : z = Some(T) /\ g[T] = f[z] + g[T \ {z}]
    <3>1. Some(T) \in T
      BY DEF Some
    <3> QED BY <1>1, <3>1 DEF Adds
  <2>2. CASE y = z
    BY <2>1, <2>2
  <2>3. CASE y # z
    <3>1. g[T \ {z}] = f[y] + g[(T \ {z}) \ {y}]
      BY <1>2, <2>3
    <3>2. g[T \ {y}] = f[z] + g[(T \ {y}) \ {z}]
      BY <1>2, <2>3
    <3>3. (T \ {z}) \ {y} = (T \ {y}) \ {z}
      OBVIOUS
    <3> DEFINE rest == g[(T \ {y}) \ {z}]
    <3>4. rest \in Int /\ f[y] \in Int /\ f[z] \in Int
      BY <1>1 DEF Counts
    <3>5. g[T \ {z}] = f[y] + rest /\ g[T \ {y}] = f[z] + rest
      BY <3>1, <3>2, <3>3
    <3> HIDE DEF rest, F
    <3> QED BY <2>1, <3>4, <3>5
  <2> QED BY <2>2, <2>3
<1>3. SUBSET S \subseteq F
  <2>1. Grows(S, F)
    BY <1>2 DEF Grows
  <2> HIDE DEF F
  <2> QED BY <2>1, SubsetInduction
<1>4. S \in F /\ S \ {x} \in SUBSET S
  BY <1>3
<1> QED BY <1>1, <1>4

LEMMA SumOfAdded ==
    ASSUME NEW S, IsFiniteSet(S), NEW f, NEW x, Counts(f, S \cup {x}), x \notin S
    PROVE  SumOf(f, S \cup {x}) = f[x] + SumOf(f, S)
<1>1. IsFiniteSet(S \cup {x}) /\ (S \cup {x}) \ {x} = S
  BY FS_AddElement
<1> QED BY <1>1, SumOfOne

LEMMA SumOfSame ==
    ASSUME NEW S, IsFiniteSet(S), NEW f, Counts(f, S), NEW e, \A x \in S : f[x] = e[x]
    PROVE  SumOf(f, S) = SumOf(e, S)
<1>0. \A d : Counts(d, S) => \E g \in [SUBSET S -> Int] :
               Adds(d, S, g) /\ \A T \in SUBSET S : g[T] = SumOf(d, T)
  BY SumIs
<1>1. Counts(e, S)
  BY DEF Counts
<1>2. PICK g \in [SUBSET S -> Int] : Adds(f, S, g) /\ \A T \in SUBSET S : g[T] = SumOf(f, T)
  BY <1>0
<1>3. PICK h \in [SUBSET S -> Int] : Adds(e, S, h) /\ \A T \in SUBSET S : h[T] = SumOf(e, T)
  BY <1>0, <1>1
<1>4. S \in SUBSET S
  OBVIOUS
<1> QED BY <1>2, <1>3, <1>4, AddsAgree

\* What more members add is not negative if they are not.
LEMMA SumOfMore ==
    ASSUME NEW S, IsFiniteSet(S), NEW f, \A x \in S : f[x] \in Nat, NEW T \in SUBSET S
    PROVE  SumOf(f, T) <= SumOf(f, S)
<1>0. \A U \in SUBSET S : IsFiniteSet(U) /\ Counts(f, U) /\ SumOf(f, U) \in Int
  <2> TAKE U \in SUBSET S
  <2>1. IsFiniteSet(U) /\ Counts(f, U)
    BY FS_Subset DEF Counts
  <2> QED BY <2>1, SumOfType
<1> DEFINE R == S \ T
           F == {U \in SUBSET R : SumOf(f, T) <= SumOf(f, T \cup U)}
<1>1. ASSUME NEW U \in SUBSET R, \A x \in U : U \ {x} \in F
      PROVE  U \in F
  <2>1. CASE U = {}
    <3>1. T \cup U = T
      BY <2>1
    <3> QED BY <1>0, <3>1
  <2>2. CASE U # {}
    <3>1. PICK x \in U : TRUE
      BY <2>2
    <3>2. SumOf(f, T \cup U) = f[x] + SumOf(f, (T \cup U) \ {x})
      BY <1>0, SumOfOne
    <3>3. (T \cup U) \ {x} = T \cup (U \ {x})
      OBVIOUS
    <3>4. SumOf(f, T) <= SumOf(f, T \cup (U \ {x}))
      BY <1>1
    <3>5. f[x] \in Nat /\ SumOf(f, T) \in Int /\ SumOf(f, T \cup (U \ {x})) \in Int
      BY <1>0
    <3>6. \A i, j \in Int, n \in Nat : i <= j => i <= n + j
      OBVIOUS
    <3>7. SumOf(f, T \cup U) = f[x] + SumOf(f, T \cup (U \ {x}))
      BY <3>2, <3>3
    <3> HIDE DEF F
    <3>8. SumOf(f, T) <= SumOf(f, T \cup U)
      BY <3>4, <3>5, <3>6, <3>7
    <3> QED BY <3>8 DEF F
  <2> QED BY <2>1, <2>2
<1>2. SUBSET R \subseteq F
  <2>1. IsFiniteSet(R)
    BY FS_Subset
  <2>2. Grows(R, F)
    BY <1>1 DEF Grows
  <2> HIDE DEF F, R
  <2> QED BY <2>1, <2>2, SubsetInduction
<1>3. T \cup R = S /\ R \in F
  BY <1>2
<1> QED BY <1>3

-----------------------------------------------------------------------------
(* WalletTransfers.                                                        *)

\* What t takes from a, in a history of outcomes c, and what the rows r have
\* taken for it.
EffectOf(c, t, a) == IF c[t] = "mined" THEN Wallet!Cost(t, a) ELSE IF a = "coin" THEN 1 ELSE 0

Effects(c, a) == [t \in Wallet!Transfers |-> EffectOf(c, t, a)]

Debits(r, a) == [t \in Wallet!Transfers |-> r[t].debit[a]]

\* What the model adds up.
SpentBy(c, S, a) == Wallet!MapThenSumSet(LAMBDA t : EffectOf(c, t, a), S)

DebitedBy(r, S, a) == Wallet!MapThenSumSet(LAMBDA t : r[t].debit[a], S)

LEMMA CostIs ==
    ASSUME NEW t \in Wallet!Transfers, NEW a \in Wallet!Assets
    PROVE  /\ Wallet!Cost(t, a) \in Nat
           /\ Wallet!Cost(t, a) = 0 <=> t \in Coins /\ a = "token"
           /\ Wallet!Cost(t, a) <= 2
           /\ \A c : EffectOf(c, t, a) \in Nat /\ EffectOf(c, t, a) <= Wallet!Cost(t, a)
BY DEF Wallet!Cost, Wallet!Assets, Wallet!AssetOf, EffectOf

LEMMA SpentIs ==
    ASSUME NEW c, NEW S \in SUBSET Wallet!Transfers, IsFiniteSet(S), NEW a \in Wallet!Assets
    PROVE  SpentBy(c, S, a) = SumOf(Effects(c, a), S)
<1> DEFINE f == Effects(c, a)
           P(g) == g = [U \in SUBSET S |-> IF U = {} THEN 0
                                           ELSE EffectOf(c, Some(U), a) + g[U \ {Some(U)}]]
           h == CHOOSE g : P(g)
<1>1. SpentBy(c, S, a) = h[S]
  BY DEF SpentBy, Wallet!MapThenSumSet, Wallet!MapThenFoldSet, Some
<1>2. Counts(f, S) /\ \A t \in S : f[t] = EffectOf(c, t, a)
  BY CostIs DEF Counts, Effects
<1>3. \A U \in SUBSET S : U # {} => Some(U) \in S
  BY DEF Some
<1> HIDE DEF f
<1>4. PICK g \in [SUBSET S -> Int] : Adds(f, S, g)
  BY <1>2, AddsExists
<1>5. P(g)
  BY <1>2, <1>3, <1>4 DEF Adds
<1>6. P(h)
  <2> HIDE DEF P
  <2> QED BY <1>5
<1> HIDE DEF h
<1>7. Adds(f, S, h)
  BY <1>2, <1>3, <1>6 DEF Adds
<1> HIDE DEF P
<1>8. h[S] = SumOf(f, S)
  BY <1>2, <1>7, SumIsOne
<1> QED BY <1>1, <1>8 DEF f

LEMMA DebitedIs ==
    ASSUME NEW r, NEW S, IsFiniteSet(S), NEW a, S \subseteq Wallet!Transfers,
           \A t \in S : r[t].debit[a] \in Nat
    PROVE  DebitedBy(r, S, a) = SumOf(Debits(r, a), S)
<1> DEFINE f == Debits(r, a)
           P(g) == g = [U \in SUBSET S |-> IF U = {} THEN 0
                                           ELSE r[Some(U)].debit[a] + g[U \ {Some(U)}]]
           h == CHOOSE g : P(g)
<1>1. DebitedBy(r, S, a) = h[S]
  BY DEF DebitedBy, Wallet!MapThenSumSet, Wallet!MapThenFoldSet, Some
<1>2. Counts(f, S) /\ \A t \in S : f[t] = r[t].debit[a]
  BY DEF Counts, Debits
<1>3. \A U \in SUBSET S : U # {} => Some(U) \in S
  BY DEF Some
<1> HIDE DEF f
<1>4. PICK g \in [SUBSET S -> Int] : Adds(f, S, g)
  BY <1>2, AddsExists
<1>5. P(g)
  BY <1>2, <1>3, <1>4 DEF Adds
<1>6. P(h)
  <2> HIDE DEF P
  <2> QED BY <1>5
<1> HIDE DEF h
<1>7. Adds(f, S, h)
  BY <1>2, <1>3, <1>6 DEF Adds
<1> HIDE DEF P
<1>8. h[S] = SumOf(f, S)
  BY <1>2, <1>7, SumIsOne
<1> QED BY <1>1, <1>8 DEF f

LEMMA BalanceIs ==
    ASSUME NEW S, NEW a
    PROVE  Wallet!BalanceAfter(S, a) = Funds[a] - SpentBy(contract, S, a)
BY DEF Wallet!BalanceAfter, SpentBy, Wallet!Effect, EffectOf, Wallet!MapThenSumSet,
   Wallet!MapThenFoldSet

\* What every EXTENDS of Sequences names alike.
LEMMA WalletSequences ==
    \A s : Wallet!Head(s) = Head(s) /\ Wallet!Tail(s) = Tail(s) /\ Wallet!Len(s) = Len(s)
OBVIOUS

Orders == {<<>>, <<"coin">>, <<"token">>, <<"token", "coin">>, <<"coin", "token">>}

LEMMA OrdersAre ==
    ASSUME NEW s \in Orders
    PROVE  /\ s # <<>> => Wallet!Head(s) \in Wallet!Assets
           /\ Wallet!Len(s) > 1 => Wallet!Tail(s) \in {<<"coin">>, <<"token">>}
           /\ s = <<"coin">> => Wallet!Head(s) = "coin" /\ ~(Wallet!Len(s) > 1)
           /\ s = <<"token", "coin">> =>
                 Wallet!Head(s) = "token" /\ Wallet!Tail(s) = <<"coin">> /\ Wallet!Len(s) > 1
<1>1. /\ Head(<<"coin">>) = "coin" /\ Len(<<"coin">>) = 1
      /\ Head(<<"token">>) = "token" /\ Len(<<"token">>) = 1
      /\ Len(<<>>) = 0
  OBVIOUS
<1>2. /\ Head(<<"token", "coin">>) = "token" /\ Len(<<"token", "coin">>) = 2
      /\ Head(<<"coin", "token">>) = "coin" /\ Len(<<"coin", "token">>) = 2
  OBVIOUS
<1>3. Tail(<<"token", "coin">>) = <<"coin">>
  OBVIOUS
<1>4. Tail(<<"coin", "token">>) = <<"token">>
  OBVIOUS
<1>5. <<"coin">> # <<"token", "coin">> /\ <<"coin">> # <<"coin", "token">>
  OBVIOUS
<1>6. <<"token">> # <<"token", "coin">> /\ <<"token">> # <<"coin", "token">>
  OBVIOUS
<1>7. <<"coin">> # <<"token">> /\ <<"token", "coin">> # <<"coin", "token">>
  OBVIOUS
<1>8. <<>> # <<"coin">> /\ <<>> # <<"token">> /\ <<>> # <<"token", "coin">> /\ <<>> # <<"coin", "token">>
  OBVIOUS
<1> DEFINE Holds(o) ==
          /\ o # <<>> => Wallet!Head(o) \in {"coin", "token"}
          /\ Wallet!Len(o) > 1 => Wallet!Tail(o) \in {<<"coin">>, <<"token">>}
          /\ o = <<"coin">> => Wallet!Head(o) = "coin" /\ ~(Wallet!Len(o) > 1)
          /\ o = <<"token", "coin">> =>
                 Wallet!Head(o) = "token" /\ Wallet!Tail(o) = <<"coin">> /\ Wallet!Len(o) > 1
<1>a. Holds(<<>>)
  <2>1. Wallet!Len(<<>>) = 0
    BY <1>1, WalletSequences
  <2> QED BY <2>1, <1>8
<1>b. Holds(<<"coin">>)
  <2>1. Wallet!Len(<<"coin">>) = 1 /\ Wallet!Head(<<"coin">>) = "coin"
    BY <1>1, WalletSequences
  <2> QED BY <2>1, <1>5
<1>c. Holds(<<"token">>)
  <2>1. Wallet!Len(<<"token">>) = 1 /\ Wallet!Head(<<"token">>) = "token"
    BY <1>1, WalletSequences
  <2> QED BY <2>1, <1>6, <1>7
<1>d. Holds(<<"token", "coin">>)
  <2>1. /\ Wallet!Len(<<"token", "coin">>) = 2 /\ Wallet!Head(<<"token", "coin">>) = "token"
        /\ Wallet!Tail(<<"token", "coin">>) = <<"coin">>
    BY <1>2, <1>3, WalletSequences
  <2> QED BY <2>1, <1>5
<1>e. Holds(<<"coin", "token">>)
  <2>1. /\ Wallet!Len(<<"coin", "token">>) = 2 /\ Wallet!Head(<<"coin", "token">>) = "coin"
        /\ Wallet!Tail(<<"coin", "token">>) = <<"token">>
    BY <1>2, <1>4, WalletSequences
  <2> QED BY <2>1, <1>5, <1>7
<1> HIDE DEF Holds
<1>9. Holds(s)
  BY <1>a, <1>b, <1>c, <1>d, <1>e DEF Orders
<1> QED BY <1>9 DEF Holds, Wallet!Assets

\* The transfers the chain has decided, those recorded, those with an outcome.
Past(c) == {t \in Wallet!Transfers : c[t] \in {"mined", "reverted"}}

Handed(r) == {t \in Wallet!Transfers : r[t].status # "none" /\ ~r[t].imported}

Ended(r) == {t \in Handed(r) : r[t].status \in {"confirmed", "failed"}}

Touched(t, a) == a \in {Wallet!AssetOf(t), "coin"}

\* What is left of a once the transfers in S had their effect, and a holding h
\* that is that less the deductions made since it was read.
LeftOf(c, S, a) == Funds[a] - SumOf(Effects(c, a), S)

Accounts(r, c, h, a) == h.quantity + SumOf(Debits(r, a), h.debited) = LeftOf(c, h.synced, a)

WalletTyped == Wallet!TypeOK /\ IsFiniteSet(Past(contract))

\* The chain never lets the wallet spend what it has not.
Covered == \A a \in Wallet!Assets : LeftOf(contract, Past(contract), a) >= 0

HoldingSound(a) ==
    /\ IsFiniteSet(target[a].debited)
    /\ target[a].debited \subseteq Handed(row)
    /\ target[a].synced \subseteq Past(contract)
    /\ Accounts(row, contract, target[a], a)

TransferSound(t) ==
    /\ row[t].token => t \in Ended(row)
    /\ t \in Ended(row) => t \in Past(contract)
    /\ t \in Ended(row) /\ ~row[t].token =>
          \A a \in Wallet!Assets : Touched(t, a) => t \in target[a].synced

\* A reconciliation is of a transfer with an outcome; when only the coin is
\* left to read and every read was written, the token has seen the transfer.
Reconciling(v) ==
    /\ v.transfer \in Ended(row)
    /\ v.transfer \in Coins => v.assets = <<"coin">>
    /\ v.transfer \in Tokens => v.assets \in {<<"coin">>, <<"token", "coin">>}
    /\ v.transfer \in Tokens /\ v.ok /\ v.assets = <<"coin">> =>
          v.transfer \in target["token"].synced

\* A read that is still current will have seen every outcome the row has.
Reading(w, a) ==
    /\ worker[w].pc \in {"balance", "write"}
    /\ worker[w].assets # <<>>
    /\ a = Wallet!Head(worker[w].assets)
    /\ worker[w].pc = "write" =>
          \A t \in Ended(row) : Touched(t, a) => t \in worker[w].seen

RunSound(w) ==
    /\ worker[w].seen \subseteq Past(contract)
    /\ worker[w].pc = "record" => worker[w].transfer \in Wallet!Transfers
    /\ worker[w].pc \in {"version", "balance", "write"} =>
          /\ worker[w].assets # <<>>
          /\ worker[w].transfer # None => Reconciling(worker[w])
    /\ \A a \in Wallet!Assets : w \in target[a].current => Reading(w, a)

OnceEach == \A t, u \in Handed(row) : NonceOf[t] = NonceOf[u] => t = u

WalletInv ==
    /\ WalletTyped
    /\ Covered
    /\ \A a \in Wallet!Assets : HoldingSound(a)
    /\ \A t \in Wallet!Transfers : TransferSound(t)
    /\ \A w \in Workers : RunSound(w)
    /\ OnceEach

LEMMA TransferConstants ==
    /\ Coins \cap Tokens = {} /\ None \notin Wallet!Transfers /\ Elsewhere \subseteq Wallet!Transfers
    /\ Funds \in [Wallet!Assets -> Nat]
    /\ Wallet!Transfers = Coins \cup Tokens /\ Wallet!Assets = {"coin", "token"}
BY SubjectAssumption DEF Wallet!TransferAssumption, Wallet!Transfers, Wallet!Assets

LEMMA WalletSets ==
    Wallet!Executed = Past(contract) /\ Wallet!Submitted = Handed(row)
BY DEF Wallet!Executed, Past, Wallet!Submitted, Wallet!Recorded, Handed

LEMMA EffectsCount ==
    ASSUME NEW c, NEW a \in Wallet!Assets, NEW S \in SUBSET Wallet!Transfers
    PROVE  /\ Counts(Effects(c, a), S)
           /\ \A t \in S : Effects(c, a)[t] = EffectOf(c, t, a) /\ Effects(c, a)[t] \in Nat
BY CostIs DEF Counts, Effects

LEMMA LeftIs ==
    ASSUME NEW c, NEW a \in Wallet!Assets, NEW S \in SUBSET Wallet!Transfers, IsFiniteSet(S)
    PROVE  LeftOf(c, S, a) \in Int
<1>1. SumOf(Effects(c, a), S) \in Int
  BY EffectsCount, SumOfType
<1>2. Funds[a] \in Int
  BY TransferConstants
<1> QED BY <1>1, <1>2 DEF LeftOf

LEMMA LeftSame ==
    ASSUME NEW c, NEW d, NEW a \in Wallet!Assets, NEW S \in SUBSET Wallet!Transfers,
           IsFiniteSet(S), \A t \in S : c[t] = d[t]
    PROVE  LeftOf(c, S, a) = LeftOf(d, S, a)
<1>1. Counts(Effects(c, a), S)
  BY EffectsCount
<1>2. \A t \in S : Effects(c, a)[t] = Effects(d, a)[t]
  BY DEF Effects, EffectOf
<1>3. SumOf(Effects(c, a), S) = SumOf(Effects(d, a), S)
  BY <1>1, <1>2, SumOfSame
<1> QED BY <1>3 DEF LeftOf

LEMMA LeftMore ==
    ASSUME NEW c, NEW a \in Wallet!Assets, NEW S \in SUBSET Wallet!Transfers,
           IsFiniteSet(S), NEW T \in SUBSET S
    PROVE  LeftOf(c, S, a) <= LeftOf(c, T, a)
<1>1. SumOf(Effects(c, a), T) <= SumOf(Effects(c, a), S)
  BY EffectsCount, SumOfMore
<1>2. IsFiniteSet(T)
  BY FS_Subset
<1>3. SumOf(Effects(c, a), T) \in Int /\ SumOf(Effects(c, a), S) \in Int
  BY <1>2, EffectsCount, SumOfType
<1>4. Funds[a] \in Int
  BY TransferConstants
<1>5. \A n, i, j \in Int : i <= j => n - j <= n - i
  OBVIOUS
<1> QED BY <1>1, <1>3, <1>4, <1>5 DEF LeftOf

LEMMA LeftAdded ==
    ASSUME NEW c, NEW a \in Wallet!Assets, NEW S \in SUBSET Wallet!Transfers, IsFiniteSet(S),
           NEW t \in Wallet!Transfers \ S
    PROVE  LeftOf(c, S \cup {t}, a) = LeftOf(c, S, a) - EffectOf(c, t, a)
<1>1. /\ Counts(Effects(c, a), S \cup {t}) /\ Counts(Effects(c, a), S)
      /\ Effects(c, a)[t] = EffectOf(c, t, a) /\ EffectOf(c, t, a) \in Nat
  <2>1. S \cup {t} \in SUBSET Wallet!Transfers /\ t \in S \cup {t}
    OBVIOUS
  <2>2. EffectOf(c, t, a) \in Nat
    BY CostIs
  <2> QED BY <2>1, <2>2, EffectsCount
<1>2. SumOf(Effects(c, a), S \cup {t}) = EffectOf(c, t, a) + SumOf(Effects(c, a), S)
  BY <1>1, SumOfAdded
<1>3. SumOf(Effects(c, a), S) \in Int
  BY <1>1, SumOfType
<1>4. Funds[a] \in Int
  BY TransferConstants
<1>5. \A n, i \in Int, j \in Nat : n - (j + i) = (n - i) - j
  OBVIOUS
<1> QED BY <1>1, <1>2, <1>3, <1>4, <1>5 DEF LeftOf

LEMMA DebitsAre ==
    ASSUME NEW r, NEW a \in Wallet!Assets, NEW D \in SUBSET Wallet!Transfers, IsFiniteSet(D),
           \A t \in D : r[t].debit[a] \in Nat
    PROVE  /\ Counts(Debits(r, a), D)
           /\ SumOf(Debits(r, a), D) \in Int
<1>1. Counts(Debits(r, a), D)
  BY DEF Counts, Debits
<1> QED BY <1>1, SumOfType

LEMMA DebitsSame ==
    ASSUME NEW r, NEW s, NEW a \in Wallet!Assets, NEW D \in SUBSET Wallet!Transfers,
           IsFiniteSet(D), \A t \in D : r[t].debit[a] \in Nat /\ s[t].debit = r[t].debit
    PROVE  SumOf(Debits(s, a), D) = SumOf(Debits(r, a), D)
<1>1. Counts(Debits(s, a), D)
  BY DEF Counts, Debits
<1>2. \A t \in D : Debits(s, a)[t] = Debits(r, a)[t]
  BY DEF Debits
<1> QED BY <1>1, <1>2, SumOfSame

LEMMA BalanceOf ==
    ASSUME NEW S \in SUBSET Wallet!Transfers, IsFiniteSet(S), NEW a \in Wallet!Assets
    PROVE  Wallet!BalanceAfter(S, a) = LeftOf(contract, S, a)
BY BalanceIs, SpentIs DEF LeftOf

LEMMA WalletInvIsEnough ==
    ASSUME WalletInv
    PROVE  Wallet!TypeOK /\ Wallet!BalancesAreTrue
<1>1. Wallet!TypeOK
  BY DEF WalletInv, WalletTyped
<1>2. Wallet!DebitsAreAccounted
  <2> SUFFICES ASSUME NEW a \in Wallet!Assets
               PROVE  target[a].quantity + DebitedBy(row, target[a].debited, a)
                         = Wallet!BalanceAfter(target[a].synced, a)
    BY DEF Wallet!DebitsAreAccounted, DebitedBy, Wallet!MapThenSumSet, Wallet!MapThenFoldSet
  <2>1. /\ HoldingSound(a) /\ target[a].debited \in SUBSET Wallet!Transfers
        /\ target[a].synced \in SUBSET Wallet!Transfers
        /\ IsFiniteSet(target[a].synced)
    <3>1. HoldingSound(a) /\ IsFiniteSet(Past(contract))
      BY DEF WalletInv, WalletTyped
    <3> QED BY <3>1, FS_Subset DEF HoldingSound, Handed, Past
  <2>2. \A t \in target[a].debited : row[t].debit[a] \in Nat
    BY <1>1, <2>1 DEF Wallet!TypeOK, Wallet!Transaction
  <2>3. DebitedBy(row, target[a].debited, a) = SumOf(Debits(row, a), target[a].debited)
    BY <2>1, <2>2, DebitedIs DEF HoldingSound
  <2>4. Wallet!BalanceAfter(target[a].synced, a) = LeftOf(contract, target[a].synced, a)
    BY <2>1, BalanceOf
  <2> QED BY <2>1, <2>3, <2>4 DEF HoldingSound, Accounts
<1>3. Wallet!ReconciledIsTrue
  <2> SUFFICES ASSUME NEW t \in Handed(row), row[t].status \in {"confirmed", "failed"}, ~row[t].token
               PROVE  t \in target[Wallet!AssetOf(t)].synced /\ t \in target["coin"].synced
    BY WalletSets DEF Wallet!ReconciledIsTrue
  <2>1. t \in Ended(row) /\ TransferSound(t)
    BY DEF WalletInv, Ended, Handed
  <2>2. Wallet!AssetOf(t) \in Wallet!Assets /\ "coin" \in Wallet!Assets
    BY DEF Wallet!AssetOf, Wallet!Assets
  <2> QED BY <2>1, <2>2 DEF TransferSound, Touched
<1>4. Wallet!NonceRecordedOnce
  BY WalletSets DEF WalletInv, OnceEach, Wallet!NonceRecordedOnce
<1> QED BY <1>1, <1>2, <1>3, <1>4 DEF Wallet!BalancesAreTrue

LEMMA WalletBegins ==
    ASSUME Wallet!Init
    PROVE  WalletInv
<1>1. Past(contract) = {} /\ Handed(row) = {} /\ Ended(row) = {}
  BY DEF Wallet!Init, Past, Handed, Ended, Wallet!NoTransaction
<1>2. IsFiniteSet({}) /\ \A f : SumOf(f, {}) = 0
  BY SumOfNone, FS_EmptySet
<1>3. \A a \in Wallet!Assets : Funds[a] \in Nat
  BY TransferConstants
<1>4. WalletTyped
  <2>1. row \in [Wallet!Transfers -> Wallet!Transaction]
    BY DEF Wallet!Init, Wallet!NoTransaction, Wallet!Transaction, Wallet!NoDebit
  <2>2. target \in [Wallet!Assets -> Wallet!HoldingRow]
    BY <1>3 DEF Wallet!Init, Wallet!HoldingRow
  <2>3. worker \in [Workers -> Wallet!Carried]
    BY DEF Wallet!Init, Wallet!Carried, Wallet!Idle
  <2> QED BY <1>1, <1>2, <2>1, <2>2, <2>3 DEF WalletTyped, Wallet!TypeOK, Wallet!Init
<1>5. Covered
  BY <1>1, <1>2, <1>3 DEF Covered, LeftOf
<1>6. \A a \in Wallet!Assets : HoldingSound(a)
  <2> TAKE a \in Wallet!Assets
  <2>1. target[a] = [quantity |-> Funds[a], current |-> {}, debited |-> {}, synced |-> {}]
    BY DEF Wallet!Init
  <2>2. \A n \in Nat : n + 0 = n - 0
    OBVIOUS
  <2> QED BY <1>2, <1>3, <2>1, <2>2 DEF HoldingSound, Accounts, LeftOf
<1>7. \A t \in Wallet!Transfers : TransferSound(t)
  BY <1>1 DEF TransferSound, Wallet!Init, Wallet!NoTransaction
<1>8. \A w \in Workers : RunSound(w)
  BY DEF RunSound, Wallet!Init, Wallet!Idle
<1> QED BY <1>1, <1>4, <1>5, <1>6, <1>7, <1>8 DEF WalletInv, OnceEach

\* A step of the workers in W: what the others hold of it stays true.
WalletStep(W) ==
    /\ \A u \in Workers \ W : worker'[u] = worker[u]
    /\ \A w \in W : RunSound(w)'
    /\ Past(contract) \subseteq Past(contract')
    /\ Ended(row) \subseteq Ended(row')
    /\ \A t \in Ended(row) :
          t \in Tokens /\ t \in target["token"].synced => t \in target'["token"].synced
    /\ \A a \in Wallet!Assets, u \in Workers \ W : u \in target'[a].current =>
          /\ u \in target[a].current
          /\ \A t \in Ended(row') : Touched(t, a) => t \in Ended(row)

LEMMA WalletGoesOn ==
    ASSUME WalletInv, NEW W \in SUBSET Workers, WalletStep(W), WalletTyped', Covered',
           \A a \in Wallet!Assets : HoldingSound(a)',
           \A t \in Wallet!Transfers : TransferSound(t)', OnceEach'
    PROVE  WalletInv'
<1>1. ASSUME NEW u \in Workers PROVE RunSound(u)'
  <2>1. CASE u \in W
    BY <2>1 DEF WalletStep
  <2>2. CASE u \notin W
    <3>1. RunSound(u) /\ worker'[u] = worker[u]
      BY <2>2 DEF WalletInv, WalletStep
    <3>2. /\ worker'[u].seen \subseteq Past(contract')
          /\ worker'[u].pc = "record" => worker'[u].transfer \in Wallet!Transfers
      BY <3>1 DEF RunSound, WalletStep
    <3>3. ASSUME worker'[u].pc \in {"version", "balance", "write"}
          PROVE  /\ worker'[u].assets # <<>>
                 /\ worker'[u].transfer # None => Reconciling(worker[u])'
      BY <3>1, <3>3 DEF RunSound, WalletStep, Reconciling
    <3>4. ASSUME NEW a \in Wallet!Assets, u \in target'[a].current PROVE Reading(u, a)'
      BY <2>2, <3>1, <3>4 DEF RunSound, WalletStep, Reading
    <3>5. worker'[u].transfer # None /\ worker'[u].pc \in {"version", "balance", "write"} =>
             Reconciling(worker[u])'
      BY <3>3
    <3> QED BY <3>2, <3>3, <3>4, <3>5 DEF RunSound
  <2> QED BY <2>1, <2>2
<1> QED BY <1>1 DEF WalletInv

-----------------------------------------------------------------------------
(* The chain's steps, and those of one worker alone.                       *)

LEMMA HoldingSame ==
    ASSUME WalletInv, NEW a \in Wallet!Assets, row' = row, target' = target,
           WalletTyped', Past(contract) \subseteq Past(contract'),
           \A t \in Past(contract) : contract'[t] = contract[t]
    PROVE  HoldingSound(a)'
<1>1. HoldingSound(a) /\ IsFiniteSet(Past(contract))
  BY DEF WalletInv, WalletTyped
<1>2. target[a].synced \in SUBSET Wallet!Transfers /\ IsFiniteSet(target[a].synced)
  BY <1>1, FS_Subset DEF HoldingSound, Past
<1>3. LeftOf(contract, target[a].synced, a) = LeftOf(contract', target[a].synced, a)
  BY <1>1, <1>2, LeftSame DEF HoldingSound
<1>4. Accounts(row, contract', target[a], a)
  BY <1>1, <1>3 DEF HoldingSound, Accounts
<1> QED BY <1>1, <1>4 DEF HoldingSound

LEMMA ChainGoes ==
    ASSUME WalletInv, NEW t \in Wallet!Transfers, NEW v \in {"sent", "mined", "reverted"},
           contract' = [contract EXCEPT ![t] = v], t \notin Past(contract),
           \A a \in Wallet!Assets : v # "sent" =>
              LeftOf(contract, Past(contract), a) >= EffectOf(contract', t, a),
           row' = row, target' = target, worker' = worker
    PROVE  WalletInv'
<1>1. /\ contract \in [Wallet!Transfers -> {"none", "sent", "mined", "reverted"}]
      /\ \A u \in Wallet!Transfers : contract'[u] = IF u = t THEN v ELSE contract[u]
  BY DEF WalletInv, WalletTyped, Wallet!TypeOK
<1>2. Past(contract') = IF v = "sent" THEN Past(contract) ELSE Past(contract) \cup {t}
  BY <1>1 DEF Past
<1>3. IsFiniteSet(Past(contract)) /\ IsFiniteSet(Past(contract'))
  BY <1>2, FS_AddElement DEF WalletInv, WalletTyped
<1>4. WalletTyped'
  BY <1>1, <1>3 DEF WalletInv, WalletTyped, Wallet!TypeOK
<1>5. Covered'
  <2> SUFFICES ASSUME NEW a \in Wallet!Assets PROVE LeftOf(contract', Past(contract'), a) >= 0
    BY DEF Covered
  <2>1. /\ Past(contract) \in SUBSET Wallet!Transfers
        /\ \A u \in Past(contract) : contract[u] = contract'[u]
    BY <1>1 DEF Past
  <2>2. LeftOf(contract, Past(contract), a) = LeftOf(contract', Past(contract), a)
    <3>1. PICK d : d = contract'
      OBVIOUS
    <3>2. \A u \in Past(contract) : contract[u] = d[u]
      BY <2>1, <3>1
    <3>3. LeftOf(contract, Past(contract), a) = LeftOf(d, Past(contract), a)
      BY <1>3, <2>1, <3>2, LeftSame
    <3> QED BY <3>1, <3>3
  <2>3. LeftOf(contract, Past(contract), a) >= 0 /\ LeftOf(contract, Past(contract), a) \in Int
    BY <1>3, <2>1, LeftIs DEF WalletInv, Covered
  <2>4. CASE v = "sent"
    BY <1>2, <2>2, <2>3, <2>4
  <2>5. CASE v # "sent"
    <3>1. LeftOf(contract', Past(contract) \cup {t}, a)
             = LeftOf(contract', Past(contract), a) - EffectOf(contract', t, a)
      BY <1>3, <2>1, LeftAdded
    <3>2. EffectOf(contract', t, a) \in Nat
      BY CostIs
    <3>3. \A i \in Int, n \in Nat : i >= n => i - n >= 0
      OBVIOUS
    <3> QED BY <1>2, <2>2, <2>3, <2>5, <3>1, <3>2, <3>3
  <2> QED BY <2>4, <2>5
<1>6. Past(contract) \subseteq Past(contract') /\ \A u \in Past(contract) : contract'[u] = contract[u]
  BY <1>1, <1>2 DEF Past
<1>7. \A a \in Wallet!Assets : HoldingSound(a)'
  BY <1>4, <1>6, HoldingSame
<1>8. (\A u \in Wallet!Transfers : TransferSound(u)') /\ OnceEach'
  BY <1>6 DEF WalletInv, TransferSound, OnceEach
<1>9. WalletStep({})
  BY <1>6 DEF WalletStep
<1> QED BY <1>4, <1>5, <1>7, <1>8, <1>9, WalletGoesOn

LEMMA DeliverKeeps ==
    ASSUME WalletInv, NEW t \in Wallet!Transfers, Wallet!Deliver(t) \/ Wallet!SendElsewhere(t)
    PROVE  WalletInv'
<1>1. /\ contract' = [contract EXCEPT ![t] = "sent"] /\ contract[t] = "none"
      /\ row' = row /\ target' = target /\ worker' = worker
  BY DEF Wallet!Deliver, Wallet!SendElsewhere
<1>2. t \notin Past(contract)
  BY <1>1 DEF Past
<1> QED BY <1>1, <1>2, ChainGoes

LEMMA ExecuteKeeps ==
    ASSUME WalletInv, NEW t \in Wallet!Transfers, NEW outcome \in {"mined", "reverted"},
           Wallet!Execute(t, outcome)
    PROVE  WalletInv'
<1>1. /\ contract' = [contract EXCEPT ![t] = outcome] /\ contract[t] = "sent"
      /\ row' = row /\ target' = target /\ worker' = worker
      /\ Wallet!Balance("coin") >= Wallet!Cost(t, "coin")
      /\ outcome = "mined" => Wallet!Balance(Wallet!AssetOf(t)) >= Wallet!Cost(t, Wallet!AssetOf(t))
  BY DEF Wallet!Execute
<1>2. t \notin Past(contract)
  BY <1>1 DEF Past
<1>3. contract'[t] = outcome
  BY <1>1 DEF WalletInv, WalletTyped, Wallet!TypeOK
<1>4. \A a \in Wallet!Assets : /\ Wallet!Balance(a) = LeftOf(contract, Past(contract), a)
                               /\ LeftOf(contract, Past(contract), a) \in Int
                               /\ LeftOf(contract, Past(contract), a) >= 0
  <2>1. Past(contract) \in SUBSET Wallet!Transfers /\ IsFiniteSet(Past(contract))
    BY DEF Past, WalletInv, WalletTyped
  <2> QED BY <2>1, BalanceOf, LeftIs, WalletSets DEF Wallet!Balance, WalletInv, Covered
<1>5. ASSUME NEW a \in Wallet!Assets
      PROVE  LeftOf(contract, Past(contract), a) >= EffectOf(contract', t, a)
  <2>1. /\ Wallet!Cost(t, a) \in Nat /\ EffectOf(contract', t, a) \in Nat
        /\ EffectOf(contract', t, a) <= Wallet!Cost(t, a)
    BY CostIs
  <2>2. \A i \in Int, m, n \in Nat : i >= n /\ m <= n => i >= m
    OBVIOUS
  <2>3. CASE a = "coin"
    BY <1>1, <1>4, <2>1, <2>2, <2>3
  <2>4. CASE a # "coin" /\ outcome = "mined" /\ a = Wallet!AssetOf(t)
    BY <1>1, <1>4, <2>1, <2>2, <2>4
  <2>5. CASE a # "coin" /\ ~(outcome = "mined" /\ a = Wallet!AssetOf(t))
    <3>1. EffectOf(contract', t, a) = 0
      BY <1>3, <2>5 DEF EffectOf, Wallet!Cost
    <3> QED BY <1>4, <3>1
  <2> QED BY <2>3, <2>4, <2>5
<1> QED BY <1>1, <1>2, <1>5, ChainGoes

\* A step that changes what one worker carries and nothing else.
LEMMA CarriedGoes ==
    ASSUME WalletInv, NEW w \in Workers, NEW v \in Wallet!Carried,
           worker' = [worker EXCEPT ![w] = v], row' = row, target' = target, contract' = contract,
           v.seen \subseteq Past(contract),
           v.pc = "record" => v.transfer \in Wallet!Transfers,
           v.pc \in {"version", "balance", "write"} =>
              v.assets # <<>> /\ (v.transfer # None => Reconciling(v)),
           \A a \in Wallet!Assets : w \in target[a].current =>
              /\ v.pc \in {"balance", "write"} /\ v.assets # <<>> /\ a = Wallet!Head(v.assets)
              /\ v.pc = "write" => \A t \in Ended(row) : Touched(t, a) => t \in v.seen
    PROVE  WalletInv'
<1>1. /\ worker \in [Workers -> Wallet!Carried]
      /\ \A u \in Workers : worker'[u] = IF u = w THEN v ELSE worker[u]
  BY DEF WalletInv, WalletTyped, Wallet!TypeOK
<1>2. WalletTyped' /\ Covered' /\ OnceEach'
  BY <1>1 DEF WalletInv, WalletTyped, Wallet!TypeOK, Covered, OnceEach
<1>3. /\ \A a \in Wallet!Assets : HoldingSound(a)'
      /\ \A t \in Wallet!Transfers : TransferSound(t)'
  BY DEF WalletInv, HoldingSound, TransferSound
<1>4. RunSound(w)'
  <2>1. worker'[w] = v
    BY <1>1
  <2>2. v.pc \in {"version", "balance", "write"} /\ v.transfer # None => Reconciling(worker[w])'
    BY <2>1 DEF Reconciling
  <2>3. \A a \in Wallet!Assets : w \in target'[a].current => Reading(w, a)'
    BY <2>1 DEF Reading
  <2> QED BY <2>1, <2>2, <2>3 DEF RunSound
<1>5. WalletStep({w})
  BY <1>1, <1>4 DEF WalletStep
<1> QED BY <1>2, <1>3, <1>5, WalletGoesOn

LEMMA IdleReads ==
    ASSUME WalletInv, NEW w \in Workers, worker[w].pc \in {"idle", "record", "version"}
    PROVE  \A a \in Wallet!Assets : w \notin target[a].current
BY DEF WalletInv, RunSound, Reading

LEMMA SubmitKeeps ==
    ASSUME WalletInv, NEW w \in Workers, NEW t \in Wallet!Transfers, Wallet!Submit(w, t)
    PROVE  WalletInv'
<1> DEFINE v == [Wallet!Idle EXCEPT !.pc = "record", !.transfer = t]
<1>1. /\ worker' = [worker EXCEPT ![w] = v] /\ worker[w] = Wallet!Idle
      /\ row' = row /\ target' = target /\ contract' = contract
  BY DEF Wallet!Submit
<1>2. v \in Wallet!Carried /\ v.pc = "record" /\ v.transfer = t /\ v.seen = {}
  BY DEF Wallet!Idle, Wallet!Carried
<1>3. \A a \in Wallet!Assets : w \notin target[a].current
  BY <1>1, IdleReads DEF Wallet!Idle
<1> HIDE DEF v
<1> QED BY <1>1, <1>2, <1>3, CarriedGoes

LEMMA ReconcileKeeps ==
    ASSUME WalletInv, NEW w \in Workers, NEW t \in Wallet!Transfers, Wallet!Reconcile(w, t)
    PROVE  WalletInv'
<1> DEFINE v == [Wallet!Idle EXCEPT !.pc = "version", !.transfer = t,
                       !.assets = IF t \in Coins THEN <<"coin">> ELSE <<"token", "coin">>]
<1>1. /\ worker' = [worker EXCEPT ![w] = v] /\ worker[w] = Wallet!Idle /\ row[t].token
      /\ row' = row /\ target' = target /\ contract' = contract
  BY DEF Wallet!Reconcile
<1>2. /\ v \in Wallet!Carried /\ v.pc = "version" /\ v.transfer = t /\ v.seen = {}
      /\ v.assets = IF t \in Coins THEN <<"coin">> ELSE <<"token", "coin">>
  BY DEF Wallet!Idle, Wallet!Carried
<1>3. \A a \in Wallet!Assets : w \notin target[a].current
  BY <1>1, IdleReads DEF Wallet!Idle
<1>4. t \in Ended(row)
  BY <1>1 DEF WalletInv, TransferSound
<1> HIDE DEF v
<1>5. <<"token", "coin">> # <<"coin">> /\ <<"coin">> # <<>> /\ <<"token", "coin">> # <<>>
  OBVIOUS
<1>6. v.assets # <<>> /\ Reconciling(v)
  BY <1>2, <1>4, <1>5, TransferConstants DEF Reconciling
<1> QED BY <1>1, <1>2, <1>3, <1>6, CarriedGoes

LEMMA ReadBalanceKeeps ==
    ASSUME WalletInv, NEW w \in Workers, Wallet!ReadBalance(w)
    PROVE  WalletInv'
<1> DEFINE v == [worker[w] EXCEPT !.pc = "write", !.seen = Past(contract)]
<1>1. /\ worker \in [Workers -> Wallet!Carried] /\ worker[w].pc = "balance" /\ RunSound(w)
      /\ row' = row /\ target' = target /\ contract' = contract
      /\ \A t \in Ended(row) : t \in Past(contract)
  BY DEF WalletInv, WalletTyped, Wallet!TypeOK, Wallet!ReadBalance, TransferSound, Ended, Handed
<1>2. worker' = [worker EXCEPT ![w] = v]
  BY <1>1, WalletSets DEF Wallet!ReadBalance
<1>3. /\ v \in Wallet!Carried /\ v.pc = "write" /\ v.transfer = worker[w].transfer
      /\ v.seen = Past(contract) /\ v.assets = worker[w].assets /\ v.ok = worker[w].ok
  BY <1>1 DEF Wallet!Carried, Past
<1> HIDE DEF v
<1>4. v.assets # <<>> /\ (v.transfer # None => Reconciling(v))
  BY <1>1, <1>3 DEF RunSound, Reconciling
<1>5. \A a \in Wallet!Assets : w \in target[a].current =>
         /\ v.pc \in {"balance", "write"} /\ v.assets # <<>> /\ a = Wallet!Head(v.assets)
         /\ v.pc = "write" => \A t \in Ended(row) : Touched(t, a) => t \in v.seen
  BY <1>1, <1>3 DEF RunSound, Reading
<1> QED BY <1>1, <1>2, <1>3, <1>4, <1>5, CarriedGoes

-----------------------------------------------------------------------------
(* Recording a transfer, its outcome, and what a history shows.            *)

LEMMA WalletTypes ==
    ASSUME WalletInv
    PROVE  /\ row \in [Wallet!Transfers -> Wallet!Transaction]
           /\ target \in [Wallet!Assets -> Wallet!HoldingRow]
           /\ worker \in [Workers -> Wallet!Carried]
           /\ \A t \in Wallet!Transfers, a \in Wallet!Assets :
                 row[t].debit[a] \in Nat /\ row[t].debit[a] \in 0..2
           /\ \A a \in Wallet!Assets :
                 /\ target[a].quantity \in Nat /\ target[a].current \in SUBSET Workers
                 /\ target[a].debited \in SUBSET Wallet!Transfers
                 /\ target[a].synced \in SUBSET Wallet!Transfers
<1>1. /\ row \in [Wallet!Transfers -> Wallet!Transaction]
      /\ target \in [Wallet!Assets -> Wallet!HoldingRow]
      /\ worker \in [Workers -> Wallet!Carried]
  BY DEF WalletInv, WalletTyped, Wallet!TypeOK
<1>2. \A t \in Wallet!Transfers, a \in Wallet!Assets : row[t].debit[a] \in 0..2
  BY <1>1 DEF Wallet!Transaction
<1>3. \A n \in 0..2 : n \in Nat
  OBVIOUS
<1>4. \A a \in Wallet!Assets : target[a] \in Wallet!HoldingRow
  BY <1>1
<1> QED BY <1>1, <1>2, <1>3, <1>4 DEF Wallet!HoldingRow

LEMMA HoldingKept ==
    ASSUME WalletInv, NEW a \in Wallet!Assets, contract' = contract,
           target'[a].quantity = target[a].quantity, target'[a].debited = target[a].debited,
           target'[a].synced = target[a].synced, Handed(row) \subseteq Handed(row'),
           \A t \in target[a].debited : row'[t].debit = row[t].debit
    PROVE  HoldingSound(a)'
<1>1. HoldingSound(a)
  BY DEF WalletInv
<1>2. PICK r : r = row'
  OBVIOUS
<1>3. \A t \in target[a].debited : row[t].debit[a] \in Nat /\ r[t].debit = row[t].debit
  BY <1>2, WalletTypes
<1>4. SumOf(Debits(r, a), target[a].debited) = SumOf(Debits(row, a), target[a].debited)
  BY <1>1, <1>3, WalletTypes, DebitsSame DEF HoldingSound
<1>5. Accounts(row', contract, target'[a], a)
  BY <1>1, <1>2, <1>4 DEF HoldingSound, Accounts
<1> QED BY <1>1, <1>5 DEF HoldingSound

\* No transaction row and no holding is touched but their reads in flight.
LEMMA AbandonedGoes ==
    ASSUME WalletInv, NEW w \in Workers, worker' = [worker EXCEPT ![w] = Wallet!Idle],
           row' = row, contract' = contract,
           target' \in [Wallet!Assets -> Wallet!HoldingRow],
           \A a \in Wallet!Assets :
              /\ target'[a].quantity = target[a].quantity /\ target'[a].debited = target[a].debited
              /\ target'[a].synced = target[a].synced
              /\ target'[a].current \subseteq target[a].current \ {w}
    PROVE  WalletInv'
<1>1. \A u \in Workers : worker'[u] = IF u = w THEN Wallet!Idle ELSE worker[u]
  BY WalletTypes
<1>2. WalletTyped' /\ Covered' /\ OnceEach'
  <2>1. Wallet!Idle \in Wallet!Carried
    BY DEF Wallet!Idle, Wallet!Carried
  <2>2. worker' \in [Workers -> Wallet!Carried]
    BY <2>1, WalletTypes
  <2> QED BY <2>2 DEF WalletInv, WalletTyped, Wallet!TypeOK, Covered, OnceEach
<1>3. \A a \in Wallet!Assets : HoldingSound(a)'
  BY HoldingKept
<1>4. \A t \in Wallet!Transfers : TransferSound(t)'
  BY DEF WalletInv, TransferSound
<1>5. RunSound(w)'
  BY <1>1 DEF RunSound, Wallet!Idle
<1>6. WalletStep({w})
  <2>1. "token" \in Wallet!Assets
    BY DEF Wallet!Assets
  <2> QED BY <1>1, <1>5, <2>1 DEF WalletStep
<1> QED BY <1>2, <1>3, <1>4, <1>6, WalletGoesOn

LEMMA TakenIs ==
    ASSUME WalletInv, NEW t \in Wallet!Transfers, NEW a \in Wallet!Assets
    PROVE  /\ Wallet!Taken(t, a) \in 0..2 /\ Wallet!Taken(t, a) \in Nat
           /\ Wallet!Taken(t, a) <= target[a].quantity
           /\ Wallet!Deducted(t, a) = Wallet!Taken(t, a)
<1>1. Wallet!Cost(t, a) \in Nat /\ Wallet!Cost(t, a) <= 2 /\ target[a].quantity \in Nat
  BY CostIs, WalletTypes
<1> QED BY <1>1 DEF Wallet!Taken, Wallet!Deducted

LEMMA RecordKeeps ==
    ASSUME WalletInv, NEW w \in Workers, Wallet!Record(w)
    PROVE  WalletInv'
<1>1. PICK t \in Wallet!Transfers : t = worker[w].transfer
  BY DEF WalletInv, RunSound, Wallet!Record
<1>2. /\ worker' = [worker EXCEPT ![w] = Wallet!Idle] /\ contract' = contract
      /\ \A a \in Wallet!Assets : w \notin target[a].current
  BY IdleReads DEF Wallet!Record, Wallet!Finish
<1>3. CASE ~Wallet!StillPlanned(t)
  <2>1. row' = row /\ target' = target
    BY <1>1, <1>3 DEF Wallet!Record
  <2>2. \A a \in Wallet!Assets : target[a].current = target[a].current \ {w}
    BY <1>2
  <2>3. target' \in [Wallet!Assets -> Wallet!HoldingRow]
    BY <2>1, WalletTypes
  <2>4. \A a \in Wallet!Assets :
           /\ target'[a].quantity = target[a].quantity /\ target'[a].debited = target[a].debited
           /\ target'[a].synced = target[a].synced
           /\ target'[a].current \subseteq target[a].current \ {w}
    BY <2>1, <2>2
  <2> QED BY <1>2, <2>1, <2>3, <2>4, AbandonedGoes
<1>4. CASE Wallet!StillPlanned(t)
  <2> DEFINE debit == [a \in Wallet!Assets |-> Wallet!Deducted(t, a)]
             r == [Wallet!NoTransaction EXCEPT !.status = "pending", !.debit = debit]
             h(a) == [target[a] EXCEPT !.quantity = @ - Wallet!Taken(t, a), !.current = {},
                                       !.debited = @ \cup {t}]
  <2>1. row' = [row EXCEPT ![t] = r]
    BY <1>1, <1>4 DEF Wallet!Record
  <2>2. \A a \in Wallet!Assets :
           target'[a] = IF Wallet!Cost(t, a) = 0 THEN target[a] ELSE h(a)
    BY <1>1, <1>4 DEF Wallet!Record
  <2>3. \A a \in Wallet!Assets : debit[a] = Wallet!Taken(t, a) /\ debit[a] \in 0..2
    BY TakenIs
  <2> HIDE DEF debit
  <2>4. /\ r \in Wallet!Transaction
        /\ r.status = "pending" /\ ~r.imported /\ ~r.token /\ r.debit = debit
    <3>1. debit \in [Wallet!Assets -> 0..2]
      BY <2>3 DEF debit
    <3> QED BY <3>1 DEF Wallet!Transaction, Wallet!NoTransaction
  <2>5. /\ row' \in [Wallet!Transfers -> Wallet!Transaction]
        /\ \A u \in Wallet!Transfers : row'[u] = IF u = t THEN r ELSE row[u]
    BY <2>1, <2>4, WalletTypes
  <2>7. /\ row[t].status = "none"
        /\ \A u \in Handed(row) : NonceOf[u] # NonceOf[t]
    BY <1>4, WalletSets DEF Wallet!StillPlanned, Wallet!Planned, Wallet!Recorded
  <2> HIDE DEF r
  <2>8. t \notin Handed(row) /\ Handed(row') = Handed(row) \cup {t} /\ Ended(row') = Ended(row)
    BY <2>5, <2>4, <2>7 DEF Handed, Ended
  <2>9. ASSUME NEW a \in Wallet!Assets
        PROVE  /\ target'[a] \in Wallet!HoldingRow /\ HoldingSound(a)'
               /\ target'[a].synced = target[a].synced
               /\ target'[a].current \subseteq target[a].current
    <3>0. /\ HoldingSound(a) /\ target[a] \in Wallet!HoldingRow
          /\ Wallet!Taken(t, a) \in Nat /\ Wallet!Taken(t, a) <= target[a].quantity
          /\ target[a].quantity \in Nat
      BY TakenIs, WalletTypes DEF WalletInv
    <3>1. CASE Wallet!Cost(t, a) = 0
      <4>1. target'[a] = target[a]
        BY <2>2, <3>1
      <4>2. \A u \in target[a].debited : row'[u].debit = row[u].debit
        BY <2>5, <2>8, <3>0, WalletTypes DEF HoldingSound
      <4>3. HoldingSound(a)'
        BY <1>2, <2>8, <4>1, <4>2, HoldingKept
      <4> QED BY <3>0, <4>1, <4>3
    <3>2. CASE Wallet!Cost(t, a) # 0
      <4>1. /\ target'[a].quantity = target[a].quantity - Wallet!Taken(t, a)
            /\ target'[a].current = {}
            /\ target'[a].debited = target[a].debited \cup {t}
            /\ target'[a].synced = target[a].synced
            /\ target'[a] \in Wallet!HoldingRow
        <5>1. target'[a] = h(a) /\ target[a] \in Wallet!HoldingRow
          BY <2>2, <3>0, <3>2
        <5>2. target[a].quantity - Wallet!Taken(t, a) \in Nat
          BY <3>0
        <5>3. target[a].debited \cup {t} \in SUBSET Wallet!Transfers
              /\ target[a].synced \in SUBSET Wallet!Transfers
          BY WalletTypes
        <5> QED BY <5>1, <5>2, <5>3 DEF Wallet!HoldingRow
      <4>2. PICK D \in SUBSET Wallet!Transfers : D = target[a].debited
        BY WalletTypes
      <4>3. PICK s : s = row'
        OBVIOUS
      <4>4. IsFiniteSet(D) /\ t \notin D /\ D \cup {t} \in SUBSET Wallet!Transfers
            /\ IsFiniteSet(D \cup {t})
        BY <2>8, <3>0, <4>2, FS_AddElement DEF HoldingSound
      <4>5. \A u \in D : row[u].debit[a] \in Nat /\ s[u].debit = row[u].debit
        BY <2>5, <4>3, <4>4, WalletTypes
      <4>6. s[t].debit[a] = Wallet!Taken(t, a)
        BY <2>3, <2>5, <2>4, <4>3
      <4>7. SumOf(Debits(s, a), D) = SumOf(Debits(row, a), D)
        BY <4>4, <4>5, DebitsSame
      <4>8. Counts(Debits(s, a), D \cup {t}) /\ Debits(s, a)[t] = Wallet!Taken(t, a)
        <5>1. \A u \in D \cup {t} : s[u].debit[a] \in Nat
          BY <3>0, <4>5, <4>6
        <5> QED BY <4>4, <4>6, <5>1, DebitsAre DEF Debits
      <4>9. SumOf(Debits(s, a), D \cup {t}) = Wallet!Taken(t, a) + SumOf(Debits(row, a), D)
        BY <4>4, <4>7, <4>8, SumOfAdded
      <4>10. SumOf(Debits(row, a), D) \in Int
        BY <4>4, <4>5, DebitsAre
      <4>11. \A q, n \in Nat, i \in Int : (q - n) + (n + i) = q + i
        OBVIOUS
      <4>12. target'[a].quantity + SumOf(Debits(s, a), target'[a].debited)
                = target[a].quantity + SumOf(Debits(row, a), target[a].debited)
        BY <3>0, <4>1, <4>2, <4>9, <4>10, <4>11
      <4>13. Accounts(row', contract, target'[a], a)
        BY <3>0, <4>1, <4>3, <4>12 DEF HoldingSound, Accounts
      <4>14. HoldingSound(a)'
        BY <1>2, <2>8, <3>0, <4>1, <4>2, <4>4, <4>13 DEF HoldingSound
      <4> QED BY <4>1, <4>14
    <3> QED BY <3>1, <3>2
  <2>10. target' \in [Wallet!Assets -> Wallet!HoldingRow]
    <3>1. target' = [a \in Wallet!Assets |-> target'[a]]
      BY <1>1, <1>4 DEF Wallet!Record
    <3> QED BY <2>9, <3>1
  <2>11. WalletTyped' /\ Covered'
    <3>1. Wallet!Idle \in Wallet!Carried
      BY DEF Wallet!Idle, Wallet!Carried
    <3>2. worker' \in [Workers -> Wallet!Carried]
      BY <1>2, <3>1, WalletTypes
    <3> QED BY <1>2, <2>5, <2>10, <3>2 DEF WalletInv, WalletTyped, Wallet!TypeOK, Covered
  <2>12. OnceEach'
    BY <2>7, <2>8 DEF WalletInv, OnceEach
  <2>13. ASSUME NEW u \in Wallet!Transfers PROVE TransferSound(u)'
    <3>1. TransferSound(u)
      BY DEF WalletInv
    <3>2. CASE u = t
      <4>1. ~row'[u].token /\ u \notin Ended(row')
        BY <2>5, <2>4, <2>8, <3>2 DEF Ended
      <4> QED BY <4>1 DEF TransferSound
    <3>3. CASE u # t
      BY <1>2, <2>5, <2>8, <2>9, <3>1, <3>3 DEF TransferSound
    <3> QED BY <3>2, <3>3
  <2>14. \A u \in Workers : worker'[u] = IF u = w THEN Wallet!Idle ELSE worker[u]
    BY <1>2, WalletTypes
  <2>15. RunSound(w)'
    BY <1>2, <2>9, <2>14 DEF RunSound, Wallet!Idle
  <2>16. WalletStep({w})
    <3>1. "token" \in Wallet!Assets
      BY DEF Wallet!Assets
    <3> QED BY <1>2, <2>8, <2>9, <2>14, <2>15, <3>1 DEF WalletStep
  <2> QED BY <2>9, <2>11, <2>12, <2>13, <2>16, WalletGoesOn
<1> QED BY <1>3, <1>4

LEMMA OutcomeGoes ==
    ASSUME WalletInv, NEW t \in Handed(row), t \in Past(contract), t \notin Ended(row),
           NEW r \in Wallet!Transaction, r.status \in {"confirmed", "failed"}, ~r.imported, r.token,
           row' = [row EXCEPT ![t] = r], contract' = contract, worker' = worker,
           target' \in [Wallet!Assets -> Wallet!HoldingRow],
           \A a \in Wallet!Assets :
              /\ target'[a].synced = target[a].synced
              /\ target'[a].current = Wallet!ReadsAfter(t, a)
              /\ HoldingSound(a)'
    PROVE  WalletInv'
<1>1. /\ row' \in [Wallet!Transfers -> Wallet!Transaction]
      /\ \A u \in Wallet!Transfers : row'[u] = IF u = t THEN r ELSE row[u]
      /\ t \in Wallet!Transfers
  BY WalletTypes DEF Handed
<1>2. Handed(row') = Handed(row) /\ Ended(row') = Ended(row) \cup {t}
  BY <1>1 DEF Handed, Ended
<1>3. WalletTyped' /\ Covered' /\ OnceEach'
  BY <1>1, <1>2 DEF WalletInv, WalletTyped, Wallet!TypeOK, Covered, OnceEach
<1>4. ASSUME NEW u \in Wallet!Transfers PROVE TransferSound(u)'
  <2>1. TransferSound(u)
    BY DEF WalletInv
  <2> QED BY <1>1, <1>2, <2>1 DEF TransferSound
<1>5. ASSUME NEW a \in Wallet!Assets, NEW u \in Workers, u \in target'[a].current
      PROVE  u \in target[a].current /\ ~Touched(t, a)
  BY <1>5 DEF Wallet!ReadsAfter, Touched
<1>6. WalletStep({})
  <2>1. "token" \in Wallet!Assets
    BY DEF Wallet!Assets
  <2> QED BY <1>2, <1>5, <2>1 DEF WalletStep
<1> QED BY <1>3, <1>4, <1>6, WalletGoesOn

LEMMA ReadsAfterIs ==
    ASSUME WalletInv, NEW t, NEW a \in Wallet!Assets
    PROVE  Wallet!ReadsAfter(t, a) \in SUBSET Workers
BY WalletTypes DEF Wallet!ReadsAfter

LEMMA ConfirmKeeps ==
    ASSUME WalletInv, NEW t \in Handed(row), t \in Past(contract), row[t].status = "pending",
           Wallet!Confirm(t), worker' = worker, contract' = contract
    PROVE  WalletInv'
<1> DEFINE r == [row[t] EXCEPT !.status = "confirmed", !.token = TRUE]
           h(a) == [target[a] EXCEPT !.current = Wallet!ReadsAfter(t, a)]
<1>1. t \in Wallet!Transfers /\ row[t] \in Wallet!Transaction /\ ~row[t].imported
  BY WalletTypes DEF Handed
<1>2. row' = [row EXCEPT ![t] = r]
  BY <1>1, WalletTypes DEF Wallet!Confirm, Wallet!Transaction
<1>3. /\ r \in Wallet!Transaction /\ r.status = "confirmed" /\ ~r.imported /\ r.token
      /\ r.debit = row[t].debit
  BY <1>1 DEF Wallet!Transaction
<1> HIDE DEF r
<1>4. target' = [a \in Wallet!Assets |-> h(a)]
  BY DEF Wallet!Confirm
<1>5. ASSUME NEW a \in Wallet!Assets
      PROVE  /\ target'[a] \in Wallet!HoldingRow
             /\ target'[a].quantity = target[a].quantity /\ target'[a].debited = target[a].debited
             /\ target'[a].synced = target[a].synced
             /\ target'[a].current = Wallet!ReadsAfter(t, a)
  <2>1. target[a] \in Wallet!HoldingRow /\ target'[a] = h(a)
    BY <1>4, WalletTypes
  <2> QED BY <2>1, ReadsAfterIs DEF Wallet!HoldingRow
<1>6. target' \in [Wallet!Assets -> Wallet!HoldingRow]
  BY <1>4, <1>5
<1> HIDE DEF h
<1>7. \A u \in Wallet!Transfers : row'[u] = IF u = t THEN r ELSE row[u]
  BY <1>2, WalletTypes
<1>8. Handed(row) \subseteq Handed(row')
  BY <1>3, <1>7 DEF Handed
<1>9. \A a \in Wallet!Assets : \A u \in target[a].debited : row'[u].debit = row[u].debit
  BY <1>3, <1>7, WalletTypes
<1>10. \A a \in Wallet!Assets : HoldingSound(a)'
  BY <1>5, <1>8, <1>9, HoldingKept
<1>11. t \notin Ended(row)
  BY DEF Ended
<1> QED BY <1>2, <1>3, <1>5, <1>6, <1>10, <1>11, OutcomeGoes

LEMMA FailKeeps ==
    ASSUME WalletInv, NEW t \in Handed(row), t \in Past(contract), row[t].status = "pending",
           Wallet!Fail(t), worker' = worker, contract' = contract
    PROVE  WalletInv'
<1> DEFINE r == [row[t] EXCEPT !.status = "failed", !.token = TRUE, !.debit = Wallet!NoDebit]
           h(a) == [target[a] EXCEPT !.quantity = @ + Wallet!Outstanding(t, a),
                                     !.current = Wallet!ReadsAfter(t, a)]
<1>1. t \in Wallet!Transfers /\ row[t] \in Wallet!Transaction /\ ~row[t].imported
  BY WalletTypes DEF Handed
<1>2. row' = [row EXCEPT ![t] = r]
  BY <1>1, WalletTypes DEF Wallet!Fail, Wallet!Transaction
<1>3. /\ r \in Wallet!Transaction /\ r.status = "failed" /\ ~r.imported /\ r.token
      /\ \A a \in Wallet!Assets : r.debit[a] = 0
  <2>1. Wallet!NoDebit \in [Wallet!Assets -> 0..2] /\ \A a \in Wallet!Assets : Wallet!NoDebit[a] = 0
    BY DEF Wallet!NoDebit
  <2> QED BY <1>1, <2>1 DEF Wallet!Transaction
<1> HIDE DEF r
<1>4. target' = [a \in Wallet!Assets |-> h(a)]
  BY DEF Wallet!Fail
<1>5. ASSUME NEW a \in Wallet!Assets
      PROVE  /\ target'[a] \in Wallet!HoldingRow
             /\ target'[a].quantity = target[a].quantity + Wallet!Outstanding(t, a)
             /\ target'[a].debited = target[a].debited
             /\ target'[a].synced = target[a].synced
             /\ target'[a].current = Wallet!ReadsAfter(t, a)
  <2>1. target[a] \in Wallet!HoldingRow /\ target'[a] = h(a)
    BY <1>4, WalletTypes
  <2>2. PICK q \in Nat : q = target[a].quantity + Wallet!Outstanding(t, a)
    <3>1. target[a].quantity + Wallet!Outstanding(t, a) \in Nat
      BY <1>1, WalletTypes DEF Wallet!Outstanding
    <3> QED BY <3>1
  <2>3. PICK c \in SUBSET Workers : c = Wallet!ReadsAfter(t, a)
    BY ReadsAfterIs
  <2>4. target'[a] = [target[a] EXCEPT !.quantity = q, !.current = c]
    BY <2>1, <2>2, <2>3
  <2> QED BY <2>1, <2>2, <2>3, <2>4 DEF Wallet!HoldingRow
<1>6. target' \in [Wallet!Assets -> Wallet!HoldingRow]
  BY <1>4, <1>5
<1> HIDE DEF h
<1>7. \A u \in Wallet!Transfers : row'[u] = IF u = t THEN r ELSE row[u]
  BY <1>2, WalletTypes
<1>8. Handed(row) \subseteq Handed(row')
  BY <1>3, <1>7 DEF Handed
<1>9. ASSUME NEW a \in Wallet!Assets PROVE HoldingSound(a)'
  <2>1. HoldingSound(a)
    BY DEF WalletInv
  <2>2. CASE t \notin target[a].debited
    <3>1. target'[a].quantity = target[a].quantity
      BY <1>5, <2>2, WalletTypes DEF Wallet!Outstanding
    <3>2. \A u \in target[a].debited : row'[u].debit = row[u].debit
      BY <1>7, <2>2, WalletTypes
    <3> QED BY <1>5, <1>8, <3>1, <3>2, HoldingKept
  <2>3. CASE t \in target[a].debited
    <3>1. PICK D \in SUBSET Wallet!Transfers : D = target[a].debited \ {t}
      BY WalletTypes
    <3>2. PICK s : s = row'
      OBVIOUS
    <3>3. /\ IsFiniteSet(D) /\ IsFiniteSet(D \cup {t}) /\ t \notin D
          /\ D \cup {t} = target[a].debited /\ D \cup {t} \in SUBSET Wallet!Transfers
      <4>1. IsFiniteSet(D)
        BY <2>1, <3>1, FS_Subset DEF HoldingSound
      <4> QED BY <1>1, <2>3, <3>1, <4>1, FS_AddElement
    <3>4. \A u \in D : row[u].debit[a] \in Nat /\ s[u].debit = row[u].debit
      BY <1>7, <3>1, <3>2, WalletTypes
    <3>5. SumOf(Debits(s, a), D) = SumOf(Debits(row, a), D)
      BY <3>3, <3>4, DebitsSame
    <3>6. s[t].debit[a] = 0 /\ row[t].debit[a] \in Nat
      BY <1>1, <1>3, <1>7, <3>2, WalletTypes
    <3>7. /\ SumOf(Debits(row, a), D \cup {t}) = row[t].debit[a] + SumOf(Debits(row, a), D)
          /\ SumOf(Debits(row, a), D) \in Int
      <4>1. \A u \in D \cup {t} : row[u].debit[a] \in Nat
        BY <3>4, <3>6
      <4>2. Counts(Debits(row, a), D \cup {t}) /\ Debits(row, a)[t] = row[t].debit[a]
        BY <1>1, <3>3, <4>1, DebitsAre DEF Debits
      <4> QED BY <3>3, <3>4, <4>2, DebitsAre, SumOfAdded
    <3>8. SumOf(Debits(s, a), D \cup {t}) = 0 + SumOf(Debits(row, a), D)
      <4>1. \A u \in D \cup {t} : s[u].debit[a] \in Nat
        BY <3>4, <3>6
      <4>2. Counts(Debits(s, a), D \cup {t}) /\ Debits(s, a)[t] = 0
        BY <1>1, <3>3, <3>6, <4>1, DebitsAre DEF Debits
      <4> QED BY <3>3, <3>5, <4>2, SumOfAdded
    <3>9. Wallet!Outstanding(t, a) = row[t].debit[a]
      BY <2>3 DEF Wallet!Outstanding
    <3>10. \A q, n \in Nat, i \in Int : (q + n) + (0 + i) = q + (n + i)
      OBVIOUS
    <3>11. target'[a].quantity + SumOf(Debits(s, a), D \cup {t})
              = target[a].quantity + SumOf(Debits(row, a), D \cup {t})
      BY <1>5, <3>6, <3>7, <3>8, <3>9, <3>10, WalletTypes
    <3>12. Accounts(row', contract, target'[a], a)
      BY <1>5, <2>1, <3>2, <3>3, <3>11 DEF HoldingSound, Accounts
    <3> QED BY <1>5, <1>8, <2>1, <3>12 DEF HoldingSound
  <2> QED BY <2>2, <2>3
<1>10. t \notin Ended(row)
  BY DEF Ended
<1> QED BY <1>2, <1>3, <1>5, <1>6, <1>9, <1>10, OutcomeGoes

\* Every other worker carries what it carried.
OthersStay(W) ==
    (\A u \in Workers \ W : worker'[u] = worker[u]) /\ \A w \in W : RunSound(w)'

\* A step that changes rows no submission made.
LEMMA ImportedGoes ==
    ASSUME WalletInv, row' \in [Wallet!Transfers -> Wallet!Transaction],
           \A t \in Wallet!Transfers :
              row'[t] = row[t] \/ (t \notin Handed(row) /\ row'[t].imported /\ ~row'[t].token),
           target' = target, contract' = contract, NEW W \in SUBSET Workers,
           worker' \in [Workers -> Wallet!Carried], OthersStay(W)
    PROVE  WalletInv'
<1>1. Handed(row') = Handed(row) /\ Ended(row') = Ended(row)
  BY DEF Handed, Ended
<1>2. WalletTyped' /\ Covered' /\ OnceEach'
  BY <1>1 DEF WalletInv, WalletTyped, Wallet!TypeOK, Covered, OnceEach
<1>3. ASSUME NEW a \in Wallet!Assets PROVE HoldingSound(a)'
  <2>1. \A u \in target[a].debited : u \in Handed(row)
    BY DEF WalletInv, HoldingSound
  <2>2. \A u \in target[a].debited : row'[u].debit = row[u].debit
    BY <2>1, WalletTypes
  <2> QED BY <1>1, <2>2, HoldingKept
<1>4. ASSUME NEW t \in Wallet!Transfers PROVE TransferSound(t)'
  <2>1. TransferSound(t)
    BY DEF WalletInv
  <2>2. CASE row'[t] = row[t]
    BY <1>1, <2>1, <2>2 DEF TransferSound
  <2>3. CASE t \notin Handed(row) /\ ~row'[t].token
    BY <1>1, <2>3 DEF TransferSound, Ended
  <2> QED BY <2>2, <2>3
<1>5. WalletStep(W)
  BY <1>1 DEF WalletStep, OthersStay
<1> QED BY <1>2, <1>3, <1>4, <1>5, WalletGoesOn

LEMMA SettleKeeps ==
    ASSUME WalletInv, NEW t \in Wallet!Transfers, Wallet!Settle(t)
    PROVE  WalletInv'
<1>1. row[t].status = "pending" /\ t \in Past(contract) /\ worker' = worker /\ contract' = contract
  BY WalletSets DEF Wallet!Settle
<1>2. CASE ~row[t].imported
  <2>1. t \in Handed(row)
    BY <1>1, <1>2 DEF Handed
  <2>2. Wallet!Confirm(t) \/ Wallet!Fail(t)
    BY <1>2 DEF Wallet!Settle
  <2> QED BY <1>1, <2>1, <2>2, ConfirmKeeps, FailKeeps
<1>3. CASE row[t].imported
  <2>1. PICK status \in {"confirmed", "failed"} :
           status = IF contract[t] = "mined" THEN "confirmed" ELSE "failed"
    OBVIOUS
  <2> DEFINE r == [row[t] EXCEPT !.status = status]
  <2>2. row[t] \in Wallet!Transaction /\ t \notin Handed(row) /\ TransferSound(t)
    BY <1>3, WalletTypes DEF Handed, WalletInv
  <2>3. row' = [row EXCEPT ![t] = r] /\ target' = target
    BY <1>3, <2>1, WalletTypes DEF Wallet!Settle, Wallet!Transaction
  <2>4. r \in Wallet!Transaction /\ r.imported /\ ~r.token
    BY <1>3, <2>2 DEF Wallet!Transaction, TransferSound, Ended
  <2> HIDE DEF r
  <2>5. /\ row' \in [Wallet!Transfers -> Wallet!Transaction]
        /\ \A u \in Wallet!Transfers : row'[u] = IF u = t THEN r ELSE row[u]
    BY <2>3, <2>4, WalletTypes
  <2>6. OthersStay({})
    BY <1>1 DEF OthersStay
  <2>7. \A u \in Wallet!Transfers :
           row'[u] = row[u] \/ (u \notin Handed(row) /\ row'[u].imported /\ ~row'[u].token)
    BY <2>2, <2>4, <2>5
  <2>8. worker' \in [Workers -> Wallet!Carried]
    BY <1>1, WalletTypes
  <2> QED BY <1>1, <2>3, <2>5, <2>6, <2>7, <2>8, ImportedGoes
<1> QED BY <1>2, <1>3

LEMMA SyncWalletKeeps ==
    ASSUME WalletInv, NEW w \in Workers, NEW found \in SUBSET Wallet!Transfers,
           Wallet!SyncWallet(w, found)
    PROVE  WalletInv'
<1>1. PICK order \in {<<"coin", "token">>, <<"token", "coin">>} :
         worker' = [worker EXCEPT ![w] = [Wallet!Idle EXCEPT !.pc = "version", !.assets = order]]
  BY DEF Wallet!SyncWallet, Wallet!LargestFirst
<1> DEFINE v == [Wallet!Idle EXCEPT !.pc = "version", !.assets = order]
           r == [Wallet!NoTransaction EXCEPT !.status = "pending", !.imported = TRUE]
<1>2. /\ worker[w] = Wallet!Idle /\ target' = target /\ contract' = contract
      /\ \A t \in found : t \notin Wallet!Recorded
      /\ row' = [t \in Wallet!Transfers |-> IF t \in found THEN r ELSE row[t]]
  BY DEF Wallet!SyncWallet
<1>3. /\ v \in Wallet!Carried /\ v.pc = "version" /\ v.transfer = None /\ v.seen = {}
      /\ v.assets = order
  BY DEF Wallet!Idle, Wallet!Carried
<1>4. r \in Wallet!Transaction /\ r.imported /\ ~r.token
  <2>1. Wallet!NoDebit \in [Wallet!Assets -> 0..2]
    BY DEF Wallet!NoDebit
  <2> QED BY <2>1 DEF Wallet!NoTransaction, Wallet!Transaction
<1>5. worker' = [worker EXCEPT ![w] = v]
  BY <1>1
<1> HIDE DEF v, r
<1>6. /\ worker' \in [Workers -> Wallet!Carried]
      /\ \A u \in Workers : worker'[u] = IF u = w THEN v ELSE worker[u]
  BY <1>3, <1>5, WalletTypes
<1>7. order # <<>>
  OBVIOUS
<1>8. \A a \in Wallet!Assets : w \notin target[a].current
  BY <1>2, IdleReads DEF Wallet!Idle
<1>9. RunSound(w)'
  BY <1>2, <1>3, <1>6, <1>7, <1>8 DEF RunSound
<1>10. row' \in [Wallet!Transfers -> Wallet!Transaction]
  BY <1>2, <1>4, WalletTypes
<1>11. ASSUME NEW t \in Wallet!Transfers
       PROVE  row'[t] = row[t] \/ (t \notin Handed(row) /\ row'[t].imported /\ ~row'[t].token)
  <2>1. CASE t \in found
    BY <1>2, <1>4, <2>1 DEF Handed, Wallet!Recorded
  <2>2. CASE t \notin found
    BY <1>2, <2>2
  <2> QED BY <2>1, <2>2
<1>12. OthersStay({w})
  BY <1>6, <1>9 DEF OthersStay
<1> QED BY <1>2, <1>6, <1>10, <1>11, <1>12, ImportedGoes

-----------------------------------------------------------------------------
(* Reading a balance and writing it.                                       *)

LEMMA AssetsAre ==
    ASSUME WalletInv, NEW w \in Workers
    PROVE  worker[w].assets \in Orders
BY WalletTypes DEF Wallet!Carried, Orders

LEMMA AbandonKeeps ==
    ASSUME WalletInv, NEW w \in Workers, Wallet!Abandon(w)
    PROVE  WalletInv'
<1>1. /\ worker' = [worker EXCEPT ![w] = Wallet!Idle] /\ row' = row /\ contract' = contract
      /\ target' = [a \in Wallet!Assets |-> [target[a] EXCEPT !.current = @ \ {w}]]
  BY DEF Wallet!Abandon, Wallet!Finish
<1>2. ASSUME NEW a \in Wallet!Assets
      PROVE  /\ target'[a] \in Wallet!HoldingRow
             /\ target'[a].quantity = target[a].quantity /\ target'[a].debited = target[a].debited
             /\ target'[a].synced = target[a].synced
             /\ target'[a].current \subseteq target[a].current \ {w}
  <2>1. target[a] \in Wallet!HoldingRow /\ target'[a] = [target[a] EXCEPT !.current = @ \ {w}]
    BY <1>1, WalletTypes
  <2> QED BY <2>1 DEF Wallet!HoldingRow
<1>3. target' \in [Wallet!Assets -> Wallet!HoldingRow]
  BY <1>1, <1>2
<1> QED BY <1>1, <1>2, <1>3, AbandonedGoes

LEMMA ReadVersionKeeps ==
    ASSUME WalletInv, NEW w \in Workers, Wallet!ReadVersion(w)
    PROVE  WalletInv'
<1>1. /\ worker[w].pc = "version" /\ row' = row /\ contract' = contract /\ RunSound(w)
      /\ worker[w] \in Wallet!Carried /\ worker[w].assets # <<>>
  BY WalletTypes DEF Wallet!ReadVersion, WalletInv, RunSound
<1>2. PICK a \in Wallet!Assets : a = Wallet!Head(worker[w].assets)
  BY <1>1, AssetsAre, OrdersAre
<1> DEFINE v == [worker[w] EXCEPT !.pc = "balance"]
           h == [target[a] EXCEPT !.current = @ \cup {w}]
<1>3. worker' = [worker EXCEPT ![w] = v]
  BY WalletTypes DEF Wallet!ReadVersion, Wallet!Goto, Wallet!Carried
<1>4. target' = [target EXCEPT ![a] = h]
  BY <1>2, WalletTypes DEF Wallet!ReadVersion, Wallet!HoldingRow
<1>5. /\ v \in Wallet!Carried /\ v.pc = "balance" /\ v.transfer = worker[w].transfer
      /\ v.seen = worker[w].seen /\ v.assets = worker[w].assets /\ v.ok = worker[w].ok
  BY <1>1 DEF Wallet!Carried
<1>6. /\ h \in Wallet!HoldingRow /\ h.quantity = target[a].quantity
      /\ h.debited = target[a].debited /\ h.synced = target[a].synced
      /\ h.current = target[a].current \cup {w}
  <2>1. target[a] \in Wallet!HoldingRow
    BY WalletTypes
  <2> QED BY <2>1 DEF Wallet!HoldingRow
<1> HIDE DEF v, h
<1>7. /\ worker' \in [Workers -> Wallet!Carried]
      /\ \A u \in Workers : worker'[u] = IF u = w THEN v ELSE worker[u]
      /\ target' \in [Wallet!Assets -> Wallet!HoldingRow]
      /\ \A b \in Wallet!Assets : target'[b] = IF b = a THEN h ELSE target[b]
  BY <1>3, <1>4, <1>5, <1>6, WalletTypes
<1>8. WalletTyped' /\ Covered' /\ OnceEach'
  BY <1>1, <1>7 DEF WalletInv, WalletTyped, Wallet!TypeOK, Covered, OnceEach
<1>9. \A b \in Wallet!Assets :
         /\ target'[b].quantity = target[b].quantity /\ target'[b].debited = target[b].debited
         /\ target'[b].synced = target[b].synced
  BY <1>6, <1>7
<1>10. \A b \in Wallet!Assets : HoldingSound(b)'
  BY <1>1, <1>9, HoldingKept
<1>11. \A t \in Wallet!Transfers : TransferSound(t)'
  BY <1>1, <1>9 DEF WalletInv, TransferSound
<1>12. "token" \in Wallet!Assets
  BY DEF Wallet!Assets
<1>13. RunSound(w)'
  <2>1. worker'[w] = v
    BY <1>7
  <2>2. v.transfer # None => Reconciling(worker[w])'
    BY <1>1, <1>5, <1>9, <1>12, <2>1 DEF RunSound, Reconciling
  <2>3. \A b \in Wallet!Assets : w \in target'[b].current => Reading(w, b)'
    <3>1. \A b \in Wallet!Assets : w \notin target[b].current
      BY <1>1, IdleReads
    <3> QED BY <1>1, <1>2, <1>5, <1>7, <2>1, <3>1 DEF Reading
  <2> QED BY <1>1, <1>5, <2>1, <2>2, <2>3 DEF RunSound
<1>14. WalletStep({w})
  <2>1. \A b \in Wallet!Assets, u \in Workers \ {w} :
           u \in target'[b].current => u \in target[b].current
    BY <1>6, <1>7
  <2> QED BY <1>1, <1>7, <1>9, <1>12, <1>13, <2>1 DEF WalletStep
<1> QED BY <1>8, <1>10, <1>11, <1>14, WalletGoesOn

\* What w's write leaves of the holdings.
Wrote(w) ==
    /\ target' \in [Wallet!Assets -> Wallet!HoldingRow]
    /\ \A b \in Wallet!Assets :
          /\ target'[b].current \subseteq target[b].current \ {w}
          /\ \A t \in Ended(row) : Touched(t, b) /\ t \in target[b].synced => t \in target'[b].synced
          /\ IsFiniteSet(target'[b].debited)
          /\ target'[b].debited \subseteq Handed(row)
          /\ target'[b].synced \subseteq Past(contract)
          /\ Accounts(row, contract, target'[b], b)

LEMMA WroteNothing ==
    ASSUME WalletInv, NEW w \in Workers, NEW a \in Wallet!Assets,
           \A b \in Wallet!Assets : w \in target[b].current => b = a,
           target' = [target EXCEPT ![a].current = @ \ {w}]
    PROVE  Wrote(w)
<1> DEFINE h == [target[a] EXCEPT !.current = @ \ {w}]
<1>1. target' = [target EXCEPT ![a] = h]
  BY WalletTypes DEF Wallet!HoldingRow
<1>2. /\ h \in Wallet!HoldingRow /\ h.quantity = target[a].quantity
      /\ h.debited = target[a].debited /\ h.synced = target[a].synced
      /\ h.current = target[a].current \ {w}
  <2>1. target[a] \in Wallet!HoldingRow
    BY WalletTypes
  <2> QED BY <2>1 DEF Wallet!HoldingRow
<1> HIDE DEF h
<1>3. /\ target' \in [Wallet!Assets -> Wallet!HoldingRow]
      /\ \A b \in Wallet!Assets : target'[b] = IF b = a THEN h ELSE target[b]
  BY <1>1, <1>2, WalletTypes
<1>4. \A b \in Wallet!Assets : HoldingSound(b)
  BY DEF WalletInv
<1> QED BY <1>2, <1>3, <1>4 DEF Wrote, HoldingSound, Accounts

LEMMA WroteBalance ==
    ASSUME WalletInv, NEW w \in Workers, NEW a \in Wallet!Assets, Reading(w, a),
           \A b \in Wallet!Assets : w \in target[b].current => b = a,
           worker[w].pc = "write",
           target' = [target EXCEPT ![a] =
              [quantity |-> Wallet!BalanceAfter(worker[w].seen, a), current |-> {},
               debited |-> {}, synced |-> worker[w].seen]]
    PROVE  Wrote(w)
<1>1. PICK S \in SUBSET Past(contract) : S = worker[w].seen
  BY DEF WalletInv, RunSound
<1>2. /\ S \in SUBSET Wallet!Transfers /\ IsFiniteSet(S)
      /\ Past(contract) \in SUBSET Wallet!Transfers /\ IsFiniteSet(Past(contract))
  BY FS_Subset DEF WalletInv, WalletTyped, Past
<1>3. PICK q \in Nat : q = LeftOf(contract, S, a)
  <2>1. LeftOf(contract, S, a) \in Int /\ LeftOf(contract, Past(contract), a) \in Int
    BY <1>2, LeftIs
  <2>2. LeftOf(contract, Past(contract), a) <= LeftOf(contract, S, a)
    BY <1>2, LeftMore
  <2>3. LeftOf(contract, Past(contract), a) >= 0
    BY DEF WalletInv, Covered
  <2>4. \A i, j \in Int : i <= j /\ i >= 0 => j \in Nat
    OBVIOUS
  <2> QED BY <2>1, <2>2, <2>3, <2>4
<1>4. Wallet!BalanceAfter(S, a) = q
  BY <1>2, <1>3, BalanceOf
<1> DEFINE h == [quantity |-> q, current |-> {}, debited |-> {}, synced |-> S]
<1>5. target' = [target EXCEPT ![a] = h]
  BY <1>1, <1>4
<1>6. /\ h \in Wallet!HoldingRow /\ h.quantity = q /\ h.current = {} /\ h.debited = {} /\ h.synced = S
  BY <1>2 DEF Wallet!HoldingRow
<1> HIDE DEF h
<1>7. /\ target' \in [Wallet!Assets -> Wallet!HoldingRow]
      /\ \A b \in Wallet!Assets : target'[b] = IF b = a THEN h ELSE target[b]
  BY <1>5, <1>6, WalletTypes
<1>8. Accounts(row, contract, h, a)
  <2>1. \A n \in Nat : n + 0 = n
    OBVIOUS
  <2> QED BY <1>3, <1>6, <2>1, SumOfNone DEF Accounts
<1>9. \A b \in Wallet!Assets : HoldingSound(b)
  BY DEF WalletInv
<1>10. \A t \in Ended(row) : Touched(t, a) => t \in S
  BY <1>1 DEF Reading
<1>11. ASSUME NEW b \in Wallet!Assets
       PROVE  /\ target'[b].current \subseteq target[b].current \ {w}
              /\ \A t \in Ended(row) : Touched(t, b) /\ t \in target[b].synced => t \in target'[b].synced
              /\ IsFiniteSet(target'[b].debited)
              /\ target'[b].debited \subseteq Handed(row)
              /\ target'[b].synced \subseteq Past(contract)
              /\ Accounts(row, contract, target'[b], b)
  <2>1. CASE b = a
    <3>1. target'[b] = h
      BY <1>7, <2>1
    <3> QED BY <1>6, <1>8, <1>10, <2>1, <3>1, FS_EmptySet
  <2>2. CASE b # a
    <3>1. target'[b] = target[b]
      BY <1>7, <2>2
    <3> QED BY <1>9, <2>2, <3>1 DEF HoldingSound
  <2> QED BY <2>1, <2>2
<1> QED BY <1>7, <1>11 DEF Wrote

LEMMA WroteGoes ==
    ASSUME WalletInv, NEW w \in Workers, Wrote(w), contract' = contract,
           row' \in [Wallet!Transfers -> Wallet!Transaction],
           \A t \in Wallet!Transfers :
              /\ row'[t].status = row[t].status /\ row'[t].imported = row[t].imported
              /\ row'[t].debit = row[t].debit,
           NEW v \in Wallet!Carried, worker' = [worker EXCEPT ![w] = v], RunSound(w)',
           \A t \in Wallet!Transfers :
              \/ row'[t] = row[t]
              \/ /\ ~row'[t].token
                 /\ \A a \in Wallet!Assets : Touched(t, a) => t \in target'[a].synced
    PROVE  WalletInv'
<1>1. /\ worker' \in [Workers -> Wallet!Carried]
      /\ \A u \in Workers : worker'[u] = IF u = w THEN v ELSE worker[u]
  BY WalletTypes
<1>2. Handed(row') = Handed(row) /\ Ended(row') = Ended(row)
  BY DEF Handed, Ended
<1>3. WalletTyped' /\ Covered' /\ OnceEach'
  BY <1>1, <1>2 DEF WalletInv, WalletTyped, Wallet!TypeOK, Covered, OnceEach, Wrote
<1>4. ASSUME NEW a \in Wallet!Assets PROVE HoldingSound(a)'
  <2>1. PICK r : r = row'
    OBVIOUS
  <2>2. PICK D \in SUBSET Wallet!Transfers : D = target'[a].debited
    BY DEF Wrote, Handed
  <2>3. IsFiniteSet(D) /\ \A t \in D : row[t].debit[a] \in Nat /\ r[t].debit = row[t].debit
    BY <2>1, <2>2, WalletTypes DEF Wrote
  <2>4. SumOf(Debits(r, a), D) = SumOf(Debits(row, a), D)
    BY <2>3, DebitsSame
  <2>5. Accounts(row', contract, target'[a], a)
    BY <2>1, <2>2, <2>4 DEF Wrote, Accounts
  <2> QED BY <1>2, <2>5 DEF Wrote, HoldingSound
<1>5. ASSUME NEW t \in Wallet!Transfers PROVE TransferSound(t)'
  <2>1. TransferSound(t)
    BY DEF WalletInv
  <2>2. CASE row'[t] = row[t]
    BY <1>2, <2>1, <2>2 DEF TransferSound, Wrote
  <2>3. CASE ~row'[t].token /\ \A a \in Wallet!Assets : Touched(t, a) => t \in target'[a].synced
    BY <1>2, <2>1, <2>3 DEF TransferSound
  <2> QED BY <2>2, <2>3
<1>6. WalletStep({w})
  <2>1. \A a \in Wallet!Assets : target'[a].current \subseteq target[a].current
    BY DEF Wrote
  <2>2. ASSUME NEW t \in Ended(row), t \in Tokens, t \in target["token"].synced
        PROVE  t \in target'["token"].synced
    <3>1. "token" \in Wallet!Assets /\ Touched(t, "token")
      BY <2>2, TransferConstants DEF Touched, Wallet!AssetOf
    <3> QED BY <2>2, <3>1 DEF Wrote
  <2> QED BY <1>1, <1>2, <2>1, <2>2 DEF WalletStep
<1> QED BY <1>3, <1>4, <1>5, <1>6, WalletGoesOn

LEMMA WriteBalanceKeeps ==
    ASSUME WalletInv, NEW w \in Workers, NEW answered \in BOOLEAN,
           Wallet!WriteBalance(w, answered)
    PROVE  WalletInv'
<1>1. /\ worker[w].pc = "write" /\ contract' = contract /\ RunSound(w)
      /\ worker[w] \in Wallet!Carried /\ worker[w].assets # <<>> /\ worker[w].assets \in Orders
  BY WalletTypes, AssetsAre DEF Wallet!WriteBalance, WalletInv, RunSound
<1>2. PICK a \in Wallet!Assets : a = Wallet!Head(worker[w].assets)
  BY <1>1, OrdersAre
<1>3. PICK written \in BOOLEAN : written = (answered /\ Wallet!IsCurrent(w, a))
  OBVIOUS
<1>4. \A b \in Wallet!Assets : w \in target[b].current => b = a
  BY <1>1, <1>2 DEF RunSound, Reading
<1>5. written => Reading(w, a)
  BY <1>1, <1>3 DEF Wallet!IsCurrent, RunSound
<1>6. \/ /\ written
         /\ target' = [target EXCEPT ![a] =
               [quantity |-> Wallet!BalanceAfter(worker[w].seen, a), current |-> {},
                debited |-> {}, synced |-> worker[w].seen]]
      \/ /\ ~written
         /\ target' = [target EXCEPT ![a].current = @ \ {w}]
  BY <1>2, <1>3 DEF Wallet!WriteBalance
<1>7. Wrote(w)
  BY <1>1, <1>4, <1>5, <1>6, WroteNothing, WroteBalance
<1>8. \A b \in Wallet!Assets : w \notin target'[b].current
  BY <1>7 DEF Wrote
<1>9. written => \A t \in Ended(row) : Touched(t, a) => t \in target'[a].synced
  <2>1. written => target'[a].synced = worker[w].seen
    BY <1>6, WalletTypes
  <2> QED BY <1>1, <1>5, <2>1 DEF Reading
<1>10. \A b \in Wallet!Assets, t \in Ended(row) :
          Touched(t, b) /\ t \in target[b].synced => t \in target'[b].synced
  BY <1>7 DEF Wrote
<1>11. CASE Wallet!Len(worker[w].assets) > 1
  <2>1. PICK v : v = Wallet!Onward(w, written)
    OBVIOUS
  <2>2. PICK rest \in {<<"coin">>, <<"token">>} : rest = Wallet!Tail(worker[w].assets)
    BY <1>1, <1>11, OrdersAre
  <2>3. PICK ok \in BOOLEAN : ok = (worker[w].ok /\ (written \/ worker[w].transfer = None))
    OBVIOUS
  <2>4. v = [worker[w] EXCEPT !.pc = "version", !.assets = rest, !.seen = {}, !.ok = ok]
    BY <2>1, <2>2, <2>3 DEF Wallet!Onward
  <2>5. /\ v \in Wallet!Carried /\ v.pc = "version" /\ v.transfer = worker[w].transfer
        /\ v.seen = {} /\ v.assets = rest /\ v.ok = ok
    BY <1>1, <2>4 DEF Wallet!Carried
  <2>6. worker' = [worker EXCEPT ![w] = v] /\ row' = row
    BY <1>2, <1>3, <1>11, <2>1 DEF Wallet!WriteBalance
  <2>7. worker'[w] = v
    BY <2>6, WalletTypes
  <2>8. rest # <<>>
    OBVIOUS
  <2>9. ASSUME v.transfer # None PROVE Reconciling(worker[w])'
    <3>1. PICK t \in Ended(row) : t = v.transfer
      BY <1>1, <2>5, <2>9 DEF RunSound, Reconciling
    <3>2. /\ t \in Coins => worker[w].assets = <<"coin">>
          /\ t \in Tokens => worker[w].assets \in {<<"coin">>, <<"token", "coin">>}
      BY <1>1, <2>5, <2>9, <3>1 DEF RunSound, Reconciling
    <3>3. t \notin Coins /\ t \in Tokens
      BY <1>1, <1>11, <3>2, OrdersAre, TransferConstants DEF Ended, Handed
    <3>4. worker[w].assets = <<"token", "coin">>
      BY <1>1, <1>11, <3>2, <3>3, OrdersAre
    <3>5. rest = <<"coin">> /\ a = "token"
      BY <1>1, <1>2, <2>2, <3>4, OrdersAre
    <3>6. Touched(t, a)
      BY <3>3, <3>5 DEF Touched, Wallet!AssetOf
    <3>7. ok => t \in target'["token"].synced
      BY <1>9, <2>3, <2>5, <2>9, <3>1, <3>5, <3>6
    <3> QED BY <2>5, <2>6, <2>7, <3>1, <3>3, <3>5, <3>7 DEF Reconciling
  <2>10. RunSound(w)'
    BY <1>8, <2>5, <2>7, <2>8, <2>9 DEF RunSound
  <2>11. row' \in [Wallet!Transfers -> Wallet!Transaction]
    BY <2>6, WalletTypes
  <2> QED BY <1>1, <1>7, <2>5, <2>6, <2>10, <2>11, WroteGoes
<1>12. CASE ~(Wallet!Len(worker[w].assets) > 1)
  <2>0. PICK t : t = worker[w].transfer
    OBVIOUS
  <2>1. Wallet!Onward(w, written).ok => worker[w].ok
    BY <1>1 DEF Wallet!Onward, Wallet!Carried
  <2>2. /\ worker' = [worker EXCEPT ![w] = Wallet!Idle]
        /\ \/ row' = row
           \/ /\ row' = [row EXCEPT ![t].token = FALSE]
              /\ t # None /\ written /\ worker[w].ok
    BY <1>2, <1>3, <1>12, <2>0, <2>1 DEF Wallet!WriteBalance, Wallet!Ended, Wallet!Finish
  <2>3. Wallet!Idle \in Wallet!Carried
    BY DEF Wallet!Idle, Wallet!Carried
  <2>4. worker'[w] = Wallet!Idle
    BY <2>2, WalletTypes
  <2>5. RunSound(w)'
    BY <1>8, <2>4 DEF RunSound, Wallet!Idle
  <2>6. CASE row' = row
    <3>1. row' \in [Wallet!Transfers -> Wallet!Transaction]
      BY <2>6, WalletTypes
    <3> QED BY <1>1, <1>7, <2>2, <2>3, <2>5, <2>6, <3>1, WroteGoes
  <2>7. CASE row' = [row EXCEPT ![t].token = FALSE] /\ t # None /\ written /\ worker[w].ok
    <3>1. t \in Ended(row) /\ t \in Wallet!Transfers
      BY <1>1, <2>0, <2>7 DEF RunSound, Reconciling, Ended, Handed
    <3>2. row[t] \in Wallet!Transaction
      BY <3>1, WalletTypes
    <3> DEFINE r == [row[t] EXCEPT !.token = FALSE]
    <3>3. row' = [row EXCEPT ![t] = r]
      BY <2>7, <3>2 DEF Wallet!Transaction
    <3>4. /\ r \in Wallet!Transaction /\ ~r.token /\ r.status = row[t].status
          /\ r.imported = row[t].imported /\ r.debit = row[t].debit
      BY <3>2 DEF Wallet!Transaction
    <3> HIDE DEF r
    <3>5. /\ row' \in [Wallet!Transfers -> Wallet!Transaction]
          /\ \A u \in Wallet!Transfers : row'[u] = IF u = t THEN r ELSE row[u]
      BY <3>3, <3>4, WalletTypes
    <3>6. worker[w].assets = <<"coin">>
      <4>1. worker[w].assets \in {<<"coin">>, <<"token", "coin">>}
        BY <1>1, <2>0, <2>7, <3>1, TransferConstants DEF RunSound, Reconciling
      <4> QED BY <1>1, <1>12, <4>1, OrdersAre
    <3>7. a = "coin"
      BY <1>1, <1>2, <3>6, OrdersAre
    <3>8. t \in target'["coin"].synced
      BY <1>9, <2>7, <3>1, <3>7 DEF Touched
    <3>9. t \in Tokens => t \in target'["token"].synced
      <4>1. t \in Tokens => t \in target["token"].synced
        BY <1>1, <2>0, <2>7, <3>6 DEF RunSound, Reconciling
      <4>2. t \in Tokens => Touched(t, "token") /\ "token" \in Wallet!Assets
        BY TransferConstants DEF Touched, Wallet!AssetOf
      <4> QED BY <1>10, <3>1, <4>1, <4>2
    <3>10. \A b \in Wallet!Assets : Touched(t, b) => t \in target'[b].synced
      BY <3>1, <3>8, <3>9, TransferConstants DEF Touched, Wallet!AssetOf
    <3>11. \A u \in Wallet!Transfers :
              /\ row'[u].status = row[u].status /\ row'[u].imported = row[u].imported
              /\ row'[u].debit = row[u].debit
      BY <3>4, <3>5
    <3>12. \A u \in Wallet!Transfers :
              \/ row'[u] = row[u]
              \/ /\ ~row'[u].token
                 /\ \A b \in Wallet!Assets : Touched(u, b) => u \in target'[b].synced
      BY <3>4, <3>5, <3>10
    <3> QED BY <1>1, <1>7, <2>2, <2>3, <2>5, <3>5, <3>11, <3>12, WroteGoes
  <2> QED BY <2>2, <2>6, <2>7
<1> QED BY <1>11, <1>12

LEMMA WalletStepOn ==
    ASSUME WalletInv, Wallet!Next
    PROVE  WalletInv'
<1>1. ASSUME NEW w \in Workers, NEW t \in Wallet!Transfers, Wallet!Submit(w, t) \/ Wallet!Reconcile(w, t)
      PROVE  WalletInv'
  BY <1>1, SubmitKeeps, ReconcileKeeps
<1>2. ASSUME NEW w \in Workers, Wallet!Record(w) \/ Wallet!Abandon(w)
      PROVE  WalletInv'
  BY <1>2, RecordKeeps, AbandonKeeps
<1>3. ASSUME NEW w \in Workers, Wallet!ReadVersion(w) \/ Wallet!ReadBalance(w)
      PROVE  WalletInv'
  BY <1>3, ReadVersionKeeps, ReadBalanceKeeps
<1>4. ASSUME NEW w \in Workers, NEW answered \in BOOLEAN, Wallet!WriteBalance(w, answered)
      PROVE  WalletInv'
  BY <1>4, WriteBalanceKeeps
<1>5. ASSUME NEW w \in Workers, NEW found \in SUBSET Wallet!Transfers, Wallet!SyncWallet(w, found)
      PROVE  WalletInv'
  BY <1>5, SyncWalletKeeps
<1>6. ASSUME NEW t \in Wallet!Transfers,
             Wallet!Deliver(t) \/ Wallet!SendElsewhere(t) \/ Wallet!Settle(t)
      PROVE  WalletInv'
  BY <1>6, DeliverKeeps, SettleKeeps
<1>7. ASSUME NEW t \in Wallet!Transfers, NEW outcome \in {"mined", "reverted"},
             Wallet!Execute(t, outcome)
      PROVE  WalletInv'
  BY <1>7, ExecuteKeeps
<1> QED BY <1>1, <1>2, <1>3, <1>4, <1>5, <1>6, <1>7 DEF Wallet!Next

LEMMA WalletStays ==
    ASSUME WalletInv, UNCHANGED <<row, target, contract, worker>>
    PROVE  WalletInv'
<1>1. WalletTyped' /\ Covered' /\ OnceEach'
  BY DEF WalletInv, WalletTyped, Wallet!TypeOK, Covered, OnceEach
<1>2. \A a \in Wallet!Assets : HoldingSound(a)'
  BY DEF WalletInv, HoldingSound
<1>3. \A t \in Wallet!Transfers : TransferSound(t)'
  BY DEF WalletInv, TransferSound
<1>4. WalletStep({})
  BY DEF WalletStep
<1> QED BY <1>1, <1>2, <1>3, <1>4, WalletGoesOn

-----------------------------------------------------------------------------
(* FormerHolders.                                                          *)

LEMMA HolderSequences ==
    /\ \A s : Holders!Len(s) = Len(s)
    /\ \A s, e : Holders!Append(s, e) = Append(s, e)
    /\ \A s, m, n : Holders!SubSeq(s, m, n) = SubSeq(s, m, n)
OBVIOUS

LEMMA AppendIs ==
    ASSUME NEW S, NEW s \in Seq(S), NEW e \in S
    PROVE  /\ Append(s, e) \in Seq(S) /\ Len(Append(s, e)) = Len(s) + 1
           /\ \A i \in 1..Len(s) : Append(s, e)[i] = s[i]
           /\ Append(s, e)[Len(s) + 1] = e
           /\ Len(s) \in Nat /\ \A i \in 1..Len(s) : s[i] \in S
           /\ DOMAIN s = 1..Len(s)
OBVIOUS

LEMMA PrefixIs ==
    ASSUME NEW S, NEW s \in Seq(S), NEW n \in 0..Len(s)
    PROVE  /\ SubSeq(s, 1, n) \in Seq(S) /\ Len(SubSeq(s, 1, n)) = n
           /\ \A i \in 1..n : SubSeq(s, 1, n)[i] = s[i]
           /\ DOMAIN SubSeq(s, 1, n) = 1..n
OBVIOUS

\* A set of numbers up to n has a greatest one, if it has any.
LEMMA GreatestMember ==
    ASSUME NEW n \in Nat, NEW S \in SUBSET (0..n), S # {}
    PROVE  Holders!Max(S) \in S /\ \A i \in S : i <= Holders!Max(S)
<1> DEFINE N == {k \in Nat : n - k \in S}
<1>0. \A i \in S : n - i \in Nat /\ n - (n - i) = i
  OBVIOUS
<1>1. N \in SUBSET Nat /\ N # {} /\ \A i \in S : n - i \in N
  BY <1>0
<1>2. PICK k \in N : \A j \in N : k <= j
  BY <1>1, LeastMember
<1>3. PICK i \in S : i = n - k
  BY <1>2
<1>4. ASSUME NEW j \in S PROVE i >= j
  <2>1. k <= n - j /\ k \in Nat
    BY <1>1, <1>2
  <2>2. \A x, y, z \in Int : z <= x - y => x - z >= y
    OBVIOUS
  <2>3. j \in Int /\ n \in Int
    OBVIOUS
  <2> HIDE DEF N
  <2> QED BY <1>3, <2>1, <2>2, <2>3
<1>5. Holders!Max(S) \in S /\ \A j \in S : Holders!Max(S) >= j
  BY <1>3, <1>4 DEF Holders!Max
<1> QED BY <1>5

Transfer == [from : Members \cup {None}, to : Members, value : 1..MaxValue, block : 0..MaxDay]

\* What entry e adds to the shares of m, and what m holds after the first i.
Change(e, m) == (IF e.to = m THEN e.value ELSE 0) - (IF e.from = m THEN e.value ELSE 0)

Changes(s, m) == [k \in DOMAIN s |-> Change(s[k], m)]

Held(s, m, i) == SumOf(Changes(s, m), 1..i)

\* Holders!Left, Holders!Final and Holders!Departures, of a history s.
Parted(s, i) == s[i].from \notin {None, s[i].to} /\ Held(s, s[i].from, i) = 0

LastParted(s, i) ==
    /\ Parted(s, i)
    /\ \A k \in (i + 1)..Len(s) :
          Parted(s, k) => s[k].from # s[i].from \/ s[k].block # s[i].block

Cessation(s, i) == [address |-> s[i].from, block |-> s[i].block, shares |-> s[i].value]

Departed(s) == {Cessation(s, i) : i \in {k \in 1..Len(s) : LastParted(s, k)}}

\* A history of transfers of shares their senders had.
History(s) ==
    s \in Seq(Transfer) /\ \A m \in Members, i \in 0..Len(s) : Held(s, m, i) >= 0

LEMMA HolderConstants ==
    /\ MaxValue \in Nat \ {0} /\ MaxTransfers \in Nat \ {0} /\ MaxDay \in Nat \ {0} /\ Retention \in Nat
    /\ None \notin Members
BY SubjectAssumption DEF Holders!HolderAssumption

LEMMA EntryIs ==
    ASSUME NEW e \in Transfer
    PROVE  /\ e.from \in Members \cup {None} /\ e.to \in Members /\ e.to # None
           /\ e.value \in Nat /\ e.value > 0 /\ e.value <= MaxValue
           /\ e.block \in Nat /\ e.block \in 0..MaxDay
           /\ \A m : Change(e, m) \in Int
BY HolderConstants DEF Transfer, Change

LEMMA EntriesAre ==
    ASSUME NEW s \in Seq(Transfer)
    PROVE  /\ Len(s) \in Nat /\ DOMAIN s = 1..Len(s)
           /\ \A i \in 1..Len(s) : s[i] \in Transfer
OBVIOUS

LEMMA ChangesCount ==
    ASSUME NEW s \in Seq(Transfer), NEW m, NEW i \in 0..Len(s)
    PROVE  /\ Counts(Changes(s, m), 1..i) /\ IsFiniteSet(1..i)
           /\ \A k \in 1..i : Changes(s, m)[k] = Change(s[k], m)
<1>1. \A k \in 1..i : k \in DOMAIN s /\ s[k] \in Transfer
  BY EntriesAre
<1>2. IsFiniteSet(1..i)
  BY FS_Interval
<1>3. \A k \in 1..i : Changes(s, m)[k] = Change(s[k], m) /\ Change(s[k], m) \in Int
  BY <1>1, EntryIs DEF Changes
<1> QED BY <1>2, <1>3 DEF Counts

LEMMA HeldIs ==
    ASSUME NEW s \in Seq(Transfer), NEW m, NEW i \in 0..Len(s)
    PROVE  /\ Held(s, m, i) \in Int
           /\ Held(s, m, 0) = 0
           /\ i < Len(s) => Held(s, m, i + 1) = Held(s, m, i) + Change(s[i + 1], m)
<1>1. Held(s, m, i) \in Int
  BY ChangesCount, SumOfType DEF Held
<1>2. Held(s, m, 0) = 0
  <2>1. 1..0 = {}
    OBVIOUS
  <2> QED BY <2>1, SumOfNone DEF Held
<1>3. ASSUME i < Len(s)
      PROVE  Held(s, m, i + 1) = Held(s, m, i) + Change(s[i + 1], m)
  <2>0. i + 1 \in 0..Len(s) /\ i \in Nat
    BY <1>3, EntriesAre
  <2>1. 1..(i + 1) = (1..i) \cup {i + 1} /\ i + 1 \notin 1..i /\ i + 1 \in 1..(i + 1)
    BY <2>0
  <2>2. Counts(Changes(s, m), (1..i) \cup {i + 1}) /\ IsFiniteSet(1..i)
        /\ Changes(s, m)[i + 1] = Change(s[i + 1], m)
    BY <2>0, <2>1, ChangesCount
  <2>3. SumOf(Changes(s, m), (1..i) \cup {i + 1})
           = Changes(s, m)[i + 1] + SumOf(Changes(s, m), 1..i)
    BY <2>1, <2>2, SumOfAdded
  <2>4. s[i + 1] \in Transfer
    BY <2>0, EntriesAre
  <2>5. Change(s[i + 1], m) \in Int
    BY <2>4, EntryIs
  <2>6. Held(s, m, i + 1) = Change(s[i + 1], m) + Held(s, m, i)
    BY <2>1, <2>2, <2>3 DEF Held
  <2> QED BY <1>1, <2>5, <2>6
<1> QED BY <1>1, <1>2, <1>3

\* What the model adds up.
HeldAfter(s, m, i) == Holders!MapThenSumSet(LAMBDA k : Change(s[k], m), 1..i)

LEMMA HeldAfterIs ==
    ASSUME NEW s \in Seq(Transfer), NEW m, NEW i \in 0..Len(s)
    PROVE  HeldAfter(s, m, i) = Held(s, m, i)
<1> DEFINE f == Changes(s, m)
           S == 1..i
           P(g) == g = [U \in SUBSET S |-> IF U = {} THEN 0
                                           ELSE Change(s[Some(U)], m) + g[U \ {Some(U)}]]
           h == CHOOSE g : P(g)
<1>1. HeldAfter(s, m, i) = h[S]
  BY DEF HeldAfter, Holders!MapThenSumSet, Holders!MapThenFoldSet, Some
<1>2. Counts(f, S) /\ IsFiniteSet(S) /\ \A k \in S : f[k] = Change(s[k], m)
  BY ChangesCount
<1>3. \A U \in SUBSET S : U # {} => Some(U) \in S
  BY DEF Some
<1>0. Held(s, m, i) = SumOf(f, S)
  BY DEF Held
<1> HIDE DEF f, S
<1>4. PICK g \in [SUBSET S -> Int] : Adds(f, S, g)
  BY <1>2, AddsExists
<1>5. P(g)
  BY <1>2, <1>3, <1>4 DEF Adds
<1>6. P(h)
  <2> HIDE DEF P
  <2> QED BY <1>5
<1> HIDE DEF h
<1>7. Adds(f, S, h)
  BY <1>2, <1>3, <1>6 DEF Adds
<1> HIDE DEF P
<1>8. h[S] = SumOf(f, S)
  BY <1>2, <1>7, SumIsOne
<1> QED BY <1>0, <1>1, <1>8

LEMMA HoldersHistory ==
    ASSUME contract.transfers \in Seq(Transfer)
    PROVE  /\ \A m : \A i \in 0..Len(contract.transfers) :
                 Holders!BalanceAt(m, i) = Held(contract.transfers, m, i)
           /\ Holders!Departures = Departed(contract.transfers)
<1>1. ASSUME NEW m, NEW i \in 0..Len(contract.transfers)
      PROVE  Holders!BalanceAt(m, i) = Held(contract.transfers, m, i)
  <2>1. Holders!BalanceAt(m, i) = HeldAfter(contract.transfers, m, i)
    BY DEF Holders!BalanceAt, HeldAfter, Change, Holders!MapThenSumSet, Holders!MapThenFoldSet
  <2> QED BY <2>1, HeldAfterIs
<1>2. \A i \in 1..Len(contract.transfers) :
         Holders!Left(i) <=> Parted(contract.transfers, i)
  BY <1>1 DEF Holders!Left, Parted
<1>3. \A i \in 1..Len(contract.transfers) :
         Holders!Final(i) <=> LastParted(contract.transfers, i)
  <2> TAKE i \in 1..Len(contract.transfers)
  <2>1. \A k \in (i + 1)..Len(contract.transfers) : k \in 1..Len(contract.transfers)
    OBVIOUS
  <2> QED BY <1>2, <2>1, HolderSequences DEF Holders!Final, LastParted
<1>4. DOMAIN contract.transfers = 1..Len(contract.transfers)
  BY EntriesAre
<1>5. Holders!Departures = Departed(contract.transfers)
  BY <1>3, <1>4 DEF Holders!Departures, Departed, Cessation
<1> QED BY <1>1, <1>5

\* The sender of e has what it sends.
Covers(s, e) == e.from # None => Held(s, e.from, Len(s)) >= e.value

\* t begins as s does.
Extends(t, s) ==
    /\ \A i \in 1..Len(s) : t[i] = s[i]
    /\ \A m : \A i \in 0..Len(s) : Held(t, m, i) = Held(s, m, i)

LEMMA HistoryGrows ==
    ASSUME NEW s, History(s), NEW e \in Transfer,
           Covers(s, e),
           NEW t, t = Append(s, e)
    PROVE  /\ History(t) /\ Len(t) = Len(s) + 1 /\ t[Len(s) + 1] = e
           /\ Extends(t, s)
<1>1. /\ s \in Seq(Transfer) /\ t \in Seq(Transfer) /\ Len(t) = Len(s) + 1 /\ Len(s) \in Nat
      /\ t[Len(s) + 1] = e /\ \A i \in 1..Len(s) : t[i] = s[i]
  BY AppendIs DEF History
<1>2. ASSUME NEW m, NEW i \in 0..Len(s) PROVE Held(t, m, i) = Held(s, m, i)
  <2>0. i \in 0..Len(t)
    BY <1>1
  <2>1. /\ Counts(Changes(s, m), 1..i) /\ IsFiniteSet(1..i)
        /\ \A k \in 1..i : Changes(s, m)[k] = Change(s[k], m)
    BY <1>1, ChangesCount
  <2>2. \A k \in 1..i : Changes(t, m)[k] = Change(t[k], m)
    BY <1>1, <2>0, ChangesCount
  <2>3. \A k \in 1..i : t[k] = s[k]
    BY <1>1
  <2>4. \A k \in 1..i : Changes(s, m)[k] = Changes(t, m)[k]
    BY <2>1, <2>2, <2>3
  <2>5. SumOf(Changes(s, m), 1..i) = SumOf(Changes(t, m), 1..i)
    BY <2>1, <2>4, SumOfSame
  <2> QED BY <2>5 DEF Held
<1>3. ASSUME NEW m \in Members, NEW i \in 0..Len(t) PROVE Held(t, m, i) >= 0
  <2>1. CASE i \in 0..Len(s)
    BY <1>2, <2>1 DEF History
  <2>2. CASE i = Len(s) + 1
    <3>1. Len(s) \in 0..Len(t) /\ Len(s) < Len(t) /\ Len(s) \in 0..Len(s)
      BY <1>1
    <3>2. Held(t, m, i) = Held(t, m, Len(s)) + Change(e, m)
      BY <1>1, <2>2, <3>1, HeldIs
    <3>3. Held(t, m, Len(s)) = Held(s, m, Len(s)) /\ Held(s, m, Len(s)) >= 0
          /\ Held(s, m, Len(s)) \in Int
      BY <1>1, <1>2, <3>1, HeldIs DEF History
    <3>4. e.value \in Nat /\ m # None
      BY EntryIs, HolderConstants
    <3>5. CASE e.from = m
      <4>1. Held(s, m, Len(s)) >= e.value
        BY <3>4, <3>5 DEF Covers
      <4> QED BY <3>2, <3>3, <3>4, <3>5, <4>1 DEF Change
    <3>6. CASE e.from # m
      BY <3>2, <3>3, <3>4, <3>6 DEF Change
    <3> QED BY <3>5, <3>6
  <2>3. i \in 0..Len(s) \/ i = Len(s) + 1
    BY <1>1
  <2> QED BY <2>1, <2>2, <2>3
<1>4. History(t)
  BY <1>1, <1>3 DEF History
<1> QED BY <1>1, <1>2, <1>4 DEF Extends

LEMMA DepartedBefore ==
    ASSUME NEW s, History(s), NEW e \in Transfer,
           Covers(s, e),
           NEW t, t = Append(s, e), \A i \in 1..Len(s) : s[i].block <= e.block
    PROVE  \A d : d.block < e.block => (d \in Departed(t) <=> d \in Departed(s))
<1>1. /\ Len(t) = Len(s) + 1 /\ t[Len(s) + 1] = e /\ Len(s) \in Nat
      /\ \A i \in 1..Len(s) : t[i] = s[i]
      /\ \A m : \A i \in 0..Len(s) : Held(t, m, i) = Held(s, m, i)
  <2>1. Len(s) \in Nat
    BY EntriesAre DEF History
  <2>2. Len(t) = Len(s) + 1 /\ t[Len(s) + 1] = e /\ Extends(t, s)
    BY HistoryGrows
  <2> QED BY <2>1, <2>2 DEF Extends
<1>2. \A i \in 1..Len(s) : Parted(t, i) <=> Parted(s, i)
  <2> TAKE i \in 1..Len(s)
  <2>1. i \in 0..Len(s)
    BY <1>1
  <2>2. t[i] = s[i] /\ Held(t, s[i].from, i) = Held(s, s[i].from, i)
    BY <1>1, <2>1
  <2> QED BY <2>2 DEF Parted
<1>3. ASSUME NEW i \in 1..Len(s), s[i].block < e.block
      PROVE  LastParted(t, i) <=> LastParted(s, i)
  <2>1. \A k \in (i + 1)..Len(t) : k = Len(s) + 1 \/ (k \in (i + 1)..Len(s) /\ k \in 1..Len(s))
    BY <1>1
  <2>2. \A k \in (i + 1)..Len(s) : k \in (i + 1)..Len(t) /\ k \in 1..Len(s)
    BY <1>1
  <2>3. t[Len(s) + 1].block # t[i].block
    <3>1. t[Len(s) + 1].block = e.block /\ t[i].block = s[i].block
      BY <1>1
    <3>2. e.block \in Nat /\ s[i].block \in Nat
      BY EntryIs, EntriesAre DEF History
    <3> QED BY <1>3, <3>1, <3>2
  <2> QED BY <1>1, <1>2, <2>1, <2>2, <2>3 DEF LastParted
<1>4. \A i \in 1..Len(s) : Cessation(t, i) = Cessation(s, i)
  BY <1>1 DEF Cessation
<1>5. ASSUME NEW d, d.block < e.block, d \in Departed(t) PROVE d \in Departed(s)
  <2>1. PICK i \in 1..Len(t) : LastParted(t, i) /\ d = Cessation(t, i)
    BY <1>5 DEF Departed
  <2>2. d.block = t[i].block
    BY <2>1 DEF Cessation
  <2>3. i # Len(s) + 1
    <3>1. e.block \in Nat
      BY EntryIs
    <3> QED BY <1>1, <1>5, <2>2, <3>1
  <2>4. i \in 1..Len(s)
    BY <1>1, <2>3
  <2>5. LastParted(s, i) /\ d = Cessation(s, i)
    BY <1>1, <1>3, <1>4, <1>5, <2>1, <2>2, <2>4
  <2> QED BY <2>4, <2>5 DEF Departed
<1>6. ASSUME NEW d, d.block < e.block, d \in Departed(s) PROVE d \in Departed(t)
  <2>1. PICK i \in 1..Len(s) : LastParted(s, i) /\ d = Cessation(s, i)
    BY <1>6 DEF Departed
  <2>2. d.block = s[i].block
    BY <2>1 DEF Cessation
  <2>3. LastParted(t, i) /\ d = Cessation(t, i) /\ i \in 1..Len(t)
    BY <1>1, <1>3, <1>4, <1>6, <2>1, <2>2
  <2> QED BY <2>3 DEF Departed
<1> QED BY <1>5, <1>6

LEMMA DepartedOnce ==
    ASSUME NEW s \in Seq(Transfer), NEW c \in Departed(s), NEW d \in Departed(s),
           c.address = d.address, c.block = d.block
    PROVE  c = d
<1>1. PICK i \in 1..Len(s) : LastParted(s, i) /\ c = Cessation(s, i)
  BY DEF Departed
<1>2. PICK j \in 1..Len(s) : LastParted(s, j) /\ d = Cessation(s, j)
  BY DEF Departed
<1>3. s[i].from = s[j].from /\ s[i].block = s[j].block
  BY <1>1, <1>2 DEF Cessation
<1>4. Len(s) \in Nat
  BY EntriesAre
<1>5. CASE i < j
  <2>1. j \in (i + 1)..Len(s)
    BY <1>4, <1>5
  <2> QED BY <1>1, <1>2, <1>3, <2>1 DEF LastParted
<1>6. CASE j < i
  <2>1. i \in (j + 1)..Len(s)
    BY <1>4, <1>6
  <2> QED BY <1>1, <1>2, <1>3, <2>1 DEF LastParted
<1>7. CASE i = j
  BY <1>1, <1>2, <1>7
<1> QED BY <1>5, <1>6, <1>7

LEMMA DepartedAre ==
    ASSUME NEW s \in Seq(Transfer), NEW d \in Departed(s)
    PROVE  d \in Holders!FormerHolder /\ d.block \in 0..MaxDay /\ d.block \in Nat
<1>1. PICK i \in 1..Len(s) : LastParted(s, i) /\ d = Cessation(s, i)
  BY DEF Departed
<1>2. s[i] \in Transfer /\ s[i].from # None
  BY <1>1, EntriesAre DEF LastParted, Parted
<1>3. s[i].from \in Members /\ s[i].block \in 0..MaxDay
  BY <1>2, EntryIs
<1>4. s[i].value \in 1..(MaxValue * MaxTransfers)
  <2>1. \A a, b \in Nat \ {0} : a <= a * b /\ a * b \in Nat
    OBVIOUS
  <2>2. MaxValue <= MaxValue * MaxTransfers /\ MaxValue * MaxTransfers \in Nat
    BY <2>1, HolderConstants
  <2>3. PICK n \in Nat : n = MaxValue * MaxTransfers /\ MaxValue <= n
    BY <2>2
  <2>4. s[i].value \in 1..n
    <3>1. MaxValue <= n /\ n \in Nat
      BY <2>3
    <3> QED BY <1>2, <3>1, EntryIs, HolderConstants
  <2> QED BY <2>3, <2>4
<1> QED BY <1>1, <1>3, <1>4 DEF Cessation, Holders!FormerHolder, Holders!Days, Holders!Shares

\* A state of cessations_in's loop.
Ceased == [address : Members, block : 0..MaxDay, shares : Int]

States == [balance : [Members \cup {None} -> Int], ceased : Seq(Ceased)]

\* f gives for each cessation found the transfer, of the first i, it is from.
Tracks(s, i, ceased, f) ==
    /\ f \in [1..Len(ceased) -> 1..i]
    /\ \A j, k \in 1..Len(ceased) : j < k => f[j] < f[k]
    /\ \A j \in 1..Len(ceased) : Parted(s, f[j]) /\ ceased[j] = Cessation(s, f[j])
    /\ \A k \in 1..i : Parted(s, k) => \E j \in 1..Len(ceased) : f[j] = k

Tracked(s, i, ceased) == \E f : Tracks(s, i, ceased, f)

Found(s, i, st) ==
    /\ st \in States
    /\ st.balance[None] = 0
    /\ \A m \in Members : st.balance[m] = Held(s, m, i)
    /\ Tracked(s, i, st.ceased)

LEMMA TrackSame ==
    ASSUME NEW s, NEW i \in Nat, NEW c \in Seq(Ceased), Tracked(s, i, c), ~Parted(s, i + 1)
    PROVE  Tracked(s, i + 1, c)
<1>1. PICK f : Tracks(s, i, c, f)
  BY DEF Tracked
<1>2. \A k \in 1..(i + 1) : k \in 1..i \/ k = i + 1
  OBVIOUS
<1>3. f \in [1..Len(c) -> 1..(i + 1)]
  BY <1>1 DEF Tracks
<1>4. Tracks(s, i + 1, c, f)
  BY <1>1, <1>2, <1>3 DEF Tracks
<1> QED BY <1>4 DEF Tracked

LEMMA TrackMore ==
    ASSUME NEW s, NEW i \in Nat, NEW c \in Seq(Ceased), Tracked(s, i, c), Parted(s, i + 1),
           NEW e \in Ceased, e = Cessation(s, i + 1)
    PROVE  Tracked(s, i + 1, Append(c, e))
<1>1. PICK f : Tracks(s, i, c, f)
  BY DEF Tracked
<1>2. PICK d \in Seq(Ceased) :
         /\ d = Append(c, e) /\ Len(d) = Len(c) + 1 /\ d[Len(c) + 1] = e
         /\ \A j \in 1..Len(c) : d[j] = c[j]
  <2>1. /\ Append(c, e) \in Seq(Ceased) /\ Len(Append(c, e)) = Len(c) + 1
        /\ Append(c, e)[Len(c) + 1] = e
        /\ \A j \in 1..Len(c) : Append(c, e)[j] = c[j]
    BY AppendIs
  <2> QED BY <2>1
<1>3. PICK n \in Nat : n = Len(c)
  OBVIOUS
<1> DEFINE g == [j \in 1..(n + 1) |-> IF j = n + 1 THEN i + 1 ELSE f[j]]
<1>4. /\ f \in [1..n -> 1..i]
      /\ \A j, k \in 1..n : j < k => f[j] < f[k]
      /\ \A j \in 1..n : Parted(s, f[j]) /\ c[j] = Cessation(s, f[j])
      /\ \A k \in 1..i : Parted(s, k) => \E j \in 1..n : f[j] = k
  BY <1>1, <1>3 DEF Tracks
<1>5. \A j \in 1..(n + 1) : j \in 1..n \/ j = n + 1
  OBVIOUS
<1>6. \A j \in 1..n : j \in 1..(n + 1) /\ j # n + 1 /\ f[j] \in 1..(i + 1) /\ f[j] < i + 1
  BY <1>4
<1>7. g[n + 1] = i + 1 /\ \A j \in 1..n : g[j] = f[j]
  BY <1>6
<1>8. g \in [1..(n + 1) -> 1..(i + 1)]
  BY <1>5, <1>6
<1> HIDE DEF g
<1>9. \A j, k \in 1..(n + 1) : j < k => g[j] < g[k]
  <2> SUFFICES ASSUME NEW j \in 1..(n + 1), NEW k \in 1..(n + 1), j < k PROVE g[j] < g[k]
    OBVIOUS
  <2>1. j \in 1..n
    OBVIOUS
  <2>2. CASE k \in 1..n
    BY <1>4, <1>7, <2>1, <2>2
  <2>3. CASE k = n + 1
    BY <1>6, <1>7, <2>1, <2>3
  <2> QED BY <1>5, <2>2, <2>3
<1>10. \A j \in 1..(n + 1) : Parted(s, g[j]) /\ d[j] = Cessation(s, g[j])
  BY <1>2, <1>3, <1>4, <1>5, <1>7
<1>11. \A k \in 1..(i + 1) : Parted(s, k) => \E j \in 1..(n + 1) : g[j] = k
  <2> SUFFICES ASSUME NEW k \in 1..(i + 1), Parted(s, k) PROVE \E j \in 1..(n + 1) : g[j] = k
    OBVIOUS
  <2>1. CASE k = i + 1
    <3>1. n + 1 \in 1..(n + 1)
      OBVIOUS
    <3> QED BY <1>7, <2>1, <3>1
  <2>2. CASE k \in 1..i
    BY <1>4, <1>6, <1>7, <2>2
  <2> QED BY <2>1, <2>2
<1>12. Len(d) = n + 1
  BY <1>2, <1>3
<1>13. Tracks(s, i + 1, d, g)
  BY <1>8, <1>9, <1>10, <1>11, <1>12 DEF Tracks
<1> QED BY <1>2, <1>13 DEF Tracked

LEMMA EnterIs ==
    ASSUME NEW st \in States, NEW e \in Transfer,
           NEW r, r = Holders!Enter(st, e)
    PROVE  /\ r \in States
           /\ e.from = e.to => r = st
           /\ e.from # e.to =>
                /\ \A m \in Members \cup {None} :
                      r.balance[m] =
                         IF m = e.to THEN st.balance[m] + e.value
                         ELSE IF m # e.from THEN st.balance[m]
                         ELSE IF m = None THEN 0 ELSE st.balance[m] - e.value
                /\ IF e.from # None /\ st.balance[e.from] > 0 /\ st.balance[e.from] - e.value <= 0
                   THEN r.ceased = Append(st.ceased,
                           [address |-> e.from, block |-> e.block, shares |-> st.balance[e.from]])
                   ELSE r.ceased = st.ceased
<1>0. /\ e.from \in Members \cup {None} /\ e.to \in Members /\ e.value \in Int
      /\ e.block \in 0..MaxDay
      /\ st.balance \in [Members \cup {None} -> Int] /\ st.ceased \in Seq(Ceased)
  BY EntryIs DEF States
<1>1. CASE e.from = e.to
  BY <1>1 DEF Holders!Enter
<1>2. CASE e.from # e.to
  <2> DEFINE credited == [st.balance EXCEPT ![e.to] = @ + e.value]
             before == st.balance[e.from]
             balance == [credited EXCEPT ![e.from] = IF e.from = None THEN 0 ELSE before - e.value]
             entry == [address |-> e.from, block |-> e.block, shares |-> before]
             parts == e.from # None /\ before > 0 /\ before - e.value <= 0
             ceased == IF parts THEN Append(st.ceased, entry) ELSE st.ceased
  <2>1. credited \in [Members \cup {None} -> Int] /\ credited[e.from] = before /\ before \in Int
    BY <1>0, <1>2
  <2>2. r = [balance |-> balance, ceased |-> ceased]
    <3>1. r = [balance |-> [credited EXCEPT ![e.from] =
                              IF e.from = None THEN 0 ELSE credited[e.from] - e.value],
               ceased |-> IF /\ e.from # None /\ credited[e.from] > 0
                             /\ credited[e.from] - e.value <= 0
                          THEN Holders!Append(st.ceased,
                                  [address |-> e.from, block |-> e.block,
                                   shares |-> credited[e.from]])
                          ELSE st.ceased]
      BY <1>2 DEF Holders!Enter
    <3>2. Holders!Append(st.ceased, entry) = Append(st.ceased, entry)
      BY HolderSequences
    <3> HIDE DEF credited
    <3> QED BY <2>1, <3>1, <3>2
  <2>3. balance \in [Members \cup {None} -> Int]
    BY <1>0, <2>1
  <2>4. \A m \in Members \cup {None} :
           balance[m] = IF m = e.to THEN st.balance[m] + e.value
                        ELSE IF m # e.from THEN st.balance[m]
                        ELSE IF m = None THEN 0 ELSE st.balance[m] - e.value
    BY <1>0, <1>2
  <2>5. parts => entry \in Ceased
    BY <1>0, <2>1 DEF Ceased
  <2> HIDE DEF balance, entry, parts
  <2>6. ceased \in Seq(Ceased)
    BY <1>0, <2>5
  <2> HIDE DEF ceased
  <2>7. r \in States /\ r.balance = balance /\ r.ceased = ceased
    BY <2>2, <2>3, <2>6 DEF States
  <2>8. IF e.from # None /\ st.balance[e.from] > 0 /\ st.balance[e.from] - e.value <= 0
        THEN r.ceased = Append(st.ceased,
                [address |-> e.from, block |-> e.block, shares |-> st.balance[e.from]])
        ELSE r.ceased = st.ceased
    BY <2>7 DEF ceased, parts, entry
  <2> QED BY <1>2, <2>4, <2>7, <2>8
<1> QED BY <1>1, <1>2

LEMMA EnterFinds ==
    ASSUME NEW s, History(s), NEW i \in 0..(Len(s) - 1), NEW st, Found(s, i, st)
    PROVE  Found(s, i + 1, Holders!Enter(st, s[i + 1]))
<1>1. PICK e \in Transfer : e = s[i + 1]
  <2>1. s \in Seq(Transfer) /\ i + 1 \in 1..Len(s)
    BY EntriesAre DEF History
  <2> QED BY <2>1, EntriesAre
<1>2. PICK r : r = Holders!Enter(st, e)
  OBVIOUS
<1>3. /\ s \in Seq(Transfer) /\ Len(s) \in Nat /\ i \in Nat /\ i \in 0..Len(s) /\ i < Len(s)
      /\ i + 1 \in 0..Len(s) /\ st \in States
  BY EntriesAre DEF History, Found
<1>4. \A m \in Members : /\ Held(s, m, i + 1) = Held(s, m, i) + Change(e, m)
                         /\ Held(s, m, i) \in Int /\ Held(s, m, i) >= 0 /\ Held(s, m, i + 1) >= 0
                         /\ st.balance[m] = Held(s, m, i)
  BY <1>1, <1>3, HeldIs DEF History, Found
<1>5. /\ e.from \in Members \cup {None} /\ e.to \in Members /\ e.to # None
      /\ e.value \in Nat /\ e.value > 0 /\ None \notin Members
  BY EntryIs, HolderConstants
<1>6. CASE e.from = e.to
  <2>1. r = st
    BY <1>2, <1>3, <1>6, EnterIs
  <2>2. \A m \in Members : Held(s, m, i + 1) = Held(s, m, i)
    BY <1>4, <1>5, <1>6 DEF Change
  <2>3. ~Parted(s, i + 1)
    BY <1>1, <1>6 DEF Parted
  <2>4. Tracked(s, i + 1, st.ceased)
    BY <1>3, <2>3, TrackSame DEF Found, States
  <2>5. Found(s, i + 1, st)
    BY <2>2, <2>4 DEF Found
  <2> QED BY <1>1, <1>2, <2>1, <2>5
<1>7. CASE e.from # e.to
  <2>1. /\ r \in States
        /\ \A m \in Members \cup {None} :
              r.balance[m] = IF m = e.to THEN st.balance[m] + e.value
                             ELSE IF m # e.from THEN st.balance[m]
                             ELSE IF m = None THEN 0 ELSE st.balance[m] - e.value
        /\ IF e.from # None /\ st.balance[e.from] > 0 /\ st.balance[e.from] - e.value <= 0
           THEN r.ceased = Append(st.ceased,
                   [address |-> e.from, block |-> e.block, shares |-> st.balance[e.from]])
           ELSE r.ceased = st.ceased
    BY <1>2, <1>3, <1>7, EnterIs
  <2>2. r.balance[None] = 0
    BY <1>5, <2>1 DEF Found
  <2>3. \A m \in Members : r.balance[m] = Held(s, m, i + 1)
    <3> TAKE m \in Members
    <3>0. m # None /\ m \in Members \cup {None}
      BY <1>5
    <3>1. CASE m = e.to
      BY <1>4, <1>5, <1>7, <2>1, <3>0, <3>1 DEF Change
    <3>2. CASE m = e.from
      BY <1>4, <1>5, <1>7, <2>1, <3>0, <3>2 DEF Change
    <3>3. CASE m # e.to /\ m # e.from
      <4>1. Change(e, m) = 0
        BY <3>3 DEF Change
      <4>2. Held(s, m, i + 1) = Held(s, m, i)
        BY <1>4, <4>1
      <4>3. r.balance[m] = st.balance[m]
        BY <2>1, <3>0, <3>3
      <4> QED BY <1>4, <4>2, <4>3
    <3> QED BY <3>1, <3>2, <3>3
  <2>4. e.from \in Members => Held(s, e.from, i + 1) = st.balance[e.from] - e.value
    BY <1>4, <1>5, <1>7 DEF Change
  <2>5. Parted(s, i + 1) <=> e.from # None /\ Held(s, e.from, i + 1) = 0
    BY <1>1, <1>7 DEF Parted
  <2>6. CASE Parted(s, i + 1)
    <3>1. /\ e.from \in Members /\ st.balance[e.from] - e.value = 0
          /\ st.balance[e.from] = e.value
      <4>1. e.from \in Members
        BY <1>5, <2>5, <2>6
      <4> QED BY <1>4, <1>5, <2>4, <2>5, <2>6, <4>1
    <3>2. r.ceased = Append(st.ceased, Cessation(s, i + 1))
      BY <1>1, <1>5, <2>1, <3>1 DEF Cessation
    <3>3. Cessation(s, i + 1) \in Ceased
      BY <1>1, <1>5, <3>1, EntryIs DEF Cessation, Ceased
    <3>4. Tracked(s, i + 1, r.ceased)
      BY <1>3, <2>6, <3>2, <3>3, TrackMore DEF Found, States
    <3> QED BY <1>1, <1>2, <2>1, <2>2, <2>3, <3>4 DEF Found
  <2>7. CASE ~Parted(s, i + 1)
    <3>1. ~(e.from # None /\ st.balance[e.from] > 0 /\ st.balance[e.from] - e.value <= 0)
      <4>1. e.from = None \/ e.from \in Members
        BY <1>5
      <4> QED BY <1>4, <1>5, <2>4, <2>5, <2>7, <4>1
    <3>2. r.ceased = st.ceased
      BY <2>1, <3>1
    <3>3. Tracked(s, i + 1, r.ceased)
      BY <1>3, <2>7, <3>2, TrackSame DEF Found, States
    <3> QED BY <1>1, <1>2, <2>1, <2>2, <2>3, <3>3 DEF Found
  <2> QED BY <2>6, <2>7
<1> QED BY <1>6, <1>7

Nothing == [balance |-> [m \in Members \cup {None} |-> 0], ceased |-> <<>>]

\* The values the model's fold over p takes.
Loop(p, h) ==
    h = [U \in SUBSET DOMAIN p |->
           IF U = {} THEN Nothing
           ELSE Holders!Enter(h[U \ {Holders!Max(U)}], p[Holders!Max(U)])]

LEMMA LoopOfFold ==
    ASSUME NEW p
    PROVE  Holders!CessationsIn(p) = (CHOOSE h : Loop(p, h))[DOMAIN p].ceased
BY DEF Holders!CessationsIn, Holders!FoldLeft, Holders!MapThenFoldSet, Loop, Nothing

LEMMA NothingFound ==
    ASSUME NEW s \in Seq(Transfer)
    PROVE  Found(s, 0, Nothing)
<1>1. Nothing \in States /\ Nothing.ceased = <<>>
      /\ \A m \in Members \cup {None} : Nothing.balance[m] = 0
  BY DEF Nothing, States
<1>2. \A m \in Members : Held(s, m, 0) = 0
  <2>1. 0 \in 0..Len(s)
    BY EntriesAre
  <2> QED BY <2>1, HeldIs
<1>3. Tracked(s, 0, <<>>)
  <2> DEFINE f == [j \in 1..0 |-> 0]
  <2>1. 1..0 = {} /\ Len(<<>>) = 0
    OBVIOUS
  <2>2. Tracks(s, 0, <<>>, f)
    BY <2>1 DEF Tracks
  <2> QED BY <2>2 DEF Tracked
<1> QED BY <1>1, <1>2, <1>3 DEF Found

LEMMA LoopFinds ==
    ASSUME NEW s, History(s), NEW n \in 0..Len(s), NEW p \in Seq(Transfer), Len(p) = n,
           \A i \in 1..n : p[i] = s[i], NEW h, Loop(p, h)
    PROVE  Found(s, n, h[1..n])
<1>1. /\ s \in Seq(Transfer) /\ Len(s) \in Nat /\ n \in Nat /\ DOMAIN p = 1..n
  BY EntriesAre DEF History
<1> DEFINE N == {i \in Nat : i <= n => Found(s, i, h[1..i])}
<1>2. 0 \in N
  <2>1. 1..0 = {}
    OBVIOUS
  <2>2. h[{}] = Nothing
    BY <1>1 DEF Loop
  <2> QED BY <1>1, <2>1, <2>2, NothingFound
<1>3. ASSUME NEW i \in Nat, i \in N PROVE i + 1 \in N
  <2> SUFFICES ASSUME i + 1 <= n PROVE Found(s, i + 1, h[1..(i + 1)])
    OBVIOUS
  <2>1. /\ 1..(i + 1) \in SUBSET (0..(i + 1)) /\ 1..(i + 1) # {} /\ i + 1 \in 1..(i + 1)
        /\ (1..(i + 1)) \ {i + 1} = 1..i /\ i + 1 \in Nat
        /\ 1..(i + 1) \in SUBSET (1..n) /\ i + 1 \in 1..n /\ i \in 0..(Len(s) - 1)
    <3>1. i + 1 \in Nat /\ i + 1 \in 1..(i + 1) /\ i + 1 \in 1..n /\ i \in 0..(Len(s) - 1)
      BY <1>1
    <3>2. 1..(i + 1) \in SUBSET (0..(i + 1)) /\ 1..(i + 1) \in SUBSET (1..n)
      BY <1>1
    <3>3. (1..(i + 1)) \ {i + 1} = 1..i
      OBVIOUS
    <3> QED BY <3>1, <3>2, <3>3
  <2>2. Holders!Max(1..(i + 1)) = i + 1
    <3>1. /\ Holders!Max(1..(i + 1)) \in 1..(i + 1)
          /\ \A j \in 1..(i + 1) : j <= Holders!Max(1..(i + 1))
      BY <2>1, GreatestMember
    <3>2. i + 1 <= Holders!Max(1..(i + 1))
      BY <2>1, <3>1
    <3> QED BY <3>1, <3>2
  <2>3. h[1..(i + 1)] = Holders!Enter(h[1..i], s[i + 1])
    <3>1. h[1..(i + 1)] = Holders!Enter(h[(1..(i + 1)) \ {i + 1}], p[i + 1])
      BY <1>1, <2>1, <2>2 DEF Loop
    <3> QED BY <2>1, <3>1
  <2>4. Found(s, i, h[1..i])
    BY <1>1, <1>3
  <2> QED BY <2>1, <2>3, <2>4, EnterFinds
<1>4. n \in N
  <2> HIDE DEF N
  <2> QED BY <1>1, <1>2, <1>3, NumberInduction
<1> QED BY <1>1, <1>4

LEMMA LoopExists ==
    ASSUME NEW p \in Seq(Transfer)
    PROVE  \E h : Loop(p, h)
<1>1. PICK n \in Nat : n = Len(p) /\ DOMAIN p = 1..n /\ \A i \in 1..n : p[i] \in Transfer
  BY EntriesAre
<1> DEFINE S == 1..n
           F == [x \in S \X States |-> Holders!Enter(x[2], p[x[1]])]
           q == [U \in SUBSET S |-> Holders!Max(U)]
<1>2. \A i \in S, st \in States : F[<<i, st>>] = Holders!Enter(st, p[i])
  OBVIOUS
<1>3. F \in [S \X States -> States]
  <2>1. ASSUME NEW i \in S, NEW st \in States PROVE Holders!Enter(st, p[i]) \in States
    <3>1. p[i] \in Transfer
      BY <1>1
    <3> QED BY <3>1, EnterIs
  <2>2. \A x \in S \X States : Holders!Enter(x[2], p[x[1]]) \in States
    BY <2>1
  <2> QED BY <2>2
<1>4. Takes(q, S) /\ \A U \in SUBSET S : q[U] = Holders!Max(U)
  <2>1. ASSUME NEW U \in SUBSET S, U # {} PROVE Holders!Max(U) \in U
    <3>1. U \in SUBSET (0..n)
      OBVIOUS
    <3> QED BY <2>1, <3>1, GreatestMember
  <2> QED BY <2>1 DEF Takes
<1>5. Nothing \in States
  BY DEF Nothing, States
<1>6. IsFiniteSet(S)
  BY FS_Interval
<1> HIDE DEF S, F, q
<1>7. FoldIn(States, F, Nothing, q, S)
  BY <1>3, <1>4, <1>5, <1>6, FoldExists
<1>8. PICK g \in [SUBSET S -> States] : Folds(F, Nothing, q, S, g)
  BY <1>7 DEF FoldIn
<1>9. ASSUME NEW U \in SUBSET S
      PROVE  g[U] = IF U = {} THEN Nothing
                    ELSE Holders!Enter(g[U \ {Holders!Max(U)}], p[Holders!Max(U)])
  <2>1. CASE U = {}
    BY <1>8, <2>1 DEF Folds, FoldOf
  <2>2. CASE U # {}
    <3>1. Holders!Max(U) \in S /\ g[U \ {Holders!Max(U)}] \in States
      BY <1>4, <1>8, <2>2 DEF Takes
    <3>2. g[U] = F[<<Holders!Max(U), g[U \ {Holders!Max(U)}]>>]
      BY <1>4, <1>8, <2>2 DEF Folds, FoldOf
    <3> QED BY <1>2, <2>2, <3>1, <3>2
  <2> QED BY <2>1, <2>2
<1>10. Loop(p, g)
  <2>1. g = [U \in SUBSET S |-> g[U]]
    BY <1>8
  <2>2. S = DOMAIN p
    BY <1>1 DEF S
  <2> QED BY <1>9, <2>1, <2>2 DEF Loop
<1> QED BY <1>10

LEMMA CessationsFound ==
    ASSUME NEW s, History(s), NEW n \in 0..Len(s), NEW p \in Seq(Transfer), Len(p) = n,
           \A i \in 1..n : p[i] = s[i]
    PROVE  Holders!CessationsIn(p) \in Seq(Ceased) /\ Tracked(s, n, Holders!CessationsIn(p))
<1>1. PICK h : h = CHOOSE g : Loop(p, g)
  OBVIOUS
<1>2. Loop(p, h)
  BY <1>1, LoopExists
<1>3. Found(s, n, h[1..n])
  BY <1>2, LoopFinds
<1>4. DOMAIN p = 1..n
  BY EntriesAre
<1>5. Holders!CessationsIn(p) = h[1..n].ceased
  BY <1>1, <1>4, LoopOfFold
<1> QED BY <1>3, <1>5 DEF Found, States

\* Departures up to a block, and those not yet past their retention.
Reached(s, head) == {d \in Departed(s) : d.block <= head}

Kept(s, head, cutoff) == {d \in Reached(s, head) : d.block >= cutoff}

InBlocks(s) == \A i, j \in 1..Len(s) : i <= j => s[i].block <= s[j].block

\* The entries up to head are the first n.
LEMMA EntriesUpto ==
    ASSUME NEW s, s = contract.transfers, History(s), InBlocks(s), NEW head \in Nat
    PROVE  \E n \in 0..Len(s) :
              /\ Holders!TransferEntries(head) = SubSeq(s, 1, n)
              /\ \A i \in 1..Len(s) : s[i].block <= head <=> i <= n
<1>1. Len(s) \in Nat /\ DOMAIN s = 1..Len(s) /\ \A i \in 1..Len(s) : s[i].block \in Nat
  BY EntriesAre, EntryIs DEF History
<1>2. PICK S \in SUBSET (0..Len(s)) : S = {0} \cup {i \in 1..Len(s) : s[i].block <= head}
  <2>1. {0} \cup {i \in 1..Len(s) : s[i].block <= head} \in SUBSET (0..Len(s))
    BY <1>1
  <2> QED BY <2>1
<1>3. PICK n \in S : n = Holders!Max(S) /\ \A i \in S : i <= n
  <2>1. S # {}
    BY <1>2
  <2> QED BY <1>1, <2>1, GreatestMember
<1>4. Holders!TransferEntries(head) = SubSeq(s, 1, n)
  BY <1>1, <1>2, <1>3, HolderSequences DEF Holders!TransferEntries
<1>5. ASSUME NEW i \in 1..Len(s) PROVE s[i].block <= head <=> i <= n
  <2>1. ASSUME s[i].block <= head PROVE i <= n
    BY <1>2, <1>3, <2>1
  <2>2. ASSUME i <= n PROVE s[i].block <= head
    <3>1. n \in 1..Len(s) /\ s[n].block <= head
      BY <1>1, <1>2, <1>3, <2>2
    <3>2. s[i].block <= s[n].block
      BY <2>2, <3>1 DEF InBlocks
    <3>3. s[i].block \in Nat /\ s[n].block \in Nat
      BY <1>1, <3>1
    <3> QED BY <3>1, <3>2, <3>3
  <2> QED BY <2>1, <2>2
<1> QED BY <1>3, <1>4, <1>5

\* c[j] is the last of its address and block.
LastOf(c, j) ==
    \A k \in 1..Len(c) : k > j => ~(c[j].address = c[k].address /\ c[j].block = c[k].block)

LEMMA LastIs ==
    ASSUME NEW s, History(s), NEW n \in 0..Len(s), NEW head,
           \A i \in 1..Len(s) : s[i].block <= head <=> i <= n,
           NEW c \in Seq(Ceased), NEW f, Tracks(s, n, c, f), NEW j \in 1..Len(c)
    PROVE  LastOf(c, j) <=> LastParted(s, f[j])
<1>1. Len(s) \in Nat /\ Len(c) \in Nat /\ n \in Nat
  BY EntriesAre DEF History
<1>2. \A k \in 1..Len(c) : /\ f[k] \in 1..n /\ f[k] \in 1..Len(s) /\ Parted(s, f[k])
                           /\ c[k].address = s[f[k]].from /\ c[k].block = s[f[k]].block
  <2> TAKE k \in 1..Len(c)
  <2>1. f[k] \in 1..n /\ Parted(s, f[k]) /\ c[k] = Cessation(s, f[k])
    BY DEF Tracks
  <2> QED BY <1>1, <2>1 DEF Cessation
<1>3. ASSUME LastParted(s, f[j]) PROVE LastOf(c, j)
  <2> SUFFICES ASSUME NEW k \in 1..Len(c), k > j,
                      c[j].address = c[k].address, c[j].block = c[k].block
               PROVE  FALSE
    BY DEF LastOf
  <2>1. f[j] < f[k]
    BY <1>1 DEF Tracks
  <2>2. f[k] \in (f[j] + 1)..Len(s)
    BY <1>1, <1>2, <2>1
  <2> QED BY <1>2, <1>3, <2>2 DEF LastParted
<1>4. ASSUME LastOf(c, j) PROVE LastParted(s, f[j])
  <2> SUFFICES ASSUME NEW k \in (f[j] + 1)..Len(s), Parted(s, k),
                      s[k].from = s[f[j]].from, s[k].block = s[f[j]].block
               PROVE  FALSE
    BY <1>2 DEF LastParted
  <2>1. k \in 1..Len(s) /\ k > f[j] /\ k \in Nat /\ f[j] \in Nat
    BY <1>1, <1>2
  <2>2. s[f[j]].block <= head
    BY <1>1, <1>2
  <2>3. k \in 1..n
    BY <1>1, <2>1, <2>2
  <2>4. PICK l \in 1..Len(c) : f[l] = k
    BY <2>3 DEF Tracks
  <2>5. l > j
    <3>1. CASE l = j
      BY <2>1, <2>4, <3>1
    <3>2. CASE l < j
      <4>1. f[l] < f[j]
        BY <3>2 DEF Tracks
      <4> QED BY <2>1, <2>4, <4>1
    <3> QED BY <1>1, <3>1, <3>2
  <2> QED BY <1>2, <1>4, <2>4, <2>5 DEF LastOf
<1> QED BY <1>3, <1>4

LEMMA RetainedIs ==
    ASSUME NEW s, s = contract.transfers, History(s), InBlocks(s), NEW head \in Nat
    PROVE  Holders!Retained(head) = Kept(s, head, Holders!Cutoff)
<1>1. PICK n \in 0..Len(s) :
         /\ Holders!TransferEntries(head) = SubSeq(s, 1, n)
         /\ \A i \in 1..Len(s) : s[i].block <= head <=> i <= n
  BY EntriesUpto
<1>2. PICK p \in Seq(Transfer) : p = SubSeq(s, 1, n) /\ Len(p) = n /\ \A i \in 1..n : p[i] = s[i]
  <2>1. s \in Seq(Transfer)
    BY DEF History
  <2>2. /\ SubSeq(s, 1, n) \in Seq(Transfer) /\ Len(SubSeq(s, 1, n)) = n
        /\ \A i \in 1..n : SubSeq(s, 1, n)[i] = s[i]
    BY <2>1, PrefixIs
  <2> QED BY <2>2
<1>3. PICK c \in Seq(Ceased) : c = Holders!CessationsIn(p) /\ Tracked(s, n, c)
  BY <1>2, CessationsFound
<1>4. PICK f : Tracks(s, n, c, f)
  BY <1>3 DEF Tracked
<1>5. DOMAIN c = 1..Len(c) /\ Len(c) \in Nat /\ Len(s) \in Nat /\ n \in Nat
  BY EntriesAre DEF History
<1>6. Holders!Retained(head)
         = {c[j] : j \in {k \in 1..Len(c) : c[k].block >= Holders!Cutoff /\ LastOf(c, k)}}
  <2>1. Holders!CessationsIn(Holders!TransferEntries(head)) = c
    BY <1>1, <1>2, <1>3
  <2>2. Holders!Retained(head)
           = {c[j] : j \in {k \in DOMAIN c :
                /\ c[k].block >= Holders!Cutoff
                /\ \A l \in DOMAIN c :
                      l > k => ~(c[k].address = c[l].address /\ c[k].block = c[l].block)}}
    BY <2>1 DEF Holders!Retained
  <2>3. {k \in DOMAIN c :
           /\ c[k].block >= Holders!Cutoff
           /\ \A l \in DOMAIN c :
                 l > k => ~(c[k].address = c[l].address /\ c[k].block = c[l].block)}
           = {k \in 1..Len(c) : c[k].block >= Holders!Cutoff /\ LastOf(c, k)}
    BY <1>5 DEF LastOf
  <2> QED BY <2>2, <2>3
<1>7. \A j \in 1..Len(c) : /\ f[j] \in 1..Len(s) /\ f[j] <= n /\ Parted(s, f[j])
                           /\ c[j] = Cessation(s, f[j]) /\ c[j].block = s[f[j]].block
                           /\ LastOf(c, j) <=> LastParted(s, f[j])
  <2> TAKE j \in 1..Len(c)
  <2>1. f[j] \in 1..n /\ Parted(s, f[j]) /\ c[j] = Cessation(s, f[j])
    BY <1>4 DEF Tracks
  <2>2. LastOf(c, j) <=> LastParted(s, f[j])
    BY <1>1, <1>4, LastIs
  <2>3. c[j].block = s[f[j]].block
    BY <2>1 DEF Cessation
  <2> QED BY <1>5, <2>1, <2>2, <2>3
<1>8. ASSUME NEW d \in Holders!Retained(head) PROVE d \in Kept(s, head, Holders!Cutoff)
  <2>1. PICK j \in 1..Len(c) : d = c[j] /\ c[j].block >= Holders!Cutoff /\ LastOf(c, j)
    BY <1>6
  <2>2. d \in Departed(s)
    BY <1>7, <2>1 DEF Departed
  <2>3. d.block <= head
    BY <1>1, <1>7, <2>1
  <2> QED BY <2>1, <2>2, <2>3 DEF Kept, Reached
<1>9. ASSUME NEW d \in Kept(s, head, Holders!Cutoff) PROVE d \in Holders!Retained(head)
  <2>1. d \in Departed(s) /\ d.block <= head /\ d.block >= Holders!Cutoff
    BY DEF Kept, Reached
  <2>2. PICK i \in 1..Len(s) : LastParted(s, i) /\ d = Cessation(s, i)
    BY <2>1 DEF Departed
  <2>3. i <= n
    BY <1>1, <2>1, <2>2 DEF Cessation
  <2>4. PICK j \in 1..Len(c) : f[j] = i
    BY <1>4, <1>5, <2>2, <2>3 DEF Tracks, LastParted
  <2>5. c[j] = d /\ LastOf(c, j)
    BY <1>7, <2>2, <2>4
  <2> QED BY <1>6, <2>1, <2>5
<1> QED BY <1>8, <1>9

FoldRun == [pc : {"idle", "read", "write"}, head : Holders!Heads, missing : SUBSET Holders!FormerHolder]

HistoryNow ==
    /\ contract \in [transfers : Seq(Transfer), today : 0..MaxDay]
    /\ History(contract.transfers) /\ InBlocks(contract.transfers)
    /\ \A i \in 1..Len(contract.transfers) : contract.transfers[i].block <= contract.today

ArchiveTyped ==
    /\ row \in [rows : SUBSET Holders!FormerHolder, block : Holders!Heads \cup {-1},
                purged : -Retention..MaxDay]
    /\ worker \in [Workers -> FoldRun]

\* What Holders!ArchiveIsTrue says, of an archive a and a history s.
ArchiveNow(a, s, cutoff) ==
    /\ a.rows \subseteq Reached(s, a.block)
    /\ Kept(s, a.block, cutoff) \subseteq a.rows
    /\ \A r \in a.rows : r.block >= a.purged

\* A fold about to write has what it read of the history or the archive has it.
FoldSound(v, s, cutoff, rows, today) ==
    /\ v.pc # "idle" => v.head < today
    /\ v.pc = "write" =>
          /\ v.missing \subseteq Reached(s, v.head)
          /\ Kept(s, v.head, cutoff) \subseteq v.missing \cup rows

HoldersInv ==
    /\ HistoryNow
    /\ ArchiveTyped
    /\ row.block < contract.today
    /\ row.purged <= contract.today - Retention
    /\ ArchiveNow(row, contract.transfers, contract.today - Retention)
    /\ \A w \in Workers :
          FoldSound(worker[w], contract.transfers, contract.today - Retention, row.rows,
                    contract.today)

LEMMA HeadsAre ==
    /\ \A n \in Holders!Heads : n \in Nat /\ n \in Int
    /\ \A n \in Holders!Heads \cup {-1} : n \in Int
    /\ \A n \in -Retention..MaxDay : n \in Int
    /\ Holders!Cutoff = contract.today - Retention
BY HolderConstants DEF Holders!Heads, Holders!Cutoff

LEMMA HoldersInvIsEnough ==
    ASSUME HoldersInv
    PROVE  Holders!TypeOK /\ Holders!ArchiveIsTrue
<1>1. contract.transfers \in Seq(Transfer)
  BY DEF HoldersInv, HistoryNow
<1>2. Holders!Departures = Departed(contract.transfers)
  BY <1>1, HoldersHistory
<1>3. Holders!TypeOK
  BY DEF HoldersInv, ArchiveTyped, FoldRun, Holders!TypeOK
<1>4. Holders!ArchiveIsTrue
  BY <1>2, HeadsAre DEF HoldersInv, ArchiveNow, Reached, Kept, Holders!ArchiveIsTrue
<1> QED BY <1>3, <1>4

LEMMA HoldersTypes ==
    ASSUME HoldersInv
    PROVE  /\ row.block \in Int /\ row.purged \in Int /\ row.rows \in SUBSET Holders!FormerHolder
           /\ contract.today \in 0..MaxDay /\ contract.today \in Nat
           /\ contract.today - Retention \in Int
           /\ contract.transfers \in Seq(Transfer)
           /\ \A w \in Workers : worker[w] \in FoldRun /\ worker[w].head \in Nat
           /\ \A d \in Departed(contract.transfers) : d.block \in Nat
<1>1. contract.today \in 0..MaxDay /\ contract.transfers \in Seq(Transfer)
  BY DEF HoldersInv, HistoryNow
<1>2. contract.today \in Nat /\ contract.today - Retention \in Int
  BY <1>1, HolderConstants
<1>3. row.block \in Int /\ row.purged \in Int /\ row.rows \in SUBSET Holders!FormerHolder
  BY HeadsAre DEF HoldersInv, ArchiveTyped
<1>4. \A w \in Workers : worker[w] \in FoldRun /\ worker[w].head \in Nat
  BY HeadsAre DEF HoldersInv, ArchiveTyped, FoldRun
<1>5. \A d \in Departed(contract.transfers) : d.block \in Nat
  BY <1>1, DepartedAre
<1> QED BY <1>1, <1>2, <1>3, <1>4, <1>5

LEMMA HoldersBegin ==
    ASSUME Holders!Init
    PROVE  HoldersInv
<1>1. PICK m \in Members :
         contract = [transfers |-> <<[from |-> None, to |-> m, value |-> 1, block |-> 0]>>, today |-> 0]
  BY DEF Holders!Init
<1> DEFINE e == [from |-> None, to |-> m, value |-> 1, block |-> 0]
<1>2. e \in Transfer /\ e.from = None /\ e.block = 0
  BY HolderConstants DEF Transfer
<1>3. PICK s \in Seq(Transfer) : s = <<>> /\ Len(s) = 0
  <2>1. <<>> \in Seq(Transfer) /\ Len(<<>>) = 0
    OBVIOUS
  <2> HIDE DEF e
  <2> QED BY <2>1
<1>4. History(s)
  <2>1. \A i \in 0..Len(s) : i = 0 /\ i \in 0..Len(s)
    BY <1>3
  <2>2. \A k \in Members : Held(s, k, 0) = 0
    <3>1. 0 \in 0..Len(s)
      BY <1>3
    <3> QED BY <3>1, HeldIs
  <2> QED BY <2>1, <2>2 DEF History
<1>5. PICK t : t = contract.transfers
  OBVIOUS
<1>6. t = Append(s, e)
  <2>1. contract.transfers = <<e>>
    BY <1>1
  <2>2. <<e>> = Append(<<>>, e)
    OBVIOUS
  <2> HIDE DEF e
  <2> QED BY <1>3, <1>5, <2>1, <2>2
<1> HIDE DEF e
<1>7. History(t) /\ Len(t) = Len(s) + 1 /\ t[Len(s) + 1] = e
  <2>1. Covers(s, e)
    BY <1>2 DEF Covers
  <2> QED BY <1>2, <1>4, <1>6, <2>1, HistoryGrows
<1>8. Len(t) = 1 /\ t[1] = e
  BY <1>3, <1>7
<1>9. HistoryNow
  <2>1. contract \in [transfers : Seq(Transfer), today : 0..MaxDay] /\ contract.today = 0
    BY <1>1, <1>5, <1>7, HolderConstants DEF History
  <2>2. \A i \in 1..Len(t) : t[i] = e
    BY <1>8
  <2>3. InBlocks(t)
    BY <1>2, <2>2 DEF InBlocks
  <2> QED BY <1>2, <1>5, <1>7, <2>1, <2>2, <2>3 DEF HistoryNow
<1>10. /\ row = [rows |-> {}, block |-> -1, purged |-> -Retention] /\ contract.today = 0
       /\ worker = [w \in Workers |-> Holders!Idle]
  BY <1>1 DEF Holders!Init
<1>11. ArchiveTyped
  <2>1. -Retention \in -Retention..MaxDay
    BY HolderConstants
  <2>2. row \in [rows : SUBSET Holders!FormerHolder, block : Holders!Heads \cup {-1},
                  purged : -Retention..MaxDay]
    BY <1>10, <2>1
  <2>3. Holders!Idle \in FoldRun
    BY HolderConstants DEF FoldRun, Holders!Idle, Holders!Heads
  <2> QED BY <1>10, <2>2, <2>3 DEF ArchiveTyped
<1>12. Reached(t, -1) = {}
  BY <1>7, DepartedAre DEF Reached, History
<1>13. ArchiveNow(row, t, contract.today - Retention)
  BY <1>10, <1>12 DEF ArchiveNow, Kept
<1>14. row.block < contract.today /\ row.purged <= contract.today - Retention
  BY <1>10, HolderConstants
<1>15. \A w \in Workers : worker[w].pc = "idle"
  BY <1>10 DEF Holders!Idle
<1> QED BY <1>5, <1>9, <1>11, <1>13, <1>14, <1>15 DEF HoldersInv, FoldSound

LEMMA FoldGoes ==
    ASSUME HoldersInv, NEW w \in Workers, NEW v \in FoldRun,
           worker' = [worker EXCEPT ![w] = v], row' = row, contract' = contract,
           FoldSound(v, contract.transfers, contract.today - Retention, row.rows, contract.today)
    PROVE  HoldersInv'
<1>1. /\ worker' \in [Workers -> FoldRun]
      /\ \A u \in Workers : worker'[u] = IF u = w THEN v ELSE worker[u]
  BY DEF HoldersInv, ArchiveTyped
<1> QED BY <1>1 DEF HoldersInv, HistoryNow, ArchiveTyped

LEMMA BeginFoldKeeps ==
    ASSUME HoldersInv, NEW w \in Workers, NEW head \in Holders!Heads, Holders!BeginFold(w, head)
    PROVE  HoldersInv'
<1> DEFINE v == [pc |-> "read", head |-> head, missing |-> {}]
<1>1. v \in FoldRun /\ v.pc = "read" /\ v.head = head
  BY DEF FoldRun
<1>2. /\ worker' = [worker EXCEPT ![w] = v] /\ row' = row /\ contract' = contract
      /\ head < contract.today
  BY DEF Holders!BeginFold
<1> HIDE DEF v
<1>3. FoldSound(v, contract.transfers, contract.today - Retention, row.rows, contract.today)
  BY <1>1, <1>2 DEF FoldSound
<1> QED BY <1>1, <1>2, <1>3, FoldGoes

LEMMA LoseFoldKeeps ==
    ASSUME HoldersInv, NEW w \in Workers, Holders!LoseFold(w)
    PROVE  HoldersInv'
<1>1. Holders!Idle \in FoldRun /\ Holders!Idle.pc = "idle"
  BY HolderConstants DEF FoldRun, Holders!Idle, Holders!Heads
<1>2. /\ worker' = [worker EXCEPT ![w] = Holders!Idle] /\ row' = row /\ contract' = contract
  BY DEF Holders!LoseFold, Holders!Finish
<1>3. FoldSound(Holders!Idle, contract.transfers, contract.today - Retention, row.rows, contract.today)
  BY <1>1 DEF FoldSound
<1> QED BY <1>1, <1>2, <1>3, FoldGoes

\* What the archive has of an address and a block is that departure.
LEMMA RecordedIs ==
    ASSUME HoldersInv, NEW d \in Departed(contract.transfers), Holders!Recorded(d)
    PROVE  d \in row.rows
<1>1. PICK r \in row.rows : r.address = d.address /\ r.block = d.block
  BY DEF Holders!Recorded
<1>2. r \in Departed(contract.transfers) /\ contract.transfers \in Seq(Transfer)
  BY <1>1 DEF HoldersInv, ArchiveNow, Reached, HistoryNow
<1>3. r = d
  BY <1>1, <1>2, DepartedOnce
<1> QED BY <1>1, <1>3

LEMMA ReadArchiveKeeps ==
    ASSUME HoldersInv, NEW w \in Workers, Holders!ReadArchive(w)
    PROVE  HoldersInv'
<1>1. PICK missing : missing = {c \in Holders!Retained(worker[w].head) : ~Holders!Recorded(c)}
  OBVIOUS
<1>2. worker[w] \in FoldRun /\ worker[w].head \in Nat /\ worker[w].head < contract.today
      /\ row' = row /\ contract' = contract
  <2>1. worker[w].pc = "read" /\ row' = row /\ contract' = contract
    BY DEF Holders!ReadArchive
  <2> QED BY <2>1, HoldersTypes DEF HoldersInv, FoldSound
<1> DEFINE v == [worker[w] EXCEPT !.pc = "write", !.missing = missing]
<1>3. worker' = [worker EXCEPT ![w] = v]
  BY <1>1 DEF Holders!ReadArchive
<1>4. PICK s : s = contract.transfers
  OBVIOUS
<1>5. missing = {c \in Kept(s, worker[w].head, contract.today - Retention) : ~Holders!Recorded(c)}
  <2>1. History(s) /\ InBlocks(s)
    BY <1>4 DEF HoldersInv, HistoryNow
  <2>2. Holders!Retained(worker[w].head) = Kept(s, worker[w].head, Holders!Cutoff)
    BY <1>2, <1>4, <2>1, RetainedIs
  <2> QED BY <1>1, <2>2, HeadsAre
<1>6. missing \in SUBSET Holders!FormerHolder
  BY <1>4, <1>5, HoldersTypes, DepartedAre DEF Kept, Reached
<1>7. v \in FoldRun /\ v.pc = "write" /\ v.head = worker[w].head /\ v.missing = missing
  BY <1>2, <1>6 DEF FoldRun
<1> HIDE DEF v
<1>8. Kept(s, v.head, contract.today - Retention) \subseteq missing \cup row.rows
  <2> SUFFICES ASSUME NEW d \in Kept(s, v.head, contract.today - Retention), d \notin missing
               PROVE  d \in row.rows
    OBVIOUS
  <2>1. Holders!Recorded(d) /\ d \in Departed(contract.transfers)
    BY <1>4, <1>5, <1>7 DEF Kept, Reached
  <2> QED BY <2>1, RecordedIs
<1>9. missing \subseteq Reached(s, v.head)
  BY <1>5, <1>7 DEF Kept
<1>10. FoldSound(v, s, contract.today - Retention, row.rows, contract.today)
  BY <1>2, <1>7, <1>8, <1>9 DEF FoldSound
<1> QED BY <1>2, <1>3, <1>4, <1>7, <1>10, FoldGoes

LEMMA WriteArchiveKeeps ==
    ASSUME HoldersInv, NEW w \in Workers, Holders!WriteArchive(w)
    PROVE  HoldersInv'
<1>1. Holders!Idle \in FoldRun /\ Holders!Idle.pc = "idle"
  BY HolderConstants DEF FoldRun, Holders!Idle, Holders!Heads
<1>2. /\ worker' = [worker EXCEPT ![w] = Holders!Idle] /\ contract' = contract
      /\ worker[w].pc = "write"
  BY DEF Holders!WriteArchive, Holders!Finish
<1>3. CASE Holders!Overtaken(w)
  <2>1. row' = row
    BY <1>3 DEF Holders!WriteArchive
  <2>2. FoldSound(Holders!Idle, contract.transfers, contract.today - Retention, row.rows, contract.today)
    BY <1>1 DEF FoldSound
  <2> QED BY <1>1, <1>2, <2>1, <2>2, FoldGoes
<1>4. CASE ~Holders!Overtaken(w)
  <2>1. PICK s, cutoff, head :
           s = contract.transfers /\ cutoff = contract.today - Retention /\ head = worker[w].head
    OBVIOUS
  <2>2. PICK rows : rows = row.rows \cup
                      {c \in worker[w].missing : Holders!Still(c) /\ ~Holders!Recorded(c)}
    OBVIOUS
  <2> DEFINE a == [row EXCEPT !.rows = rows, !.block = head]
  <2>3. row' = a
    BY <1>4, <2>1, <2>2 DEF Holders!WriteArchive
  <2>4. /\ worker[w] \in FoldRun /\ head \in Nat /\ head < contract.today
        /\ worker[w].missing \subseteq Reached(s, head)
        /\ Kept(s, head, cutoff) \subseteq worker[w].missing \cup row.rows
        /\ row.block <= head /\ row.block \in Int
        /\ cutoff \in Int /\ row.purged \in Int /\ row.purged <= cutoff
        /\ head \in Holders!Heads
    <3>1. worker[w] \in FoldRun /\ head \in Nat /\ cutoff \in Int /\ row.purged \in Int /\ row.block \in Int
      BY <2>1, HoldersTypes
    <3>2. head < contract.today /\ row.purged <= cutoff
          /\ worker[w].missing \subseteq Reached(s, head)
          /\ Kept(s, head, cutoff) \subseteq worker[w].missing \cup row.rows
      BY <1>2, <2>1 DEF HoldersInv, FoldSound
    <3>3. row.block <= head
      BY <1>4, <2>1, <3>1 DEF Holders!Overtaken
    <3>4. head \in Holders!Heads
      BY <2>1, <3>1 DEF FoldRun
    <3> QED BY <3>1, <3>2, <3>3, <3>4
  <2>5. rows \in SUBSET Holders!FormerHolder
    BY <2>2, <2>4, HoldersTypes DEF FoldRun
  <2>6. /\ a \in [rows : SUBSET Holders!FormerHolder, block : Holders!Heads \cup {-1},
                  purged : -Retention..MaxDay]
        /\ a.rows = rows /\ a.block = head /\ a.purged = row.purged
    BY <2>4, <2>5 DEF HoldersInv, ArchiveTyped
  <2> HIDE DEF a
  <2>7. \A d \in Departed(s) : d.block \in Nat
    BY <2>1, HoldersTypes
  <2>8. \A c : Holders!Still(c) <=> c.block >= cutoff
    BY <2>1, HeadsAre DEF Holders!Still
  <2>9. rows \subseteq Reached(s, head)
    <3>1. ASSUME NEW r \in row.rows PROVE r \in Reached(s, head)
      <4>1. r \in Departed(s) /\ r.block <= row.block
        BY <2>1 DEF HoldersInv, ArchiveNow, Reached
      <4>2. r.block \in Nat
        BY <2>7, <4>1
      <4>3. r.block <= head
        BY <2>4, <4>1, <4>2
      <4> QED BY <4>1, <4>3 DEF Reached
    <3> QED BY <2>2, <2>4, <3>1
  <2>10. Kept(s, head, cutoff) \subseteq rows
    <3> SUFFICES ASSUME NEW d \in Kept(s, head, cutoff), d \notin row.rows PROVE d \in rows
      BY <2>2
    <3>1. d \in worker[w].missing /\ Holders!Still(d) /\ d \in Departed(contract.transfers)
      BY <2>1, <2>4, <2>8 DEF Kept, Reached
    <3>2. ~Holders!Recorded(d)
      BY <3>1, RecordedIs
    <3> QED BY <2>2, <3>1, <3>2
  <2>11. \A r \in rows : r.block >= row.purged
    <3>1. \A r \in row.rows : r.block >= row.purged
      BY DEF HoldersInv, ArchiveNow
    <3>2. ASSUME NEW r \in worker[w].missing, Holders!Still(r) PROVE r.block >= row.purged
      <4>1. r.block \in Nat /\ r.block >= cutoff
        BY <2>4, <2>7, <2>8, <3>2 DEF Reached
      <4> QED BY <2>4, <4>1
    <3> QED BY <2>2, <3>1, <3>2
  <2>12. ArchiveNow(a, s, cutoff)
    BY <2>6, <2>9, <2>10, <2>11 DEF ArchiveNow
  <2>13. /\ worker' \in [Workers -> FoldRun]
         /\ \A u \in Workers : worker'[u] = IF u = w THEN Holders!Idle ELSE worker[u]
    BY <1>1, <1>2 DEF HoldersInv, ArchiveTyped
  <2>14. \A u \in Workers : FoldSound(worker'[u], s, cutoff, rows, contract.today)
    <3> TAKE u \in Workers
    <3>1. CASE u = w
      BY <1>1, <2>13, <3>1 DEF FoldSound
    <3>2. CASE u # w
      <4>1. FoldSound(worker[u], s, cutoff, row.rows, contract.today)
        BY <2>1 DEF HoldersInv
      <4> QED BY <2>2, <2>13, <3>2, <4>1 DEF FoldSound
    <3> QED BY <3>1, <3>2
  <2>15. HistoryNow'
    BY <1>2 DEF HoldersInv, HistoryNow
  <2>16. ArchiveTyped'
    BY <2>3, <2>6, <2>13 DEF ArchiveTyped
  <2> QED BY <1>2, <2>1, <2>3, <2>4, <2>6, <2>12, <2>14, <2>15, <2>16 DEF HoldersInv
<1> QED BY <1>3, <1>4

LEMMA PurgeKeeps ==
    ASSUME HoldersInv, Holders!Purge
    PROVE  HoldersInv'
<1>1. PICK s, cutoff : s = contract.transfers /\ cutoff = contract.today - Retention
  OBVIOUS
<1>2. PICK rows : rows = {r \in row.rows : r.block >= cutoff}
  OBVIOUS
<1>3. PICK purged : purged = IF row.purged > cutoff THEN row.purged ELSE cutoff
  OBVIOUS
<1> DEFINE a == [row EXCEPT !.rows = rows, !.purged = purged]
<1>4. row' = a /\ worker' = worker /\ contract' = contract
  BY <1>1, <1>2, <1>3, HeadsAre DEF Holders!Purge
<1>5. /\ cutoff \in Int /\ row.purged <= cutoff /\ row.purged \in Int /\ purged = cutoff
      /\ cutoff \in -Retention..MaxDay
  <2>1. cutoff \in Int /\ row.purged \in Int /\ row.purged <= cutoff /\ contract.today \in 0..MaxDay
    BY <1>1, HoldersTypes DEF HoldersInv
  <2>2. cutoff \in -Retention..MaxDay
    BY <1>1, <2>1, HolderConstants
  <2> QED BY <1>3, <2>1, <2>2
<1>6. /\ a \in [rows : SUBSET Holders!FormerHolder, block : Holders!Heads \cup {-1},
                purged : -Retention..MaxDay]
      /\ a.rows = rows /\ a.block = row.block /\ a.purged = cutoff
  <2>1. rows \in SUBSET Holders!FormerHolder
    BY <1>2, HoldersTypes
  <2> QED BY <1>5, <2>1 DEF HoldersInv, ArchiveTyped
<1> HIDE DEF a
<1>7. ArchiveNow(a, s, cutoff)
  BY <1>1, <1>2, <1>6 DEF HoldersInv, ArchiveNow, Kept
<1>8. \A u \in Workers : FoldSound(worker[u], s, cutoff, rows, contract.today)
  <2> TAKE u \in Workers
  <2>1. FoldSound(worker[u], s, cutoff, row.rows, contract.today)
    BY <1>1 DEF HoldersInv
  <2> QED BY <1>2, <2>1 DEF FoldSound, Kept
<1>9. HistoryNow' /\ ArchiveTyped'
  BY <1>4, <1>6 DEF HoldersInv, HistoryNow, ArchiveTyped
<1> QED BY <1>1, <1>4, <1>5, <1>6, <1>7, <1>8, <1>9 DEF HoldersInv

\* The history goes no further than block b.
Upto(s, b) == \A i \in 1..Len(s) : s[i].block <= b

\* Two histories have the same departures before block n.
SameBefore(t, s, n) ==
    \A b \in Int : b < n => Reached(t, b) = Reached(s, b) /\ \A c : Kept(t, b, c) = Kept(s, b, c)

LEMMA ReachedBefore ==
    ASSUME NEW s, History(s), NEW e \in Transfer, Covers(s, e), NEW t, t = Append(s, e),
           Upto(s, e.block)
    PROVE  SameBefore(t, s, e.block)
<1> SUFFICES ASSUME NEW b \in Int, b < e.block
             PROVE  Reached(t, b) = Reached(s, b) /\ \A c : Kept(t, b, c) = Kept(s, b, c)
  BY DEF SameBefore
<1>1. t \in Seq(Transfer) /\ s \in Seq(Transfer)
  BY AppendIs DEF History
<1>2. \A d : d.block < e.block => (d \in Departed(t) <=> d \in Departed(s))
  BY DepartedBefore DEF Upto
<1>3. \A d \in Departed(t) \cup Departed(s) : d.block \in Nat
  BY <1>1, DepartedAre
<1>4. e.block \in Nat
  BY EntryIs
<1>5. \A d \in Departed(t) \cup Departed(s) : d.block <= b => d.block < e.block
  BY <1>3, <1>4
<1>6. Reached(t, b) = Reached(s, b)
  BY <1>2, <1>5 DEF Reached
<1> QED BY <1>6 DEF Kept

LEMMA InBlocksGrows ==
    ASSUME NEW s \in Seq(Transfer), InBlocks(s), NEW e \in Transfer, NEW t, t = Append(s, e),
           \A i \in 1..Len(s) : s[i].block <= e.block
    PROVE  InBlocks(t) /\ \A i \in 1..Len(t) : t[i].block <= e.block
<1>1. /\ Len(t) = Len(s) + 1 /\ t[Len(s) + 1] = e /\ Len(s) \in Nat
      /\ \A i \in 1..Len(s) : t[i] = s[i]
  BY AppendIs
<1>2. \A i \in 1..Len(t) : i \in 1..Len(s) \/ i = Len(s) + 1
  BY <1>1
<1>3. e.block \in Nat
  BY EntryIs
<1>4. \A i \in 1..Len(t) : t[i].block <= e.block
  BY <1>1, <1>2, <1>3
<1>5. ASSUME NEW i \in 1..Len(t), NEW j \in 1..Len(t), i <= j
      PROVE  t[i].block <= t[j].block
  <2>1. CASE j = Len(s) + 1
    BY <1>1, <1>4, <2>1
  <2>2. CASE j \in 1..Len(s)
    <3>1. i \in 1..Len(s)
      BY <1>1, <1>5, <2>2
    <3> QED BY <1>1, <1>5, <2>2, <3>1 DEF InBlocks
  <2> QED BY <1>2, <2>1, <2>2
<1> QED BY <1>4, <1>5 DEF InBlocks

\* A fold reads no block of today, so what it and the archive say stays.
LEMMA SendKeeps ==
    ASSUME HoldersInv, NEW from \in Members \cup {None}, NEW to \in Members, NEW value \in 1..MaxValue,
           Holders!Send(from, to, value)
    PROVE  HoldersInv'
<1>1. PICK s, today, cutoff : s = contract.transfers /\ today = contract.today
                              /\ cutoff = contract.today - Retention
  OBVIOUS
<1> DEFINE e == [from |-> from, to |-> to, value |-> value, block |-> today]
<1>2. PICK t : t = Append(s, e)
  OBVIOUS
<1>3. /\ s \in Seq(Transfer) /\ today \in 0..MaxDay /\ today \in Nat /\ cutoff \in Int
      /\ History(s) /\ InBlocks(s) /\ \A i \in 1..Len(s) : s[i].block <= today
  BY <1>1, HoldersTypes DEF HoldersInv, HistoryNow
<1>4. e \in Transfer /\ e.block = today /\ e.from = from /\ e.value = value
  BY <1>3 DEF Transfer
<1>5. Holders!Len(s) = Len(s) /\ Holders!Append(s, e) = Append(s, e)
  BY HolderSequences
<1> HIDE DEF e
<1>6. row' = row /\ worker' = worker /\ contract' = [contract EXCEPT !.transfers = t]
  BY <1>1, <1>2, <1>5 DEF Holders!Send, e
<1>7. Covers(s, e)
  <2>1. Len(s) \in 0..Len(s)
    BY <1>3, EntriesAre
  <2>2. Holders!BalanceAt(from, Len(s)) = Held(s, from, Len(s))
    BY <1>1, <1>3, <2>1, HoldersHistory
  <2>3. from # None => Holders!BalanceAt(from, Len(s)) >= value
    BY <1>1, <1>5 DEF Holders!Send
  <2> QED BY <1>4, <2>2, <2>3 DEF Covers
<1>8. History(t)
  BY <1>2, <1>3, <1>4, <1>7, HistoryGrows
<1>9. InBlocks(t) /\ \A i \in 1..Len(t) : t[i].block <= today
  BY <1>2, <1>3, <1>4, InBlocksGrows
<1>10. \A b \in Int : b < today =>
          Reached(t, b) = Reached(s, b) /\ \A c : Kept(t, b, c) = Kept(s, b, c)
  <2>1. Upto(s, e.block)
    BY <1>3, <1>4 DEF Upto
  <2>2. SameBefore(t, s, e.block)
    BY <1>2, <1>3, <1>4, <1>7, <2>1, ReachedBefore
  <2> QED BY <1>4, <2>2 DEF SameBefore
<1>11. contract' \in [transfers : Seq(Transfer), today : 0..MaxDay]
       /\ contract'.transfers = t /\ contract'.today = today
  BY <1>1, <1>6, <1>8 DEF HoldersInv, HistoryNow, History
<1>12. HistoryNow'
  BY <1>8, <1>9, <1>11 DEF HistoryNow
<1>13. row.block \in Int /\ row.block < today /\ ArchiveNow(row, s, cutoff)
       /\ row.purged <= cutoff
  BY <1>1, HoldersTypes DEF HoldersInv
<1>14. ArchiveNow(row, t, cutoff)
  BY <1>10, <1>13 DEF ArchiveNow
<1>15. ASSUME NEW w \in Workers PROVE FoldSound(worker[w], t, cutoff, row.rows, today)
  <2>1. FoldSound(worker[w], s, cutoff, row.rows, today)
    BY <1>1 DEF HoldersInv
  <2>2. worker[w].head \in Int
    BY HoldersTypes
  <2> QED BY <1>10, <2>1, <2>2 DEF FoldSound
<1>16. ArchiveTyped'
  BY <1>6 DEF HoldersInv, ArchiveTyped
<1> QED BY <1>1, <1>6, <1>11, <1>12, <1>13, <1>14, <1>15, <1>16 DEF HoldersInv

\* A day later no more is to be kept than before.
LEMMA DayPassesKeeps ==
    ASSUME HoldersInv, Holders!DayPasses
    PROVE  HoldersInv'
<1>1. PICK s, today, cutoff : s = contract.transfers /\ today = contract.today
                              /\ cutoff = contract.today - Retention
  OBVIOUS
<1>2. /\ s \in Seq(Transfer) /\ today \in 0..MaxDay /\ today \in Nat /\ cutoff \in Int
      /\ \A i \in 1..Len(s) : s[i].block <= today
      /\ row.block \in Int /\ row.purged \in Int /\ row.block < today /\ row.purged <= cutoff
      /\ \A d \in Departed(s) : d.block \in Nat
  BY <1>1, HoldersTypes DEF HoldersInv, HistoryNow
<1>3. today < MaxDay /\ row' = row /\ worker' = worker
      /\ contract' = [contract EXCEPT !.today = today + 1]
  BY <1>1 DEF Holders!DayPasses
<1>4. today + 1 \in 0..MaxDay /\ today + 1 - Retention = cutoff + 1
  <2>1. today + 1 \in 0..MaxDay
    BY <1>2, <1>3, HolderConstants
  <2>2. \A i, j \in Int : i + 1 - j = (i - j) + 1
    OBVIOUS
  <2>3. today \in Int /\ Retention \in Int /\ cutoff = today - Retention
    BY <1>1, <1>2, HolderConstants
  <2> QED BY <2>1, <2>2, <2>3
<1>5. contract' \in [transfers : Seq(Transfer), today : 0..MaxDay]
      /\ contract'.transfers = s /\ contract'.today = today + 1
  BY <1>1, <1>3, <1>4 DEF HoldersInv, HistoryNow
<1>6. \A i \in 1..Len(s) : s[i].block <= today + 1
  <2>1. \A i \in 1..Len(s) : s[i].block \in Nat
    BY <1>2, EntriesAre, EntryIs
  <2> QED BY <1>2, <2>1
<1>7. HistoryNow'
  BY <1>1, <1>5, <1>6 DEF HoldersInv, HistoryNow
<1>8. \A b : Kept(s, b, cutoff + 1) \subseteq Kept(s, b, cutoff)
  BY <1>2 DEF Kept, Reached
<1>9. ArchiveNow(row, s, cutoff + 1)
  BY <1>1, <1>8 DEF HoldersInv, ArchiveNow
<1>10. ASSUME NEW w \in Workers
       PROVE  FoldSound(worker[w], s, cutoff + 1, row.rows, today + 1)
  <2>1. FoldSound(worker[w], s, cutoff, row.rows, today)
    BY <1>1 DEF HoldersInv
  <2>2. worker[w].head \in Nat
    BY HoldersTypes
  <2>3. worker[w].head < today => worker[w].head < today + 1
    BY <1>2, <2>2
  <2> QED BY <1>8, <2>1, <2>3 DEF FoldSound
<1>11. row.block < today + 1 /\ row.purged <= cutoff + 1
  BY <1>2
<1>12. ArchiveTyped'
  BY <1>3 DEF HoldersInv, ArchiveTyped
<1>13. contract'.today - Retention = cutoff + 1
  <2>1. PICK n : n = contract'.today
    OBVIOUS
  <2>2. n = today + 1 /\ Retention \in Int /\ today \in Int /\ cutoff \in Int
    BY <1>2, <1>5, <2>1, HolderConstants
  <2>3. n - Retention = cutoff + 1
    BY <1>4, <2>2
  <2> QED BY <2>1, <2>3
<1> QED BY <1>3, <1>5, <1>7, <1>9, <1>10, <1>11, <1>12, <1>13 DEF HoldersInv

LEMMA HoldersStepOn ==
    ASSUME HoldersInv, Holders!Next
    PROVE  HoldersInv'
<1>1. ASSUME NEW w \in Workers, NEW head \in Holders!Heads, Holders!BeginFold(w, head)
      PROVE  HoldersInv'
  BY <1>1, BeginFoldKeeps
<1>2. ASSUME NEW w \in Workers, Holders!ReadArchive(w)
      PROVE  HoldersInv'
  BY <1>2, ReadArchiveKeeps
<1>3. ASSUME NEW w \in Workers, Holders!WriteArchive(w)
      PROVE  HoldersInv'
  BY <1>3, WriteArchiveKeeps
<1>4. ASSUME NEW w \in Workers, Holders!LoseFold(w)
      PROVE  HoldersInv'
  BY <1>4, LoseFoldKeeps
<1>5. ASSUME NEW from \in Members \cup {None}, NEW to \in Members, NEW value \in 1..MaxValue,
             Holders!Send(from, to, value)
      PROVE  HoldersInv'
  BY <1>5, SendKeeps
<1> QED BY <1>1, <1>2, <1>3, <1>4, <1>5, PurgeKeeps, DayPassesKeeps DEF Holders!Next

LEMMA HoldersStays ==
    ASSUME HoldersInv, UNCHANGED <<row, contract, worker>>
    PROVE  HoldersInv'
BY DEF HoldersInv, HistoryNow, ArchiveTyped

-----------------------------------------------------------------------------
(* All of them.                                                            *)

\* The invariant of the records a behaviour is about.
RecordInv ==
    /\ subject = "orders" => IntentsInv /\ SessionsTyped
    /\ subject = "files" => FilesInv
    /\ subject = "wallet" => WalletInv
    /\ subject = "holders" => HoldersInv

LEMMA RecordsBegin == Init => RecordInv
BY IntentsBegin, SessionsBegin, FilesBegin, WalletBegins, HoldersBegin DEF Init, RecordInv

LEMMA RecordsStep == RecordInv /\ Next => RecordInv'
<1> SUFFICES ASSUME RecordInv, Next PROVE RecordInv'
  OBVIOUS
<1>0. subject' = subject
  BY DEF Next
<1>1. CASE subject = "orders"
  <2>1. IntentsInv /\ SessionsTyped /\ Intents!Next
    BY <1>1 DEF Next, RecordInv
  <2>2. IntentsInv'
    BY <2>1, IntentsStep
  <2> QED BY <1>0, <1>1, <2>1, <2>2, SessionsStay DEF RecordInv
<1>2. CASE subject = "files"
  BY <1>0, <1>2, FilesStepOn DEF Next, RecordInv
<1>3. CASE subject = "wallet"
  BY <1>0, <1>3, WalletStepOn DEF Next, RecordInv
<1>4. CASE subject = "holders"
  BY <1>0, <1>4, HoldersStepOn DEF Next, RecordInv
<1>5. CASE subject \notin {"orders", "files", "wallet", "holders"}
  BY <1>0, <1>5 DEF RecordInv
<1> QED BY <1>1, <1>2, <1>3, <1>4, <1>5

LEMMA RecordsStay == RecordInv /\ UNCHANGED vars => RecordInv'
<1> SUFFICES ASSUME RecordInv, UNCHANGED vars PROVE RecordInv'
  OBVIOUS
<1>1. UNCHANGED <<row, target, contract, worker>> /\ subject' = subject
  BY DEF vars
<1>2. IntentsInv => IntentsInv'
  BY <1>1 DEF IntentsInv, SpentSound, OrderSound, Intents!Applied
<1>3. SessionsTyped => SessionsTyped'
  BY <1>1 DEF SessionsTyped
<1>4. FilesInv => FilesInv'
  BY <1>1, FilesStays
<1>5. WalletInv => WalletInv'
  BY <1>1, WalletStays
<1>6. HoldersInv => HoldersInv'
  BY <1>1, HoldersStays
<1> QED BY <1>1, <1>2, <1>3, <1>4, <1>5, <1>6 DEF RecordInv

\* What a run on the intents, the files, a wallet or the archive holds is sound
\* for as long as it holds it, however the runs overtake each other.
THEOREM RecordsAreSound == Spec => []RecordInv
<1>1. RecordInv /\ [Next]_vars => RecordInv'
  BY RecordsStep, RecordsStay
<1> QED BY <1>1, RecordsBegin, PTL DEF Spec
================================================================================
