------------------------- MODULE SubscriptionsProofs -------------------------
(***************************************************************************)
(* Proofs about Subscriptions, for any rows, clerks, prices and payments.  *)
(*                                                                         *)
(* The register loses money when an operation that writes without the lock *)
(* it read under meets another one (the run of scale_back shows it), so    *)
(* the theorems name the operations that have to be kept apart.            *)
(***************************************************************************)
EXTENDS Subscriptions, FiniteSetTheorems, TLAPS

-----------------------------------------------------------------------------
(* Sums over rows.  The library's induction takes a predicate, so induction *)
(* is stated here over the set of the arguments that have it.              *)

\* What Shares adds up, over any rows.
SharesOf(r, S) == MapThenSumSet(LAMBDA s : r[s].allotted, S)

\* The function MapThenFoldSet evaluates, and the equation it is chosen by.
Some(S) == CHOOSE x \in S : TRUE

SumFrom(r, g, S) == IF S = {} THEN 0 ELSE r[Some(S)].allotted + g[S \ {Some(S)}]

Sum(r, S) == CHOOSE g : g = [U \in SUBSET S |-> SumFrom(r, g, U)]

LEMMA SharesOfIs == \A r, S : SharesOf(r, S) = Sum(r, S)[S]
BY DEF SharesOf, MapThenSumSet, MapThenFoldSet, Sum, SumFrom, Some

\* Every set of naturals that has a member has a least one.
LEMMA LeastMember ==
    ASSUME NEW N \in SUBSET Nat, N # {}
    PROVE  \E n \in N : \A m \in N : n <= m
<1>1. PICK n \in N : \A m \in N : ~ (<<m, n>> \in OpToRel(<, Nat))
  BY NatLessThanWellFounded, WFMin
<1>2. \A m \in N : ~(m < n)
  BY <1>1 DEF OpToRel
<1> QED BY <1>2

\* Induction on a number, and on the subsets of a finite set, by removing one
\* element at a time.
LEMMA NumberInduction ==
    ASSUME NEW N, 0 \in N, \A n \in Nat : n \in N => n + 1 \in N
    PROVE  Nat \subseteq N
<1> SUFFICES ASSUME Nat \ N # {} PROVE FALSE
  OBVIOUS
<1>1. PICK n \in Nat \ N : \A m \in Nat \ N : n <= m
  BY LeastMember
<1>2. n - 1 \in Nat /\ n - 1 \notin Nat \ N
  BY <1>1
<1> QED BY <1>1, <1>2

LEMMA SubsetInduction ==
    ASSUME NEW S, IsFiniteSet(S), NEW F,
           \A T \in SUBSET S : (\A x \in T : T \ {x} \in F) => T \in F
    PROVE  SUBSET S \subseteq F
<1> DEFINE Bad == (SUBSET S) \ F
           N == {Cardinality(T) : T \in Bad}
<1> SUFFICES ASSUME Bad # {} PROVE FALSE
  OBVIOUS
<1>1. \A T \in SUBSET S : IsFiniteSet(T) /\ Cardinality(T) \in Nat
  BY FS_Subset, FS_CardinalityType
<1>2. N \in SUBSET Nat /\ N # {}
  BY <1>1
<1>3. PICK n \in N : \A m \in N : n <= m
  BY <1>2, LeastMember
<1>4. PICK T \in Bad : Cardinality(T) = n
  OBVIOUS
<1>5. PICK x \in T : T \ {x} \notin F
  BY <1>4
<1>6. T \ {x} \in Bad
  BY <1>4, <1>5
<1>7. Cardinality(T \ {x}) = Cardinality(T) - 1
  BY <1>1, <1>4, <1>5, FS_RemoveElement
<1>8. Cardinality(T \ {x}) >= n
  BY <1>3, <1>6
<1> QED BY <1>1, <1>4, <1>7, <1>8

\* The sum is the function its equation describes.
LEMMA SumSteps ==
    ASSUME NEW r, NEW S, IsFiniteSet(S), NEW Part \in SUBSET S
    PROVE  Sum(r, S)[Part] = SumFrom(r, Sum(r, S), Part)
<1> DEFINE Upto(n) == {T \in SUBSET S : Cardinality(T) <= n}
           Solves(g, n) == g = [T \in Upto(n) |-> SumFrom(r, g, T)]
           Solved(n) == \E g : Solves(g, n)
           N == {n \in Nat : Solved(n)}
<1>0. \A T \in SUBSET S : IsFiniteSet(T) /\ Cardinality(T) \in Nat
                           /\ Cardinality(T) <= Cardinality(S)
  BY FS_Subset, FS_CardinalityType
<1>1. 0 \in N
  <2>1. Upto(0) = {{}}
    BY <1>0, FS_EmptySet
  <2> DEFINE g == [T \in Upto(0) |-> 0]
  <2>2. Solves(g, 0)
    BY <2>1 DEF SumFrom
  <2> QED BY <2>2
<1>2. ASSUME NEW n \in Nat, n \in N
      PROVE  n + 1 \in N
  <2>1. PICK g : Solves(g, n)
    BY <1>2
  <2> DEFINE h == [T \in Upto(n + 1) |-> SumFrom(r, g, T)]
  <2>2. ASSUME NEW T \in Upto(n)
        PROVE  T \in Upto(n + 1) /\ h[T] = g[T]
    <3>1. T \in Upto(n + 1)
      BY <1>0
    <3>2. g[T] = SumFrom(r, g, T)
      BY <2>1
    <3> QED BY <3>1, <3>2
  <2>3. ASSUME NEW T \in Upto(n + 1)
        PROVE  SumFrom(r, g, T) = SumFrom(r, h, T)
    <3>1. CASE T = {}
      BY <3>1 DEF SumFrom
    <3>2. CASE T # {}
      <4>1. Some(T) \in T
        BY <3>2 DEF Some
      <4>2. T \ {Some(T)} \in Upto(n)
        BY <1>0, <4>1, FS_RemoveElement
      <4> QED BY <2>2, <3>2, <4>2 DEF SumFrom
    <3> QED BY <3>1, <3>2
  <2>4. Solves(h, n + 1)
    BY <2>3
  <2> HIDE DEF h
  <2>5. Solved(n + 1)
    BY <2>4
  <2> HIDE DEF Solved
  <2> QED BY <2>5
<1>3. Cardinality(S) \in N
  BY <1>0, <1>1, <1>2, NumberInduction
<1>4. PICK g : Solves(g, Cardinality(S))
  BY <1>3
<1>5. Upto(Cardinality(S)) = SUBSET S
  BY <1>0
<1>6. g = [U \in SUBSET S |-> SumFrom(r, g, U)]
  BY <1>4, <1>5
<1>7. Sum(r, S) = [U \in SUBSET S |-> SumFrom(r, Sum(r, S), U)]
  BY <1>6 DEF Sum
<1>8. PICK f : f = Sum(r, S)
  OBVIOUS
<1>9. f = [U \in SUBSET S |-> SumFrom(r, f, U)]
  BY <1>7, <1>8
<1>10. f[Part] = SumFrom(r, f, Part)
  BY <1>9
<1> QED BY <1>8, <1>10

\* A subset has the same sum, whichever set's function gives it.
LEMMA SumOfSubset ==
    ASSUME NEW r, NEW S, IsFiniteSet(S), NEW T \in SUBSET S
    PROVE  Sum(r, T)[T] = Sum(r, S)[T]
<1>1. IsFiniteSet(T)
  BY FS_Subset
<1> DEFINE F == {U \in SUBSET T : Sum(r, T)[U] = Sum(r, S)[U]}
<1>2. ASSUME NEW U \in SUBSET T, \A x \in U : U \ {x} \in F
      PROVE  U \in F
  <2>1. Sum(r, T)[U] = SumFrom(r, Sum(r, T), U) /\ Sum(r, S)[U] = SumFrom(r, Sum(r, S), U)
    BY <1>1, SumSteps
  <2>2. U # {} => Some(U) \in U
    BY DEF Some
  <2> QED BY <1>2, <2>1, <2>2 DEF SumFrom
<1>3. SUBSET T \subseteq F
  <2> HIDE DEF F
  <2> QED BY <1>1, <1>2, SubsetInduction
<1> QED BY <1>3

\* What a sum over rows with natural shares is: nothing for no row, and the
\* shares of any one row and of the others.
Counts(r, S) == \A s \in S : r[s].allotted \in Nat

LEMMA SharesOfNone ==
    ASSUME NEW r
    PROVE  SharesOf(r, {}) = 0
BY SharesOfIs, SumSteps, FS_EmptySet DEF SumFrom

LEMMA SharesOfSome ==
    ASSUME NEW r, NEW S, IsFiniteSet(S), S # {}
    PROVE  SharesOf(r, S) = r[Some(S)].allotted + SharesOf(r, S \ {Some(S)})
<1>1. Some(S) \in S
  BY DEF Some
<1>2. Sum(r, S)[S \ {Some(S)}] = Sum(r, S \ {Some(S)})[S \ {Some(S)}]
  BY SumOfSubset
<1>3. Sum(r, S)[S] = SumFrom(r, Sum(r, S), S)
  BY SumSteps
<1> QED BY <1>2, <1>3, SharesOfIs DEF SumFrom

LEMMA SharesOfType ==
    ASSUME NEW r, NEW S, IsFiniteSet(S), Counts(r, S)
    PROVE  SharesOf(r, S) \in Nat
<1> DEFINE F == {T \in SUBSET S : SharesOf(r, T) \in Nat}
<1>1. ASSUME NEW T \in SUBSET S, \A x \in T : T \ {x} \in F
      PROVE  T \in F
  <2>1. IsFiniteSet(T)
    BY FS_Subset
  <2>2. CASE T = {}
    BY <2>2, SharesOfNone
  <2>3. CASE T # {}
    <3>1. Some(T) \in T
      BY <2>3 DEF Some
    <3>2. SharesOf(r, T) = r[Some(T)].allotted + SharesOf(r, T \ {Some(T)})
      BY <2>1, <2>3, SharesOfSome
    <3>3. SharesOf(r, T \ {Some(T)}) \in Nat
      BY <1>1, <3>1
    <3>4. r[Some(T)].allotted \in Nat
      BY <3>1 DEF Counts
    <3> QED BY <3>2, <3>3, <3>4
  <2> QED BY <2>2, <2>3
<1>2. SUBSET S \subseteq F
  <2> HIDE DEF F
  <2> QED BY <1>1, SubsetInduction
<1> QED BY <1>2

LEMMA SharesOfOne ==
    ASSUME NEW r, NEW S, IsFiniteSet(S), Counts(r, S), NEW x \in S
    PROVE  SharesOf(r, S) = r[x].allotted + SharesOf(r, S \ {x})
<1> DEFINE F == {T \in SUBSET S : \A y \in T :
                     SharesOf(r, T) = r[y].allotted + SharesOf(r, T \ {y})}
<1>1. ASSUME NEW T \in SUBSET S, \A y \in T : T \ {y} \in F, NEW y \in T
      PROVE  SharesOf(r, T) = r[y].allotted + SharesOf(r, T \ {y})
  <2> DEFINE z == Some(T)
  <2>1. z \in T
    BY DEF Some
  <2>2. \A U \in SUBSET S : IsFiniteSet(U) /\ SharesOf(r, U) \in Nat
    <3> TAKE U \in SUBSET S
    <3>1. IsFiniteSet(U) /\ Counts(r, U)
      BY FS_Subset DEF Counts
    <3> QED BY <3>1, SharesOfType
  <2>3. SharesOf(r, T) = r[z].allotted + SharesOf(r, T \ {z})
    BY <2>1, <2>2, SharesOfSome
  <2>4. CASE y = z
    BY <2>3, <2>4
  <2>5. CASE y # z
    <3>1. SharesOf(r, T \ {z}) = r[y].allotted + SharesOf(r, (T \ {z}) \ {y})
      BY <1>1, <2>1, <2>5
    <3>2. SharesOf(r, T \ {y}) = r[z].allotted + SharesOf(r, (T \ {y}) \ {z})
      BY <1>1, <2>1, <2>5
    <3>3. (T \ {z}) \ {y} = (T \ {y}) \ {z}
      OBVIOUS
    <3>4. SharesOf(r, (T \ {y}) \ {z}) \in Nat /\ r[y].allotted \in Nat /\ r[z].allotted \in Nat
      BY <2>1, <2>2 DEF Counts
    <3> HIDE DEF z
    <3> QED BY <2>3, <3>1, <3>2, <3>3, <3>4
  <2> QED BY <2>4, <2>5
<1>2. SUBSET S \subseteq F
  <2>1. \A T \in SUBSET S : (\A y \in T : T \ {y} \in F) => T \in F
    BY <1>1
  <2> HIDE DEF F
  <2> QED BY <2>1, SubsetInduction
<1> QED BY <1>2

\* Rows that agree on a set's shares agree on its sum.
LEMMA SharesOfSame ==
    ASSUME NEW r, NEW q, NEW S, IsFiniteSet(S), \A s \in S : r[s].allotted = q[s].allotted
    PROVE  SharesOf(r, S) = SharesOf(q, S)
<1> DEFINE F == {T \in SUBSET S : SharesOf(r, T) = SharesOf(q, T)}
<1>1. ASSUME NEW T \in SUBSET S, \A x \in T : T \ {x} \in F
      PROVE  T \in F
  <2>1. IsFiniteSet(T)
    BY FS_Subset
  <2>2. CASE T = {}
    BY <2>2, SharesOfNone
  <2>3. CASE T # {}
    <3>1. Some(T) \in T
      BY <2>3 DEF Some
    <3>2. SharesOf(r, T) = r[Some(T)].allotted + SharesOf(r, T \ {Some(T)})
      BY <2>1, <2>3, SharesOfSome
    <3>3. SharesOf(q, T) = q[Some(T)].allotted + SharesOf(q, T \ {Some(T)})
      BY <2>1, <2>3, SharesOfSome
    <3>4. SharesOf(r, T \ {Some(T)}) = SharesOf(q, T \ {Some(T)})
      BY <1>1, <3>1
    <3> QED BY <3>1, <3>2, <3>3, <3>4
  <2> QED BY <2>2, <2>3
<1>2. SUBSET S \subseteq F
  <2> HIDE DEF F
  <2> QED BY <1>1, SubsetInduction
<1> QED BY <1>2

\* The shares of two sets of rows that have none in common add up.
LEMMA SharesOfBoth ==
    ASSUME NEW r, NEW S, NEW T, IsFiniteSet(S), IsFiniteSet(T), S \cap T = {},
           Counts(r, S), Counts(r, T)
    PROVE  SharesOf(r, S \cup T) = SharesOf(r, S) + SharesOf(r, T)
<1> DEFINE F == {U \in SUBSET T : SharesOf(r, S \cup U) = SharesOf(r, S) + SharesOf(r, U)}
<1>0. \A U \in SUBSET T : /\ IsFiniteSet(U) /\ Counts(r, U) /\ SharesOf(r, U) \in Nat
                          /\ IsFiniteSet(S \cup U) /\ Counts(r, S \cup U)
                          /\ SharesOf(r, S \cup U) \in Nat
  <2> TAKE U \in SUBSET T
  <2>1. IsFiniteSet(U) /\ Counts(r, U)
    BY FS_Subset DEF Counts
  <2>2. IsFiniteSet(S \cup U) /\ Counts(r, S \cup U)
    BY <2>1, FS_Union DEF Counts
  <2> QED BY <2>1, <2>2, SharesOfType
<1>1. ASSUME NEW U \in SUBSET T, \A x \in U : U \ {x} \in F
      PROVE  U \in F
  <2>2. CASE U = {}
    <3>1. SharesOf(r, S) \in Nat
      BY SharesOfType
    <3>2. S \cup U = S
      BY <2>2
    <3> QED BY <2>2, <3>1, <3>2, SharesOfNone
  <2>3. CASE U # {}
    <3>1. PICK x \in U : TRUE
      BY <2>3
    <3>0. /\ IsFiniteSet(U) /\ Counts(r, U) /\ x \in S \cup U
          /\ IsFiniteSet(S \cup U) /\ Counts(r, S \cup U)
      BY <1>0
    <3>2. SharesOf(r, U) = r[x].allotted + SharesOf(r, U \ {x})
      BY <3>0, SharesOfOne
    <3>3. SharesOf(r, S \cup U) = r[x].allotted + SharesOf(r, (S \cup U) \ {x})
      BY <3>0, SharesOfOne
    <3>4. (S \cup U) \ {x} = S \cup (U \ {x})
      OBVIOUS
    <3>5. SharesOf(r, S \cup (U \ {x})) = SharesOf(r, S) + SharesOf(r, U \ {x})
      BY <1>1
    <3>6. SharesOf(r, S) \in Nat /\ SharesOf(r, U \ {x}) \in Nat
      BY <1>0, SharesOfType
    <3>7. r[x].allotted \in Nat
      BY <3>1 DEF Counts
    <3>8. SharesOf(r, S \cup U) = SharesOf(r, S) + SharesOf(r, U)
      BY <3>2, <3>3, <3>4, <3>5, <3>6, <3>7
    <3> QED BY <3>8
  <2> QED BY <2>2, <2>3
<1>2. SUBSET T \subseteq F
  <2> HIDE DEF F
  <2> QED BY <1>1, SubsetInduction
<1> QED BY <1>2

-----------------------------------------------------------------------------
(* Numbers.                                                                *)

\* Money is what can be counted up to the largest payment.
LEMMA MoneyIs == \E most \in Nat : Money = 0..most /\ \A p \in Payments : p <= most
<1>1. PICK most \in Payments : \A p \in Payments : p <= most
  BY SubscriptionAssumption
<1>2. Payments \subseteq Nat
  BY SubscriptionAssumption
<1>3. Max(Payments) \in Payments /\ \A p \in Payments : p <= Max(Payments)
  BY <1>1, <1>2 DEF Max
<1> QED BY <1>2, <1>3 DEF Money

LEMMA Bounds ==
    /\ Quantity \in Nat /\ Quantity > 0
    /\ Price \in Nat /\ Price > 0
    /\ Cap \in Nat /\ Authorized \in Nat
    /\ IsFiniteSet(Rows)
    /\ \A p \in Payments : p \in Nat /\ p > 0 /\ p \in Money
<1>1. \A p \in Payments : p \in Nat /\ p > 0
  BY SubscriptionAssumption
<1>2. \A p \in Payments : p \in Money
  BY <1>1, MoneyIs
<1> QED BY <1>1, <1>2, SubscriptionAssumption

LEMMA MinOfTwo == \A a, b \in Int : Min({a, b}) = IF a <= b THEN a ELSE b
<1> SUFFICES ASSUME NEW a \in Int, NEW b \in Int
             PROVE  Min({a, b}) = IF a <= b THEN a ELSE b
  OBVIOUS
<1>1. \E x \in {a, b} : \A y \in {a, b} : x <= y
  OBVIOUS
<1>2. Min({a, b}) \in {a, b} /\ \A y \in {a, b} : Min({a, b}) <= y
  BY <1>1 DEF Min
<1> QED BY <1>2

LEMMA MaxOfTwo == \A a, b \in Int : Max({a, b}) = IF a >= b THEN a ELSE b
<1> SUFFICES ASSUME NEW a \in Int, NEW b \in Int
             PROVE  Max({a, b}) = IF a >= b THEN a ELSE b
  OBVIOUS
<1>1. \E x \in {a, b} : \A y \in {a, b} : x >= y
  OBVIOUS
<1>2. Max({a, b}) \in {a, b} /\ \A y \in {a, b} : Max({a, b}) >= y
  BY <1>1 DEF Max
<1> QED BY <1>2

LEMMA CostType == \A n \in Nat : Cost(n) \in Nat
BY Bounds DEF Cost

LEMMA CostGrows == \A m, n \in Nat : m <= n => Cost(m) <= Cost(n)
<1> SUFFICES ASSUME NEW m \in Nat, NEW n \in Nat, m <= n PROVE Cost(m) <= Cost(n)
  OBVIOUS
<1>1. PICK d \in Nat : n = m + d
  <2>1. n - m \in Nat /\ n = m + (n - m)
    OBVIOUS
  <2> QED BY <2>1
<1>2. n * Price = m * Price + d * Price /\ d * Price >= 0 /\ m * Price \in Nat
  BY <1>1, Bounds
<1> QED BY <1>2, Bounds DEF Cost

\* A part payment accepted as final buys whole shares that it pays for.
LEMMA ScaledIsPaid ==
    ASSUME NEW received \in Nat
    PROVE  /\ Scaled(received) \in 0..Quantity
           /\ Cost(Scaled(received)) <= received
<1> DEFINE q == received \div Price
<1>1. q \in Nat /\ q * Price <= received
  BY Bounds
<1>2. Scaled(received) = IF Quantity <= q THEN Quantity ELSE q
  BY <1>1, Bounds, MinOfTwo DEF Scaled, Covered
<1>3. Cost(q) <= received
  BY <1>1 DEF Cost
<1>4. Cost(Scaled(received)) <= Cost(q) /\ Cost(q) \in Nat /\ Cost(Scaled(received)) \in Nat
  BY <1>1, <1>2, Bounds, CostGrows, CostType
<1> HIDE DEF q
<1> QED BY <1>1, <1>2, <1>3, <1>4, Bounds

-----------------------------------------------------------------------------
(* What a row, the chain and the money that went back know of one another. *)

\* A row with what went back for it and whether its shares are minted.
Sound(r, back, issued) ==
    /\ r \in Subscription
    /\ back = RefundedTotal(r)
    /\ r.sent => r.refund <= r.received /\ r.status \in {"refunded", "allotted", "closed"}
    /\ r.status \in {"draft", "submitted", "accepted"} => r.received = 0
    /\ r.status = "paid" => Cost(r.allotted) <= r.received
    /\ r.status = "allotted" => Cost(r.allotted) + back <= r.received
    /\ r.status = "closed" => back = r.received
    /\ r.status = "allotted" <=> r.request = "executed"
    /\ r.request \in {"approved", "executing", "failed"} => r.status = "paid"
    /\ r.request = "rejected" => r.status \in {"refunded", "closed"}
    /\ issued \in BOOLEAN
    /\ issued => r.request \in {"executing", "executed"}
    /\ r.request = "executed" => issued

RowsSound == \A s \in Rows : Sound(row[s], returned[s], minted[s])

Cuts == UNION {[D -> [allotted : Nat, refund : Nat]] : D \in SUBSET Rows}

ClerkState ==
    [pc : {"idle", "intake", "scale", "chosen", "issued", "supply"}, rows : SUBSET Rows,
     batch : BOOLEAN, total : Nat, issued : Nat, unminted : Nat, seen : Statuses, cut : Cuts]

\* A cut read earlier still fits the row it will be written over.
Fits(r, cut) ==
    /\ r.status = "paid" /\ r.request = "none"
    /\ cut.allotted <= r.allotted
    /\ cut.refund <= r.received

\* What a clerk read without a lock and will write is what the row still says.
ClerkSound(c) ==
    /\ clerk[c] \in ClerkState
    /\ clerk[c].pc = "intake" =>
          /\ "intake" \in Work
          /\ clerk[c].seen \in {"draft", "submitted", "accepted"}
          /\ \A s \in clerk[c].rows : row[s].status = clerk[c].seen
    /\ clerk[c].pc = "scale" =>
          /\ "scale" \in Work
          /\ \A s \in DOMAIN clerk[c].cut : Fits(row[s], clerk[c].cut[s])

RegisterInv ==
    /\ row \in [Rows -> Subscription]
    /\ minted \in [Rows -> BOOLEAN]
    /\ returned \in [Rows -> Money]
    /\ clerk \in [Clerks -> ClerkState]
    /\ RowsSound
    /\ \A c \in Clerks : ClerkSound(c)

\* The operations that write what they read without a lock meet no other
\* clerk: there is one clerk, or they are not done.
OneClerk == \A c, d \in Clerks : c = d

Undisturbed == OneClerk \/ Work \cap {"intake", "scale"} = {}

-----------------------------------------------------------------------------
(* Sums the clerks take.                                                   *)

LEMMA SharesIs == \A S : Shares(S) = SharesOf(row, S)
BY DEF Shares, SharesOf

LEMMA SharesType ==
    ASSUME row \in [Rows -> Subscription], NEW S \in SUBSET Rows
    PROVE  Shares(S) \in Nat
<1>1. IsFiniteSet(S)
  BY Bounds, FS_Subset
<1>2. Counts(row, S)
  BY Bounds DEF Counts, Subscription
<1> QED BY <1>1, <1>2, SharesOfType, SharesIs

LEMMA ReadingsType ==
    ASSUME row \in [Rows -> Subscription]
    PROVE  Committed \in Nat /\ Issued \in Nat /\ Unminted \in Nat /\ CapRoom \in Int
BY Bounds, SharesType DEF Committed, Issued, Unminted, CapRoom

\* A share of the room is never more than the row had.
LEMMA ProRataCuts ==
    ASSUME row \in [Rows -> Subscription], NEW base \in Nat, NEW requested \in Nat,
           requested # 0
    PROVE  ProRata(base, requested) \in 0..base
<1> DEFINE q == (base * CapRoom) \div requested
<1>1. q \in Int
  BY ReadingsType
<1>2. Min({base, q}) = IF base <= q THEN base ELSE q
  BY <1>1, MinOfTwo
<1> HIDE DEF q
<1>3. AtLeastZero(Min({base, q})) \in 0..base
  BY <1>1, <1>2 DEF AtLeastZero
<1> QED BY <1>3 DEF ProRata, q

-----------------------------------------------------------------------------
(* What the operations make of one row.                                    *)

LEMMA BackIs ==
    ASSUME NEW r \in Subscription
    PROVE  /\ RefundedTotal(r) \in Nat /\ Held(r) \in Int /\ Backing(r) \in Nat
           /\ Refundable(r) \in Nat
           /\ Refundable(r) > 0 => Refundable(r) = r.received - RefundedTotal(r) - Backing(r)
<1>1. r.received \in Nat /\ r.refund \in Nat /\ r.allotted \in Nat /\ r.sent \in BOOLEAN
  BY Bounds, MoneyIs DEF Subscription
<1>2. Cost(r.allotted) \in Nat
  BY <1>1, CostType
<1> QED BY <1>1, <1>2 DEF RefundedTotal, Held, Backing, Refundable, AtLeastZero

\* A row that is not promised and has taken no refund may be given new terms.
LEMMA Repriced ==
    ASSUME NEW r \in Subscription, NEW back, NEW issued, Sound(r, back, issued),
           r.status \in {"awaiting", "paid"}, r.request \in {"none", "rejected"},
           NEW received \in Money, NEW allotted \in 0..Quantity, NEW refund \in Money,
           NEW status \in {"awaiting", "paid"},
           status = "paid" => Cost(allotted) <= received,
           NEW new, new = [r EXCEPT !.received = received, !.allotted = allotted,
                                    !.refund = refund, !.status = status]
    PROVE  Sound(new, back, issued)
<1>1. r.request = "none" /\ ~r.sent /\ back = 0 /\ ~issued
  BY DEF Sound, RefundedTotal, Subscription
<1>2. new \in Subscription
  BY DEF Subscription, Statuses
<1>3. /\ new.status = status /\ new.request = "none" /\ ~new.sent
      /\ new.received = received /\ new.allotted = allotted
  BY <1>1 DEF Subscription
<1> QED BY <1>1, <1>2, <1>3 DEF Sound, RefundedTotal

\* A row with nothing of the subscriber's in it may be closed.
LEMMA ClosedSound ==
    ASSUME NEW r \in Subscription, NEW back, NEW issued, Sound(r, back, issued),
           Unclaimed(r), r.status \notin {"allotted", "closed"}, ~HasMoneyIn(r),
           NEW new, new = [r EXCEPT !.status = "closed"]
    PROVE  Sound(new, back, issued)
<1>1. r.received \in Nat /\ r.refund \in Nat /\ r.sent \in BOOLEAN
  BY MoneyIs DEF Subscription
<1>2. RefundedTotal(r) = r.received
  BY <1>1 DEF HasMoneyIn, Held, RefundedTotal, Sound
<1>3. new \in Subscription
  BY DEF Subscription, Statuses
<1>4. /\ new.status = "closed" /\ new.request = r.request /\ new.sent = r.sent
      /\ new.received = r.received /\ new.refund = r.refund
  BY DEF Subscription
<1>5. r.request \in {"none", "rejected"} /\ issued \in BOOLEAN
  BY DEF Unclaimed, Sound
<1> QED BY <1>2, <1>3, <1>4, <1>5 DEF Sound, RefundedTotal

\* A refund takes no more than the row holds beyond what backs its shares.
LEMMA RefundSound ==
    ASSUME NEW r \in Subscription, NEW back, NEW issued, Sound(r, back, issued),
           NEW amount \in 1..Refundable(r),
           r.status \in {"awaiting", "paid", "allotted", "refunded"},
           r.status = "allotted" \/ RefundableRequest(r),
           NEW new, new = [r EXCEPT !.refund = Accumulated(r, amount),
                    !.sent = TRUE,
                    !.status = IF @ = "allotted" THEN @ ELSE "refunded",
                    !.request = IF @ \in {"approved", "failed"} THEN "rejected" ELSE @]
    PROVE  Sound(new, back + amount, issued) /\ back + amount \in Money
<1>1. /\ r.received \in Nat /\ r.refund \in Nat /\ r.sent \in BOOLEAN
      /\ r.allotted \in Nat /\ Cost(r.allotted) \in Nat
  BY Bounds, MoneyIs, CostType DEF Subscription
<1>2. Refundable(r) \in Nat
  BY BackIs
<1>3. Refundable(r) = r.received - back - Backing(r) /\ back \in Nat /\ amount \in Nat
  BY <1>2, BackIs DEF Sound
<1>4. Backing(r) \in Nat
  BY BackIs
<1>5. back + amount + Backing(r) <= r.received
  BY <1>1, <1>2, <1>3, <1>4
<1>6. back + amount \in Money
  BY <1>1, <1>3, <1>4, <1>5, MoneyIs DEF Subscription
<1>7. Accumulated(r, amount) = back + amount
  BY DEF Accumulated, Sound
<1>8. new \in Subscription
  BY <1>6, <1>7 DEF Subscription, Statuses, RequestStatuses
<1>9. /\ new.sent /\ new.refund = back + amount
      /\ new.received = r.received /\ new.allotted = r.allotted
      /\ new.status = IF r.status = "allotted" THEN "allotted" ELSE "refunded"
      /\ new.request = IF r.request \in {"approved", "failed"} THEN "rejected" ELSE r.request
  BY <1>7 DEF Subscription
<1>10. back + amount <= r.received
  BY <1>1, <1>3, <1>4, <1>5
<1>11. CASE r.status = "allotted"
  <2>1. Backing(r) = Cost(r.allotted)
    BY <1>11 DEF Backing
  <2>2. r.request = "executed" /\ issued \in BOOLEAN /\ issued
    BY <1>11 DEF Sound
  <2>3. Cost(new.allotted) + (back + amount) <= new.received
    BY <1>1, <1>3, <1>5, <1>9, <2>1
  <2> QED BY <1>6, <1>8, <1>9, <1>10, <1>11, <2>2, <2>3 DEF Sound, RefundedTotal
<1>12. CASE r.status # "allotted"
  <2>1. r.request \in {"none", "approved", "failed", "rejected"} /\ issued \in BOOLEAN /\ ~issued
    BY <1>12 DEF Sound, RefundableRequest
  <2>2. new.request \in {"none", "rejected"} /\ new.status = "refunded"
    BY <1>9, <1>12, <2>1
  <2> QED BY <1>6, <1>8, <1>9, <1>10, <2>1, <2>2 DEF Sound, RefundedTotal
<1> QED BY <1>11, <1>12

\* A paid row whose request goes from one status to another.
LEMMA RequestSound ==
    ASSUME NEW r \in Subscription, NEW back, NEW issued, Sound(r, back, issued),
           r.status = "paid", NEW to \in {"approved", "executing", "executed", "failed"},
           to = "executed" => issued,
           issued => to \in {"executing", "executed"},
           NEW new, new = [r EXCEPT !.request = to,
                                    !.status = IF to = "executed" THEN "allotted" ELSE @]
    PROVE  Sound(new, back, issued)
<1>1. /\ r.received \in Nat /\ r.refund \in Nat /\ r.sent \in BOOLEAN
      /\ r.allotted \in Nat /\ Cost(r.allotted) \in Nat
  BY Bounds, MoneyIs, CostType DEF Subscription
<1>2. ~r.sent /\ back = 0 /\ Cost(r.allotted) <= r.received /\ issued \in BOOLEAN
  BY <1>1 DEF Sound, RefundedTotal
<1>3. new \in Subscription
  BY DEF Subscription, Statuses, RequestStatuses
<1>4. /\ ~new.sent /\ new.received = r.received /\ new.allotted = r.allotted
      /\ new.request = to
      /\ new.status = IF to = "executed" THEN "allotted" ELSE "paid"
  BY <1>2 DEF Subscription
<1>5. Cost(new.allotted) + back <= new.received
  BY <1>1, <1>2, <1>4
<1> QED BY <1>2, <1>3, <1>4, <1>5 DEF Sound, RefundedTotal

-----------------------------------------------------------------------------
(* Steps of the clerks and of the issuances.                               *)

LEMMA NothingType == Nothing \in ClerkState
<1>1. NoCut \in [{} -> [allotted : Nat, refund : Nat]]
  BY DEF NoCut
<1>2. NoCut \in Cuts
  BY <1>1 DEF Cuts
<1> QED BY <1>2 DEF Nothing, ClerkState, Statuses

LEMMA NothingSound ==
    ASSUME NEW c \in Clerks, clerk'[c] = Nothing
    PROVE  ClerkSound(c)'
BY NothingType DEF ClerkSound, Nothing

\* Whoever is at intake or scale-back is the only clerk there is.
LEMMA Alone ==
    ASSUME Undisturbed, RegisterInv, NEW c \in Clerks, NEW d \in Clerks,
           clerk[d].pc \in {"intake", "scale"}
    PROVE  d = c
BY DEF Undisturbed, OneClerk, RegisterInv, ClerkSound

\* Clerks who keep what they have read of rows that stay as they are.
LEMMA ClerkStays ==
    ASSUME NEW d \in Clerks, ClerkSound(d), clerk'[d] = clerk[d],
           \A s \in Rows : row[s].status \in {"draft", "submitted", "accepted"}
                              => row'[s].status = row[s].status,
           \A s \in Rows : row[s].status = "paid" /\ row[s].request = "none"
                              => row'[s] = row[s]
    PROVE  ClerkSound(d)'
<1>1. clerk[d] \in ClerkState
  BY DEF ClerkSound
<1>2. clerk[d].rows \subseteq Rows /\ DOMAIN clerk[d].cut \subseteq Rows
  BY <1>1 DEF ClerkState, Cuts
<1>3. CASE clerk[d].pc = "intake"
  <2>1. \A s \in clerk[d].rows : row'[s].status = row[s].status
    BY <1>2, <1>3 DEF ClerkSound
  <2> QED BY <1>3, <2>1 DEF ClerkSound
<1>4. CASE clerk[d].pc = "scale"
  <2>1. \A s \in DOMAIN clerk[d].cut : row'[s] = row[s]
    BY <1>2, <1>4 DEF ClerkSound, Fits
  <2> QED BY <1>4, <2>1 DEF ClerkSound, Fits
<1>5. CASE clerk[d].pc \notin {"intake", "scale"}
  BY <1>5 DEF ClerkSound
<1> QED BY <1>3, <1>4, <1>5

\* A step that changes no row, or one whose rows stay sound, keeps the rest.
LEMMA RowsKeep ==
    ASSUME RegisterInv, NEW s \in Rows, NEW r, NEW back, NEW issued,
           row' = [row EXCEPT ![s] = r],
           returned' = [returned EXCEPT ![s] = back],
           minted' = [minted EXCEPT ![s] = issued],
           back \in Money, Sound(r, back, issued)
    PROVE  /\ row' \in [Rows -> Subscription]
           /\ minted' \in [Rows -> BOOLEAN]
           /\ returned' \in [Rows -> Money]
           /\ RowsSound'
<1>1. r \in Subscription /\ issued \in BOOLEAN
  BY DEF Sound
<1>2. /\ row' \in [Rows -> Subscription]
      /\ minted' \in [Rows -> BOOLEAN]
      /\ returned' \in [Rows -> Money]
  BY <1>1 DEF RegisterInv
<1>3. \A t \in Rows : Sound(row'[t], returned'[t], minted'[t])
  <2> TAKE t \in Rows
  <2>1. CASE t = s
    <3>1. row'[t] = r /\ returned'[t] = back /\ minted'[t] = issued
      BY <2>1 DEF RegisterInv
    <3> QED BY <3>1
  <2>2. CASE t # s
    <3>1. row'[t] = row[t] /\ returned'[t] = returned[t] /\ minted'[t] = minted[t]
      BY <2>2 DEF RegisterInv
    <3>2. Sound(row[t], returned[t], minted[t])
      BY DEF RegisterInv, RowsSound
    <3> QED BY <3>1, <3>2
  <2> QED BY <2>1, <2>2
<1> QED BY <1>2, <1>3 DEF RowsSound

LEMMA RowsStay ==
    ASSUME RegisterInv, UNCHANGED <<row, minted, returned>>
    PROVE  /\ row' \in [Rows -> Subscription]
           /\ minted' \in [Rows -> BOOLEAN]
           /\ returned' \in [Rows -> Money]
           /\ RowsSound'
BY DEF RegisterInv, RowsSound

\* One row changes under its lock, in the hands of an idle clerk.
LEMMA LockedKeeps ==
    ASSUME Undisturbed, RegisterInv, NEW c \in Clerks, clerk[c].pc = "idle",
           NEW s \in Rows, NEW r, NEW back,
           row' = [row EXCEPT ![s] = r],
           returned' = [returned EXCEPT ![s] = back],
           minted' = minted, clerk' = clerk,
           back \in Money, Sound(r, back, minted[s])
    PROVE  RegisterInv'
<1>1. minted' = [minted EXCEPT ![s] = minted[s]]
  BY DEF RegisterInv
<1>2. ASSUME NEW d \in Clerks PROVE ClerkSound(d)'
  <2>1. clerk[d].pc \notin {"intake", "scale"}
    BY Alone
  <2>2. ClerkSound(d)
    BY DEF RegisterInv
  <2> QED BY <2>1, <2>2 DEF ClerkSound
<1>3. clerk' \in [Clerks -> ClerkState]
  BY DEF RegisterInv
<1> HIDE DEF RegisterInv
<1>4. /\ row' \in [Rows -> Subscription]
      /\ minted' \in [Rows -> BOOLEAN]
      /\ returned' \in [Rows -> Money]
      /\ RowsSound'
  BY <1>1, RowsKeep
<1> QED BY <1>2, <1>3, <1>4 DEF RegisterInv

\* A clerk's record changes and nothing else.
LEMMA ClerkKeeps ==
    ASSUME RegisterInv, NEW c \in Clerks, NEW what \in ClerkState,
           Holds(c, what), UNCHANGED <<row, minted, returned>>,
           ClerkSound(c)'
    PROVE  RegisterInv'
<1>1. clerk' \in [Clerks -> ClerkState]
  BY DEF RegisterInv, Holds
<1>2. ASSUME NEW d \in Clerks PROVE ClerkSound(d)'
  <2>1. CASE d = c
    BY <2>1
  <2>2. CASE d # c
    <3>1. clerk'[d] = clerk[d] /\ ClerkSound(d)
      BY <2>2 DEF RegisterInv, Holds
    <3> QED BY <3>1, ClerkStays
  <2> QED BY <2>1, <2>2
<1> QED BY <1>1, <1>2, RowsStay DEF RegisterInv

LEMMA PayKeeps ==
    ASSUME Undisturbed, RegisterInv, NEW c \in Clerks, NEW s \in Rows,
           NEW received \in Payments, Pay(c, s, received)
    PROVE  RegisterInv'
<1> DEFINE q == row[s]
<1>1. /\ q \in Subscription /\ Sound(q, returned[s], minted[s])
      /\ returned[s] \in Money
      /\ returned' = [returned EXCEPT ![s] = returned[s]]
  BY DEF RegisterInv, RowsSound, Pay
<1>2. /\ clerk[c].pc = "idle" /\ clerk' = clerk /\ minted' = minted
      /\ q.request \in {"none", "rejected"} /\ q.status \in {"awaiting", "paid"}
  BY DEF Pay, Free, Unclaimed
<1>3. /\ received \in Nat /\ received \in Money
      /\ q.allotted \in 0..Quantity /\ q.refund \in Money
  BY <1>1, Bounds DEF Subscription
<1>4. Due = Cost(Quantity) /\ Due \in Nat
  BY Bounds, CostType DEF Due, Cost
<1>5. CASE /\ received >= Due
           /\ row' = [row EXCEPT ![s] = [[q EXCEPT !.received = received]
                          EXCEPT !.status = "paid", !.refund = received - Due]]
  <2> DEFINE r == [q EXCEPT !.received = received, !.allotted = q.allotted,
                            !.refund = received - Due, !.status = "paid"]
  <2>1. row' = [row EXCEPT ![s] = r]
    BY <1>1, <1>5 DEF Subscription
  <2>2. received - Due \in Money
    BY <1>3, <1>4, <1>5, MoneyIs
  <2>3. Cost(q.allotted) <= received
    <3>1. q.allotted \in Nat /\ q.allotted <= Quantity
      BY <1>3, Bounds
    <3>2. Cost(q.allotted) <= Cost(Quantity) /\ Cost(q.allotted) \in Nat /\ Cost(Quantity) \in Nat
      BY <3>1, CostGrows, CostType, Bounds
    <3> QED BY <1>3, <1>4, <1>5, <3>2
  <2>4. Sound(r, returned[s], minted[s])
    BY <1>1, <1>2, <1>3, <2>2, <2>3, Repriced
  <2> HIDE DEF r, q
  <2> QED BY <1>1, <1>2, <2>1, <2>4, LockedKeeps
<1>6. CASE row' = [row EXCEPT ![s] = [[q EXCEPT !.received = received]
                          EXCEPT !.status = "awaiting"]]
  <2> DEFINE r == [q EXCEPT !.received = received, !.allotted = q.allotted,
                            !.refund = q.refund, !.status = "awaiting"]
  <2>1. row' = [row EXCEPT ![s] = r]
    BY <1>1, <1>6 DEF Subscription
  <2>4. Sound(r, returned[s], minted[s])
    BY <1>1, <1>2, <1>3, Repriced
  <2> HIDE DEF r, q
  <2> QED BY <1>1, <1>2, <2>1, <2>4, LockedKeeps
<1>7. CASE row' = [row EXCEPT ![s] = [[q EXCEPT !.received = received]
                          EXCEPT !.status = "paid", !.allotted = Scaled(received),
                                 !.refund = received - Cost(Scaled(received))]]
  <2> DEFINE r == [q EXCEPT !.received = received, !.allotted = Scaled(received),
                            !.refund = received - Cost(Scaled(received)), !.status = "paid"]
  <2>1. row' = [row EXCEPT ![s] = r]
    BY <1>1, <1>7 DEF Subscription
  <2>2. Scaled(received) \in 0..Quantity /\ Cost(Scaled(received)) <= received
    BY <1>3, ScaledIsPaid
  <2>3. Cost(Scaled(received)) \in Nat
    BY <2>2, Bounds, CostType
  <2>5. received - Cost(Scaled(received)) \in Money
    BY <1>3, <2>2, <2>3, MoneyIs
  <2>4. Sound(r, returned[s], minted[s])
    BY <1>1, <1>2, <1>3, <2>2, <2>5, Repriced
  <2> HIDE DEF r, q
  <2> QED BY <1>1, <1>2, <2>1, <2>4, LockedKeeps
<1> QED BY <1>5, <1>6, <1>7 DEF Pay

LEMMA RefundKeeps ==
    ASSUME Undisturbed, RegisterInv, NEW c \in Clerks, NEW s \in Rows,
           NEW amount \in 1..Refundable(row[s]), Refund(c, s, amount)
    PROVE  RegisterInv'
<1> DEFINE q == row[s]
           r == [q EXCEPT !.refund = Accumulated(q, amount),
                          !.sent = TRUE,
                          !.status = IF @ = "allotted" THEN @ ELSE "refunded",
                          !.request = IF @ \in {"approved", "failed"} THEN "rejected" ELSE @]
<1>1. q \in Subscription /\ Sound(q, returned[s], minted[s])
  BY DEF RegisterInv, RowsSound
<1>2. /\ clerk[c].pc = "idle" /\ clerk' = clerk /\ minted' = minted
      /\ q.status \in {"awaiting", "paid", "allotted", "refunded"}
      /\ q.status = "allotted" \/ RefundableRequest(q)
  BY DEF Refund, Free
<1>3. row' = [row EXCEPT ![s] = r]
  BY DEF Refund
<1>4. returned' = [returned EXCEPT ![s] = returned[s] + amount]
  BY DEF Refund
<1>5. Sound(r, returned[s] + amount, minted[s]) /\ returned[s] + amount \in Money
  BY <1>1, <1>2, RefundSound
<1> HIDE DEF r, q
<1> QED BY <1>2, <1>3, <1>4, <1>5, LockedKeeps

LEMMA CloseKeeps ==
    ASSUME Undisturbed, RegisterInv, NEW c \in Clerks, NEW s \in Rows, Close(c, s)
    PROVE  RegisterInv'
<1> DEFINE q == row[s]
           r == [q EXCEPT !.status = "closed"]
<1>1. /\ q \in Subscription /\ Sound(q, returned[s], minted[s]) /\ returned[s] \in Money
      /\ returned' = [returned EXCEPT ![s] = returned[s]]
  BY DEF RegisterInv, RowsSound, Close
<1>2. clerk[c].pc = "idle" /\ clerk' = clerk /\ minted' = minted
  BY DEF Close, Free
<1>3. row' = [row EXCEPT ![s] = r]
  BY DEF Close
<1>4. Sound(r, returned[s], minted[s])
  BY <1>1, ClosedSound DEF Close
<1> HIDE DEF r, q
<1> QED BY <1>1, <1>2, <1>3, <1>4, LockedKeeps

LEMMA LoadKeeps ==
    ASSUME RegisterInv, NEW c \in Clerks, NEW s \in Rows, Load(c, s)
    PROVE  RegisterInv'
<1> DEFINE k == [Nothing EXCEPT !.pc = "intake", !.rows = {s}, !.seen = row[s].status]
<1>1. /\ "intake" \in Work /\ Holds(c, k) /\ UNCHANGED <<row, minted, returned>>
      /\ row[s].status \in {"draft", "submitted", "accepted"}
  BY DEF Load, Free, FollowedBy
<1>2. k \in ClerkState /\ k.pc = "intake" /\ k.rows = {s} /\ k.seen = row[s].status
  BY <1>1, NothingType DEF ClerkState, Statuses
<1> HIDE DEF k
<1>3. clerk'[c] = k
  BY <1>1 DEF Holds, RegisterInv
<1>4. ClerkSound(c)'
  BY <1>1, <1>2, <1>3 DEF ClerkSound
<1> QED BY <1>1, <1>2, <1>4, ClerkKeeps

LEMMA AdvanceKeeps ==
    ASSUME Undisturbed, RegisterInv, NEW c \in Clerks, NEW s \in Rows, Advance(c, s)
    PROVE  RegisterInv'
<1> DEFINE q == row[s]
           seen == clerk[c].seen
           r == [q EXCEPT !.status = FollowedBy[seen]]
           k == IF seen = "submitted" THEN [clerk[c] EXCEPT !.seen = "accepted"] ELSE Nothing
<1>1. /\ clerk[c].pc = "intake" /\ clerk[c].rows = {s}
      /\ row' = [row EXCEPT ![s] = r] /\ Holds(c, k)
      /\ UNCHANGED <<minted, returned>>
  BY DEF Advance, Done
<1>2. /\ clerk[c] \in ClerkState /\ "intake" \in Work
      /\ seen \in {"draft", "submitted", "accepted"} /\ q.status = seen
      /\ q \in Subscription /\ Sound(q, returned[s], minted[s]) /\ returned[s] \in Money
  BY <1>1 DEF RegisterInv, ClerkSound, RowsSound
<1>3. /\ FollowedBy[seen] \in {"submitted", "accepted", "awaiting"}
      /\ seen = "submitted" => FollowedBy[seen] = "accepted"
  BY <1>2 DEF FollowedBy
<1>4. r \in Subscription /\ r.status = FollowedBy[seen] /\ r.request = q.request
      /\ r.sent = q.sent /\ r.received = q.received /\ r.refund = q.refund
  BY <1>2, <1>3 DEF Subscription, Statuses
<1>5. Sound(r, returned[s], minted[s])
  <2>1. q.request = "none" /\ ~q.sent /\ q.received = 0
    BY <1>2 DEF Sound, Subscription, RequestStatuses
  <2> HIDE DEF r, q, seen
  <2> QED BY <1>2, <1>3, <1>4, <2>1 DEF Sound, RefundedTotal
<1>6. k \in ClerkState
  BY <1>2, NothingType DEF ClerkState, Statuses
<1>7. clerk' \in [Clerks -> ClerkState] /\ clerk'[c] = k
  BY <1>1, <1>6 DEF RegisterInv, Holds
<1>8. ClerkSound(c)'
  <2>1. CASE seen = "submitted"
    <3>1. /\ clerk'[c].pc = "intake" /\ clerk'[c].seen = "accepted"
          /\ clerk'[c].rows = {s} /\ clerk'[c] \in ClerkState
      BY <1>1, <1>2, <1>6, <1>7, <2>1 DEF ClerkState
    <3>2. row'[s].status = "accepted"
      BY <1>1, <1>3, <1>4, <2>1 DEF RegisterInv
    <3> QED BY <1>2, <3>1, <3>2 DEF ClerkSound
  <2>2. CASE seen # "submitted"
    BY <1>7, <2>2, NothingSound
  <2> QED BY <2>1, <2>2
<1>9. ASSUME NEW d \in Clerks PROVE ClerkSound(d)'
  <2>1. CASE d = c
    BY <1>8, <2>1
  <2>2. CASE d # c
    <3>1. clerk[d].pc \notin {"intake", "scale"}
      BY <1>1, <2>2, Alone
    <3>2. clerk'[d] = clerk[d] /\ ClerkSound(d)
      BY <1>1, <2>2 DEF RegisterInv, Holds
    <3> QED BY <3>1, <3>2 DEF ClerkSound
  <2> QED BY <2>1, <2>2
<1>10. returned' = [returned EXCEPT ![s] = returned[s]] /\ minted' = [minted EXCEPT ![s] = minted[s]]
  BY <1>1 DEF RegisterInv
<1> HIDE DEF r, k
<1>11. /\ row' \in [Rows -> Subscription]
       /\ minted' \in [Rows -> BOOLEAN]
       /\ returned' \in [Rows -> Money]
       /\ RowsSound'
  BY <1>1, <1>2, <1>5, <1>10, RowsKeep
<1> QED BY <1>7, <1>9, <1>11 DEF RegisterInv

LEMMA ScaleReadKeeps ==
    ASSUME RegisterInv, NEW c \in Clerks, ScaleRead(c)
    PROVE  RegisterInv'
<1> DEFINE requested == Shares(AwaitingAllotment)
           D == {s \in AwaitingAllotment : ProRata(row[s].allotted, requested) # row[s].allotted}
           Allotted(s) == ProRata(row[s].allotted, requested)
           Owed(s) == AtLeastZero(Held(row[s]) - Cost(Allotted(s)))
           cut == [s \in D |-> [allotted |-> Allotted(s), refund |-> Owed(s)]]
           k == [Nothing EXCEPT !.pc = "scale", !.cut = cut]
<1>1. /\ "scale" \in Work /\ Holds(c, k) /\ UNCHANGED <<row, minted, returned>>
      /\ requested # 0
  BY DEF ScaleRead, Free
<1>2. D \subseteq Rows /\ requested \in Nat
  BY SharesType DEF AwaitingAllotment, RegisterInv
<1>3. ASSUME NEW s \in D
      PROVE  /\ Allotted(s) \in Nat /\ Owed(s) \in Nat
             /\ row[s].status = "paid" /\ row[s].request = "none"
             /\ Allotted(s) <= row[s].allotted /\ Owed(s) <= row[s].received
  <2>1. s \in Rows /\ row[s].status = "paid" /\ row[s].request = "none"
    BY DEF AwaitingAllotment
  <2>2. row[s] \in Subscription
    BY <2>1 DEF RegisterInv
  <2>3. row[s].allotted \in Nat /\ row[s].received \in Nat
    BY <2>2, Bounds, MoneyIs DEF Subscription
  <2>4. Allotted(s) \in 0..row[s].allotted
    BY <1>1, <1>2, <2>3, ProRataCuts DEF RegisterInv
  <2>5. Held(row[s]) \in Int /\ Held(row[s]) <= row[s].received
    BY <2>2, <2>3, BackIs DEF Held
  <2>6. Allotted(s) \in Nat /\ Allotted(s) <= row[s].allotted
    BY <2>3, <2>4
  <2>7. Cost(Allotted(s)) \in Nat
    BY <2>6, CostType
  <2> HIDE DEF Allotted
  <2> QED BY <2>1, <2>3, <2>5, <2>6, <2>7 DEF AtLeastZero
<1> HIDE DEF Allotted, Owed, D
<1>4. cut \in [D -> [allotted : Nat, refund : Nat]]
  BY <1>3
<1>5. cut \in Cuts
  BY <1>2, <1>4 DEF Cuts
<1>6. \A s \in D : cut[s].allotted = Allotted(s) /\ cut[s].refund = Owed(s)
  OBVIOUS
<1>7. DOMAIN cut = D
  OBVIOUS
<1> HIDE DEF cut
<1>8. k \in ClerkState /\ k.pc = "scale" /\ k.cut = cut
  BY <1>5, NothingType DEF ClerkState
<1> HIDE DEF k
<1>9. clerk'[c] = k
  BY <1>1 DEF RegisterInv, Holds
<1>10. \A s \in D : Fits(row[s], cut[s])
  BY <1>3, <1>6 DEF Fits
<1>11. ClerkSound(c)'
  BY <1>1, <1>7, <1>8, <1>9, <1>10 DEF ClerkSound, Fits
<1> QED BY <1>1, <1>8, <1>11, ClerkKeeps

\* A paid row takes a cut that fits it.
LEMMA CutSound ==
    ASSUME NEW r \in Subscription, NEW back, NEW issued, Sound(r, back, issued),
           NEW cut \in [allotted : Nat, refund : Nat], Fits(r, cut)
    PROVE  Sound(Cut(r, cut), back, issued)
<1>1. /\ r.received \in Nat /\ r.received \in Money
      /\ r.allotted \in Nat /\ r.allotted <= Quantity
      /\ cut.allotted \in Nat /\ cut.refund \in Nat
  BY Bounds, MoneyIs DEF Subscription
<1>2. cut.refund \in Money /\ cut.allotted \in 0..Quantity
  BY <1>1, MoneyIs, Bounds DEF Fits
<1>3. Cost(cut.allotted) <= Cost(r.allotted) /\ Cost(cut.allotted) \in Nat /\ Cost(r.allotted) \in Nat
  BY <1>1, CostGrows, CostType DEF Fits
<1>4. Cost(cut.allotted) <= r.received
  BY <1>1, <1>3 DEF Sound, Fits
<1> DEFINE new == [r EXCEPT !.received = r.received, !.allotted = cut.allotted,
                            !.refund = cut.refund, !.status = "paid"]
<1>5. Cut(r, cut) = new
  BY DEF Cut, Fits, Subscription
<1>6. r.status \in {"awaiting", "paid"} /\ r.request \in {"none", "rejected"}
  BY DEF Fits
<1>7. Sound(new, back, issued)
  BY <1>1, <1>2, <1>4, <1>6, Repriced
<1> HIDE DEF new
<1> QED BY <1>5, <1>7

LEMMA ScaleWriteKeeps ==
    ASSUME Undisturbed, RegisterInv, NEW c \in Clerks, ScaleWrite(c)
    PROVE  RegisterInv'
<1>1. /\ clerk[c].pc = "scale" /\ clerk[c] \in ClerkState
      /\ \A s \in DOMAIN clerk[c].cut : Fits(row[s], clerk[c].cut[s])
      /\ Done(c) /\ UNCHANGED <<minted, returned>>
  BY DEF ScaleWrite, RegisterInv, ClerkSound
<1>2. PICK D \in SUBSET Rows : clerk[c].cut \in [D -> [allotted : Nat, refund : Nat]]
  BY <1>1 DEF ClerkState, Cuts
<1>3. row' = [s \in Rows |-> IF s \in D THEN Cut(row[s], clerk[c].cut[s]) ELSE row[s]]
  BY <1>2 DEF ScaleWrite
<1>4. ASSUME NEW s \in Rows PROVE Sound(row'[s], returned[s], minted[s])
  <2>1. row[s] \in Subscription /\ Sound(row[s], returned[s], minted[s])
    BY DEF RegisterInv, RowsSound
  <2>2. CASE s \in D
    <3>1. Fits(row[s], clerk[c].cut[s]) /\ clerk[c].cut[s] \in [allotted : Nat, refund : Nat]
      BY <1>1, <1>2, <2>2
    <3>2. row'[s] = Cut(row[s], clerk[c].cut[s])
      BY <1>3, <2>2
    <3> QED BY <2>1, <3>1, <3>2, CutSound
  <2>3. CASE s \notin D
    BY <1>3, <2>1, <2>3
  <2> QED BY <2>2, <2>3
<1>5. \A s \in Rows : row'[s] \in Subscription
  BY <1>4 DEF Sound
<1>6. row' \in [Rows -> Subscription]
  BY <1>3, <1>5
<1>7. RowsSound'
  BY <1>1, <1>4 DEF RowsSound
<1>8. clerk' \in [Clerks -> ClerkState] /\ clerk'[c] = Nothing
  BY <1>1, NothingType DEF RegisterInv, Done, Holds
<1>9. ASSUME NEW d \in Clerks PROVE ClerkSound(d)'
  <2>1. CASE d = c
    BY <1>8, <2>1, NothingSound
  <2>2. CASE d # c
    <3>1. clerk[d].pc \notin {"intake", "scale"}
      BY <1>1, <2>2, Alone
    <3>2. clerk'[d] = clerk[d] /\ ClerkSound(d)
      BY <1>1, <2>2 DEF RegisterInv, Done, Holds
    <3> QED BY <3>1, <3>2 DEF ClerkSound
  <2> QED BY <2>1, <2>2
<1> QED BY <1>1, <1>6, <1>7, <1>8, <1>9 DEF RegisterInv

\* Choosing, reading the supply and giving up change only the clerk.
LEMMA PassingKeeps ==
    ASSUME RegisterInv, NEW c \in Clerks, NEW what \in ClerkState,
           what.pc \notin {"intake", "scale"},
           Holds(c, what), UNCHANGED <<row, minted, returned>>
    PROVE  RegisterInv'
<1>1. clerk'[c] = what
  BY DEF RegisterInv, Holds
<1>2. ClerkSound(c)'
  BY <1>1 DEF ClerkSound
<1> QED BY <1>2, ClerkKeeps

LEMMA ChooseKeeps ==
    ASSUME RegisterInv, NEW c \in Clerks, NEW S \in SUBSET Rows, Choose(c, S)
    PROVE  RegisterInv'
<1>1. Shares(S) \in Nat
  BY SharesType DEF RegisterInv
<1> DEFINE one == [Nothing EXCEPT !.pc = "chosen", !.rows = S]
           many == [Nothing EXCEPT !.pc = "chosen", !.rows = S, !.batch = TRUE,
                                   !.total = Shares(S)]
<1>2. one \in ClerkState /\ one.pc = "chosen" /\ many \in ClerkState /\ many.pc = "chosen"
  BY <1>1, NothingType DEF ClerkState
<1>3. (Holds(c, one) \/ Holds(c, many)) /\ UNCHANGED <<row, minted, returned>>
  BY DEF Choose
<1> HIDE DEF one, many
<1> QED BY <1>2, <1>3, PassingKeeps

LEMMA ReadingKeeps ==
    ASSUME RegisterInv, NEW c \in Clerks,
           ReadIssued(c) \/ ReadUnminted(c) \/ GiveUp(c)
    PROVE  RegisterInv'
<1>1. clerk[c] \in ClerkState /\ Issued \in Nat /\ Unminted \in Nat
  BY ReadingsType DEF RegisterInv
<1>2. CASE ReadIssued(c)
  <2> DEFINE k == [clerk[c] EXCEPT !.pc = "issued", !.issued = Issued]
  <2>1. k \in ClerkState /\ k.pc = "issued"
    BY <1>1 DEF ClerkState
  <2>2. Holds(c, k) /\ UNCHANGED <<row, minted, returned>>
    BY <1>2 DEF ReadIssued
  <2> HIDE DEF k
  <2> QED BY <2>1, <2>2, PassingKeeps
<1>3. CASE ReadUnminted(c)
  <2> DEFINE k == [clerk[c] EXCEPT !.pc = "supply", !.unminted = Unminted]
  <2>1. k \in ClerkState /\ k.pc = "supply"
    BY <1>1 DEF ClerkState
  <2>2. Holds(c, k) /\ UNCHANGED <<row, minted, returned>>
    BY <1>3 DEF ReadUnminted
  <2> HIDE DEF k
  <2> QED BY <2>1, <2>2, PassingKeeps
<1>4. CASE GiveUp(c)
  <2>1. Nothing.pc = "idle"
    BY DEF Nothing
  <2>2. Holds(c, Nothing) /\ UNCHANGED <<row, minted, returned>>
    BY <1>4 DEF GiveUp, Done
  <2> QED BY <2>1, <2>2, NothingType, PassingKeeps
<1> QED BY <1>2, <1>3, <1>4

\* Rows of an admitted allotment are paid rows that nobody had claimed.
LEMMA AdmitKeeps ==
    ASSUME Undisturbed, RegisterInv, NEW c \in Clerks, Admit(c)
    PROVE  RegisterInv'
<1> DEFINE S == clerk[c].rows
<1>1. /\ clerk[c].pc = "supply" /\ Done(c) /\ UNCHANGED <<minted, returned>>
      /\ \A s \in S : row[s].status = "paid" /\ row[s].request = "none"
      /\ row' = [s \in Rows |-> IF s \in S THEN [row[s] EXCEPT !.request = "approved"]
                                ELSE row[s]]
  BY DEF Admit, Allottable
<1>2. ASSUME NEW s \in Rows PROVE Sound(row'[s], returned[s], minted[s])
  <2>1. row[s] \in Subscription /\ Sound(row[s], returned[s], minted[s])
    BY DEF RegisterInv, RowsSound
  <2>2. CASE s \in S
    <3> DEFINE q == row[s]
               r == [q EXCEPT !.request = "approved",
                              !.status = IF "approved" = "executed" THEN "allotted" ELSE @]
    <3>1. q.status = "paid" /\ q.request = "none"
      BY <1>1, <2>2
    <3>2. ~minted[s]
      BY <2>1, <3>1 DEF Sound
    <3>3. row'[s] = r
      BY <1>1, <2>1, <2>2 DEF Subscription
    <3>4. Sound(r, returned[s], minted[s])
      BY <2>1, <3>1, <3>2, RequestSound
    <3> HIDE DEF r
    <3> QED BY <3>3, <3>4
  <2>3. CASE s \notin S
    BY <1>1, <2>1, <2>3
  <2> QED BY <2>2, <2>3
<1>3. \A s \in Rows : row'[s] \in Subscription
  BY <1>2 DEF Sound
<1>4. row' \in [Rows -> Subscription]
  BY <1>1, <1>3
<1>5. RowsSound'
  BY <1>1, <1>2 DEF RowsSound
<1>6. clerk' \in [Clerks -> ClerkState] /\ clerk'[c] = Nothing
  BY <1>1, NothingType DEF RegisterInv, Done, Holds
<1>7. ASSUME NEW d \in Clerks PROVE ClerkSound(d)'
  <2>1. CASE d = c
    BY <1>6, <2>1, NothingSound
  <2>2. CASE d # c
    <3>1. clerk[d].pc \notin {"intake", "scale"}
      BY <1>1, <2>2, Alone
    <3>2. clerk'[d] = clerk[d] /\ ClerkSound(d)
      BY <1>1, <2>2 DEF RegisterInv, Done, Holds
    <3> QED BY <3>1, <3>2 DEF ClerkSound
  <2> QED BY <2>1, <2>2
<1> QED BY <1>1, <1>4, <1>5, <1>6, <1>7 DEF RegisterInv

\* The issuance touches only rows whose request is open, which no clerk holds.
LEMMA IssuanceKeeps ==
    ASSUME RegisterInv, NEW s \in Rows,
           NEW from \in {"approved", "executing", "failed"},
           NEW to \in {"approved", "executing", "executed", "failed"},
           Issuance(s, from, to),
           to = "executed" => minted[s],
           minted[s] => to \in {"executing", "executed"}
    PROVE  RegisterInv'
<1> DEFINE q == row[s]
           r == [q EXCEPT !.request = to,
                          !.status = IF to = "executed" THEN "allotted" ELSE @]
<1>1. /\ q.status = "paid" /\ q.request # "none"
      /\ UNCHANGED <<minted, returned, clerk>>
      /\ q \in Subscription /\ Sound(q, returned[s], minted[s]) /\ returned[s] \in Money
  BY DEF Issuance, RegisterInv, RowsSound
<1>2. row' = [row EXCEPT ![s] = r]
  BY DEF Issuance, RegisterInv
<1>3. Sound(r, returned[s], minted[s])
  BY <1>1, RequestSound
<1> HIDE DEF r
<1>4. /\ returned' = [returned EXCEPT ![s] = returned[s]]
      /\ minted' = [minted EXCEPT ![s] = minted[s]]
  BY <1>1 DEF RegisterInv
<1>5. /\ row' \in [Rows -> Subscription]
      /\ minted' \in [Rows -> BOOLEAN]
      /\ returned' \in [Rows -> Money]
      /\ RowsSound'
  BY <1>1, <1>2, <1>3, <1>4, RowsKeep
<1>6. ASSUME NEW d \in Clerks PROVE ClerkSound(d)'
  <2>1. \A t \in Rows : t # s => row'[t] = row[t]
    BY <1>2 DEF RegisterInv
  <2>2. ClerkSound(d) /\ clerk'[d] = clerk[d]
    BY <1>1 DEF RegisterInv
  <2> QED BY <1>1, <2>1, <2>2, ClerkStays
<1>7. clerk' \in [Clerks -> ClerkState]
  BY <1>1 DEF RegisterInv
<1> QED BY <1>5, <1>6, <1>7 DEF RegisterInv

LEMMA MintKeeps ==
    ASSUME RegisterInv, NEW s \in Rows, Mint(s)
    PROVE  RegisterInv'
<1>1. /\ row[s].request = "executing" /\ minted' = [minted EXCEPT ![s] = TRUE]
      /\ UNCHANGED <<row, returned, clerk>>
      /\ Sound(row[s], returned[s], minted[s]) /\ returned[s] \in Money
  BY DEF Mint, RegisterInv, RowsSound
<1>2. Sound(row[s], returned[s], TRUE)
  BY <1>1 DEF Sound
<1>3. /\ returned' = [returned EXCEPT ![s] = returned[s]]
      /\ row' = [row EXCEPT ![s] = row[s]]
  BY <1>1 DEF RegisterInv
<1>4. /\ row' \in [Rows -> Subscription]
      /\ minted' \in [Rows -> BOOLEAN]
      /\ returned' \in [Rows -> Money]
      /\ RowsSound'
  BY <1>1, <1>2, <1>3, RowsKeep
<1>5. \A d \in Clerks : ClerkSound(d)'
  BY <1>1 DEF RegisterInv, ClerkSound
<1> QED BY <1>1, <1>4, <1>5 DEF RegisterInv

LEMMA IssueKeeps ==
    ASSUME RegisterInv, NEW s \in Rows, Issue(s)
    PROVE  RegisterInv'
<1>1. Sound(row[s], returned[s], minted[s])
  BY DEF RegisterInv, RowsSound
<1>2. CASE Claim(s)
  <2>1. ~minted[s]
    BY <1>1, <1>2 DEF Claim, Issuance, Sound
  <2> QED BY <1>2, <2>1, IssuanceKeeps DEF Claim
<1>3. CASE Mint(s)
  BY <1>3, MintKeeps
<1>4. CASE Executed(s)
  BY <1>4, IssuanceKeeps DEF Executed
<1>5. CASE Failed(s)
  BY <1>5, IssuanceKeeps DEF Failed
<1>6. CASE Retry(s)
  <2>1. ~minted[s]
    BY <1>1, <1>6 DEF Retry, Issuance, Sound
  <2> QED BY <1>6, <2>1, IssuanceKeeps DEF Retry
<1> QED BY <1>2, <1>3, <1>4, <1>5, <1>6 DEF Issue

LEMMA InitSound == Init => RegisterInv
<1> SUFFICES ASSUME Init PROVE RegisterInv
  OBVIOUS
<1>0. 0 \in Money
  BY MoneyIs
<1>1. row \in [Rows -> Subscription]
  BY <1>0, Bounds DEF Init, Subscription, Statuses, RequestStatuses
<1>2. minted \in [Rows -> BOOLEAN] /\ returned \in [Rows -> Money]
  BY <1>0 DEF Init
<1>3. \A c \in Clerks : ClerkSound(c)
  BY NothingType DEF Init, ClerkSound, Nothing
<1>4. clerk \in [Clerks -> ClerkState]
  BY NothingType DEF Init
<1>5. ASSUME NEW s \in Rows PROVE Sound(row[s], returned[s], minted[s])
  <2>1. /\ row[s] \in Subscription /\ row[s].status \in {"draft", "awaiting"}
        /\ row[s].received = 0 /\ ~row[s].sent /\ row[s].request = "none"
        /\ returned[s] = 0 /\ minted[s] = FALSE
    BY <1>1 DEF Init
  <2> QED BY <2>1 DEF Sound, RefundedTotal
<1> QED BY <1>1, <1>2, <1>3, <1>4, <1>5 DEF RegisterInv, RowsSound

LEMMA RegisterKeeps ==
    ASSUME Undisturbed, RegisterInv, [Next]_vars
    PROVE  RegisterInv'
<1>1. ASSUME NEW c \in Clerks, Serve(c)
      PROVE  RegisterInv'
  <2>1. ASSUME NEW s \in Rows, Load(c, s) \/ Advance(c, s) \/ Close(c, s)
        PROVE  RegisterInv'
    BY <2>1, LoadKeeps, AdvanceKeeps, CloseKeeps
  <2>2. ASSUME NEW s \in Rows, NEW received \in Payments, Pay(c, s, received)
        PROVE  RegisterInv'
    BY <2>2, PayKeeps
  <2>3. ASSUME NEW s \in Rows, NEW amount \in 1..Refundable(row[s]), Refund(c, s, amount)
        PROVE  RegisterInv'
    BY <2>3, RefundKeeps
  <2>4. CASE ScaleRead(c) \/ ScaleWrite(c)
    BY <2>4, ScaleReadKeeps, ScaleWriteKeeps
  <2>5. ASSUME NEW S \in SUBSET Rows, Choose(c, S)
        PROVE  RegisterInv'
    BY <2>5, ChooseKeeps
  <2>6. CASE ReadIssued(c) \/ ReadUnminted(c) \/ Admit(c) \/ GiveUp(c)
    BY <2>6, ReadingKeeps, AdmitKeeps
  <2> QED BY <1>1, <2>1, <2>2, <2>3, <2>4, <2>5, <2>6 DEF Serve
<1>2. ASSUME NEW s \in Rows, Issue(s)
      PROVE  RegisterInv'
  BY <1>2, IssueKeeps
<1>3. CASE UNCHANGED vars
  <2>1. \A d \in Clerks : ClerkSound(d)'
    BY <1>3 DEF vars, RegisterInv, ClerkSound
  <2> QED BY <1>3, <2>1 DEF vars, RegisterInv, RowsSound
<1> QED BY <1>1, <1>2, <1>3 DEF Next

-----------------------------------------------------------------------------
(* The theorems.                                                           *)

\* Rows, money sent back, shares on chain and what every clerk has read agree
\* as long as what writes without a lock is done by one clerk, or not at all.
THEOREM RegisterInvariant ==
    ASSUME Undisturbed
    PROVE  Spec => []RegisterInv
BY InitSound, RegisterKeeps, PTL DEF Spec

\* Rows hold what the schema allows.
THEOREM TypeCorrect ==
    ASSUME Undisturbed
    PROVE  Spec => []TypeOK
<1>1. RegisterInv => TypeOK
  BY DEF RegisterInv, TypeOK
<1> QED BY <1>1, RegisterInvariant, PTL

\* Shares on chain are paid for by money still held.
THEOREM PaidFor ==
    ASSUME Undisturbed
    PROVE  Spec => []SharesArePaid
<1>1. ASSUME RegisterInv, NEW s \in Rows, minted[s]
      PROVE  row[s].received - returned[s] >= Cost(row[s].allotted)
  <2>1. /\ row[s] \in Subscription /\ Sound(row[s], returned[s], minted[s])
        /\ returned[s] \in Money
    BY <1>1 DEF RegisterInv, RowsSound
  <2>2. /\ row[s].received \in Nat /\ returned[s] \in Nat /\ row[s].sent \in BOOLEAN
        /\ row[s].allotted \in Nat
    BY <2>1, Bounds, MoneyIs DEF Subscription
  <2>5. Cost(row[s].allotted) \in Nat
    BY <2>2, CostType
  <2>3. CASE row[s].request = "executed"
    <3>1. Cost(row[s].allotted) + returned[s] <= row[s].received
      BY <2>1, <2>3 DEF Sound
    <3> QED BY <2>2, <2>5, <3>1
  <2>4. CASE row[s].request = "executing"
    <3>1. Cost(row[s].allotted) <= row[s].received /\ returned[s] = 0
      BY <2>1, <2>2, <2>4 DEF Sound, RefundedTotal
    <3> QED BY <2>2, <2>5, <3>1
  <2> QED BY <1>1, <2>1, <2>3, <2>4 DEF Sound
<1>2. RegisterInv => SharesArePaid
  BY <1>1 DEF SharesArePaid
<1> QED BY <1>2, RegisterInvariant, PTL

\* A closed row has every cent back.
THEOREM ClosedHasNothing ==
    ASSUME Undisturbed
    PROVE  Spec => []ClosedIsEmpty
<1>1. RegisterInv => ClosedIsEmpty
  BY DEF RegisterInv, RowsSound, Sound, ClosedIsEmpty
<1> QED BY <1>1, RegisterInvariant, PTL

\* The recorded refunds are the money that went back.
THEOREM RefundsRecorded ==
    ASSUME Undisturbed
    PROVE  Spec => []RefundsAreRecorded
<1>1. RegisterInv => RefundsAreRecorded
  BY DEF RegisterInv, RowsSound, Sound, RefundsAreRecorded
<1> QED BY <1>1, RegisterInvariant, PTL

\* No more goes back to a subscriber than arrived.
THEOREM RefundsCovered ==
    ASSUME Undisturbed
    PROVE  Spec => []NeverOverRefunded
<1>1. ASSUME RegisterInv, NEW s \in Rows
      PROVE  returned[s] <= row[s].received
  <2>1. row[s] \in Subscription /\ Sound(row[s], returned[s], minted[s])
    BY <1>1 DEF RegisterInv, RowsSound
  <2>2. row[s].received \in Nat /\ row[s].refund \in Nat /\ row[s].sent \in BOOLEAN
    BY <2>1, MoneyIs DEF Subscription
  <2> QED BY <2>1, <2>2 DEF Sound, RefundedTotal
<1>2. RegisterInv => NeverOverRefunded
  BY <1>1 DEF NeverOverRefunded
<1> QED BY <1>2, RegisterInvariant, PTL

-----------------------------------------------------------------------------
(* The cap.  A batch is measured by a sum its clerk took before the rows   *)
(* were locked, so it must be the only clerk as well.                      *)

Orderly == Undisturbed /\ (OneClerk \/ "batch" \notin Work)

Promised == {s \in Rows : row[s].request \notin {"none", "rejected"}}

\* A batch is still what its clerk summed.
ChosenSound(c) ==
    clerk[c].pc \in {"chosen", "issued", "supply"} =>
        \/ /\ ~clerk[c].batch
           /\ \E s \in Rows : clerk[c].rows = {s}
        \/ /\ clerk[c].batch /\ "batch" \in Work
           /\ clerk[c].total = SharesOf(row, clerk[c].rows)
           /\ \A s \in clerk[c].rows : Allottable(row[s])

WithinCap == SharesOf(row, Promised) <= Cap

AllotmentInv == WithinCap /\ \A c \in Clerks : ChosenSound(c)

LEMMA CapIs == CapRespected <=> WithinCap
BY SharesIs DEF CapRespected, WithinCap, Promised

\* Fewer rows promise fewer shares.
LEMMA SharesOfFewer ==
    ASSUME NEW r, NEW S, NEW T, IsFiniteSet(S), T \subseteq S, Counts(r, S)
    PROVE  SharesOf(r, T) <= SharesOf(r, S)
<1>1. IsFiniteSet(T) /\ IsFiniteSet(S \ T) /\ Counts(r, T) /\ Counts(r, S \ T)
  BY FS_Subset DEF Counts
<1>2. T \cup (S \ T) = S /\ T \cap (S \ T) = {}
  OBVIOUS
<1>3. SharesOf(r, T \cup (S \ T)) = SharesOf(r, T) + SharesOf(r, S \ T)
  BY <1>1, <1>2, SharesOfBoth
<1>4. SharesOf(r, T) \in Nat /\ SharesOf(r, S \ T) \in Nat
  BY <1>1, SharesOfType
<1>5. SharesOf(r, S) = SharesOf(r, T) + SharesOf(r, S \ T)
  BY <1>2, <1>3, Zenon
<1> QED BY <1>4, <1>5

\* A step that promises no row and changes no promised row's shares.
LEMMA CapStays ==
    ASSUME RegisterInv, RegisterInv', WithinCap,
           \A s \in Rows : row'[s].request \notin {"none", "rejected"} =>
              row[s].request \notin {"none", "rejected"} /\ row'[s].allotted = row[s].allotted
    PROVE  WithinCap'
<1> DEFINE S == Promised
           T == {s \in Rows : row'[s].request \notin {"none", "rejected"}}
<1>1. IsFiniteSet(S) /\ IsFiniteSet(T) /\ T \subseteq S
  BY Bounds, FS_Subset DEF Promised
<1>2. \A s \in T : row'[s].allotted = row[s].allotted
  OBVIOUS
<1>3. Counts(row, S) /\ Counts(row, T) /\ Counts(row', T)
  BY <1>2, Bounds DEF RegisterInv, Counts, Subscription, Promised
<1>4. SharesOf(row, S) <= Cap
  BY DEF WithinCap
<1> HIDE DEF S, T
<1>5. SharesOf(row', T) = SharesOf(row, T)
  BY <1>1, <1>2, SharesOfSame
<1>6. SharesOf(row, T) <= SharesOf(row, S) /\ SharesOf(row, T) \in Nat /\ SharesOf(row, S) \in Nat
  BY <1>1, <1>3, SharesOfFewer, SharesOfType
<1>7. SharesOf(row', T) <= Cap
  BY <1>4, <1>5, <1>6, Bounds
<1>8. WithinCap' <=> SharesOf(row', T) <= Cap
  BY DEF WithinCap, Promised, T
<1> QED BY <1>7, <1>8

LEMMA ChosenStays ==
    ASSUME RegisterInv, NEW d \in Clerks, ChosenSound(d), clerk'[d] = clerk[d],
           clerk[d].batch /\ clerk[d].pc \in {"chosen", "issued", "supply"} =>
              \A s \in clerk[d].rows : row'[s] = row[s]
    PROVE  ChosenSound(d)'
<1>1. CASE clerk[d].batch /\ clerk[d].pc \in {"chosen", "issued", "supply"}
  <2>1. clerk[d].rows \subseteq Rows
    BY DEF RegisterInv, ClerkState
  <2>2. IsFiniteSet(clerk[d].rows)
    BY <2>1, Bounds, FS_Subset
  <2>3. \A s \in clerk[d].rows : row'[s].allotted = row[s].allotted
    BY <1>1
  <2>4. SharesOf(row, clerk[d].rows) = SharesOf(row', clerk[d].rows)
    BY <2>2, <2>3, SharesOfSame
  <2> QED BY <1>1, <2>4 DEF ChosenSound, Allottable
<1>2. CASE ~(clerk[d].batch /\ clerk[d].pc \in {"chosen", "issued", "supply"})
  BY <1>2 DEF ChosenSound
<1> QED BY <1>1, <1>2

\* A clerk with a batch in hand is the only one.
LEMMA BatchAlone ==
    ASSUME Orderly, NEW c \in Clerks, NEW d \in Clerks, ChosenSound(d),
           clerk[d].batch, clerk[d].pc \in {"chosen", "issued", "supply"}
    PROVE  d = c
BY DEF Orderly, OneClerk, ChosenSound

\* Another clerk's step, or one taken with no batch in hand.
LEMMA OthersStay ==
    ASSUME Orderly, RegisterInv, AllotmentInv, NEW c \in Clerks,
           \A d \in Clerks : d # c => clerk'[d] = clerk[d],
           ChosenSound(c)'
    PROVE  \A d \in Clerks : ChosenSound(d)'
<1> TAKE d \in Clerks
<1>1. CASE d = c
  BY <1>1
<1>2. CASE d # c
  <2>1. ChosenSound(d) /\ clerk'[d] = clerk[d]
    BY <1>2 DEF AllotmentInv
  <2>2. ~(clerk[d].batch /\ clerk[d].pc \in {"chosen", "issued", "supply"})
    BY <1>2, <2>1, BatchAlone
  <2> QED BY <2>1, <2>2, ChosenStays
<1> QED BY <1>1, <1>2

LEMMA ServeKeepsChosen ==
    ASSUME Orderly, RegisterInv, AllotmentInv, NEW c \in Clerks, Serve(c)
    PROVE  \A d \in Clerks : ChosenSound(d)'
<1> USE DEF Holds, Done
<1>0. clerk \in [Clerks -> ClerkState] /\ clerk[c] \in ClerkState /\ ChosenSound(c)
  BY DEF RegisterInv, AllotmentInv
<1>1. \A d \in Clerks : d # c => clerk'[d] = clerk[d]
  BY <1>0 DEF Serve, Load, Advance, Close, Pay, Refund, ScaleRead, ScaleWrite, Choose,
     ReadIssued, ReadUnminted, Admit, GiveUp
<1>2. ChosenSound(c)'
  <2>1. CASE clerk'[c].pc \notin {"chosen", "issued", "supply"}
    BY <2>1 DEF ChosenSound
  <2>2. ASSUME NEW S \in SUBSET Rows, Choose(c, S) PROVE ChosenSound(c)'
    <3>1. CASE /\ Cardinality(S) = 1
               /\ clerk' = [clerk EXCEPT ![c] = [Nothing EXCEPT !.pc = "chosen", !.rows = S]]
      <4>1. PICK s : S = {s}
        BY <3>1, Bounds, FS_Subset, FS_Singleton
      <4>2. ~clerk'[c].batch /\ clerk'[c].rows = {s} /\ s \in Rows
        BY <1>0, <3>1, <4>1 DEF Nothing
      <4> QED BY <4>2 DEF ChosenSound
    <3>2. CASE /\ Free(c, "batch")
               /\ \A s \in S : Allottable(row[s])
               /\ clerk' = [clerk EXCEPT ![c] = [Nothing EXCEPT !.pc = "chosen", !.rows = S,
                                !.batch = TRUE, !.total = Shares(S)]]
      <4>1. /\ clerk'[c].batch /\ clerk'[c].rows = S /\ clerk'[c].total = Shares(S)
            /\ "batch" \in Work /\ row' = row
        BY <1>0, <2>2, <3>2 DEF Nothing, Free, Choose
      <4>2. clerk'[c].total = SharesOf(row', clerk'[c].rows)
        BY <4>1, SharesIs
      <4> QED BY <3>2, <4>1, <4>2 DEF ChosenSound
    <3> QED BY <2>2, <3>1, <3>2 DEF Choose
  <2>3. ASSUME ReadIssued(c) \/ ReadUnminted(c) PROVE ChosenSound(c)'
    <3>1. /\ clerk[c].pc \in {"chosen", "issued"} /\ row' = row
          /\ clerk'[c].rows = clerk[c].rows /\ clerk'[c].batch = clerk[c].batch
          /\ clerk'[c].total = clerk[c].total
      BY <1>0, <2>3 DEF ReadIssued, ReadUnminted, ClerkState
    <3> QED BY <1>0, <3>1 DEF ChosenSound
  <2>4. CASE \/ \E s \in Rows : Load(c, s) \/ Advance(c, s)
             \/ ScaleRead(c) \/ ScaleWrite(c) \/ Admit(c) \/ GiveUp(c)
    <3>1. ASSUME NEW s \in Rows, Load(c, s) PROVE clerk'[c].pc = "intake"
      BY <1>0, <3>1 DEF Load, Nothing
    <3>2. ASSUME NEW s \in Rows, Advance(c, s) PROVE clerk'[c].pc \in {"intake", "idle"}
      <4>1. \/ clerk' = [clerk EXCEPT ![c] = [clerk[c] EXCEPT !.seen = "accepted"]]
            \/ clerk' = [clerk EXCEPT ![c] = Nothing]
        BY <3>2 DEF Advance
      <4>2. clerk[c].pc = "intake"
        BY <3>2 DEF Advance
      <4> QED BY <1>0, <4>1, <4>2 DEF ClerkState, Nothing
    <3>3. CASE ScaleRead(c)
      <4>1. \E cut : clerk' = [clerk EXCEPT ![c] = [Nothing EXCEPT !.pc = "scale", !.cut = cut]]
        BY <3>3 DEF ScaleRead
      <4> QED BY <1>0, <2>1, <4>1 DEF Nothing
    <3>4. CASE ScaleWrite(c) \/ Admit(c) \/ GiveUp(c)
      <4>1. clerk' = [clerk EXCEPT ![c] = Nothing]
        BY <3>4 DEF ScaleWrite, Admit, GiveUp
      <4> QED BY <1>0, <2>1, <4>1 DEF Nothing
    <3> QED BY <2>1, <2>4, <3>1, <3>2, <3>3, <3>4
  <2>5. CASE \/ \E s \in Rows : Close(c, s)
             \/ \E s \in Rows, received \in Payments : Pay(c, s, received)
             \/ \E s \in Rows : \E amount \in 1..Refundable(row[s]) : Refund(c, s, amount)
    <3>1. clerk[c].pc = "idle" /\ clerk' = clerk
      BY <2>5 DEF Close, Pay, Refund, Free
    <3> QED BY <2>1, <3>1
  <2> QED BY <2>2, <2>3, <2>4, <2>5 DEF Serve
<1> QED BY <1>1, <1>2, OthersStay

LEMMA IssueKeepsAllotment ==
    ASSUME RegisterInv, RegisterInv', AllotmentInv, NEW s \in Rows, Issue(s)
    PROVE  AllotmentInv'
<1>1. /\ row[s].request \notin {"none", "rejected"}
      /\ \A t \in Rows : t # s => row'[t] = row[t]
      /\ row'[s].allotted = row[s].allotted
      /\ clerk' = clerk
  BY DEF Issue, Claim, Mint, Executed, Failed, Retry, Issuance, RegisterInv, Subscription
<1>2. WithinCap'
  <2>1. \A t \in Rows : row'[t].request \notin {"none", "rejected"} =>
              row[t].request \notin {"none", "rejected"} /\ row'[t].allotted = row[t].allotted
    BY <1>1
  <2> QED BY <2>1, CapStays DEF AllotmentInv
<1>3. ASSUME NEW d \in Clerks PROVE ChosenSound(d)'
  <2>1. clerk[d].rows \subseteq Rows /\ ChosenSound(d) /\ clerk'[d] = clerk[d]
    BY <1>1 DEF RegisterInv, ClerkState, AllotmentInv
  <2>2. clerk[d].batch /\ clerk[d].pc \in {"chosen", "issued", "supply"} =>
              \A t \in clerk[d].rows : row'[t] = row[t]
    BY <1>1, <2>1 DEF ChosenSound, Allottable
  <2> QED BY <2>1, <2>2, ChosenStays
<1> QED BY <1>2, <1>3 DEF AllotmentInv

\* What is admitted fits the room that is left under the cap.
LEMMA AdmitFits ==
    ASSUME RegisterInv, RegisterInv', AllotmentInv, NEW c \in Clerks, Admit(c)
    PROVE  WithinCap'
<1> DEFINE S == clerk[c].rows
           P == Promised
<1>1. /\ clerk[c].pc = "supply" /\ clerk[c] \in ClerkState /\ S \subseteq Rows
      /\ ChosenSound(c)
      /\ \A s \in S : Allottable(row[s]) /\ row[s].allotted <= Room(c)
      /\ clerk[c].batch => clerk[c].total <= Room(c)
  BY DEF Admit, RegisterInv, ClerkState, AllotmentInv
<1>2. row' = [s \in Rows |-> IF s \in S THEN [row[s] EXCEPT !.request = "approved"] ELSE row[s]]
  BY DEF Admit
<1>3. \A s \in Rows : row[s] \in Subscription /\ Sound(row[s], returned[s], minted[s])
  BY DEF RegisterInv, RowsSound
<1>4. {s \in Rows : row[s].status \in {"paid", "allotted"} /\ row[s].request # "none"} = P
  BY <1>3 DEF Promised, Sound, Subscription, RequestStatuses
<1>5. CapRoom = Cap - SharesOf(row, P)
  BY <1>4, SharesIs DEF CapRoom, Committed
<1>6. Room(c) <= CapRoom /\ Room(c) \in Int
  <2>1. Issued \in Nat /\ Unminted \in Nat /\ CapRoom \in Int
    BY ReadingsType DEF RegisterInv
  <2>2. clerk[c].issued \in Nat /\ clerk[c].unminted \in Nat
    BY <1>1 DEF ClerkState
  <2>3. ChainRoom(c) \in Int
    BY <2>1, <2>2, Bounds, MaxOfTwo DEF ChainRoom
  <2> QED BY <2>1, <2>3, MinOfTwo DEF Room
<1>7. IsFiniteSet(S) /\ IsFiniteSet(P) /\ Counts(row, S) /\ Counts(row, P)
  <2>1. P \subseteq Rows
    BY DEF Promised
  <2> HIDE DEF P
  <2> QED BY <1>1, <1>3, <2>1, Bounds, FS_Subset DEF Counts, Subscription
<1>8. S \cap P = {}
  BY <1>1 DEF Promised, Allottable
<1>9. SharesOf(row, S) <= Room(c)
  <2>1. CASE clerk[c].batch
    BY <1>1, <2>1, SharesIs DEF ChosenSound
  <2>2. CASE ~clerk[c].batch
    <3>1. PICK s \in Rows : S = {s}
      BY <1>1, <2>2 DEF ChosenSound
    <3>2. s \in S /\ S \ {s} = {}
      BY <3>1
    <3>3. SharesOf(row, S) = row[s].allotted + SharesOf(row, {})
      BY <1>7, <3>2, SharesOfOne
    <3>4. row[s].allotted \in Nat
      BY <1>7, <3>2 DEF Counts
    <3> QED BY <1>1, <3>2, <3>3, <3>4, SharesOfNone
  <2> QED BY <2>1, <2>2
<1>10. {s \in Rows : row'[s].request \notin {"none", "rejected"}} = P \cup S
  BY <1>1, <1>2, <1>3 DEF Promised, Subscription
<1>11. \A s \in P \cup S : row[s].allotted = row'[s].allotted
  BY <1>1, <1>2, <1>3 DEF Promised, Subscription
<1> HIDE DEF S, P
<1>12. IsFiniteSet(P \cup S)
  BY <1>7, FS_Union
<1>13. SharesOf(row', P \cup S) = SharesOf(row, P \cup S)
  BY <1>11, <1>12, SharesOfSame
<1>14. SharesOf(row, P \cup S) = SharesOf(row, P) + SharesOf(row, S)
  BY <1>7, <1>8, SharesOfBoth
<1>15. SharesOf(row, P) \in Nat /\ SharesOf(row, S) \in Nat
  BY <1>7, SharesOfType
<1>16. SharesOf(row', P \cup S) <= Cap
  BY <1>5, <1>6, <1>9, <1>13, <1>14, <1>15, Bounds
<1>17. WithinCap' <=> SharesOf(row', P \cup S) <= Cap
  BY <1>10 DEF WithinCap, Promised
<1> QED BY <1>16, <1>17

LEMMA ServeKeepsCap ==
    ASSUME RegisterInv, RegisterInv', AllotmentInv, NEW c \in Clerks, Serve(c)
    PROVE  WithinCap'
<1>1. CASE Admit(c)
  BY <1>1, AdmitFits
<1>2. ASSUME NEW s \in Rows, NEW r, row' = [row EXCEPT ![s] = r],
             r.request \notin {"none", "rejected"} =>
                row[s].request \notin {"none", "rejected"} /\ r.allotted = row[s].allotted
      PROVE  WithinCap'
  <2>1. \A t \in Rows : row'[t] = IF t = s THEN r ELSE row[t]
    BY <1>2 DEF RegisterInv
  <2>2. \A t \in Rows : row'[t].request \notin {"none", "rejected"} =>
              row[t].request \notin {"none", "rejected"} /\ row'[t].allotted = row[t].allotted
    BY <1>2, <2>1
  <2> QED BY <2>2, CapStays DEF AllotmentInv
<1>3. ASSUME NEW s \in Rows, Advance(c, s) PROVE WithinCap'
  <2> DEFINE r == [row[s] EXCEPT !.status = FollowedBy[clerk[c].seen]]
  <2>1. row' = [row EXCEPT ![s] = r]
    BY <1>3 DEF Advance
  <2>2. r.request = row[s].request /\ r.allotted = row[s].allotted
    BY DEF RegisterInv, Subscription
  <2> HIDE DEF r
  <2> QED BY <1>2, <2>1, <2>2
<1>4. ASSUME NEW s \in Rows, Close(c, s) PROVE WithinCap'
  <2> DEFINE r == [row[s] EXCEPT !.status = "closed"]
  <2>1. row' = [row EXCEPT ![s] = r]
    BY <1>4 DEF Close
  <2>2. r.request = row[s].request /\ r.allotted = row[s].allotted
    BY DEF RegisterInv, Subscription
  <2> HIDE DEF r
  <2> QED BY <1>2, <2>1, <2>2
<1>5. ASSUME NEW s \in Rows, NEW received \in Payments, Pay(c, s, received) PROVE WithinCap'
  <2>1. row[s] \in Subscription /\ row[s].request \in {"none", "rejected"}
    BY <1>5 DEF Pay, Unclaimed, RegisterInv
  <2>2. /\ \A t \in Rows : t # s => row'[t] = row[t]
        /\ row'[s].request = row[s].request
    BY <1>5, <2>1 DEF Pay, RegisterInv, Subscription
  <2>3. \A t \in Rows : row'[t].request \notin {"none", "rejected"} =>
              row[t].request \notin {"none", "rejected"} /\ row'[t].allotted = row[t].allotted
    BY <2>1, <2>2
  <2> QED BY <2>3, CapStays DEF AllotmentInv
<1>6. ASSUME NEW s \in Rows, NEW amount \in 1..Refundable(row[s]), Refund(c, s, amount)
      PROVE  WithinCap'
  <2> DEFINE q == row[s]
             r == [q EXCEPT !.refund = Accumulated(q, amount),
                            !.sent = TRUE,
                            !.status = IF @ = "allotted" THEN @ ELSE "refunded",
                            !.request = IF @ \in {"approved", "failed"} THEN "rejected" ELSE @]
  <2>1. row' = [row EXCEPT ![s] = r]
    BY <1>6 DEF Refund
  <2>2. /\ r.request = (IF q.request \in {"approved", "failed"} THEN "rejected" ELSE q.request)
        /\ r.allotted = q.allotted
    BY DEF RegisterInv, Subscription
  <2> HIDE DEF r
  <2> QED BY <1>2, <2>1, <2>2
<1>7. CASE ScaleWrite(c)
  <2>1. \A s \in DOMAIN clerk[c].cut : row[s].request = "none"
    BY <1>7 DEF ScaleWrite, RegisterInv, ClerkSound, Fits
  <2>2. \A t \in Rows :
           /\ t \in DOMAIN clerk[c].cut => row'[t].request = row[t].request
           /\ t \notin DOMAIN clerk[c].cut => row'[t] = row[t]
    BY <1>7 DEF ScaleWrite, Cut, RegisterInv, Subscription
  <2>3. \A t \in Rows : row'[t].request \notin {"none", "rejected"} =>
              row[t].request \notin {"none", "rejected"} /\ row'[t].allotted = row[t].allotted
    BY <2>1, <2>2
  <2> QED BY <2>3, CapStays DEF AllotmentInv
<1>8. CASE row' = row
  BY <1>8, CapStays DEF AllotmentInv
<1>9. CASE \/ \E s \in Rows : Load(c, s)
           \/ ScaleRead(c) \/ \E S \in SUBSET Rows : Choose(c, S)
           \/ ReadIssued(c) \/ ReadUnminted(c) \/ GiveUp(c)
  BY <1>8, <1>9 DEF Load, ScaleRead, Choose, ReadIssued, ReadUnminted, GiveUp
<1> QED BY <1>1, <1>3, <1>4, <1>5, <1>6, <1>7, <1>9 DEF Serve

LEMMA InitAllots == Init => AllotmentInv
<1> SUFFICES ASSUME Init PROVE AllotmentInv
  OBVIOUS
<1>1. Promised = {}
  BY DEF Init, Promised
<1>2. WithinCap
  BY <1>1, SharesOfNone, Bounds DEF WithinCap
<1> QED BY <1>2 DEF Init, AllotmentInv, ChosenSound, Nothing

LEMMA AllotmentKeeps ==
    ASSUME Orderly, RegisterInv, RegisterInv', AllotmentInv, [Next]_vars
    PROVE  AllotmentInv'
<1>1. ASSUME NEW c \in Clerks, Serve(c) PROVE AllotmentInv'
  BY <1>1, ServeKeepsChosen, ServeKeepsCap DEF AllotmentInv
<1>2. ASSUME NEW s \in Rows, Issue(s) PROVE AllotmentInv'
  BY <1>2, IssueKeepsAllotment
<1>3. CASE UNCHANGED vars
  <2>1. row' = row /\ clerk' = clerk
    BY <1>3 DEF vars
  <2>2. WithinCap'
    BY <2>1, CapStays DEF AllotmentInv
  <2>3. \A d \in Clerks : ChosenSound(d)'
    BY <2>1, ChosenStays DEF AllotmentInv
  <2> QED BY <2>2, <2>3 DEF AllotmentInv
<1> QED BY <1>1, <1>2, <1>3 DEF Next

\* The shares promised, out, or open to a retry never exceed the cap, as long as
\* what writes without a lock, or is measured without one, is done by one clerk.
THEOREM CapHolds ==
    ASSUME Orderly
    PROVE  Spec => []CapRespected
<1>1. Undisturbed
  BY DEF Orderly
<1>2. Spec => []RegisterInv
  BY <1>1, RegisterInvariant
<1>3. Init => AllotmentInv
  BY InitAllots
<1>4. RegisterInv /\ RegisterInv' /\ AllotmentInv /\ [Next]_vars => AllotmentInv'
  BY AllotmentKeeps
<1>5. AllotmentInv => CapRespected
  BY CapIs DEF AllotmentInv
<1> QED BY <1>2, <1>3, <1>4, <1>5, PTL DEF Spec
=============================================================================
