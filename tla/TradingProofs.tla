---------------------------- MODULE TradingProofs ----------------------------
(***************************************************************************)
(* Proofs about Trading, for any orders, matches, workers, quantities and  *)
(* terms: the invariants its run checks, and that it keeps the promise of  *)
(* SettledOrReleased.                                                      *)
(***************************************************************************)
EXTENDS Trading, TLAPS

-----------------------------------------------------------------------------
(* The inductive invariant.                                                *)

\* What a match's row says of its execution, and what the chain has of it.
RowInv(s) ==
    /\ swap[s].status = "none" => swap[s] = NoSwap
    /\ swap[s].status # "none" =>
          swap[s].sell \in Sells /\ swap[s].buy \in Buys /\ swap[s].amount > 0
    /\ swap[s].status \in Unclaimed \cup {"none", "expired"} =>
          swap[s].tx = "none" /\ ~swap[s].hash /\ chain[s] = "none"
    /\ swap[s].status \in Unclaimed => swap[s].status = SignedBy(swap[s].signed)
    /\ swap[s].status = "executing" =>
          /\ swap[s].tx = IF swap[s].hash THEN "submitted" ELSE "pending"
          /\ swap[s].signed = {"seller", "buyer"}
    /\ swap[s].status = "completed" => swap[s].tx = "confirmed" /\ chain[s] = "success"
    /\ swap[s].status = "failed" =>
          \/ swap[s].tx = "failed" /\ ~swap[s].hash /\ chain[s] = "none"
          \/ swap[s].tx = "reverted" /\ chain[s] = "reverted"
    /\ swap[s].hash => chain[s] # "none"

Executing == {"prepare", "admit", "send", "sent"}

\* What a worker's session may rely on, whatever others did since it last held a lock.
Holds(r) ==
    LET s == r.swap
    IN  /\ r.pc # "idle" => s \in Swaps /\ swap[s].status # "none"
        /\ r.pc \in Executing =>
              /\ swap[s].status = "executing" /\ ~swap[s].hash
              /\ chain[s] = "none" <=> r.pc # "sent"
        /\ r.pc \in {"receipt", "answered"} => r.hash /\ swap[s].hash
        /\ r.pc \notin {"receipt", "answered"} => ~r.hash
        /\ r.pc = "answered" => Mined(s) /\ r.answer = chain[s]

SessionInv(w) == Holds(session[w])

\* A match is claimed once: one worker at most can send its execution.
OneExecutor ==
    \A v, w \in Workers : 
        session[v].pc \in Executing /\ session[w].pc \in Executing /\ session[v].swap = session[w].swap
            => v = w

OrderInv(o) ==
    /\ order[o].filled <= order[o].quantity
    /\ order[o].status = "unborn" => order[o].filled = 0 /\ order[o].quantity = 0

Reserved(s) == IF chain[s] = "success" THEN 0 ELSE swap[s].amount

\* What each order has filled is what moved and what its live match reserves.
BookInv ==
    /\ \A o \in Orders : ~HasPendingSwap(o) => order[o].filled = moved[o]
    /\ \A s \in Swaps : swap[s].status \in Active =>
          \A o \in Parties(s) : order[o].filled = moved[o] + Reserved(s)

MarketInv ==
    /\ TypeOK
    /\ \A s \in Swaps : RowInv(s)
    /\ \A w \in Workers : SessionInv(w)
    /\ OneExecutor
    /\ \A o \in Orders : OrderInv(o)
    /\ BookInv
    /\ MatchesHoldOrders
    /\ TermsStand

-----------------------------------------------------------------------------
(* Types.                                                                  *)

LEMMA Bounds ==
    MaxQuantity \in Nat /\ MaxQuantity > 0 /\ Sells \cap Buys = {} /\ None \notin Orders
BY TradingAssumption

LEMMA PricesAreNaturals == \A p \in Prices \cup {0} : p \in Nat
BY TradingAssumption DEF Prices

\* What an order's owner may sign is a minimum fill and a price of the right kind.
LEMMA TermsType ==
    ASSUME NEW o \in Orders, NEW terms \in Terms[o]
    PROVE  terms.minimum \in 0..MaxQuantity /\ terms.price \in Prices
BY TradingAssumption DEF Prices

LEMMA RowType ==
    ASSUME TypeOK, NEW s \in Swaps
    PROVE  /\ swap[s] \in SwapOrder
           /\ swap[s].amount \in Nat /\ swap[s].price \in Nat
<1>1. swap[s] \in SwapOrder
  BY DEF TypeOK
<1>2. swap[s].amount \in 0..MaxQuantity /\ swap[s].price \in Prices \cup {0}
  BY <1>1 DEF SwapOrder
<1> QED BY <1>1, <1>2, PricesAreNaturals, Bounds

LEMMA OrderType ==
    ASSUME TypeOK, NEW o \in Orders
    PROVE  /\ order[o] \in TransferOrder
           /\ order[o].quantity \in Nat /\ order[o].filled \in Nat
           /\ order[o].minimum \in Nat /\ order[o].price \in Nat
           /\ moved[o] \in Nat
<1>1. order[o] \in TransferOrder /\ moved[o] \in 0..MaxQuantity
  BY DEF TypeOK
<1>2. /\ order[o].quantity \in 0..MaxQuantity /\ order[o].filled \in 0..MaxQuantity
      /\ order[o].minimum \in 0..MaxQuantity /\ order[o].price \in Prices \cup {0}
  BY <1>1 DEF TransferOrder
<1> QED BY <1>1, <1>2, PricesAreNaturals, Bounds

\* The parties of a match are a seller and a buyer.
LEMMA PartiesAreOrders ==
    ASSUME MarketInv, NEW s \in Swaps, swap[s].status # "none"
    PROVE  /\ swap[s].sell \in Sells /\ swap[s].buy \in Buys
           /\ Parties(s) \subseteq Orders /\ swap[s].sell # swap[s].buy
BY Bounds DEF MarketInv, RowInv, Parties, Orders

\* Another signature leaves the status that the signatures say.
LEMMA SignedByType ==
    ASSUME NEW signed \in SUBSET {"seller", "buyer"}
    PROVE  SignedBy(signed) \in Unclaimed
BY DEF SignedBy, Unclaimed

-----------------------------------------------------------------------------
(* The book: orders are placed, cancelled, modified and matched.           *)

\* What two orders trade is no more than is left of either.
LEMMA FillIsLeft ==
    ASSUME NEW o \in Orders, NEW p \in Orders, NEW book \in [Orders -> TransferOrder]
    PROVE  /\ Fill(o, p, book) \in Int
           /\ book[o].filled + Fill(o, p, book) <= book[o].quantity
           /\ book[p].filled + Fill(o, p, book) <= book[p].quantity
<1>1. /\ book[o].quantity \in Int /\ book[o].filled \in Int
      /\ book[p].quantity \in Int /\ book[p].filled \in Int
  BY Bounds DEF TransferOrder
<1> QED BY <1>1 DEF Fill, Smaller, Left

\* What matching two orders of a book writes.
Reserves(s, sell, buy, amount, book) ==
    /\ amount \in 1..MaxQuantity /\ swap[s].status = "none"
    /\ book[sell].price <= book[buy].price
    /\ book[sell].minimum <= amount /\ book[buy].minimum <= amount
    /\ swap' = [swap EXCEPT ![s] = swap'[s]]
    /\ swap'[s] \in SwapOrder
    /\ swap'[s].status = "created" /\ swap'[s].sell = sell /\ swap'[s].buy = buy
    /\ swap'[s].amount = amount /\ swap'[s].price = book[sell].price
    /\ swap'[s].signed = {} /\ swap'[s].tx = "none" /\ ~swap'[s].hash
    /\ order' \in [Orders -> TransferOrder]
    /\ \A o \in Orders \ {sell, buy} : order'[o] = book[o]
    /\ \A o \in {sell, buy} :
          /\ order'[o].status = "pending_signature"
          /\ order'[o].filled = book[o].filled + amount
          /\ order'[o].quantity = book[o].quantity /\ order'[o].price = book[o].price
          /\ order'[o].minimum = book[o].minimum
    /\ order'[sell].matched = buy /\ order'[buy].matched = sell

\* A match of two orders nothing holds reserves what it says on both, and
\* leaves every other order and match alone.
LEMMA MatchReserves ==
    ASSUME TypeOK, NEW s \in Swaps, NEW sell \in Sells, NEW buy \in Buys,
           NEW book \in [Orders -> TransferOrder], Match(s, sell, buy, book)
    PROVE  Reserves(s, sell, buy, Fill(sell, buy, book), book)
<1> DEFINE amount == Fill(sell, buy, book)
           row == [status |-> "created", sell |-> sell, buy |-> buy, amount |-> amount,
                   price |-> book[sell].price, signed |-> {}, tx |-> "none", hash |-> FALSE]
           Held(o, other) == [book[o] EXCEPT !.filled = @ + amount, !.matched = other,
                                              !.status = "pending_signature"]
<1>0. sell \in Orders /\ buy \in Orders /\ sell # buy
  BY Bounds DEF Orders
<1>1. /\ amount \in Int
      /\ book[sell].filled + amount <= book[sell].quantity
      /\ book[buy].filled + amount <= book[buy].quantity
  BY <1>0, FillIsLeft
<1>2. \A o \in {sell, buy} :
         /\ book[o] \in TransferOrder
         /\ book[o].filled \in 0..MaxQuantity /\ book[o].quantity \in 0..MaxQuantity
         /\ book[o].price \in Prices \cup {0}
  BY <1>0 DEF TransferOrder
<1>3. /\ amount > 0 /\ swap[s].status = "none"
      /\ book[sell].price <= book[buy].price
      /\ book[sell].minimum <= amount /\ book[buy].minimum <= amount
      /\ swap' = [swap EXCEPT ![s] = row]
      /\ order' = [book EXCEPT ![sell] = Held(sell, buy), ![buy] = Held(buy, sell)]
  <2>1. book[buy].price \in Nat /\ book[sell].price \in Nat
    BY <1>2, PricesAreNaturals
  <2>2. book[buy].minimum \in Int /\ book[sell].minimum \in Int
    BY <1>2, Bounds DEF TransferOrder
  <2> HIDE DEF amount
  <2> QED BY <1>1, <2>1, <2>2 DEF Match, Compatible, amount
<1>4. amount \in 1..MaxQuantity
  BY <1>0, <1>1, <1>2, <1>3, Bounds
<1> HIDE DEF amount
<1>5. row \in SwapOrder
  BY <1>2, <1>4, Bounds DEF SwapOrder, SwapStatuses, Active, Unclaimed, TxStatuses
<1>6. swap'[s] = row
  BY <1>3 DEF TypeOK
<1>7. ASSUME NEW o \in {sell, buy}, NEW p \in Orders
      PROVE  /\ Held(o, p) \in TransferOrder
             /\ Held(o, p).status = "pending_signature"
             /\ Held(o, p).filled = book[o].filled + amount
             /\ Held(o, p).quantity = book[o].quantity /\ Held(o, p).price = book[o].price
             /\ Held(o, p).minimum = book[o].minimum /\ Held(o, p).matched = p
  <2>1. book[o].filled + amount \in 0..MaxQuantity
    BY <1>0, <1>1, <1>2, <1>4, Bounds
  <2> QED BY <1>2, <2>1 DEF TransferOrder, OrderStatuses
<1>8. /\ order'[sell] = Held(sell, buy) /\ order'[buy] = Held(buy, sell)
      /\ \A o \in Orders \ {sell, buy} : order'[o] = book[o]
  BY <1>0, <1>3
<1>9. order' \in [Orders -> TransferOrder]
  <2> HIDE DEF Held
  <2> QED BY <1>0, <1>3, <1>7
<1>10. \A o \in {sell, buy} :
         /\ order'[o].status = "pending_signature"
         /\ order'[o].filled = book[o].filled + amount
         /\ order'[o].quantity = book[o].quantity /\ order'[o].price = book[o].price
         /\ order'[o].minimum = book[o].minimum
  <2> HIDE DEF Held
  <2> QED BY <1>0, <1>7, <1>8
<1>11. order'[sell].matched = buy /\ order'[buy].matched = sell
  <2> HIDE DEF Held
  <2> QED BY <1>0, <1>7, <1>8
<1>12. /\ swap'[s].status = "created" /\ swap'[s].sell = sell /\ swap'[s].buy = buy
       /\ swap'[s].amount = amount /\ swap'[s].price = book[sell].price
       /\ swap'[s].signed = {} /\ swap'[s].tx = "none" /\ ~swap'[s].hash
  BY <1>6
<1>13. swap'[s] \in SwapOrder /\ swap' = [swap EXCEPT ![s] = swap'[s]]
  <2> HIDE DEF row
  <2> QED BY <1>3, <1>5, <1>6
<1> HIDE DEF row
<1> QED BY <1>3, <1>4, <1>8, <1>9, <1>10, <1>11, <1>12, <1>13, Zenon DEF amount, Reserves

\* An order nothing holds, with no more filled than asked and all of it moved.
Unheld(o, book) ==
    /\ book[o].filled <= book[o].quantity /\ book[o].filled = moved[o]
    /\ ~HasPendingSwap(o)

LEMMA InBookIsUnheld ==
    ASSUME MarketInv, NEW o \in Orders, order[o].status # "pending_signature"
    PROVE  Unheld(o, order)
BY DEF MarketInv, OrderInv, BookInv, MatchesHoldOrders, HoldsItsOrders, HasPendingSwap, Unheld

\* A match newly made: shares of both orders set aside, each order's quantity
\* as it was unless the order is new.
SetsAside(s) ==
    /\ swap[s] = NoSwap /\ chain[s] = "none"
    /\ swap'[s].status = "created" /\ Parties(s)' \subseteq Orders /\ swap'[s].amount > 0
    /\ swap' = [swap EXCEPT ![s] = swap'[s]]
    /\ \A o \in Orders :
          /\ order'[o].filled = order[o].filled + IF o \in Parties(s)' THEN swap'[s].amount ELSE 0
          /\ order'[o].quantity = order[o].quantity \/ order[o].quantity = 0
    /\ UNCHANGED <<chain, moved>>

LEMMA MatchKeeps ==
    ASSUME MarketInv, NEW s \in Swaps, NEW sell \in Sells, NEW buy \in Buys,
           NEW book \in [Orders -> TransferOrder],
           \A o \in {sell, buy} : Unheld(o, book),
           \A o \in Orders \ {sell, buy} : book[o] = order[o],
           \A o \in {sell, buy} : /\ book[o].filled = order[o].filled
                                  /\ book[o].quantity = order[o].quantity \/ order[o].quantity = 0,
           Match(s, sell, buy, book), UNCHANGED <<late, chain, moved, session>>
    PROVE  MarketInv' /\ SetsAside(s)
<1> DEFINE amount == Fill(sell, buy, book)
<1>0. TypeOK /\ sell \in Orders /\ buy \in Orders /\ sell # buy
  BY Bounds DEF MarketInv, Orders
<1>1. Reserves(s, sell, buy, amount, book)
  BY <1>0, MatchReserves
<1>2. /\ book[sell].filled + amount <= book[sell].quantity
      /\ book[buy].filled + amount <= book[buy].quantity
  BY <1>0, FillIsLeft
<1> HIDE DEF amount
<1> USE DEF Reserves
<1>3. \A t \in Swaps \ {s} : swap'[t] = swap[t]
  BY <1>0, <1>1 DEF TypeOK
<1>4. chain[s] = "none" /\ swap[s].status \notin Active
  BY <1>1 DEF MarketInv, RowInv, Active, Unclaimed
<1>5. \A o \in {sell, buy} : \A t \in Swaps : swap[t].status \in Active => o \notin Parties(t)
  BY DEF Unheld, HasPendingSwap
<1>6. \A o \in Orders \ {sell, buy} : order'[o] = order[o]
  BY <1>1
<1>7. \A t \in Swaps \ {s} : Parties(t)' = Parties(t)
  BY <1>3 DEF Parties
<1>8. Parties(s)' = {sell, buy} /\ swap'[s].status \in Active
  BY <1>1 DEF Parties, Active, Unclaimed
<1>a. TypeOK'
  <2>1. swap' \in [Swaps -> SwapOrder]
    BY <1>0, <1>1, <1>3 DEF TypeOK
  <2> QED BY <1>0, <1>1, <2>1 DEF TypeOK
<1>b. \A t \in Swaps : RowInv(t)'
  <2>1. ASSUME NEW t \in Swaps \ {s} PROVE RowInv(t)'
    BY <1>3 DEF MarketInv, RowInv
  <2>2. RowInv(s)'
    BY <1>1, <1>4 DEF RowInv, Unclaimed, SignedBy
  <2> QED BY <2>1, <2>2
<1>c. \A w \in Workers : SessionInv(w)'
  <2> SUFFICES ASSUME NEW w \in Workers PROVE SessionInv(w)'
    OBVIOUS
  <2>1. session'[w] = session[w] /\ chain' = chain
    OBVIOUS
  <2>2. CASE session[w].pc = "idle"
    BY <2>1, <2>2 DEF MarketInv, SessionInv, Holds, Executing
  <2>3. CASE session[w].pc # "idle"
    <3>1. session[w].swap \in Swaps \ {s}
      BY <1>1, <2>3 DEF MarketInv, SessionInv, Holds
    <3> QED BY <2>1, <1>3, <3>1 DEF MarketInv, SessionInv, Holds, Mined
  <2> QED BY <2>2, <2>3
<1>d. OneExecutor'
  BY DEF MarketInv, OneExecutor
<1>e. \A o \in Orders : OrderInv(o)'
  <2>1. ASSUME NEW o \in Orders \ {sell, buy} PROVE OrderInv(o)'
    BY <1>6 DEF MarketInv, OrderInv
  <2>2. ASSUME NEW o \in {sell, buy} PROVE OrderInv(o)'
    BY <1>1, <1>2, <2>2 DEF OrderInv
  <2> QED BY <2>1, <2>2
<1>f. BookInv'
  <2>1. ASSUME NEW o \in Orders, ~HasPendingSwap(o)' PROVE order'[o].filled = moved'[o]
    <3>1. o \notin {sell, buy}
      BY <1>8, <2>1 DEF HasPendingSwap
    <3>2. ~HasPendingSwap(o)
      BY <1>3, <1>4, <1>7, <2>1 DEF HasPendingSwap
    <3> QED BY <1>6, <3>1, <3>2 DEF MarketInv, BookInv
  <2>2. ASSUME NEW t \in Swaps, swap'[t].status \in Active, NEW o \in Parties(t)'
        PROVE  order'[o].filled = moved'[o] + Reserved(t)'
    <3>1. CASE t = s
      <4>1. o \in {sell, buy} /\ Reserved(t)' = amount
        BY <1>1, <1>4, <1>8, <3>1, <2>2 DEF Reserved
      <4> QED BY <1>1, <4>1 DEF Unheld
    <3>2. CASE t # s
      <4>1. swap[t].status \in Active /\ o \in Parties(t) /\ Reserved(t)' = Reserved(t)
        BY <1>3, <1>7, <2>2, <3>2 DEF Reserved
      <4>2. o \in Orders \ {sell, buy}
        BY <1>5, <4>1, PartiesAreOrders DEF Active, Unclaimed
      <4> QED BY <1>6, <4>1, <4>2 DEF MarketInv, BookInv
    <3> QED BY <3>1, <3>2
  <2> QED BY <2>1, <2>2 DEF BookInv
<1>g. MatchesHoldOrders'
  <2>1. ASSUME NEW t \in Swaps, swap'[t].status \in Active PROVE HoldsItsOrders(t)'
    <3>1. CASE t = s
      <4>1. \A o \in {sell, buy} : order'[o].filled >= amount
        <5>1. moved[sell] \in Nat /\ moved[buy] \in Nat
          BY <1>0, OrderType
        <5> QED BY <1>1, <5>1 DEF Unheld
      <4>2. \A u \in Swaps \ {s} : swap'[u].status \in Active => Parties(s)' \cap Parties(u)' = {}
        BY <1>3, <1>5, <1>7, <1>8
      <4> QED BY <1>1, <1>8, <3>1, <4>1, <4>2 DEF HoldsItsOrders
    <3>2. CASE t # s
      <4>1. swap'[t] = swap[t] /\ swap[t].status \in Active /\ HoldsItsOrders(t)
        BY <1>3, <2>1, <3>2 DEF MarketInv, MatchesHoldOrders
      <4>2. Parties(t)' = Parties(t) /\ Parties(t) \subseteq Orders \ {sell, buy}
        BY <1>5, <1>7, <3>2, <4>1, PartiesAreOrders DEF Active, Unclaimed
      <4>3. \A o \in Parties(t) : order'[o] = order[o]
        BY <1>6, <4>2
      <4>4. swap[t].sell \in Parties(t) /\ swap[t].buy \in Parties(t)
        BY DEF Parties
      <4>5. \A u \in Swaps \ {t} : swap'[u].status \in Active => Parties(t)' \cap Parties(u)' = {}
        BY <1>3, <1>7, <1>8, <3>2, <4>1, <4>2 DEF HoldsItsOrders
      <4> QED BY <4>1, <4>2, <4>3, <4>4, <4>5 DEF HoldsItsOrders
    <3> QED BY <3>1, <3>2
  <2>2. ASSUME NEW o \in Orders, order'[o].status = "pending_signature"
        PROVE  HasPendingSwap(o)'
    <3>1. CASE o \in {sell, buy}
      BY <1>8, <3>1 DEF HasPendingSwap
    <3>2. CASE o \notin {sell, buy}
      <4>1. PICK t \in Swaps : swap[t].status \in Active /\ o \in Parties(t)
        BY <1>6, <2>2, <3>2 DEF MarketInv, MatchesHoldOrders, HasPendingSwap
      <4> QED BY <1>3, <1>4, <1>7, <4>1 DEF HasPendingSwap
    <3> QED BY <3>1, <3>2
  <2> QED BY <2>1, <2>2 DEF MatchesHoldOrders
<1>h. TermsStand'
  <2> SUFFICES ASSUME NEW t \in Swaps, swap'[t].status \in Active
               PROVE  /\ order'[swap'[t].sell].price <= swap'[t].price
                      /\ swap'[t].price <= order'[swap'[t].buy].price
                      /\ \A o \in Parties(t)' : /\ order'[o].minimum <= swap'[t].amount
                                                /\ order'[o].filled <= order'[o].quantity
    BY DEF TermsStand
  <2>1. CASE t = s
    <3>1. book[sell].price \in Nat
      BY <1>0, PricesAreNaturals DEF TransferOrder
    <3> QED BY <1>1, <1>2, <1>8, <2>1, <3>1
  <2>2. CASE t # s
    <3>1. swap'[t] = swap[t] /\ swap[t].status \in Active
      BY <1>3, <2>2
    <3>2. Parties(t)' = Parties(t) /\ Parties(t) \subseteq Orders \ {sell, buy}
      BY <1>5, <1>7, <2>2, <3>1, PartiesAreOrders DEF Active, Unclaimed
    <3>3. \A o \in Parties(t) : order'[o] = order[o]
      BY <1>6, <3>2
    <3>4. swap[t].sell \in Parties(t) /\ swap[t].buy \in Parties(t)
      BY DEF Parties
    <3> QED BY <3>1, <3>2, <3>3, <3>4 DEF MarketInv, TermsStand
  <2> QED BY <2>1, <2>2
<1>i. SetsAside(s)
  <2>1. swap[s] = NoSwap /\ amount > 0
    BY <1>1 DEF MarketInv, RowInv
  <2>2. ASSUME NEW o \in Orders \ {sell, buy}
        PROVE  order'[o].filled = order[o].filled + 0 /\ order'[o].quantity = order[o].quantity
    BY <1>0, <1>6, OrderType
  <2>3. ASSUME NEW o \in {sell, buy}
        PROVE  /\ order'[o].filled = order[o].filled + amount
               /\ order'[o].quantity = order[o].quantity \/ order[o].quantity = 0
    BY <1>1
  <2> QED BY <1>0, <1>1, <1>4, <1>8, <2>1, <2>2, <2>3 DEF SetsAside
<1> QED BY <1>a, <1>b, <1>c, <1>d, <1>e, <1>f, <1>g, <1>h, <1>i DEF MarketInv

\* An order whose quantity its owner states, or leaves, covering what is filled.
Restates(o) ==
    /\ order'[o].quantity >= order[o].filled /\ order'[o].filled = order[o].filled
    /\ \A p \in Orders \ {o} : order'[p] = order[p]
    /\ UNCHANGED <<swap, chain, moved>>

\* Placing, changing or cancelling an order no match holds disturbs no match.
LEMMA OrderKeeps ==
    ASSUME MarketInv, NEW o \in Orders, order[o].status # "pending_signature", NEW r \in TransferOrder,
           order' = [order EXCEPT ![o] = r],
           r.filled = order[o].filled, r.filled <= r.quantity,
           r.status \in {"open", "partially_filled", "cancelled"},
           UNCHANGED <<swap, late, chain, moved, session>>
    PROVE  MarketInv' /\ Restates(o)
<1>0. TypeOK
  BY DEF MarketInv
<1>1. order'[o] = r /\ \A p \in Orders \ {o} : order'[p] = order[p]
  BY <1>0 DEF TypeOK
<1>2. \A t \in Swaps : swap[t].status \in Active =>
         /\ o \notin Parties(t) /\ Parties(t) \subseteq Orders
         /\ swap[t].sell \in Parties(t) /\ swap[t].buy \in Parties(t)
  <2> SUFFICES ASSUME NEW t \in Swaps, swap[t].status \in Active
               PROVE  /\ o \notin Parties(t) /\ Parties(t) \subseteq Orders
                      /\ swap[t].sell \in Parties(t) /\ swap[t].buy \in Parties(t)
    OBVIOUS
  <2>1. Parties(t) \subseteq Orders
    BY PartiesAreOrders DEF Active, Unclaimed
  <2>2. o \notin Parties(t)
    BY <1>0 DEF MarketInv, MatchesHoldOrders, HoldsItsOrders
  <2> QED BY <2>1, <2>2 DEF Parties
<1>3. \A t \in Swaps : Parties(t)' = Parties(t) /\ Reserved(t)' = Reserved(t)
  BY DEF Parties, Reserved
<1>4. \A p \in Orders : HasPendingSwap(p)' <=> HasPendingSwap(p)
  BY <1>3 DEF HasPendingSwap
<1>a. TypeOK'
  BY <1>0 DEF TypeOK
<1>b. \A t \in Swaps : RowInv(t)'
  BY DEF MarketInv, RowInv
<1>c. \A w \in Workers : SessionInv(w)'
  BY DEF MarketInv, SessionInv, Holds, Mined
<1>d. OneExecutor'
  BY DEF MarketInv, OneExecutor
<1>e. \A p \in Orders : OrderInv(p)'
  BY <1>1 DEF MarketInv, OrderInv
<1>f. BookInv'
  <2>1. \A p \in Orders : order'[p].filled = order[p].filled
    BY <1>1
  <2>2. \A p \in Orders : ~HasPendingSwap(p)' => order'[p].filled = moved'[p]
    BY <1>4, <2>1 DEF MarketInv, BookInv
  <2>3. ASSUME NEW t \in Swaps, swap'[t].status \in Active, NEW p \in Parties(t)'
        PROVE  order'[p].filled = moved'[p] + Reserved(t)'
    BY <1>2, <1>3, <2>1, <2>3 DEF MarketInv, BookInv
  <2> QED BY <2>2, <2>3 DEF BookInv
<1>g. MatchesHoldOrders'
  <2>1. ASSUME NEW t \in Swaps, swap'[t].status \in Active PROVE HoldsItsOrders(t)'
    BY <1>1, <1>2, <1>3, <2>1 DEF MarketInv, MatchesHoldOrders, HoldsItsOrders
  <2>2. ASSUME NEW p \in Orders, order'[p].status = "pending_signature"
        PROVE  HasPendingSwap(p)'
    BY <1>1, <1>4, <2>2 DEF MarketInv, MatchesHoldOrders
  <2> QED BY <2>1, <2>2 DEF MatchesHoldOrders
<1>h. TermsStand'
  BY <1>1, <1>2, <1>3 DEF MarketInv, TermsStand
<1>i. Restates(o)
  <2>1. r.filled \in Nat /\ r.quantity \in Nat
    BY Bounds DEF TransferOrder
  <2> QED BY <1>1, <2>1 DEF Restates
<1> QED BY <1>a, <1>b, <1>c, <1>d, <1>e, <1>f, <1>g, <1>h, <1>i DEF MarketInv

\* Every step an owner takes on an order keeps the invariant.
LEMMA OwnerKeeps ==
    ASSUME MarketInv, NEW o \in Orders, Owner(o)
    PROVE  MarketInv' /\ (Restates(o) \/ \E t \in Swaps : SetsAside(t))
<1>0. TypeOK /\ order[o] \in TransferOrder
  BY OrderType DEF MarketInv
<1>1. ASSUME NEW q \in 1..MaxQuantity, NEW terms \in Terms[o], CreateOrder(o, q, terms)
      PROVE  MarketInv' /\ (Restates(o) \/ \E t \in Swaps : SetsAside(t))
  <2> DEFINE r == [Unborn EXCEPT !.status = "open", !.quantity = q,
                                 !.minimum = terms.minimum, !.price = terms.price]
             book == [order EXCEPT ![o] = r]
  <2>1. /\ r \in TransferOrder /\ r.filled = 0 /\ r.quantity = q
        /\ r.status = "open"
    <3>1. /\ terms.minimum \in 0..MaxQuantity /\ terms.price \in Prices \cup {0}
          /\ q \in 0..MaxQuantity /\ 0 \in 0..MaxQuantity
      BY TermsType, Bounds
    <3>2. Unborn \in TransferOrder /\ Unborn.filled = 0
      BY <3>1 DEF Unborn, TransferOrder, OrderStatuses
    <3> QED BY <3>1, <3>2 DEF TransferOrder, OrderStatuses
  <2>2. /\ order[o].status = "unborn"
        /\ \/ order' = book /\ UNCHANGED swap
           \/ \E s \in Swaps, p \in {p \in Orders : InBook(p)} :
                 \/ o \in Sells /\ p \in Buys /\ Match(s, o, p, book)
                 \/ o \in Buys /\ p \in Sells /\ Match(s, p, o, book)
        /\ UNCHANGED <<late, chain, moved, session>>
    BY <1>1 DEF CreateOrder
  <2> HIDE DEF r
  <2>3. /\ book \in [Orders -> TransferOrder] /\ book[o] = r
        /\ \A p \in Orders \ {o} : book[p] = order[p]
    BY <1>0, <2>1 DEF TypeOK
  <2>4. Unheld(o, order) /\ order[o].filled = 0
    BY <2>2, InBookIsUnheld DEF MarketInv, OrderInv
  <2>5. Unheld(o, book) /\ \A p \in Orders : InBook(p) => Unheld(p, order) /\ p # o
    BY <2>1, <2>2, <2>3, <2>4, InBookIsUnheld DEF Unheld, InBook
  <2>6. \A p \in Orders : InBook(p) => Unheld(p, book)
    BY <2>3, <2>5 DEF Unheld
  <2>b. \A p \in Orders : /\ book[p].filled = order[p].filled
                          /\ book[p].quantity = order[p].quantity \/ order[p].quantity = 0
    BY <2>1, <2>2, <2>3, <2>4 DEF MarketInv, OrderInv
  <2>7. CASE order' = book /\ UNCHANGED swap
    <3>1. /\ order[o].status # "pending_signature"
          /\ r.filled = order[o].filled /\ r.filled <= r.quantity
          /\ r.status \in {"open", "partially_filled", "cancelled"}
      BY <2>1, <2>2, <2>4
    <3>2. order' = [order EXCEPT ![o] = r] /\ UNCHANGED <<swap, late, chain, moved, session>>
      BY <2>2, <2>7
    <3> QED BY <2>1, <3>1, <3>2, OrderKeeps
  <2>8. ASSUME NEW s \in Swaps, NEW p \in Orders, InBook(p),
               \/ o \in Sells /\ p \in Buys /\ Match(s, o, p, book)
               \/ o \in Buys /\ p \in Sells /\ Match(s, p, o, book)
        PROVE  MarketInv' /\ (Restates(o) \/ \E t \in Swaps : SetsAside(t))
    <3> HIDE DEF book
    <3>1. CASE o \in Sells /\ p \in Buys /\ Match(s, o, p, book)
      BY <2>2, <2>3, <2>5, <2>6, <2>8, <2>b, <3>1, MatchKeeps
    <3>2. CASE o \in Buys /\ p \in Sells /\ Match(s, p, o, book)
      BY <2>2, <2>3, <2>5, <2>6, <2>8, <2>b, <3>2, MatchKeeps
    <3> QED BY <2>8, <3>1, <3>2
  <2> QED BY <2>2, <2>7, <2>8
<1>2. ASSUME NEW q \in 1..MaxQuantity, NEW terms \in Terms[o], ModifyOrder(o, q, terms)
      PROVE  MarketInv' /\ (Restates(o) \/ \E t \in Swaps : SetsAside(t))
  <2> DEFINE r == [order[o] EXCEPT !.quantity = q, !.minimum = terms.minimum,
                                   !.price = terms.price]
  <2>1. /\ InBook(o) /\ order' = [order EXCEPT ![o] = r]
        /\ UNCHANGED <<swap, late, chain, moved, session>> /\ q > order[o].filled
    BY <1>0, <1>2 DEF ModifyOrder, TypeOK
  <2>2. r \in TransferOrder /\ r.filled = order[o].filled /\ r.quantity = q
        /\ r.status = order[o].status
    <3>1. /\ terms.minimum \in 0..MaxQuantity /\ terms.price \in Prices \cup {0}
          /\ q \in 0..MaxQuantity
      BY TermsType, Bounds
    <3> QED BY <1>0, <3>1 DEF TransferOrder
  <2>3. r.filled <= r.quantity
    BY <1>0, <2>1, <2>2, OrderType
  <2> HIDE DEF r
  <2> QED BY <2>1, <2>2, <2>3, OrderKeeps DEF InBook
<1>3. ASSUME CancelOrder(o) PROVE MarketInv' /\ (Restates(o) \/ \E t \in Swaps : SetsAside(t))
  <2> DEFINE r == [order[o] EXCEPT !.status = "cancelled"]
  <2>1. /\ InBook(o) /\ order' = [order EXCEPT ![o] = r]
        /\ UNCHANGED <<swap, late, chain, moved, session>>
    BY <1>0, <1>3 DEF CancelOrder, TypeOK
  <2>2. r \in TransferOrder /\ r.filled = order[o].filled /\ r.status = "cancelled"
        /\ r.quantity = order[o].quantity
    BY <1>0 DEF TransferOrder, OrderStatuses
  <2>3. r.filled <= r.quantity
    BY <2>2 DEF MarketInv, OrderInv
  <2> HIDE DEF r
  <2> QED BY <2>1, <2>2, <2>3, OrderKeeps DEF InBook
<1> QED BY <1>1, <1>2, <1>3 DEF Owner

-----------------------------------------------------------------------------
(* What a step on one match leaves standing.                               *)

\* A step that changes no order, and no match's parties, amount, price, or
\* whether it is live or settled.
Stands ==
    /\ UNCHANGED <<order, moved>>
    /\ \A t \in Swaps :
          /\ swap'[t].sell = swap[t].sell /\ swap'[t].buy = swap[t].buy
          /\ swap'[t].amount = swap[t].amount /\ swap'[t].price = swap[t].price
          /\ \/ swap'[t].status = swap[t].status /\ chain'[t] = chain[t]
             \/ /\ swap[t].status \in Active /\ swap'[t].status \in Active
                /\ chain'[t] = "success" <=> chain[t] = "success"

LEMMA BookStays ==
    ASSUME MarketInv, Stands
    PROVE  (\A o \in Orders : OrderInv(o))' /\ BookInv' /\ MatchesHoldOrders' /\ TermsStand'
<1> USE DEF Stands
<1>0. \A t \in Swaps : swap'[t].status \in Active <=> swap[t].status \in Active
  OBVIOUS
<1>1. \A t \in Swaps : /\ Parties(t)' = Parties(t)
                       /\ swap[t].status \in Active => Reserved(t)' = Reserved(t)
  BY DEF Parties, Reserved
<1>2. \A o \in Orders : HasPendingSwap(o)' <=> HasPendingSwap(o)
  BY <1>0, <1>1 DEF HasPendingSwap
<1>3. (\A o \in Orders : OrderInv(o))'
  BY DEF MarketInv, OrderInv
<1>4. BookInv'
  BY <1>0, <1>1, <1>2 DEF MarketInv, BookInv
<1>5. MatchesHoldOrders'
  <2>1. \A t \in Swaps : swap[t].status \in Active => HoldsItsOrders(t)'
    BY <1>0, <1>1 DEF MarketInv, MatchesHoldOrders, HoldsItsOrders
  <2> QED BY <1>0, <1>2, <2>1 DEF MarketInv, MatchesHoldOrders
<1>6. TermsStand'
  BY <1>0, <1>1 DEF MarketInv, TermsStand
<1> QED BY <1>3, <1>4, <1>5, <1>6

\* What ending a match writes: it is no longer live, its orders wait for
\* nothing and have filled what moved, and nothing else changes.
Ends(s) ==
    /\ swap[s].status \in Active
    /\ \/ swap'[s].status = "completed" /\ chain[s] = "success"
       \/ swap'[s].status \in {"failed", "expired"} /\ chain[s] # "success"
    /\ swap'[s].amount = swap[s].amount
    /\ swap'[s].sell = swap[s].sell /\ swap'[s].buy = swap[s].buy
    /\ \A t \in Swaps \ {s} : swap'[t] = swap[t]
    /\ \A o \in Parties(s) :
          /\ order'[o].filled = order[o].filled - Reserved(s)
          /\ order'[o].status \in {"open", "partially_filled", "completed"}
          /\ order'[o].quantity = order[o].quantity
    /\ \A o \in Orders \ Parties(s) : order'[o] = order[o]
    /\ UNCHANGED <<chain, moved>>

LEMMA EndKeeps ==
    ASSUME MarketInv, NEW s \in Swaps, Ends(s)
    PROVE  (\A o \in Orders : OrderInv(o))' /\ BookInv' /\ MatchesHoldOrders' /\ TermsStand'
<1> USE DEF Ends
<1>0. Parties(s) \subseteq Orders /\ HoldsItsOrders(s) /\ swap'[s].status \notin Active
  BY PartiesAreOrders DEF Active, Unclaimed, MarketInv, MatchesHoldOrders
<1>1. \A o \in Parties(s) : order'[o].filled = moved[o]
  <2> SUFFICES ASSUME NEW o \in Parties(s) PROVE order'[o].filled = moved[o]
    OBVIOUS
  <2>1. order[o].filled = moved[o] + Reserved(s)
    BY DEF MarketInv, BookInv
  <2>2. moved[o] \in Nat /\ Reserved(s) \in Nat
    BY <1>0, OrderType, RowType DEF MarketInv, Reserved
  <2> QED BY <2>1, <2>2
<1>2. \A t \in Swaps : Parties(t)' = Parties(t)
  BY DEF Parties
<1>3. \A t \in Swaps : swap'[t].status \in Active =>
         /\ t # s /\ swap[t].status \in Active /\ swap'[t] = swap[t]
         /\ Reserved(t)' = Reserved(t)
         /\ Parties(t) \subseteq Orders \ Parties(s)
         /\ \A o \in Parties(t) : order'[o] = order[o]
  <2> SUFFICES ASSUME NEW t \in Swaps, swap'[t].status \in Active
               PROVE  /\ t # s /\ swap[t].status \in Active /\ swap'[t] = swap[t]
                      /\ Reserved(t)' = Reserved(t)
                      /\ Parties(t) \subseteq Orders \ Parties(s)
                      /\ \A o \in Parties(t) : order'[o] = order[o]
    OBVIOUS
  <2>1. t # s /\ swap[t].status \in Active /\ swap'[t] = swap[t]
    BY <1>0
  <2>2. Parties(t) \subseteq Orders
    BY <2>1, PartiesAreOrders DEF Active, Unclaimed
  <2>3. Parties(s) \cap Parties(t) = {}
    BY <1>0, <2>1 DEF HoldsItsOrders
  <2> QED BY <2>1, <2>2, <2>3 DEF Reserved
<1>4. \A o \in Orders \ Parties(s) : HasPendingSwap(o)' <=> HasPendingSwap(o)
  BY <1>2, <1>3 DEF HasPendingSwap
<1>5. (\A o \in Orders : OrderInv(o))'
  <2> SUFFICES ASSUME NEW o \in Orders PROVE OrderInv(o)'
    OBVIOUS
  <2>1. CASE o \in Parties(s)
    <3>1. order[o].filled <= order[o].quantity /\ order[o].filled \in Nat /\ order[o].quantity \in Nat
      BY OrderType DEF MarketInv, OrderInv
    <3>2. Reserved(s) \in Nat
      BY RowType DEF MarketInv, Reserved
    <3> QED BY <2>1, <3>1, <3>2 DEF OrderInv
  <2>2. CASE o \notin Parties(s)
    BY <2>2 DEF MarketInv, OrderInv
  <2> QED BY <2>1, <2>2
<1>6. BookInv'
  <2>1. \A o \in Orders : ~HasPendingSwap(o)' => order'[o].filled = moved'[o]
    BY <1>1, <1>4 DEF MarketInv, BookInv
  <2>2. ASSUME NEW t \in Swaps, swap'[t].status \in Active, NEW o \in Parties(t)'
        PROVE  order'[o].filled = moved'[o] + Reserved(t)'
    BY <1>2, <1>3, <2>2 DEF MarketInv, BookInv
  <2> QED BY <2>1, <2>2 DEF BookInv
<1>7. MatchesHoldOrders'
  <2>1. ASSUME NEW t \in Swaps, swap'[t].status \in Active PROVE HoldsItsOrders(t)'
    <3>1. /\ swap[t].status \in Active /\ swap'[t] = swap[t]
          /\ \A o \in Parties(t) : order'[o] = order[o]
      BY <1>3, <2>1
    <3>2. HoldsItsOrders(t)
      BY <3>1 DEF MarketInv, MatchesHoldOrders
    <3>3. swap[t].sell \in Parties(t) /\ swap[t].buy \in Parties(t)
      BY DEF Parties
    <3>4. \A u \in Swaps \ {t} : swap'[u].status \in Active => Parties(t)' \cap Parties(u)' = {}
      BY <1>2, <1>3, <3>2 DEF HoldsItsOrders
    <3> QED BY <1>2, <3>1, <3>2, <3>3, <3>4 DEF HoldsItsOrders
  <2>2. ASSUME NEW o \in Orders, order'[o].status = "pending_signature"
        PROVE  HasPendingSwap(o)'
    <3>1. o \notin Parties(s)
      BY <2>2
    <3> QED BY <1>4, <2>2, <3>1 DEF MarketInv, MatchesHoldOrders
  <2> QED BY <2>1, <2>2 DEF MatchesHoldOrders
<1>8. TermsStand'
  <2>1. \A t \in Swaps : swap[t].sell \in Parties(t) /\ swap[t].buy \in Parties(t)
    BY DEF Parties
  <2> QED BY <1>2, <1>3, <2>1 DEF MarketInv, TermsStand
<1> QED BY <1>5, <1>6, <1>7, <1>8

\* Undoing a match that did not settle ends it.
LEMMA ReleasedEnds ==
    ASSUME MarketInv, NEW s \in Swaps, swap[s].status \in Active, chain[s] # "success",
           swap'[s].status \in {"failed", "expired"}, swap'[s].amount = swap[s].amount,
           swap'[s].sell = swap[s].sell, swap'[s].buy = swap[s].buy,
           \A t \in Swaps \ {s} : swap'[t] = swap[t],
           order' = Released(s) \/ order' = FailedOrders(s), UNCHANGED <<chain, moved>>
    PROVE  Ends(s) /\ order' \in [Orders -> TransferOrder]
<1>1. /\ Parties(s) \subseteq Orders /\ HoldsItsOrders(s) /\ TypeOK
      /\ Reserved(s) = swap[s].amount /\ swap[s].amount \in Nat
  BY PartiesAreOrders, RowType DEF Active, Unclaimed, MarketInv, MatchesHoldOrders, Reserved
<1>2. ASSUME NEW o \in Orders, o \notin Parties(s) PROVE order'[o] = order[o]
  BY <1>2 DEF Released, FailedOrders
<1>3. ASSUME NEW o \in Parties(s)
      PROVE  /\ order'[o].filled = order[o].filled - swap[s].amount
             /\ order'[o].status \in {"open", "partially_filled", "completed"}
             /\ order'[o].quantity = order[o].quantity
             /\ order'[o] \in TransferOrder
  <2> DEFINE filled == order[o].filled - swap[s].amount
             r == [order[o] EXCEPT !.filled = filled,
                                   !.status = IF filled > 0 THEN "partially_filled" ELSE "open"]
  <2>1. /\ order[o].status = "pending_signature" /\ order[o].filled >= swap[s].amount
        /\ order[o] \in TransferOrder /\ order[o].filled \in 0..MaxQuantity
    BY <1>1, OrderType DEF HoldsItsOrders, TransferOrder
  <2>2. filled \in 0..MaxQuantity
    BY <1>1, <2>1, Bounds
  <2>3. order'[o] = r
    <3>1. CASE order' = Released(s)
      BY <1>1, <3>1 DEF Released
    <3>2. CASE order' = FailedOrders(s)
      <4>1. (IF order[o].filled > swap[s].amount THEN order[o].filled - swap[s].amount ELSE 0) = filled
        BY <1>1, <2>1, <2>2, Bounds
      <4> HIDE DEF filled
      <4> QED BY <1>1, <2>1, <3>2, <4>1 DEF FailedOrders
    <3> QED BY <3>1, <3>2
  <2> HIDE DEF filled
  <2>4. /\ r.filled = filled /\ r.quantity = order[o].quantity
        /\ r.status \in {"open", "partially_filled", "completed"}
        /\ r \in TransferOrder
    BY <2>1, <2>2 DEF TransferOrder, OrderStatuses
  <2> HIDE DEF r
  <2> QED BY <2>3, <2>4 DEF filled
<1>4. order' \in [Orders -> TransferOrder]
  <2>1. DOMAIN order' = Orders /\ order' = [o \in Orders |-> order'[o]]
    BY DEF Released, FailedOrders
  <2>2. \A o \in Orders : order'[o] \in TransferOrder
    BY <1>1, <1>2, <1>3, OrderType
  <2> QED BY <2>1, <2>2
<1> QED BY <1>1, <1>2, <1>3, <1>4 DEF Ends

\* Recording that a match settled ends it, and takes nothing back.
LEMMA CompletedEnds ==
    ASSUME MarketInv, NEW s \in Swaps, swap[s].status \in Active, chain[s] = "success",
           swap'[s].status = "completed", swap'[s].amount = swap[s].amount,
           swap'[s].sell = swap[s].sell, swap'[s].buy = swap[s].buy,
           \A t \in Swaps \ {s} : swap'[t] = swap[t],
           order' = CompletedOrders(s), UNCHANGED <<chain, moved>>
    PROVE  Ends(s) /\ order' \in [Orders -> TransferOrder]
<1>1. /\ Parties(s) \subseteq Orders /\ TypeOK /\ Reserved(s) = 0
  BY PartiesAreOrders DEF Active, Unclaimed, MarketInv, Reserved
<1>2. ASSUME NEW o \in Orders, o \notin Parties(s) PROVE order'[o] = order[o]
  BY <1>2 DEF CompletedOrders
<1>3. ASSUME NEW o \in Parties(s)
      PROVE  /\ order'[o].filled = order[o].filled - 0
             /\ order'[o].status \in {"open", "partially_filled", "completed"}
             /\ order'[o].quantity = order[o].quantity
             /\ order'[o] \in TransferOrder
  <2>1. order[o] \in TransferOrder /\ order[o].filled \in Nat
    BY <1>1, OrderType
  <2> QED BY <1>1, <2>1 DEF CompletedOrders, TransferOrder, OrderStatuses
<1>4. order' \in [Orders -> TransferOrder]
  <2>1. DOMAIN order' = Orders /\ order' = [o \in Orders |-> order'[o]]
    BY DEF CompletedOrders
  <2>2. \A o \in Orders : order'[o] \in TransferOrder
    BY <1>1, <1>2, <1>3, OrderType
  <2> QED BY <2>1, <2>2
<1> QED BY <1>1, <1>2, <1>3, <1>4 DEF Ends

-----------------------------------------------------------------------------
(* What a worker's step leaves of the others.                              *)

\* A worker that was not about to send is not about to send, or still is.
LEMMA ExecutorStays ==
    ASSUME TypeOK, OneExecutor, NEW w \in Workers, NEW r, session' = [session EXCEPT ![w] = r],
           r.pc \in Executing => session[w].pc \in Executing /\ r.swap = session[w].swap
    PROVE  OneExecutor'
<1>1. session'[w] = r /\ \A v \in Workers \ {w} : session'[v] = session[v]
  BY DEF TypeOK
<1> QED BY <1>1 DEF OneExecutor

\* A step that only changes what one worker holds.
LEMMA SessionKeeps ==
    ASSUME MarketInv, NEW w \in Workers, NEW r \in Session, session' = [session EXCEPT ![w] = r],
           UNCHANGED <<order, swap, late, chain, moved>>,
           Holds(r),
           r.pc \in Executing => session[w].pc \in Executing /\ r.swap = session[w].swap
    PROVE  MarketInv' /\ Stands
<1>0. TypeOK /\ OneExecutor
  BY DEF MarketInv
<1>1. session'[w] = r /\ \A v \in Workers \ {w} : session'[v] = session[v]
  BY <1>0 DEF TypeOK
<1>2. TypeOK'
  BY <1>0 DEF TypeOK
<1>3. \A t \in Swaps : RowInv(t)'
  BY DEF MarketInv, RowInv
<1>4. \A v \in Workers : SessionInv(v)'
  <2>1. SessionInv(w)'
    BY <1>1 DEF SessionInv, Holds, Mined
  <2>2. ASSUME NEW v \in Workers \ {w} PROVE SessionInv(v)'
    BY <1>1 DEF MarketInv, SessionInv, Holds, Mined
  <2> QED BY <2>1, <2>2
<1>5. OneExecutor'
  BY <1>0, ExecutorStays
<1>7. Stands
  BY DEF Stands
<1>6. (\A o \in Orders : OrderInv(o))' /\ BookInv' /\ MatchesHoldOrders' /\ TermsStand'
  BY <1>7, BookStays
<1> QED BY <1>2, <1>3, <1>4, <1>5, <1>6, <1>7 DEF MarketInv

\* A worker not about to send a match may rely on what it held, when another
\* step rewrites that match's row.
LEMMA OtherHolds ==
    ASSUME MarketInv, NEW s \in Swaps, NEW v \in Workers, session'[v] = session[v], chain' = chain,
           \A t \in Swaps \ {s} : swap'[t] = swap[t],
           swap'[s].status # "none", swap[s].hash => swap'[s].hash,
           session[v].pc \in Executing => session[v].swap # s
    PROVE  SessionInv(v)'
<1>1. CASE session[v].swap = s
  BY <1>1 DEF MarketInv, SessionInv, Holds, Mined
<1>2. CASE session[v].swap # s
  <2>1. session[v].pc = "idle" \/ session[v].swap \in Swaps
    BY DEF MarketInv, SessionInv, Holds
  <2>2. session[v].swap \in Swaps => swap'[session[v].swap] = swap[session[v].swap]
    BY <1>2
  <2> QED BY <2>1, <2>2 DEF MarketInv, SessionInv, Holds, Mined, Executing
<1> QED BY <1>1, <1>2

LEMMA OtherRows ==
    ASSUME MarketInv, NEW s \in Swaps, chain' = chain,
           \A t \in Swaps \ {s} : swap'[t] = swap[t], RowInv(s)'
    PROVE  \A t \in Swaps : RowInv(t)'
<1>1. ASSUME NEW t \in Swaps \ {s} PROVE RowInv(t)'
  BY DEF MarketInv, RowInv
<1> QED BY <1>1

LEMMA IdleType == Idle \in Session /\ Idle.pc = "idle" /\ ~Idle.hash
BY DEF Idle, Session, Steps

\* An idle session asks for nothing.
LEMMA IdleHolds == Holds(Idle)
BY IdleType DEF Holds, Executing

-----------------------------------------------------------------------------
(* Signing.                                                                *)

\* Whether it signs or takes up a ready match, a worker goes on to claim it.
Claiming(s) == [Idle EXCEPT !.pc = "claim", !.swap = s]

LEMMA ClaimingType ==
    ASSUME NEW s \in Swaps
    PROVE  /\ Claiming(s) \in Session
           /\ Claiming(s).pc = "claim" /\ Claiming(s).swap = s /\ ~Claiming(s).hash
BY DEF Claiming, Idle, Session, Steps

LEMMA SignKeeps ==
    ASSUME MarketInv, NEW w \in Workers, NEW s \in Swaps, NEW role \in {"seller", "buyer"},
           Sign(w, s, role)
    PROVE  MarketInv' /\ Stands
<1> DEFINE signed == swap[s].signed \cup {role}
           row == [swap[s] EXCEPT !.signed = signed, !.status = SignedBy(signed)]
<1>0. TypeOK /\ OneExecutor /\ swap[s] \in SwapOrder
  BY RowType DEF MarketInv
<1>1. signed \in SUBSET {"seller", "buyer"} /\ SignedBy(signed) \in Unclaimed
  BY <1>0, SignedByType DEF SwapOrder
<1>2. /\ swap[s].status \in Unclaimed /\ swap[s].tx = "none" /\ ~swap[s].hash
      /\ swap' = [swap EXCEPT ![s] = row]
      /\ UNCHANGED <<order, late, chain, moved>>
      /\ session' = [session EXCEPT ![w] = Claiming(s)] \/ session' = session
  BY <1>0 DEF Sign, Claiming, TypeOK
<1> HIDE DEF signed
<1>3. /\ row \in SwapOrder /\ row.status = SignedBy(signed) /\ row.signed = signed
      /\ row.sell = swap[s].sell /\ row.buy = swap[s].buy /\ row.amount = swap[s].amount
      /\ row.price = swap[s].price /\ row.tx = swap[s].tx /\ row.hash = swap[s].hash
  BY <1>0, <1>1 DEF SwapOrder, SwapStatuses, Active
<1> HIDE DEF row
<1>4. swap'[s] = row /\ \A t \in Swaps \ {s} : swap'[t] = swap[t]
  BY <1>0, <1>2 DEF TypeOK
<1>5. row.status \in Unclaimed /\ row.status # "none" /\ row.status \in Active
  BY <1>1, <1>3 DEF Unclaimed, Active
<1>6. /\ \A v \in Workers : session'[v] = session[v] \/ session'[v] = Claiming(s)
      /\ session' \in [Workers -> Session]
  BY <1>0, <1>2, ClaimingType DEF TypeOK
<1>a. TypeOK'
  BY <1>0, <1>2, <1>3, <1>6 DEF TypeOK
<1>b. \A t \in Swaps : RowInv(t)'
  <2>1. chain[s] = "none"
    BY <1>2 DEF MarketInv, RowInv
  <2>2. RowInv(s)'
    BY <1>2, <1>3, <1>4, <1>5, <2>1 DEF MarketInv, RowInv, Unclaimed
  <2> QED BY <1>2, <1>4, <2>2, OtherRows
<1>c. \A v \in Workers : SessionInv(v)'
  <2> SUFFICES ASSUME NEW v \in Workers PROVE SessionInv(v)'
    OBVIOUS
  <2>1. CASE session'[v] = session[v]
    <3>1. session[v].pc \in Executing => session[v].swap # s
      BY <1>2 DEF MarketInv, SessionInv, Holds, Unclaimed
    <3> QED BY <1>2, <1>3, <1>4, <1>5, <2>1, <3>1, OtherHolds
  <2>2. CASE session'[v] = Claiming(s)
    BY <1>4, <1>5, <2>2, ClaimingType DEF SessionInv, Holds, Executing
  <2> QED BY <1>6, <2>1, <2>2
<1>d. OneExecutor'
  <2>1. CASE session' = session
    BY <1>0, <2>1 DEF OneExecutor
  <2>2. CASE session' = [session EXCEPT ![w] = Claiming(s)]
    BY <1>0, <2>2, ClaimingType, ExecutorStays DEF Executing
  <2> QED BY <1>2, <2>1, <2>2
<1>e. Stands
  <2>1. swap[s].status \in Active
    BY <1>2 DEF Active
  <2> QED BY <1>2, <1>3, <1>4, <1>5, <2>1 DEF Stands
<1>f. (\A o \in Orders : OrderInv(o))' /\ BookInv' /\ MatchesHoldOrders' /\ TermsStand'
  BY <1>e, BookStays
<1> QED BY <1>a, <1>b, <1>c, <1>d, <1>e, <1>f DEF MarketInv

-----------------------------------------------------------------------------
(* Executing.                                                              *)

LEMMA ClaimKeeps ==
    ASSUME MarketInv, NEW w \in Workers, Claim(w)
    PROVE  MarketInv' /\ Stands
<1>s. PICK s \in Swaps : s = session[w].swap
  BY DEF MarketInv, Claim, SessionInv, Holds
<1> DEFINE row == [swap[s] EXCEPT !.status = "executing", !.tx = "pending"]
           r == [session[w] EXCEPT !.pc = "prepare"]
<1>0. /\ TypeOK /\ OneExecutor /\ session[w].pc = "claim"
      /\ swap[s] \in SwapOrder /\ session[w] \in Session /\ ~session[w].hash
  BY <1>s, RowType DEF MarketInv, TypeOK, Claim, SessionInv, Holds
<1>2. /\ swap[s].status = "ready" /\ swap[s].signed = {"seller", "buyer"} /\ ~swap[s].hash
      /\ swap' = [swap EXCEPT ![s] = row]
      /\ session' = [session EXCEPT ![w] = r]
      /\ UNCHANGED <<order, late, chain, moved>>
  BY <1>s, <1>0 DEF Claim, Ready, Becomes, TypeOK
<1>3. /\ row \in SwapOrder /\ row.status = "executing" /\ row.signed = swap[s].signed
      /\ row.sell = swap[s].sell /\ row.buy = swap[s].buy /\ row.amount = swap[s].amount
      /\ row.price = swap[s].price /\ row.tx = "pending" /\ row.hash = swap[s].hash
  BY <1>s, <1>0 DEF SwapOrder, SwapStatuses, Active, TxStatuses
<1>4. r \in Session /\ r.pc = "prepare" /\ r.swap = s /\ ~r.hash
  BY <1>s, <1>0 DEF Session, Steps
<1> HIDE DEF row, r
<1>5. swap'[s] = row /\ \A t \in Swaps \ {s} : swap'[t] = swap[t]
  BY <1>0, <1>2 DEF TypeOK
<1>6. session'[w] = r /\ \A v \in Workers \ {w} : session'[v] = session[v]
  BY <1>0, <1>2 DEF TypeOK
<1>7. chain[s] = "none"
  BY <1>s, <1>0, <1>2 DEF MarketInv, RowInv, Unclaimed
<1>8. \A v \in Workers : session[v].pc \in Executing => session[v].swap # s
  BY <1>2 DEF MarketInv, SessionInv, Holds
<1>a. TypeOK'
  BY <1>0, <1>2, <1>3, <1>4 DEF TypeOK
<1>b. \A t \in Swaps : RowInv(t)'
  <2>1. RowInv(s)'
    BY <1>s, <1>0, <1>2, <1>3, <1>5, <1>7 DEF MarketInv, RowInv, Unclaimed
  <2> QED BY <1>2, <1>5, <2>1, OtherRows
<1>c. \A v \in Workers : SessionInv(v)'
  <2>1. SessionInv(w)'
    BY <1>s, <1>0, <1>2, <1>3, <1>4, <1>5, <1>6, <1>7 DEF SessionInv, Holds, Executing
  <2>2. ASSUME NEW v \in Workers \ {w} PROVE SessionInv(v)'
    BY <1>2, <1>3, <1>5, <1>6, <1>8, OtherHolds
  <2> QED BY <2>1, <2>2
<1>d. OneExecutor'
  BY <1>s, <1>0, <1>4, <1>6, <1>8 DEF OneExecutor
<1>e. Stands
  BY <1>0, <1>2, <1>3, <1>5 DEF Stands, Active, Unclaimed
<1>f. (\A o \in Orders : OrderInv(o))' /\ BookInv' /\ MatchesHoldOrders' /\ TermsStand'
  BY <1>e, BookStays
<1> QED BY <1>a, <1>b, <1>c, <1>d, <1>e, <1>f DEF MarketInv

LEMMA RecordSentKeeps ==
    ASSUME MarketInv, NEW w \in Workers, RecordSent(w)
    PROVE  MarketInv' /\ Stands
<1>s. PICK s \in Swaps : s = session[w].swap
  BY DEF MarketInv, RecordSent, SessionInv, Holds
<1> DEFINE row == [swap[s] EXCEPT !.tx = "submitted", !.hash = TRUE]
           r == [session[w] EXCEPT !.pc = "receipt", !.hash = TRUE]
<1>0. /\ TypeOK /\ OneExecutor /\ session[w].pc = "sent"
      /\ swap[s] \in SwapOrder /\ session[w] \in Session
      /\ chain[s] # "none"
  BY <1>s, RowType DEF MarketInv, TypeOK, RecordSent, SessionInv, Holds, Executing
<1>2. /\ swap[s].status = "executing"
      /\ swap' = [swap EXCEPT ![s] = row]
      /\ session' = [session EXCEPT ![w] = r]
      /\ UNCHANGED <<order, late, chain, moved>>
  BY <1>s, <1>0 DEF RecordSent, CurrentClaim, TypeOK
<1>3. /\ row \in SwapOrder /\ row.status = "executing" /\ row.signed = swap[s].signed
      /\ row.sell = swap[s].sell /\ row.buy = swap[s].buy /\ row.amount = swap[s].amount
      /\ row.price = swap[s].price /\ row.tx = "submitted" /\ row.hash
  BY <1>s, <1>0, <1>2 DEF SwapOrder, TxStatuses
<1>4. r \in Session /\ r.pc = "receipt" /\ r.swap = s /\ r.hash
  BY <1>s, <1>0 DEF Session, Steps
<1> HIDE DEF row, r
<1>5. swap'[s] = row /\ \A t \in Swaps \ {s} : swap'[t] = swap[t]
  BY <1>0, <1>2 DEF TypeOK
<1>6. session'[w] = r /\ \A v \in Workers \ {w} : session'[v] = session[v]
  BY <1>0, <1>2 DEF TypeOK
<1>8. \A v \in Workers \ {w} : session[v].pc \in Executing => session[v].swap # s
  BY <1>s, <1>0 DEF OneExecutor, Executing
<1>a. TypeOK'
  BY <1>0, <1>2, <1>3, <1>4 DEF TypeOK
<1>b. \A t \in Swaps : RowInv(t)'
  <2>1. RowInv(s)'
    BY <1>s, <1>0, <1>2, <1>3, <1>5 DEF MarketInv, RowInv, Unclaimed
  <2> QED BY <1>2, <1>5, <2>1, OtherRows
<1>c. \A v \in Workers : SessionInv(v)'
  <2>1. SessionInv(w)'
    BY <1>s, <1>0, <1>2, <1>3, <1>4, <1>5, <1>6 DEF SessionInv, Holds, Executing
  <2>2. ASSUME NEW v \in Workers \ {w} PROVE SessionInv(v)'
    BY <1>2, <1>3, <1>5, <1>6, <1>8, OtherHolds
  <2> QED BY <2>1, <2>2
<1>d. OneExecutor'
  BY <1>s, <1>0, <1>2, <1>4, ExecutorStays DEF Executing
<1>e. Stands
  BY <1>0, <1>2, <1>3, <1>5 DEF Stands
<1>f. (\A o \in Orders : OrderInv(o))' /\ BookInv' /\ MatchesHoldOrders' /\ TermsStand'
  BY <1>e, BookStays
<1> QED BY <1>a, <1>b, <1>c, <1>d, <1>e, <1>f DEF MarketInv

\* A worker that ends the match it holds keeps the invariant.
LEMMA EndingKeeps ==
    ASSUME MarketInv, NEW s \in Swaps, Ends(s), order' \in [Orders -> TransferOrder],
           swap' \in [Swaps -> SwapOrder], RowInv(s)', swap'[s].status # "none",
           swap[s].hash => swap'[s].hash, late' = late,
           NEW w \in Workers, session' = [session EXCEPT ![w] = Idle],
           \A v \in Workers :
              session'[v] # Idle /\ session[v].pc \in Executing => session[v].swap # s
    PROVE  MarketInv'
<1>0. TypeOK /\ OneExecutor /\ chain' = chain /\ moved' = moved
  BY DEF MarketInv, Ends
<1>1. \A v \in Workers : session'[v] = session[v] \/ session'[v] = Idle
  BY <1>0 DEF TypeOK
<1>2. TypeOK'
  BY <1>0, IdleType DEF TypeOK
<1>3. \A t \in Swaps : RowInv(t)'
  BY <1>0, OtherRows DEF Ends
<1>4. ASSUME NEW v \in Workers PROVE SessionInv(v)'
  <2>1. CASE session'[v] = Idle
    BY <2>1, IdleType DEF SessionInv, Holds, Executing
  <2>2. CASE session'[v] # Idle
    BY <1>0, <1>1, <2>2, OtherHolds DEF Ends
  <2> QED BY <2>1, <2>2
<1>5. OneExecutor'
  BY <1>0, IdleType, ExecutorStays DEF Executing
<1>6. (\A o \in Orders : OrderInv(o))' /\ BookInv' /\ MatchesHoldOrders' /\ TermsStand'
  BY EndKeeps
<1> QED BY <1>2, <1>3, <1>4, <1>5, <1>6 DEF MarketInv

LEMMA NeverSentKeeps ==
    ASSUME MarketInv, NEW w \in Workers, NeverSent(w)
    PROVE  MarketInv' /\ \E t \in Swaps : Ends(t)
<1>s. PICK s \in Swaps : s = session[w].swap
  BY DEF MarketInv, NeverSent, SessionInv, Holds
<1> DEFINE row == [swap[s] EXCEPT !.tx = "failed", !.status = "failed"]
<1>0. /\ TypeOK /\ OneExecutor /\ session[w].pc \in Executing
      /\ swap[s] \in SwapOrder /\ chain[s] = "none"
  BY <1>s, RowType DEF MarketInv, NeverSent, SessionInv, Holds, Executing
<1>2. /\ swap[s].status = "executing" /\ ~swap[s].hash
      /\ swap' = [swap EXCEPT ![s] = row]
      /\ session' = [session EXCEPT ![w] = Idle]
      /\ order' = FailedOrders(s)
      /\ UNCHANGED <<late, chain, moved>>
  BY <1>s, <1>0 DEF NeverSent, CurrentClaim, Finish, TypeOK
<1>3. /\ row \in SwapOrder /\ row.status = "failed" /\ row.tx = "failed" /\ row.hash = swap[s].hash
      /\ row.sell = swap[s].sell /\ row.buy = swap[s].buy /\ row.amount = swap[s].amount
  BY <1>0 DEF SwapOrder, SwapStatuses, TxStatuses
<1> HIDE DEF row
<1>4. swap'[s] = row /\ \A t \in Swaps \ {s} : swap'[t] = swap[t]
  BY <1>0, <1>2 DEF TypeOK
<1>5. Ends(s) /\ order' \in [Orders -> TransferOrder]
  BY <1>0, <1>2, <1>3, <1>4, ReleasedEnds DEF Active, Unclaimed
<1>6. RowInv(s)'
  BY <1>0, <1>2, <1>3, <1>4 DEF MarketInv, RowInv, Unclaimed
<1>7. \A v \in Workers : session'[v] # Idle /\ session[v].pc \in Executing => session[v].swap # s
  BY <1>s, <1>0, <1>2 DEF OneExecutor, TypeOK
<1>8. swap' \in [Swaps -> SwapOrder]
  BY <1>0, <1>2, <1>3 DEF TypeOK
<1> QED BY <1>2, <1>3, <1>4, <1>5, <1>6, <1>7, <1>8, EndingKeeps

LEMMA RecordReceiptKeeps ==
    ASSUME MarketInv, NEW w \in Workers, RecordReceipt(w)
    PROVE  MarketInv' /\ \E t \in Swaps : Ends(t)
<1>s. PICK s \in Swaps : s = session[w].swap
  BY DEF MarketInv, RecordReceipt, SessionInv, Holds
<1>0. /\ TypeOK /\ swap[s] \in SwapOrder /\ swap[s].hash
      /\ session[w].answer = chain[s] /\ swap[s].status = "executing"
      /\ session' = [session EXCEPT ![w] = Idle]
      /\ UNCHANGED <<late, chain, moved>>
  BY <1>s, RowType DEF MarketInv, RecordReceipt, CurrentClaim, Finish, SessionInv, Holds
<1>1. \A v \in Workers : session[v].pc \in Executing => session[v].swap # s
  BY <1>0 DEF MarketInv, SessionInv, Holds
<1>2. CASE session[w].answer = "success"
  <2> DEFINE row == [swap[s] EXCEPT !.tx = "confirmed", !.status = "completed"]
  <2>1. swap' = [swap EXCEPT ![s] = row] /\ order' = CompletedOrders(s)
    BY <1>s, <1>0, <1>2 DEF RecordReceipt, TypeOK
  <2>2. /\ row \in SwapOrder /\ row.status = "completed" /\ row.tx = "confirmed"
        /\ row.hash = swap[s].hash /\ row.sell = swap[s].sell /\ row.buy = swap[s].buy
        /\ row.amount = swap[s].amount
    BY <1>0 DEF SwapOrder, SwapStatuses, TxStatuses
  <2> HIDE DEF row
  <2>3. swap'[s] = row /\ \A t \in Swaps \ {s} : swap'[t] = swap[t]
    BY <1>0, <2>1 DEF TypeOK
  <2>4. Ends(s) /\ order' \in [Orders -> TransferOrder]
    BY <1>0, <1>2, <2>1, <2>2, <2>3, CompletedEnds DEF Active, Unclaimed
  <2>5. RowInv(s)'
    BY <1>0, <1>2, <2>2, <2>3 DEF MarketInv, RowInv, Unclaimed
  <2>6. swap' \in [Swaps -> SwapOrder]
    BY <1>0, <2>1, <2>2 DEF TypeOK
  <2> QED BY <1>0, <1>1, <2>2, <2>3, <2>4, <2>5, <2>6, EndingKeeps
<1>3. CASE session[w].answer = "reverted"
  <2> DEFINE row == [swap[s] EXCEPT !.tx = "reverted", !.status = "failed"]
  <2>1. swap' = [swap EXCEPT ![s] = row] /\ order' = FailedOrders(s)
    BY <1>s, <1>0, <1>3 DEF RecordReceipt, TypeOK
  <2>2. /\ row \in SwapOrder /\ row.status = "failed" /\ row.tx = "reverted"
        /\ row.hash = swap[s].hash /\ row.sell = swap[s].sell /\ row.buy = swap[s].buy
        /\ row.amount = swap[s].amount
    BY <1>0 DEF SwapOrder, SwapStatuses, TxStatuses
  <2> HIDE DEF row
  <2>3. swap'[s] = row /\ \A t \in Swaps \ {s} : swap'[t] = swap[t]
    BY <1>0, <2>1 DEF TypeOK
  <2>4. Ends(s) /\ order' \in [Orders -> TransferOrder]
    BY <1>0, <1>3, <2>1, <2>2, <2>3, ReleasedEnds DEF Active, Unclaimed
  <2>5. RowInv(s)'
    BY <1>0, <1>3, <2>2, <2>3 DEF MarketInv, RowInv, Unclaimed
  <2>6. swap' \in [Swaps -> SwapOrder]
    BY <1>0, <2>1, <2>2 DEF TypeOK
  <2> QED BY <1>0, <1>1, <2>2, <2>3, <2>4, <2>5, <2>6, EndingKeeps
<1> QED BY <1>2, <1>3 DEF RecordReceipt

LEMMA ExpireKeeps ==
    ASSUME MarketInv, NEW s \in Swaps, Expire(s)
    PROVE  MarketInv' /\ Ends(s)
<1> DEFINE row == [swap[s] EXCEPT !.status = "expired"]
<1>0. /\ TypeOK /\ swap[s] \in SwapOrder /\ swap[s].status \in Unclaimed
      /\ swap[s].tx = "none" /\ ~swap[s].hash /\ chain[s] = "none"
      /\ swap' = [swap EXCEPT ![s] = row] /\ order' = Released(s)
      /\ UNCHANGED <<late, chain, moved, session>>
  BY RowType DEF MarketInv, Expire, RowInv, TypeOK
<1>1. /\ row \in SwapOrder /\ row.status = "expired" /\ row.tx = swap[s].tx
      /\ row.hash = swap[s].hash /\ row.sell = swap[s].sell /\ row.buy = swap[s].buy
      /\ row.amount = swap[s].amount
  BY <1>0 DEF SwapOrder, SwapStatuses
<1> HIDE DEF row
<1>2. swap'[s] = row /\ \A t \in Swaps \ {s} : swap'[t] = swap[t]
  BY <1>0 DEF TypeOK
<1>3. Ends(s) /\ order' \in [Orders -> TransferOrder]
  BY <1>0, <1>1, <1>2, ReleasedEnds DEF Active, Unclaimed
<1>4. RowInv(s)'
  BY <1>0, <1>1, <1>2 DEF MarketInv, RowInv, Unclaimed
<1>5. \A v \in Workers : session[v].pc \in Executing => session[v].swap # s
  BY <1>0 DEF MarketInv, SessionInv, Holds, Unclaimed
<1>6. swap' \in [Swaps -> SwapOrder]
  BY <1>0, <1>1 DEF TypeOK
<1>7. TypeOK'
  BY <1>0, <1>3, <1>6 DEF TypeOK
<1>8. \A t \in Swaps : RowInv(t)'
  BY <1>0, <1>2, <1>4, OtherRows
<1>9. \A v \in Workers : SessionInv(v)'
  BY <1>0, <1>1, <1>2, <1>5, OtherHolds
<1>10. OneExecutor'
  BY <1>0 DEF MarketInv, OneExecutor
<1>11. (\A o \in Orders : OrderInv(o))' /\ BookInv' /\ MatchesHoldOrders' /\ TermsStand'
  BY <1>3, EndKeeps
<1> QED BY <1>3, <1>7, <1>8, <1>9, <1>10, <1>11 DEF MarketInv

LEMMA SendKeeps ==
    ASSUME MarketInv, NEW w \in Workers, Send(w)
    PROVE  MarketInv' /\ Stands
<1>s. PICK s \in Swaps : s = session[w].swap
  BY DEF MarketInv, Send, SessionInv, Holds
<1> DEFINE r == [session[w] EXCEPT !.pc = "sent"]
<1>0. /\ TypeOK /\ OneExecutor /\ session[w].pc = "send" /\ session[w] \in Session
      /\ chain[s] = "none" /\ swap[s].status = "executing" /\ ~swap[s].hash /\ ~session[w].hash
  BY <1>s DEF MarketInv, TypeOK, Send, SessionInv, Holds, Executing
<1>1. /\ chain' = [chain EXCEPT ![s] = "pending"] /\ session' = [session EXCEPT ![w] = r]
      /\ UNCHANGED <<order, swap, late, moved>>
  BY <1>s, <1>0 DEF Send, Becomes, TypeOK
<1>2. r \in Session /\ r.pc = "sent" /\ r.swap = s /\ ~r.hash
  BY <1>s, <1>0 DEF Session, Steps
<1> HIDE DEF r
<1>3. /\ session'[w] = r /\ \A v \in Workers \ {w} : session'[v] = session[v]
      /\ chain'[s] = "pending" /\ \A t \in Swaps \ {s} : chain'[t] = chain[t]
  BY <1>0, <1>1 DEF TypeOK
<1>4. TypeOK'
  BY <1>0, <1>1, <1>2 DEF TypeOK
<1>5. ASSUME NEW t \in Swaps PROVE RowInv(t)'
  <2>1. CASE t = s
    BY <1>0, <1>1, <1>3, <2>1 DEF MarketInv, RowInv, Unclaimed
  <2>2. CASE t # s
    BY <1>1, <1>3, <2>2 DEF MarketInv, RowInv
  <2> QED BY <2>1, <2>2
<1>6. ASSUME NEW v \in Workers PROVE SessionInv(v)'
  <2>1. CASE v = w
    BY <1>0, <1>1, <1>2, <1>3, <2>1 DEF SessionInv, Holds, Executing
  <2>2. CASE v # w /\ session[v].swap = s
    <3>1. session[v].pc \notin Executing \cup {"receipt", "answered"}
      BY <1>s, <1>0, <2>2 DEF MarketInv, OneExecutor, SessionInv, Holds, Executing
    <3> QED BY <1>1, <1>3, <2>2, <3>1 DEF MarketInv, SessionInv, Holds
  <2>3. CASE v # w /\ session[v].swap # s
    <3>1. session[v].pc = "idle" \/ session[v].swap \in Swaps \ {s}
      BY <2>3 DEF MarketInv, SessionInv, Holds
    <3> QED BY <1>1, <1>3, <2>3, <3>1 DEF MarketInv, SessionInv, Holds, Mined, Executing
  <2> QED BY <2>1, <2>2, <2>3
<1>7. OneExecutor'
  BY <1>s, <1>0, <1>1, <1>2, ExecutorStays DEF Executing
<1>9. Stands
  BY <1>0, <1>1, <1>3 DEF Stands, Active
<1>8. (\A o \in Orders : OrderInv(o))' /\ BookInv' /\ MatchesHoldOrders' /\ TermsStand'
  BY <1>9, BookStays
<1> QED BY <1>4, <1>5, <1>6, <1>7, <1>8, <1>9 DEF MarketInv

\* Every step of a worker keeps the invariant.
LEMMA WorkKeeps ==
    ASSUME MarketInv, NEW w \in Workers, Work(w)
    PROVE  MarketInv' /\ (Stands \/ \E t \in Swaps : Ends(t))
<1>0. TypeOK /\ session[w] \in Session /\ SessionInv(w)
  BY DEF MarketInv, TypeOK
<1>1. ASSUME NEW s \in Swaps, NEW role \in {"seller", "buyer"}, Sign(w, s, role) PROVE MarketInv' /\ Stands
  BY <1>1, SignKeeps
<1>2. ASSUME NEW s \in Swaps, Resign(w, s) PROVE MarketInv' /\ Stands
  <2>1. /\ session' = [session EXCEPT ![w] = Claiming(s)]
        /\ UNCHANGED <<order, swap, late, chain, moved>> /\ swap[s].status = "ready"
    BY <1>2 DEF Resign, Ready, Claiming
  <2>2. Holds(Claiming(s)) /\ Claiming(s) \in Session /\ Claiming(s).pc \notin Executing
    BY <2>1, ClaimingType DEF Holds, Executing
  <2> QED BY <2>1, <2>2, SessionKeeps
<1>3. ASSUME NEW s \in Swaps, Reconcile(w, s) PROVE MarketInv' /\ Stands
  <2> DEFINE r == [pc |-> "answered", swap |-> s, hash |-> TRUE, answer |-> chain[s]]
  <2>1. r \in Session /\ r.pc = "answered" /\ r.swap = s /\ r.hash /\ r.answer = chain[s]
    BY <1>3 DEF Reconcile, Mined, Session, Steps
  <2>2. Holds(r) /\ r.pc \notin Executing
    BY <1>3, <2>1 DEF Reconcile, Holds, Executing
  <2>3. session' = [session EXCEPT ![w] = r] /\ UNCHANGED <<order, swap, late, chain, moved>>
    BY <1>3 DEF Reconcile
  <2> HIDE DEF r
  <2> QED BY <2>1, <2>2, <2>3, SessionKeeps
<1>4. CASE Claim(w)
  BY <1>4, ClaimKeeps
<1>5. CASE Prepare(w)
  <2> DEFINE r == [session[w] EXCEPT !.pc = "admit"]
  <2>1. /\ session[w].pc = "prepare" /\ session' = [session EXCEPT ![w] = r]
        /\ UNCHANGED <<order, swap, late, chain, moved>>
    BY <1>0, <1>5 DEF Prepare, Becomes, TypeOK
  <2>2. r \in Session /\ r.pc = "admit" /\ r.swap = session[w].swap /\ r.hash = session[w].hash
    BY <1>0 DEF Session, Steps
  <2> HIDE DEF r
  <2>3. Holds(r)
    BY <1>0, <2>1, <2>2 DEF SessionInv, Holds, Executing
  <2> QED BY <2>1, <2>2, <2>3, SessionKeeps DEF Executing
<1>6. CASE NeverSent(w)
  BY <1>6, NeverSentKeeps
<1>7. CASE Admit(w)
  <2> DEFINE r == [session[w] EXCEPT !.pc = "send"]
  <2>1. /\ session[w].pc = "admit" /\ session' = [session EXCEPT ![w] = r]
        /\ UNCHANGED <<order, swap, late, chain, moved>>
    BY <1>0, <1>7 DEF Admit, Becomes, TypeOK
  <2>2. r \in Session /\ r.pc = "send" /\ r.swap = session[w].swap /\ r.hash = session[w].hash
    BY <1>0 DEF Session, Steps
  <2> HIDE DEF r
  <2>3. Holds(r)
    BY <1>0, <2>1, <2>2 DEF SessionInv, Holds, Executing
  <2> QED BY <2>1, <2>2, <2>3, SessionKeeps DEF Executing
<1>8. CASE Send(w)
  BY <1>8, SendKeeps
<1>9. CASE RecordSent(w)
  BY <1>9, RecordSentKeeps
<1>10. CASE ReadReceipt(w)
  <2> DEFINE r == [session[w] EXCEPT !.pc = "answered", !.answer = chain[session[w].swap]]
  <2>1. /\ session[w].pc = "receipt" /\ session' = [session EXCEPT ![w] = r]
        /\ Mined(session[w].swap) /\ UNCHANGED <<order, swap, late, chain, moved>>
    BY <1>0, <1>10 DEF ReadReceipt, TypeOK
  <2>2. /\ r \in Session /\ r.pc = "answered" /\ r.swap = session[w].swap
        /\ r.hash = session[w].hash /\ r.answer = chain[session[w].swap]
    BY <1>0, <2>1 DEF Session, Steps, Mined
  <2> HIDE DEF r
  <2>3. Holds(r)
    BY <1>0, <2>1, <2>2 DEF SessionInv, Holds, Executing
  <2> QED BY <2>1, <2>2, <2>3, SessionKeeps DEF Executing
<1>11. CASE RecordReceipt(w)
  BY <1>11, RecordReceiptKeeps
<1>12. CASE Stop(w)
  BY <1>12, IdleType, IdleHolds, SessionKeeps DEF Stop, Finish, Executing
<1> QED BY <1>1, <1>2, <1>3, <1>4, <1>5, <1>6, <1>7, <1>8, <1>9, <1>10, <1>11,
           <1>12 DEF Work

-----------------------------------------------------------------------------
(* The chain and time.                                                     *)

\* Only a match being executed is on its way to the chain.
LEMMA PendingIsExecuting ==
    ASSUME MarketInv, NEW s \in Swaps, chain[s] = "pending"
    PROVE  swap[s].status = "executing"
<1>1. swap[s].status \in SwapStatuses
  BY RowType DEF MarketInv, SwapOrder
<1> QED BY <1>1 DEF MarketInv, RowInv, SwapStatuses, Active

\* A match settles: what it reserved has moved.
Settles(s) ==
    /\ swap[s].status \in Active /\ chain[s] = "pending"
    /\ chain' = [chain EXCEPT ![s] = "success"]
    /\ moved' = [o \in Orders |-> moved[o] + IF o \in Parties(s) THEN swap[s].amount ELSE 0]
    /\ UNCHANGED <<order, swap>>

LEMMA SettledBook ==
    ASSUME MarketInv, NEW s \in Swaps, Settles(s)
    PROVE  /\ moved' \in [Orders -> 0..MaxQuantity]
           /\ (\A o \in Orders : OrderInv(o))' /\ BookInv' /\ MatchesHoldOrders' /\ TermsStand'
<1> USE DEF Settles
<1>0. /\ TypeOK /\ HoldsItsOrders(s)
      /\ Parties(s) \subseteq Orders /\ Reserved(s) = swap[s].amount
  BY PartiesAreOrders DEF MarketInv, MatchesHoldOrders, Active, Unclaimed, Reserved
<1>1. chain'[s] = "success" /\ \A t \in Swaps \ {s} : chain'[t] = chain[t]
  BY <1>0 DEF TypeOK
<1>2. \A o \in Orders \ Parties(s) : moved'[o] = moved[o]
  <2>1. \A o \in Orders : moved[o] \in Nat
    BY <1>0, OrderType
  <2> QED BY <2>1
<1>3. \A o \in Parties(s) : moved'[o] = order[o].filled
  BY <1>0 DEF MarketInv, BookInv
<1>4. \A t \in Swaps : Parties(t)' = Parties(t)
  BY DEF Parties
<1>5. \A o \in Orders : HasPendingSwap(o)' <=> HasPendingSwap(o)
  BY <1>4 DEF HasPendingSwap
<1>6. moved' \in [Orders -> 0..MaxQuantity]
  <2>1. \A o \in Orders : order[o].filled \in 0..MaxQuantity
    BY <1>0, OrderType DEF TransferOrder
  <2>2. \A o \in Orders : moved'[o] \in 0..MaxQuantity
    BY <1>0, <1>2, <1>3, <2>1 DEF TypeOK
  <2> QED BY <2>2
<1>7. BookInv'
  <2>1. ASSUME NEW o \in Orders, ~HasPendingSwap(o)' PROVE order'[o].filled = moved'[o]
    <3>1. o \notin Parties(s)
      BY <1>0, <1>5, <2>1 DEF HasPendingSwap
    <3> QED BY <1>2, <1>5, <2>1, <3>1 DEF MarketInv, BookInv
  <2>2. ASSUME NEW t \in Swaps, swap'[t].status \in Active, NEW o \in Parties(t)'
        PROVE  order'[o].filled = moved'[o] + Reserved(t)'
    <3>1. CASE t = s
      <4>1. Reserved(t)' = 0 /\ o \in Parties(s) /\ order[o].filled \in Nat
        BY <1>0, <1>1, <1>4, <2>2, <3>1, OrderType DEF Reserved
      <4> QED BY <1>3, <4>1
    <3>2. CASE t # s
      <4>1. o \in Parties(t) /\ Reserved(t)' = Reserved(t)
        BY <1>1, <1>4, <2>2, <3>2 DEF Reserved
      <4>2. o \in Orders \ Parties(s)
        BY <1>0, <2>2, <3>2, <4>1, PartiesAreOrders DEF HoldsItsOrders, Active, Unclaimed
      <4> QED BY <1>2, <2>2, <4>1, <4>2 DEF MarketInv, BookInv
    <3> QED BY <3>1, <3>2
  <2> QED BY <2>1, <2>2 DEF BookInv
<1>8. (\A o \in Orders : OrderInv(o))'
  BY DEF MarketInv, OrderInv
<1>9. MatchesHoldOrders'
  BY <1>4, <1>5 DEF MarketInv, MatchesHoldOrders, HoldsItsOrders
<1>10. TermsStand'
  BY <1>4 DEF MarketInv, TermsStand
<1> QED BY <1>6, <1>7, <1>8, <1>9, <1>10

LEMMA ExecuteSwapKeeps ==
    ASSUME MarketInv, NEW s \in Swaps, ExecuteSwap(s)
    PROVE  MarketInv' /\ (Stands \/ Settles(s))
<1>0. /\ TypeOK /\ chain[s] = "pending" /\ swap[s].status = "executing"
      /\ UNCHANGED <<order, swap, late, session>>
  BY PendingIsExecuting DEF MarketInv, ExecuteSwap
<1>1. PICK answer \in {"success", "reverted"} : chain' = [chain EXCEPT ![s] = answer]
  BY DEF ExecuteSwap
<1>2. chain'[s] = answer /\ \A t \in Swaps \ {s} : chain'[t] = chain[t]
  BY <1>0, <1>1 DEF TypeOK
<1>3. Stands \/ Settles(s)
  <2>1. CASE /\ chain' = [chain EXCEPT ![s] = "success"]
             /\ moved' = [o \in Orders |-> moved[o] + IF o \in Parties(s) THEN swap[s].amount ELSE 0]
    BY <1>0, <2>1 DEF Settles, Active
  <2>2. CASE chain' = [chain EXCEPT ![s] = "reverted"] /\ UNCHANGED moved
    BY <1>0, <2>2 DEF TypeOK, Stands, Active
  <2> QED BY <2>1, <2>2 DEF ExecuteSwap
<1>8. /\ moved' \in [Orders -> 0..MaxQuantity]
      /\ (\A o \in Orders : OrderInv(o))' /\ BookInv' /\ MatchesHoldOrders' /\ TermsStand'
  BY <1>0, <1>3, SettledBook, BookStays DEF Stands, TypeOK
<1>4. TypeOK'
  BY <1>0, <1>1, <1>8 DEF TypeOK
<1>5. ASSUME NEW t \in Swaps PROVE RowInv(t)'
  <2>1. CASE t = s
    BY <1>0, <1>2, <2>1 DEF MarketInv, RowInv, Unclaimed
  <2>2. CASE t # s
    BY <1>0, <1>2, <2>2 DEF MarketInv, RowInv
  <2> QED BY <2>1, <2>2
<1>6. ASSUME NEW v \in Workers PROVE SessionInv(v)'
  <2>1. CASE session[v].swap = s
    BY <1>0, <1>2, <2>1 DEF MarketInv, SessionInv, Holds, Mined
  <2>2. CASE session[v].swap # s
    <3>1. session[v].pc = "idle" \/ session[v].swap \in Swaps \ {s}
      BY <2>2 DEF MarketInv, SessionInv, Holds
    <3> QED BY <1>0, <1>2, <2>2, <3>1 DEF MarketInv, SessionInv, Holds, Mined, Executing
  <2> QED BY <2>1, <2>2
<1>7. OneExecutor'
  BY <1>0 DEF MarketInv, OneExecutor
<1> QED BY <1>3, <1>4, <1>5, <1>6, <1>7, <1>8 DEF MarketInv

LEMMA StutterKeeps ==
    ASSUME MarketInv, UNCHANGED <<order, swap, chain, moved, session>>, late' \subseteq Swaps
    PROVE  MarketInv' /\ Stands
<1>1. TypeOK'
  BY DEF MarketInv, TypeOK
<1>2. \A t \in Swaps : RowInv(t)'
  BY DEF MarketInv, RowInv
<1>3. \A v \in Workers : SessionInv(v)'
  BY DEF MarketInv, SessionInv, Holds, Mined
<1>4. OneExecutor'
  BY DEF MarketInv, OneExecutor
<1>6. Stands
  BY DEF Stands
<1>5. (\A o \in Orders : OrderInv(o))' /\ BookInv' /\ MatchesHoldOrders' /\ TermsStand'
  BY <1>6, BookStays
<1> QED BY <1>1, <1>2, <1>3, <1>4, <1>5, <1>6 DEF MarketInv

-----------------------------------------------------------------------------
(* The theorems.                                                           *)

LEMMA InitHolds == Init => MarketInv
<1> SUFFICES ASSUME Init PROVE MarketInv
  OBVIOUS
<1> USE DEF Init
<1>1. TypeOK
  BY Bounds, IdleType DEF TypeOK, Unborn, TransferOrder, OrderStatuses, NoSwap, SwapOrder,
     SwapStatuses, TxStatuses
<1>2. \A s \in Swaps : swap[s] = NoSwap /\ swap[s].status = "none"
  BY DEF NoSwap
<1>3. \A s \in Swaps : RowInv(s)
  BY <1>2 DEF RowInv, NoSwap, Unclaimed
<1>4. \A w \in Workers : SessionInv(w)
  BY IdleHolds DEF SessionInv
<1>5. OneExecutor
  BY IdleType DEF OneExecutor, Executing
<1>6. \A o \in Orders : OrderInv(o)
  BY DEF OrderInv, Unborn
<1>7. BookInv /\ MatchesHoldOrders /\ TermsStand
  BY <1>2 DEF BookInv, MatchesHoldOrders, TermsStand, Active, Unclaimed, Unborn
<1> QED BY <1>1, <1>3, <1>4, <1>5, <1>6, <1>7 DEF MarketInv

\* A step of the market leaves matches and orders standing, restates one
\* order, or reserves, settles or ends one match.
Effect ==
    \/ Stands
    \/ \E o \in Orders : Restates(o)
    \/ \E s \in Swaps : SetsAside(s) \/ Settles(s) \/ Ends(s)

LEMMA NextKeeps == MarketInv /\ [Next]_vars => MarketInv' /\ Effect
<1> SUFFICES ASSUME MarketInv, [Next]_vars PROVE MarketInv' /\ Effect
  OBVIOUS
<1> USE DEF Effect
<1>0. late \subseteq Swaps
  BY DEF MarketInv, TypeOK
<1>1. ASSUME NEW s \in Swaps, PassDeadline(s) PROVE MarketInv' /\ Effect
  BY <1>0, <1>1, StutterKeeps DEF PassDeadline
<1>2. CASE UNCHANGED vars
  BY <1>0, <1>2, StutterKeeps DEF vars
<1>3. ASSUME NEW o \in Orders, Owner(o) PROVE MarketInv' /\ Effect
  BY <1>3, OwnerKeeps
<1>4. ASSUME NEW w \in Workers, Work(w) PROVE MarketInv' /\ Effect
  BY <1>4, WorkKeeps
<1>5. ASSUME NEW s \in Swaps, Expire(s) \/ ExecuteSwap(s) PROVE MarketInv' /\ Effect
  BY <1>5, ExpireKeeps, ExecuteSwapKeeps
<1> QED BY <1>1, <1>2, <1>3, <1>4, <1>5 DEF Next

\* The market's rows, the chain and what every worker holds agree, always.
THEOREM TradingInvariant == Spec => []MarketInv
BY InitHolds, NextKeeps, PTL DEF Spec

\* Orders, matches and sessions are what the models and their services say they are.
THEOREM TypeCorrect == Spec => []TypeOK
<1>1. MarketInv => TypeOK
  BY DEF MarketInv
<1> QED BY <1>1, TradingInvariant, PTL

\* filled_quantity is what moved and what the one live match has set aside.
THEOREM FilledIsExact == Spec => []FilledIsAccounted
<1>1. ASSUME MarketInv PROVE FilledIsAccounted
  <2> SUFFICES ASSUME NEW o \in Orders
               PROVE  IF \E s \in Swaps : Unsettled(s) /\ o \in Parties(s)
                      THEN \E s \in Swaps : /\ Unsettled(s) /\ o \in Parties(s)
                                            /\ order[o].filled = moved[o] + swap[s].amount
                      ELSE order[o].filled = moved[o]
    BY DEF FilledIsAccounted
  <2>1. CASE \E s \in Swaps : Unsettled(s) /\ o \in Parties(s)
    BY <1>1, <2>1 DEF MarketInv, BookInv, Unsettled, Reserved
  <2>2. CASE ~HasPendingSwap(o)
    BY <1>1, <2>2 DEF MarketInv, BookInv, Unsettled, HasPendingSwap
  <2>3. CASE HasPendingSwap(o) /\ ~\E s \in Swaps : Unsettled(s) /\ o \in Parties(s)
    <3>1. PICK s \in Swaps : swap[s].status \in Active /\ o \in Parties(s)
      BY <2>3 DEF HasPendingSwap
    <3>2. Reserved(s) = 0 /\ moved[o] \in Nat
      BY <1>1, <2>3, <3>1, OrderType DEF MarketInv, Unsettled, Reserved
    <3>3. order[o].filled = moved[o] + Reserved(s)
      BY <1>1, <3>1 DEF MarketInv, BookInv
    <3> QED BY <2>3, <3>2, <3>3
  <2> QED BY <2>1, <2>2, <2>3
<1> QED BY <1>1, TradingInvariant, PTL

\* A live match holds its two orders, alone, and an order waits only for one.
THEOREM HoldsAreExclusive == Spec => []MatchesHoldOrders
<1>1. MarketInv => MatchesHoldOrders
  BY DEF MarketInv
<1> QED BY <1>1, TradingInvariant, PTL

\* No owner's terms change under a live match.
THEOREM TermsAreKept == Spec => []TermsStand
<1>1. MarketInv => TermsStand
  BY DEF MarketInv
<1> QED BY <1>1, TradingInvariant, PTL

\* What is recorded of an execution, and what any worker is about to record, is what the chain did.
THEOREM RecordedOutcomes == Spec => []OutcomeIsTrue
<1>1. ASSUME MarketInv PROVE OutcomeIsTrue
  <2>1. ASSUME NEW s \in Swaps
        PROVE  /\ swap[s].status = "completed" <=> swap[s].tx = "confirmed"
               /\ swap[s].status = "failed" <=> swap[s].tx \in {"failed", "reverted"}
               /\ swap[s].tx = "confirmed" => chain[s] = "success"
               /\ swap[s].tx = "reverted" => chain[s] = "reverted"
               /\ swap[s].tx = "failed" => chain[s] = "none"
    <3>1. swap[s].status \in SwapStatuses /\ RowInv(s)
      BY <1>1, RowType DEF MarketInv, SwapOrder
    <3> QED BY <3>1 DEF RowInv, SwapStatuses, Active
  <2>2. \A w \in Workers : session[w].pc = "answered" => session[w].answer = chain[session[w].swap]
    BY <1>1 DEF MarketInv, SessionInv, Holds
  <2> QED BY <2>1, <2>2 DEF OutcomeIsTrue
<1> QED BY <1>1, TradingInvariant, PTL

-----------------------------------------------------------------------------
(* The promise of SettledOrReleased.                                       *)

\* A match not made is free.
LEMMA FreeTrade ==
    ASSUME NEW s \in Swaps, swap[s] = NoSwap, chain[s] = "none"
    PROVE  Trade(s) = [state |-> "none", parties |-> {}, amount |-> 0]
<1>1. swap[s].status = "none" /\ swap[s].amount = 0 /\ swap[s].sell = None /\ swap[s].buy = None
  BY DEF NoSwap
<1>2. {swap[s].sell, swap[s].buy} \ {None} = {}
  BY <1>1
<1> QED BY <1>1, <1>2 DEF Trade, Parties

\* Of the promise, a step on another match changes nothing.
LEMMA OtherTrades ==
    ASSUME NEW t \in Swaps, swap'[t] = swap[t], chain'[t] = chain[t]
    PROVE  Trade(t)' = Trade(t)
BY DEF Trade, Parties

LEMMA StandsRefines ==
    ASSUME MarketInv, Stands
    PROVE  UNCHANGED Promise!vars
<1>1. \A t \in Swaps : Parties(t)' = Parties(t) /\ swap'[t].amount = swap[t].amount
  BY DEF Stands, Parties
<1>2. ASSUME NEW t \in Swaps PROVE Trade(t)'.state = Trade(t).state
  <2>1. CASE swap'[t].status = swap[t].status /\ chain'[t] = chain[t]
    BY <2>1 DEF Trade, Parties
  <2>2. CASE /\ swap[t].status \in Active /\ swap'[t].status \in Active
             /\ chain'[t] = "success" <=> chain[t] = "success"
    BY <2>2 DEF Trade, Active, Unclaimed, Parties
  <2> QED BY <2>1, <2>2 DEF Stands
<1>3. \A t \in Swaps : Trade(t)' = Trade(t)
  BY <1>1, <1>2 DEF Trade, Parties
<1> QED BY <1>3 DEF Stands, Promise!vars

LEMMA RestatesRefines ==
    ASSUME MarketInv, NEW o \in Orders, Restates(o)
    PROVE  Promise!Restate(o)
<1>1. \A t \in Swaps : Trade(t)' = Trade(t)
  BY OtherTrades DEF Restates
<1>2. \A p \in Orders : order'[p].filled = order[p].filled
  BY DEF Restates
<1> QED BY <1>1, <1>2 DEF Restates, Promise!Restate

LEMMA SetsAsideRefines ==
    ASSUME MarketInv, MarketInv', NEW s \in Swaps, SetsAside(s)
    PROVE  Promise!Reserve(s)
<1>0. TypeOK /\ \A t \in Swaps \ {s} : swap'[t] = swap[t] /\ chain'[t] = chain[t]
  BY DEF MarketInv, TypeOK, SetsAside
<1>1. \A t \in Swaps \ {s} : Trade(t)' = Trade(t)
  BY <1>0, OtherTrades
<1>2. Trade(s) = [state |-> "none", parties |-> {}, amount |-> 0]
  BY FreeTrade DEF SetsAside
<1>3. Trade(s)'.state = "reserved" /\ Trade(s)'.amount > 0
  BY DEF SetsAside, Trade, Parties
<1>4. Trade(s)'.parties = Parties(s)' /\ Trade(s)'.amount = swap'[s].amount
  BY Bounds DEF SetsAside, Trade, Parties
<1>5. [o \in Orders |-> order'[o].filled] =
         [o \in Orders |-> IF o \in Trade(s)'.parties THEN order[o].filled + Trade(s)'.amount
                                                       ELSE order[o].filled]
  <2>1. ASSUME NEW o \in Orders
        PROVE  order'[o].filled = IF o \in Trade(s)'.parties THEN order[o].filled + Trade(s)'.amount
                                                             ELSE order[o].filled
    <3>1. order[o].filled \in Nat
      BY <1>0, OrderType
    <3> QED BY <1>4, <3>1 DEF SetsAside
  <2> QED BY <2>1
<1>6. \A o \in Orders : order'[o].quantity >= order'[o].filled
  <2> SUFFICES ASSUME NEW o \in Orders PROVE order'[o].quantity >= order'[o].filled
    OBVIOUS
  <2>1. order'[o].filled <= order'[o].quantity
    BY DEF MarketInv, OrderInv
  <2>2. order'[o] \in TransferOrder
    BY DEF MarketInv, TypeOK
  <2>3. order'[o].filled \in Int /\ order'[o].quantity \in Int
    BY <2>2, Bounds DEF TransferOrder
  <2> QED BY <2>1, <2>3
<1>7. \A o \in Orders : order'[o].quantity = order[o].quantity \/ order[o].quantity = 0
  BY DEF SetsAside
<1>8. [t \in Swaps |-> Trade(t)'] = [[t \in Swaps |-> Trade(t)] EXCEPT ![s] = Trade(s)']
  BY <1>1
<1> QED BY <1>2, <1>3, <1>5, <1>6, <1>7, <1>8
        DEF SetsAside, Promise!Reserve, Promise!Free, Promise!Take

LEMMA SettlesRefines ==
    ASSUME MarketInv, NEW s \in Swaps, Settles(s)
    PROVE  Promise!Settle(s)
<1>0. /\ TypeOK /\ chain'[s] = "success" /\ \A t \in Swaps \ {s} : chain'[t] = chain[t]
  BY DEF MarketInv, TypeOK, Settles
<1>1. \A t \in Swaps \ {s} : Trade(t)' = Trade(t)
  BY <1>0, OtherTrades DEF Settles
<1>2. /\ Trade(s).state = "reserved" /\ Trade(s)'.state = "settled"
      /\ Trade(s)'.parties = Trade(s).parties /\ Trade(s)'.amount = Trade(s).amount
  BY <1>0 DEF Settles, Trade, Parties, Active, Unclaimed
<1>3. Trade(s)' = [Trade(s) EXCEPT !.state = "settled"]
  BY <1>2 DEF Trade, Parties
<1>4. Trade(s).parties \cap Orders = Parties(s) \cap Orders /\ Trade(s).amount = swap[s].amount
  BY Bounds DEF Trade, Parties
<1>5. moved' = [o \in Orders |-> IF o \in Trade(s).parties THEN moved[o] + Trade(s).amount
                                                          ELSE moved[o]]
  <2>1. \A o \in Orders : moved[o] \in Nat
    BY <1>0, OrderType
  <2> QED BY <1>4, <2>1 DEF Settles
<1>6. [t \in Swaps |-> Trade(t)'] = [[t \in Swaps |-> Trade(t)] EXCEPT ![s].state = "settled"]
  BY <1>1, <1>3
<1>7. \A m \in Swaps : m = s => Trade(m)' .parties = Trade(s).parties
  BY <1>2
<1> QED BY <1>2, <1>5, <1>6, <1>7 DEF Settles, Promise!Settle, Promise!Take

LEMMA EndsRefines ==
    ASSUME MarketInv, NEW s \in Swaps, Ends(s)
    PROVE  Promise!Release(s) \/ UNCHANGED Promise!vars
<1>0. /\ TypeOK /\ Parties(s) \subseteq Orders /\ swap[s].amount \in Nat
      /\ \A t \in Swaps \ {s} : Trade(t)' = Trade(t)
  BY PartiesAreOrders, RowType, OtherTrades DEF MarketInv, Ends, Active, Unclaimed
<1>1. Trade(s)'.parties = Trade(s).parties /\ Trade(s)'.amount = Trade(s).amount
  BY DEF Ends, Trade, Parties
<1>2. \A o \in Orders : order'[o].quantity = order[o].quantity
  BY <1>0 DEF Ends
<1>3. CASE swap'[s].status = "completed" /\ chain[s] = "success"
  <2>1. Trade(s)'.state = "settled" /\ Trade(s).state = "settled"
    BY <1>3 DEF Ends, Trade, Active, Unclaimed, Parties
  <2>2. \A t \in Swaps : Trade(t)' = Trade(t)
    BY <1>0, <1>1, <2>1 DEF Trade, Parties
  <2>3. \A o \in Orders : order'[o].filled = order[o].filled
    <3> SUFFICES ASSUME NEW o \in Orders PROVE order'[o].filled = order[o].filled
      OBVIOUS
    <3>1. order[o].filled \in Nat /\ Reserved(s) = 0
      BY <1>0, <1>3, OrderType DEF Reserved
    <3> QED BY <3>1 DEF Ends
  <2> QED BY <1>2, <2>2, <2>3 DEF Ends, Promise!vars
<1>4. CASE swap'[s].status \in {"failed", "expired"} /\ chain[s] # "success"
  <2>1. Trade(s)'.state = "released" /\ Trade(s).state = "reserved"
    BY <1>4 DEF Ends, Trade, Active, Unclaimed, Parties
  <2>2. Trade(s)' = [Trade(s) EXCEPT !.state = "released"]
    BY <1>1, <2>1 DEF Trade, Parties
  <2>3. [t \in Swaps |-> Trade(t)'] = [[t \in Swaps |-> Trade(t)] EXCEPT ![s].state = "released"]
    BY <1>0, <2>2
  <2>4. Trade(s).parties = Parties(s) /\ Trade(s).amount = swap[s].amount
    BY <1>0, Bounds DEF Trade, Parties
  <2>5. [o \in Orders |-> IF o \in Trade(s)'.parties THEN order'[o].filled + Trade(s).amount
                                                     ELSE order'[o].filled]
           = [o \in Orders |-> order[o].filled]
    <3>1. ASSUME NEW o \in Orders
          PROVE  order[o].filled = IF o \in Parties(s) THEN order'[o].filled + swap[s].amount
                                                       ELSE order'[o].filled
      <4>1. order[o].filled \in Nat /\ Reserved(s) = swap[s].amount
        BY <1>0, <1>4, OrderType DEF Reserved
      <4> QED BY <1>0, <4>1 DEF Ends
    <3> QED BY <1>1, <2>4, <3>1
  <2> QED BY <1>2, <2>1, <2>3, <2>5 DEF Ends, Promise!Release, Promise!Take
<1> QED BY <1>3, <1>4 DEF Ends

\* The shares a match reserves are settled, once, or released, never both, and
\* no order reserves or settles more than its owner signed.
THEOREM TradingImplementsPromise == Spec => ImplementsSettledOrReleased
<1>1. ASSUME Init PROVE Promise!Init
  <2>1. \A s \in Swaps : Trade(s) = [state |-> "none", parties |-> {}, amount |-> 0]
    BY <1>1, FreeTrade DEF Init
  <2>2. \A o \in Orders : order[o].quantity = 0 /\ order[o].filled = 0
    BY <1>1 DEF Init, Unborn
  <2> QED BY <1>1, <2>1, <2>2 DEF Init, Promise!Init, Promise!Free
<1>2. MarketInv /\ MarketInv' /\ [Next]_vars => [Promise!Next]_Promise!vars
  <2> SUFFICES ASSUME MarketInv, MarketInv', [Next]_vars PROVE [Promise!Next]_Promise!vars
    OBVIOUS
  <2>1. CASE Stands
    BY <2>1, StandsRefines
  <2>2. ASSUME NEW o \in Orders, Restates(o) PROVE Promise!Next
    BY <2>2, RestatesRefines DEF Promise!Next
  <2>3. ASSUME NEW s \in Swaps, SetsAside(s) \/ Settles(s) \/ Ends(s)
        PROVE  [Promise!Next]_Promise!vars
    BY <2>3, SetsAsideRefines, SettlesRefines, EndsRefines DEF Promise!Next
  <2> QED BY <2>1, <2>2, <2>3, NextKeeps DEF Effect
<1> QED BY <1>1, <1>2, TradingInvariant, PTL DEF Spec, Promise!Spec, ImplementsSettledOrReleased
=============================================================================
