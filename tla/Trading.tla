------------------------------- MODULE Trading -------------------------------
(***************************************************************************)
(* The secondary market of one share token: orders, their matching, the    *)
(* signatures on a match, its execution through the AtomicSwap contract    *)
(* and the sweeps (backend/tokens/services: token_transfer_service,        *)
(* atomic_swap_service, swap_expiry, trading_locks, order_actions,         *)
(* order_modification_service; models/transfer_order.py, swap_order.py;    *)
(* contracts/AtomicSwap.sol).                                              *)
(*                                                                         *)
(* A worker is a request that signed a match and goes on to execute it, or *)
(* the reconciler.  Each transaction is one action; what a worker holds    *)
(* between two of them is its session, and it may stop anywhere.           *)
(***************************************************************************)
EXTENDS Integers

CONSTANTS
    Sells, Buys,   \* orders by side, each of a wallet of its own
    Swaps,         \* bound: matches there can be
    Workers,
    MaxQuantity,   \* bound: quantities
    Terms,         \* bound: minimum fills and prices each owner may sign
    None           \* no order

Orders == Sells \cup Buys

ASSUME TradingAssumption ==
    /\ Sells \cap Buys = {}
    /\ None \notin Orders
    /\ MaxQuantity \in Nat \ {0}
    /\ Terms \in [Orders -> SUBSET [minimum : 0..MaxQuantity, price : Nat]]

VARIABLES
    order,    \* TransferOrder rows
    swap,     \* SwapOrder rows with the status of their transaction
    late,     \* matches whose deadline has passed
    chain,    \* each match's execution on chain
    moved,    \* shares of each order the contract moved
    session   \* what each worker holds

vars == <<order, swap, late, chain, moved, session>>

-----------------------------------------------------------------------------
Prices == {terms.price : terms \in UNION {Terms[o] : o \in Orders}}

OrderStatuses ==
    {"unborn", "open", "partially_filled", "pending_signature", "completed", "cancelled"}

\* No service writes executing, expired or failed.  MATCHED is overwritten by PENDING_SIGNATURE in the transaction that sets it.
TransferOrder ==
    [status : OrderStatuses, quantity : 0..MaxQuantity, minimum : 0..MaxQuantity,
     filled : 0..MaxQuantity, price : Prices \cup {0}, matched : Orders \cup {None}]

Unclaimed == {"created", "seller_signed", "buyer_signed", "ready"}

Active == Unclaimed \cup {"executing"}

SwapStatuses == Active \cup {"none", "completed", "failed", "expired"}

TxStatuses == {"none", "pending", "submitted", "confirmed", "reverted", "failed"}

\* tx is the BlockchainTransaction the row names, hash whether both carry its hash.
SwapOrder ==
    [status : SwapStatuses, sell : Sells \cup {None}, buy : Buys \cup {None}, amount : 0..MaxQuantity,
     price : Prices \cup {0}, signed : SUBSET {"seller", "buyer"}, tx : TxStatuses, hash : BOOLEAN]

Steps == {"idle", "claim", "prepare", "admit", "send", "sent", "receipt", "answered"}

Session == [pc : Steps, swap : Swaps \cup {None}, hash : BOOLEAN, answer : {"none", "success", "reverted"}]

Idle == [pc |-> "idle", swap |-> None, hash |-> FALSE, answer |-> "none"]

Unborn == [status |-> "unborn", quantity |-> 0, minimum |-> 0, filled |-> 0, price |-> 0, matched |-> None]

NoSwap ==
    [status |-> "none", sell |-> None, buy |-> None, amount |-> 0, price |-> 0,
     signed |-> {}, tx |-> "none", hash |-> FALSE]

Parties(s) == {swap[s].sell, swap[s].buy}

\* open_or_partial, can_cancel
InBook(o) == order[o].status \in {"open", "partially_filled"}

\* has_pending_swap
HasPendingSwap(o) == \E s \in Swaps : swap[s].status \in Active /\ o \in Parties(s)

Becomes(w, pc) == session' = [session EXCEPT ![w].pc = pc]

Finish(w) == session' = [session EXCEPT ![w] = Idle]

-----------------------------------------------------------------------------
(* The book.                                                               *)

Smaller(m, n) == IF m < n THEN m ELSE n

Left(o, book) == book[o].quantity - book[o].filled

\* The shares two orders would trade: what is left of the smaller.
Fill(o, p, book) == Smaller(Left(o, book), Left(p, book))

\* find_matching_orders: within both prices, and no less than either minimum.
Compatible(sell, buy, book) ==
    /\ book[buy].price >= book[sell].price
    /\ Fill(sell, buy, book) > 0
    /\ Fill(sell, buy, book) >= book[sell].minimum
    /\ Fill(sell, buy, book) >= book[buy].minimum

\* Mutant: create_swap_order forgets the counterparty's order.
Match_OneSide(s, sell, buy, book) ==
    LET amount == Fill(sell, buy, book)
        Reserved(o, other) == [book[o] EXCEPT !.filled = @ + amount, !.matched = other,
                                              !.status = "pending_signature"]
    IN  /\ Compatible(sell, buy, book)
        /\ swap[s].status = "none"
        /\ swap' = [swap EXCEPT ![s] =
                       [status |-> "created", sell |-> sell, buy |-> buy, amount |-> amount,
                        price |-> book[sell].price, signed |-> {}, tx |-> "none", hash |-> FALSE]]
        /\ order' = [book EXCEPT ![sell] = Reserved(sell, buy),
                                 ![buy] = [Reserved(buy, sell) EXCEPT !.status = "partially_filled"]]

\* match_orders on two locked orders: partial_match_with, then create_swap_order.
Match(s, sell, buy, book) ==
    LET amount == Fill(sell, buy, book)
        Reserved(o, other) == [book[o] EXCEPT !.filled = @ + amount, !.matched = other,
                                              !.status = "pending_signature"]
    IN  /\ Compatible(sell, buy, book)
        /\ swap[s].status = "none"
        /\ swap' = [swap EXCEPT ![s] =
                       [status |-> "created", sell |-> sell, buy |-> buy, amount |-> amount,
                        price |-> book[sell].price, signed |-> {}, tx |-> "none", hash |-> FALSE]]
        /\ order' = [book EXCEPT ![sell] = Reserved(sell, buy), ![buy] = Reserved(buy, sell)]

\* create_order_and_match, one transaction.  The order matches at most one
\* candidate: in price and time order, passing over those whose payment is no
\* whole number of units and those committed after its query began.
CreateOrder(o, q, terms) ==
    LET book == [order EXCEPT ![o] = [Unborn EXCEPT !.status = "open", !.quantity = q,
                                                    !.minimum = terms.minimum, !.price = terms.price]]
    IN  /\ order[o].status = "unborn"
        /\ terms.minimum <= q
        /\ \/ order' = book /\ UNCHANGED swap
           \/ \E s \in Swaps, p \in {p \in Orders : InBook(p)} :
                 \/ o \in Sells /\ p \in Buys /\ Match(s, o, p, book)
                 \/ o \in Buys /\ p \in Sells /\ Match(s, p, o, book)
        /\ UNCHANGED <<late, chain, moved, session>>

\* execute_order_action on a cancellation, under the order's lock.
CancelOrder(o) ==
    /\ InBook(o)
    /\ order' = [order EXCEPT ![o].status = "cancelled"]
    /\ UNCHANGED <<swap, late, chain, moved, session>>

\* Mutant: a live match does not hold the terms.
ModifyOrder_Matched(o, q, terms) ==
    /\ InBook(o) \/ order[o].status = "pending_signature"
    /\ q > order[o].filled
    /\ terms.minimum <= q - order[o].filled
    /\ order' = [order EXCEPT ![o].quantity = q, ![o].minimum = terms.minimum,
                               ![o].price = terms.price]
    /\ UNCHANGED <<swap, late, chain, moved, session>>

\* execute_order_action on a modification: apply_order_modification.  Whether
\* the balance read earlier allows a larger sale is the chain's to say.
ModifyOrder(o, q, terms) ==
    /\ ~HasPendingSwap(o) /\ InBook(o)
    /\ q > order[o].filled
    /\ terms.minimum <= q - order[o].filled
    /\ order' = [order EXCEPT ![o].quantity = q, ![o].minimum = terms.minimum,
                               ![o].price = terms.price]
    /\ UNCHANGED <<swap, late, chain, moved, session>>

-----------------------------------------------------------------------------
(* Signing.                                                                *)

SignedBy(signed) ==
    CASE signed = {"seller"} -> "seller_signed"
      [] signed = {"buyer"} -> "buyer_signed"
      [] signed = {"seller", "buyer"} -> "ready"
      [] OTHER -> "created"

\* is_ready
Ready(s) == swap[s].status = "ready" /\ swap[s].signed = {"seller", "buyer"}

\* _store_signature, and sign_and_execute_swap going on to execute.
Sign(w, s, role) ==
    /\ session[w] = Idle
    /\ swap[s].status \in Unclaimed /\ role \notin swap[s].signed
    /\ swap[s].tx = "none" /\ ~swap[s].hash
    /\ s \notin late
    /\ LET signed == swap[s].signed \cup {role}
       IN  /\ swap' = [swap EXCEPT ![s].signed = signed, ![s].status = SignedBy(signed)]
           /\ session' = IF SignedBy(signed) = "ready"
                         THEN [session EXCEPT ![w] = [Idle EXCEPT !.pc = "claim", !.swap = s]]
                         ELSE session
    /\ UNCHANGED <<order, late, chain, moved>>

\* A party sends its signature again: the row is returned as it is, and executed if ready.
Resign(w, s) ==
    /\ session[w] = Idle
    /\ Ready(s)
    /\ session' = [session EXCEPT ![w] = [Idle EXCEPT !.pc = "claim", !.swap = s]]
    /\ UNCHANGED <<order, swap, late, chain, moved>>

-----------------------------------------------------------------------------
(* Releasing and settling a match.                                         *)

\* Mutant: the whole order is given back.
Released_Order(s) ==
    [o \in Orders |->
        IF o \in Parties(s)
        THEN LET filled == order[o].filled - order[o].quantity
             IN  [order[o] EXCEPT !.filled = filled,
                                  !.status = IF filled > 0 THEN "partially_filled" ELSE "open"]
        ELSE order[o]]

\* Undo the match on both orders.
Released(s) ==
    [o \in Orders |->
        IF o \in Parties(s)
        THEN LET filled == order[o].filled - swap[s].amount
             IN  [order[o] EXCEPT !.filled = filled,
                                  !.status = IF filled > 0 THEN "partially_filled" ELSE "open"]
        ELSE order[o]]

\* Mutant: the orders reopen with what the match reserved.
FailedOrders_Kept(s) ==
    [o \in Orders |->
        IF o \in Parties(s) /\ order[o].status # "completed"
        THEN [order[o] EXCEPT !.status = "partially_filled"]
        ELSE order[o]]

\* mark_failed leaves an order that is done and takes off no more than there is.
FailedOrders(s) ==
    [o \in Orders |->
        IF o \in Parties(s) /\ order[o].status # "completed"
        THEN LET filled == IF order[o].filled > swap[s].amount
                           THEN order[o].filled - swap[s].amount ELSE 0
             IN  [order[o] EXCEPT !.filled = filled,
                                  !.status = IF filled > 0 THEN "partially_filled" ELSE "open"]
        ELSE order[o]]

\* mark_completed
CompletedOrders(s) ==
    [o \in Orders |->
        IF o \in Parties(s)
        THEN [order[o] EXCEPT !.status = IF order[o].filled >= order[o].quantity THEN "completed" ELSE "open"]
        ELSE order[o]]

\* The orders of a match, while it holds them, and nothing else holds them.
HoldsItsOrders(s) ==
    /\ \A o \in Parties(s) : order[o].status = "pending_signature" /\ order[o].filled >= swap[s].amount
    /\ order[swap[s].sell].matched = swap[s].buy /\ order[swap[s].buy].matched = swap[s].sell
    /\ \A t \in Swaps \ {s} : swap[t].status \in Active => Parties(s) \cap Parties(t) = {}

\* Mutant: age alone releases, a claim or not.
Expire_Claimed(s) ==
    /\ s \in late
    /\ swap[s].status \in Active
    /\ HoldsItsOrders(s)
    /\ swap' = [swap EXCEPT ![s].status = "expired"]
    /\ order' = Released(s)
    /\ UNCHANGED <<late, chain, moved, session>>

\* Mutant: a match both signed is taken for one being executed.
Expire_NotReady(s) ==
    /\ s \in late
    /\ swap[s].status \in Unclaimed \ {"ready"} /\ swap[s].status = SignedBy(swap[s].signed)
    /\ swap[s].tx = "none" /\ ~swap[s].hash
    /\ HoldsItsOrders(s)
    /\ swap' = [swap EXCEPT ![s].status = "expired"]
    /\ order' = Released(s)
    /\ UNCHANGED <<late, chain, moved, session>>

\* expire_unclaimed_swap, under the locks of both orders and of the match.
Expire(s) ==
    /\ s \in late
    /\ swap[s].status \in Unclaimed /\ swap[s].status = SignedBy(swap[s].signed)
    /\ swap[s].tx = "none" /\ ~swap[s].hash
    /\ HoldsItsOrders(s)
    /\ swap' = [swap EXCEPT ![s].status = "expired"]
    /\ order' = Released(s)
    /\ UNCHANGED <<late, chain, moved, session>>

-----------------------------------------------------------------------------
(* Executing a match: execute_swap and what follows it.                    *)

\* lock_current_claim: the row is still the claim the worker knows.
CurrentClaim(w) ==
    LET s == session[w].swap
    IN  swap[s].status = "executing" /\ swap[s].tx # "none" /\ swap[s].hash = session[w].hash

\* Mutant: the row is not read again under its lock.
Claim_Stale(w) ==
    LET s == session[w].swap
    IN  /\ session[w].pc = "claim"
        /\ swap[s].status \in {"ready", "executing"}
        /\ s \notin late
        /\ swap' = [swap EXCEPT ![s].status = "executing", ![s].tx = "pending"]
        /\ Becomes(w, "prepare")
        /\ UNCHANGED <<order, late, chain, moved>>

\* _claim_execution
Claim(w) ==
    LET s == session[w].swap
    IN  /\ session[w].pc = "claim"
        /\ Ready(s) /\ swap[s].tx = "none" /\ ~swap[s].hash
        /\ s \notin late
        /\ swap' = [swap EXCEPT ![s].status = "executing", ![s].tx = "pending"]
        /\ Becomes(w, "prepare")
        /\ UNCHANGED <<order, late, chain, moved>>

\* validate_swap_balances and _prepare_attempt succeed: signed bytes in memory.
Prepare(w) ==
    /\ session[w].pc = "prepare"
    /\ Becomes(w, "admit")
    /\ UNCHANGED <<order, swap, late, chain, moved>>

\* Mutant: an exception of the send counts as never sent.
NeverSent_Unknown(w) ==
    LET s == session[w].swap
    IN  /\ session[w].pc \in {"prepare", "sent"}
        /\ CurrentClaim(w) /\ ~swap[s].hash /\ swap[s].tx \in {"pending", "failed"}
        /\ swap' = [swap EXCEPT ![s].tx = "failed", ![s].status = "failed"]
        /\ order' = FailedOrders(s)
        /\ Finish(w)
        /\ UNCHANGED <<late, chain, moved>>

\* They fail, and _record_never_sent releases the match.
NeverSent(w) ==
    LET s == session[w].swap
    IN  /\ session[w].pc = "prepare"
        /\ CurrentClaim(w) /\ ~swap[s].hash /\ swap[s].tx \in {"pending", "failed"}
        /\ swap' = [swap EXCEPT ![s].tx = "failed", ![s].status = "failed"]
        /\ order' = FailedOrders(s)
        /\ Finish(w)
        /\ UNCHANGED <<late, chain, moved>>

\* _admit_claim
Admit(w) ==
    /\ session[w].pc = "admit"
    /\ CurrentClaim(w)
    /\ session[w].swap \notin late
    /\ Becomes(w, "send")
    /\ UNCHANGED <<order, swap, late, chain, moved>>

\* send_raw_transaction reaches the chain; the answer may still be lost.
Send(w) ==
    LET s == session[w].swap
    IN  /\ session[w].pc = "send"
        /\ chain' = [chain EXCEPT ![s] = IF @ = "success" THEN @ ELSE "pending"]
        /\ Becomes(w, "sent")
        /\ UNCHANGED <<order, swap, late, moved>>

\* _record_sent
RecordSent(w) ==
    LET s == session[w].swap
    IN  /\ session[w].pc = "sent"
        /\ CurrentClaim(w)
        /\ swap' = [swap EXCEPT ![s].tx = "submitted", ![s].hash = TRUE]
        /\ session' = [session EXCEPT ![w].pc = "receipt", ![w].hash = TRUE]
        /\ UNCHANGED <<order, late, chain, moved>>

Mined(s) == chain[s] \in {"success", "reverted"}

\* Mutant: no receipt is taken for a failed one.
ReadReceipt_Missing(w) ==
    LET s == session[w].swap
    IN  /\ session[w].pc = "receipt"
        /\ session' = [session EXCEPT ![w].pc = "answered",
                                      ![w].answer = IF chain[s] = "success" THEN "success" ELSE "reverted"]
        /\ UNCHANGED <<order, swap, late, chain, moved>>

\* receipt_even_if_reverted finds a receipt.
ReadReceipt(w) ==
    LET s == session[w].swap
    IN  /\ session[w].pc = "receipt" /\ Mined(s)
        /\ session' = [session EXCEPT ![w].pc = "answered", ![w].answer = chain[s]]
        /\ UNCHANGED <<order, swap, late, chain, moved>>

\* Mutant: only executed matches are looked for.
Reconcile_Executed(w, s) ==
    /\ session[w] = Idle
    /\ swap[s].status = "executing" /\ swap[s].tx # "none" /\ swap[s].hash
    /\ chain[s] = "success"
    /\ session' = [session EXCEPT ![w] =
                      [pc |-> "answered", swap |-> s, hash |-> TRUE, answer |-> chain[s]]]
    /\ UNCHANGED <<order, swap, late, chain, moved>>

\* resolve_executing_swap up to its receipt.
Reconcile(w, s) ==
    /\ session[w] = Idle
    /\ swap[s].status = "executing" /\ swap[s].tx # "none" /\ swap[s].hash
    /\ Mined(s)
    /\ session' = [session EXCEPT ![w] =
                      [pc |-> "answered", swap |-> s, hash |-> TRUE, answer |-> chain[s]]]
    /\ UNCHANGED <<order, swap, late, chain, moved>>

\* _record_receipt
RecordReceipt(w) ==
    LET s == session[w].swap
    IN  /\ session[w].pc = "answered"
        /\ CurrentClaim(w)
        /\ \/ /\ session[w].answer = "success" /\ swap[s].tx # "reverted"
              /\ swap' = [swap EXCEPT ![s].tx = "confirmed", ![s].status = "completed"]
              /\ order' = CompletedOrders(s)
           \/ /\ session[w].answer = "reverted" /\ swap[s].tx # "confirmed"
              /\ swap' = [swap EXCEPT ![s].tx = "reverted", ![s].status = "failed"]
              /\ order' = FailedOrders(s)
        /\ Finish(w)
        /\ UNCHANGED <<late, chain, moved>>

\* A worker dies, is refused, or meets an exception it does not answer with a write.
Stop(w) ==
    /\ session[w] # Idle
    /\ Finish(w)
    /\ UNCHANGED <<order, swap, late, chain, moved>>

-----------------------------------------------------------------------------
(* Time and the chain.                                                     *)

PassDeadline(s) ==
    /\ swap[s].status \in Active
    /\ late' = late \cup {s}
    /\ UNCHANGED <<order, swap, chain, moved, session>>

\* AtomicSwap.executeSwap.  The contract's clock is not the server's, and it
\* may refuse for a balance, an allowance or a membership.
ExecuteSwap(s) ==
    /\ chain[s] = "pending"
    /\ \/ /\ swap[s].signed = {"seller", "buyer"}
          /\ chain' = [chain EXCEPT ![s] = "success"]
          /\ moved' = [o \in Orders |-> moved[o] + IF o \in Parties(s) THEN swap[s].amount ELSE 0]
       \/ chain' = [chain EXCEPT ![s] = "reverted"] /\ UNCHANGED moved
    /\ UNCHANGED <<order, swap, late, session>>

-----------------------------------------------------------------------------
Init ==
    /\ order = [o \in Orders |-> Unborn]
    /\ swap = [s \in Swaps |-> NoSwap]
    /\ late = {}
    /\ chain = [s \in Swaps |-> "none"]
    /\ moved = [o \in Orders |-> 0]
    /\ session = [w \in Workers |-> Idle]

Owner(o) ==
    \/ \E q \in 1..MaxQuantity, terms \in Terms[o] : CreateOrder(o, q, terms) \/ ModifyOrder(o, q, terms)
    \/ CancelOrder(o)

Work(w) ==
    \/ \E s \in Swaps : \/ \E role \in {"seller", "buyer"} : Sign(w, s, role)
                        \/ Resign(w, s) \/ Reconcile(w, s)
    \/ Claim(w) \/ Prepare(w) \/ NeverSent(w) \/ Admit(w) \/ Send(w) \/ RecordSent(w)
    \/ ReadReceipt(w) \/ RecordReceipt(w) \/ Stop(w)

Next ==
    \/ \E o \in Orders : Owner(o)
    \/ \E w \in Workers : Work(w)
    \/ \E s \in Swaps : Expire(s) \/ PassDeadline(s) \/ ExecuteSwap(s)

Spec == Init /\ [][Next]_vars

\* The two sweeps run every minute and every five minutes, matches expire and
\* the chain mines what it is given.  A worker that stops does not always stop.
FairSpec ==
    /\ Spec
    /\ \A s \in Swaps :
          WF_vars(PassDeadline(s)) /\ WF_vars(Expire(s)) /\ WF_vars(ExecuteSwap(s))
    /\ \A w \in Workers, s \in Swaps : SF_vars(Reconcile(w, s))
    /\ \A w \in Workers : SF_vars(RecordReceipt(w)) /\ WF_vars(Stop(w))

-----------------------------------------------------------------------------
(* Properties.                                                             *)

TypeOK ==
    /\ order \in [Orders -> TransferOrder]
    /\ swap \in [Swaps -> SwapOrder]
    /\ late \subseteq Swaps
    /\ chain \in [Swaps -> {"none", "pending", "success", "reverted"}]
    /\ moved \in [Orders -> 0..MaxQuantity]
    /\ session \in [Workers -> Session]

\* Matches that have set shares aside and not moved them.
Unsettled(s) == swap[s].status \in Active /\ chain[s] # "success"

\* filled_quantity is exact through matching, expiry, failed and uncertain
\* executions and modification: what the contract moved, and what the one live
\* match of the order has set aside and not moved.
FilledIsAccounted ==
    \A o \in Orders :
        IF \E s \in Swaps : Unsettled(s) /\ o \in Parties(s)
        THEN \E s \in Swaps : /\ Unsettled(s) /\ o \in Parties(s)
                              /\ order[o].filled = moved[o] + swap[s].amount
        ELSE order[o].filled = moved[o]

\* A live match holds its two orders alone, and an order waits for signatures
\* only while a live match holds it.
MatchesHoldOrders ==
    /\ \A s \in Swaps : swap[s].status \in Active => HoldsItsOrders(s)
    /\ \A o \in Orders : order[o].status = "pending_signature" => HasPendingSwap(o)

\* What a live match will settle stays within what both owners ask, whatever
\* they have signed since: "the order's terms cannot change under its match".
TermsStand ==
    \A s \in Swaps : swap[s].status \in Active =>
        /\ order[swap[s].sell].price <= swap[s].price /\ swap[s].price <= order[swap[s].buy].price
        /\ \A o \in Parties(s) : /\ order[o].minimum <= swap[s].amount
                                 /\ order[o].filled <= order[o].quantity

\* A recorded outcome, and a receipt a worker still holds, is what the chain did.
OutcomeIsTrue ==
    /\ \A s \in Swaps :
          /\ swap[s].status = "completed" <=> swap[s].tx = "confirmed"
          /\ swap[s].status = "failed" <=> swap[s].tx \in {"failed", "reverted"}
          /\ swap[s].tx = "confirmed" => chain[s] = "success"
          /\ swap[s].tx = "reverted" => chain[s] = "reverted"
          /\ swap[s].tx = "failed" => chain[s] = "none"
    /\ \A w \in Workers : session[w].pc = "answered" => session[w].answer = chain[session[w].swap]

Trade(s) ==
    [state |-> CASE swap[s].status = "none" -> "none"
                 [] swap[s].status \in {"expired", "failed"} -> "released"
                 [] chain[s] = "success" -> "settled"
                 [] OTHER -> "reserved",
     parties |-> Parties(s) \ {None},
     amount |-> swap[s].amount]

Promise == INSTANCE SettledOrReleased WITH
    Matches <- Swaps,
    limit <- [o \in Orders |-> order[o].quantity],
    used <- [o \in Orders |-> order[o].filled],
    moved <- moved,
    trade <- [s \in Swaps |-> Trade(s)]

\* Matching, signing, expiry, execution and reconciliation together keep the
\* promise of SettledOrReleased to the owners of the orders.
ImplementsSettledOrReleased == Promise!Spec

\* A match nobody claims gives its shares back.
UnclaimedEnds ==
    \A s \in Swaps : swap[s].status \in Unclaimed ~> swap[s].status \notin Unclaimed

\* An execution whose hash was recorded is decided, whoever sent it and
\* whether or not that worker lived to see the receipt.
SentIsDecided ==
    \A s \in Swaps : swap[s].hash ~> swap[s].status \in {"completed", "failed"}
=============================================================================
