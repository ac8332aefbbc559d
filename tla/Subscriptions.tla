---------------------------- MODULE Subscriptions ----------------------------
(***************************************************************************)
(* The subscriptions of one offering: intake, payment, refund, closing,    *)
(* scale-back and allotment against the headroom                           *)
(* (backend/offerings/services/subscription.py and models/subscription.py).*)
(*                                                                         *)
(* A clerk is anyone at work on a row: the investor, a member of staff, the*)
(* expiry sweep.  Operations that lock the row are one action.  Those that *)
(* read without a lock and write later (intake, scale_back, the supply an  *)
(* allotment is measured against) are two or more, and whatever another    *)
(* clerk commits in between is overwritten or missed.  The issuance jobs   *)
(* run beside the clerks, as ShareIssuance shows them.                     *)
(***************************************************************************)
EXTENDS Integers, FiniteSetsExt

CONSTANTS
    Rows,        \* subscriptions of the offering
    Clerks,
    Work,        \* bound: the kinds of work done in this instance
    Quantity,    \* quantity each row asks for
    Price,       \* price_per_share
    Payments,    \* bound: amounts that may be received
    Cap,         \* cap_shares
    Authorized   \* authorizedShares

Kinds == {"intake", "pay", "refund", "close", "scale", "allot", "batch", "retry"}

ASSUME SubscriptionAssumption ==
    /\ Work \subseteq Kinds
    /\ {Quantity, Price, Cap, Authorized} \subseteq Nat \ {0}
    /\ IsFiniteSet(Rows)
    /\ Payments \subseteq Nat \ {0}
    /\ \E most \in Payments : \A p \in Payments : p <= most

VARIABLES
    row,        \* Subscription, with the status of its linked request
    minted,     \* external: the row's shares are on chain
    returned,   \* history: the money record_refund sent back
    clerk       \* what each clerk read and has not yet acted on

vars == <<row, minted, returned, clerk>>

-----------------------------------------------------------------------------
Statuses == {"draft", "submitted", "accepted", "awaiting", "paid", "allotted", "refunded", "closed"}

RequestStatuses == {"none", "approved", "executing", "executed", "failed", "rejected"}

\* Amounts of money; 0 is null for received and refund.
Money == 0..Max(Payments)

\* allotted_quantity, null being the whole quantity; sent is refunded_at.
Subscription ==
    [status : Statuses, allotted : 0..Quantity, received : Money, refund : Money,
     sent : BOOLEAN, request : RequestStatuses]

Shares(S) == MapThenSumSet(LAMBDA s : row[s].allotted, S)

Due == Quantity * Price

Cost(shares) == shares * Price

AtLeastZero(n) == IF n > 0 THEN n ELSE 0

\* refunded_total
RefundedTotal(r) == IF r.sent THEN r.refund ELSE 0

\* money_held
Held(r) == r.received - RefundedTotal(r)

\* money_backing_shares
Backing(r) == IF r.status = "allotted" THEN Cost(r.allotted) ELSE 0

\* Mutant: what went back before is forgotten.
Refundable_Received(r) == AtLeastZero(r.received - Backing(r))

\* amount_refundable
Refundable(r) == AtLeastZero(Held(r) - Backing(r))

\* Mutant: a recorded refund is taken for an emptied row.
HasMoneyIn_Flag(r) == r.received # 0 /\ ~r.sent

\* has_money_in
HasMoneyIn(r) == r.received # 0 /\ Held(r) > 0

\* _refuse_if_issuance_claimed lets a row pass.
Unclaimed(r) == r.request \in {"none", "rejected"}

\* protect_issuance_subscription (migration 0048), on writes made without the
\* row lock: a linked row keeps its terms and follows its request.
RowGuard(old, new) ==
    old.request = "none" \/
    /\ new.allotted = old.allotted /\ new.received = old.received
    /\ old.request \in {"approved", "executing", "failed"} =>
          new.status = "paid" /\ new.refund = old.refund /\ new.sent = old.sent
    /\ old.request = "rejected" => new.status \in {"refunded", "closed"}
    /\ old.sent => new.refund >= old.refund
    /\ old.request # "executed" => new.status # "allotted"

-----------------------------------------------------------------------------
(* Clerks.                                                                 *)

NoCut == [s \in {} |-> 0]

Nothing == [pc |-> "idle", rows |-> {}, batch |-> FALSE, total |-> 0, issued |-> 0, unminted |-> 0,
            seen |-> "draft", cut |-> NoCut]

Free(c, kind) == kind \in Work /\ clerk[c].pc = "idle"

Holds(c, what) == clerk' = [clerk EXCEPT ![c] = what]

Done(c) == Holds(c, Nothing)

\* scale_back and allotment lock the offering.
OfferingUnlocked == \A c \in Clerks : clerk[c].pc # "scale"

-----------------------------------------------------------------------------
(* Intake: submit, accept, issue_instruction check and save the object the *)
(* request loaded.                                                         *)

FollowedBy == [draft |-> "submitted", submitted |-> "accepted", accepted |-> "awaiting"]

Load(c, s) ==
    /\ Free(c, "intake")
    /\ row[s].status \in DOMAIN FollowedBy
    /\ Holds(c, [Nothing EXCEPT !.pc = "intake", !.rows = {s}, !.seen = row[s].status])
    /\ UNCHANGED <<row, minted, returned>>

\* Accepting goes on to issue the instruction; that one also writes the
\* reference, which a linked row may not change.
Advance(c, s) ==
    LET seen == clerk[c].seen
        new == [row[s] EXCEPT !.status = FollowedBy[seen]]
    IN
    /\ clerk[c].pc = "intake"
    /\ clerk[c].rows = {s}
    /\ RowGuard(row[s], new)
    /\ seen = "accepted" => row[s].request = "none"
    /\ row' = [row EXCEPT ![s] = new]
    /\ IF seen = "submitted" THEN Holds(c, [clerk[c] EXCEPT !.seen = "accepted"]) ELSE Done(c)
    /\ UNCHANGED <<minted, returned>>

-----------------------------------------------------------------------------
(* Money, under the row lock.                                              *)

\* _scaled_quantity
Covered(received) == Min({Quantity, received \div Price})

\* Mutant: a part payment accepted as final is rounded up to whole shares.
Scaled_Up(received) == Min({Quantity, (received + Price - 1) \div Price})

\* The shares a part payment accepted as final buys.
Scaled(received) == Covered(received)

\* confirm_payment; the outcome is _payment_outcome's.
Pay(c, s, received) ==
    LET r == [row[s] EXCEPT !.received = received] IN
    /\ Free(c, "pay")
    /\ Unclaimed(row[s])
    /\ row[s].status \in {"awaiting", "paid"}
    /\ \/ /\ received >= Due
          /\ row' = [row EXCEPT ![s] = [r EXCEPT !.status = "paid", !.refund = received - Due]]
       \/ /\ received < Due
          /\ row' = [row EXCEPT ![s] = [r EXCEPT !.status = "awaiting"]]
       \/ \* accept_as_final
          /\ received < Due
          /\ Scaled(received) >= 1
          /\ row' = [row EXCEPT ![s] =
                [r EXCEPT !.status = "paid", !.allotted = Scaled(received),
                          !.refund = received - Cost(Scaled(received))]]
    /\ UNCHANGED <<minted, returned, clerk>>

\* Mutant: the last refund replaces the earlier ones.
Accumulated_Last(r, amount) == amount

\* The recorded refund once amount went back.
Accumulated(r, amount) == RefundedTotal(r) + amount

\* What _refuse_the_issuance and cancel_queued let pass.
RefundableRequest(r) == r.request \in {"none", "approved", "failed", "rejected"}

\* record_refund: before the shares are claimed it unwinds the allotment.
Refund(c, s, amount) ==
    LET r == row[s] IN
    /\ Free(c, "refund")
    /\ r.status \in {"awaiting", "paid", "allotted", "refunded"}
    /\ amount <= Refundable(r)
    /\ r.status = "allotted" \/ RefundableRequest(r)
    /\ row' = [row EXCEPT ![s] =
          [r EXCEPT !.refund = Accumulated(r, amount),
                    !.sent = TRUE,
                    !.status = IF @ = "allotted" THEN @ ELSE "refunded",
                    !.request = IF @ \in {"approved", "failed"} THEN "rejected" ELSE @]]
    /\ returned' = [returned EXCEPT ![s] = @ + amount]
    /\ UNCHANGED <<minted, clerk>>

\* reject, withdraw, and expire_overdue, which rejects.
Close(c, s) ==
    /\ Free(c, "close")
    /\ Unclaimed(row[s])
    /\ row[s].status \notin {"allotted", "closed"}
    /\ ~HasMoneyIn(row[s])
    /\ row' = [row EXCEPT ![s].status = "closed"]
    /\ UNCHANGED <<minted, returned, clerk>>

-----------------------------------------------------------------------------
(* Headroom.                                                               *)

\* Mutant: shares promised and not yet minted do not count.
Committed_Allotted == Shares({s \in Rows : row[s].status = "allotted"})

\* committed_to_shares, share_commitment
Committed ==
    Shares({s \in Rows : row[s].status \in {"paid", "allotted"} /\ row[s].request # "none"})

\* cap_headroom
CapRoom == Cap - Committed

\* totalSupply
Issued == Shares({s \in Rows : minted[s]})

\* unminted: requests that can still mint.
Unminted == Shares({s \in Rows : row[s].request \in {"approved", "executing"}})

-----------------------------------------------------------------------------
(* scale_back locks the offering, not the rows it cuts.                    *)

AwaitingAllotment == {s \in Rows : row[s].status = "paid" /\ row[s].request = "none"}

\* The share of the room a row of base shares gets of all those requested.
ProRata(base, requested) == AtLeastZero(Min({base, (base * CapRoom) \div requested}))

ScaleRead(c) ==
    LET requested == Shares(AwaitingAllotment)
        cut == {s \in AwaitingAllotment : ProRata(row[s].allotted, requested) # row[s].allotted}
    IN
    /\ Free(c, "scale")
    /\ OfferingUnlocked
    /\ requested > CapRoom /\ requested # 0
    /\ Holds(c, [Nothing EXCEPT !.pc = "scale", !.cut =
          [s \in cut |->
             LET allotted == ProRata(row[s].allotted, requested)
             IN  [allotted |-> allotted, refund |-> AtLeastZero(Held(row[s]) - Cost(allotted))]]])
    /\ UNCHANGED <<row, minted, returned>>

Cut(r, cut) == [r EXCEPT !.allotted = cut.allotted, !.refund = cut.refund]

ScaleWrite(c) ==
    LET cut == clerk[c].cut IN
    /\ clerk[c].pc = "scale"
    /\ \A s \in DOMAIN cut : RowGuard(row[s], Cut(row[s], cut[s]))
    /\ row' = [s \in Rows |-> IF s \in DOMAIN cut THEN Cut(row[s], cut[s]) ELSE row[s]]
    /\ Done(c)
    /\ UNCHANGED <<minted, returned>>

-----------------------------------------------------------------------------
(* allot and allot_batch read the supply before they lock.                 *)

\* _not_allottable finds nothing.
Allottable(r) == r.request = "none" /\ r.status = "paid" /\ r.allotted >= 1

\* A batch keeps its allottable rows, and sums what it read of them.
Choose(c, S) ==
    /\ \/ /\ Free(c, "allot")
          /\ Cardinality(S) = 1
          /\ Holds(c, [Nothing EXCEPT !.pc = "chosen", !.rows = S])
       \/ /\ Free(c, "batch")
          /\ S # {} /\ \A s \in S : Allottable(row[s])
          /\ Holds(c, [Nothing EXCEPT !.pc = "chosen", !.rows = S, !.batch = TRUE,
                                      !.total = Shares(S)])
    /\ UNCHANGED <<row, minted, returned>>

ReadIssued(c) ==
    /\ clerk[c].pc = "chosen"
    /\ Holds(c, [clerk[c] EXCEPT !.pc = "issued", !.issued = Issued])
    /\ UNCHANGED <<row, minted, returned>>

ReadUnminted(c) ==
    /\ clerk[c].pc = "issued"
    /\ Holds(c, [clerk[c] EXCEPT !.pc = "supply", !.unminted = Unminted])
    /\ UNCHANGED <<row, minted, returned>>

\* offering_headroom, with the supply read earlier.
ChainRoom(c) == Authorized - clerk[c].issued - Max({clerk[c].unminted, Unminted})

Room(c) == Min({CapRoom, ChainRoom(c)})

\* _admit_allotment for each row, in one commit: request, link and execution.
\* A single allotment is measured by the locked row, a batch by its sum.
Admit(c) ==
    LET S == clerk[c].rows IN
    /\ clerk[c].pc = "supply"
    /\ OfferingUnlocked
    /\ clerk[c].batch => clerk[c].total <= Room(c)
    /\ \A s \in S : Allottable(row[s]) /\ row[s].allotted <= Room(c)
    /\ row' = [s \in Rows |-> IF s \in S THEN [row[s] EXCEPT !.request = "approved"] ELSE row[s]]
    /\ Done(c)
    /\ UNCHANGED <<minted, returned>>

\* A refusal, an error or a lost session.
GiveUp(c) ==
    /\ clerk[c].pc # "idle"
    /\ Done(c)
    /\ UNCHANGED <<row, minted, returned>>

-----------------------------------------------------------------------------
(* The issuance of a row, as ShareIssuance has it.                         *)

Issuance(s, from, to) ==
    /\ row[s].request = from
    /\ row[s].status = "paid"
    /\ row' = [row EXCEPT ![s].request = to, ![s].status = IF to = "executed" THEN "allotted" ELSE @]
    /\ UNCHANGED <<minted, returned, clerk>>

\* _start
Claim(s) == Issuance(s, "approved", "executing")

\* External: the mint takes effect, within the authorized supply.
Mint(s) ==
    /\ row[s].request = "executing"
    /\ ~minted[s]
    /\ Issued + row[s].allotted <= Authorized
    /\ minted' = [minted EXCEPT ![s] = TRUE]
    /\ UNCHANGED <<row, returned, clerk>>

\* _project
Executed(s) == minted[s] /\ Issuance(s, "executing", "executed")

Failed(s) == ~minted[s] /\ Issuance(s, "executing", "failed")

\* retry_allotment
Retry(s) == "retry" \in Work /\ Issuance(s, "failed", "approved")

-----------------------------------------------------------------------------
Init ==
    /\ row = [s \in Rows |->
          [status |-> IF "intake" \in Work THEN "draft" ELSE "awaiting",
           allotted |-> Quantity, received |-> 0, refund |-> 0, sent |-> FALSE,
           request |-> "none"]]
    /\ minted = [s \in Rows |-> FALSE]
    /\ returned = [s \in Rows |-> 0]
    /\ clerk = [c \in Clerks |-> Nothing]

Serve(c) ==
    \/ \E s \in Rows : Load(c, s) \/ Advance(c, s) \/ Close(c, s)
    \/ \E s \in Rows, received \in Payments : Pay(c, s, received)
    \/ \E s \in Rows : \E amount \in 1..Refundable(row[s]) : Refund(c, s, amount)
    \/ ScaleRead(c) \/ ScaleWrite(c)
    \/ \E S \in SUBSET Rows : Choose(c, S)
    \/ ReadIssued(c) \/ ReadUnminted(c) \/ Admit(c)
    \/ GiveUp(c)

Issue(s) == Claim(s) \/ Mint(s) \/ Executed(s) \/ Failed(s) \/ Retry(s)

Next == (\E c \in Clerks : Serve(c)) \/ (\E s \in Rows : Issue(s))

Spec == Init /\ [][Next]_vars

-----------------------------------------------------------------------------
(* Properties.                                                             *)

\* Rows hold what the schema allows.
TypeOK ==
    /\ row \in [Rows -> Subscription]
    /\ minted \in [Rows -> BOOLEAN]
    /\ returned \in [Rows -> Money]
    /\ DOMAIN clerk = Clerks

\* The shares that are promised, out, or may be retried never exceed the cap the
\* offering disclosed.
CapRespected == Shares({s \in Rows : row[s].request \notin {"none", "rejected"}}) <= Cap

\* No more goes back to a subscriber than arrived.
NeverOverRefunded == \A s \in Rows : returned[s] <= row[s].received

\* Shares on chain are paid for by money still held, whatever was restated,
\* scaled or refunded around their allotment.
SharesArePaid ==
    \A s \in Rows : minted[s] => row[s].received - returned[s] >= Cost(row[s].allotted)

\* A closed row has every cent back.
ClosedIsEmpty == \A s \in Rows : row[s].status = "closed" => row[s].received = returned[s]

\* The recorded refunds are the money that went back.
RefundsAreRecorded == \A s \in Rows : RefundedTotal(row[s]) = returned[s]

\* What a paid row holds beyond the price of its shares is recorded as owed.
OwedIsRecorded ==
    \A s \in Rows : row[s].status = "paid" /\ ~row[s].sent =>
        row[s].refund = AtLeastZero(row[s].received - Cost(row[s].allotted))

\* The shares issued and those a request can still mint fit the authorized
\* supply, so no paid row is left with a mint that must refuse.
PromisedFits ==
    Shares({s \in Rows : minted[s] \/ row[s].request \in {"approved", "executing"}}) <= Authorized
=============================================================================
