---------------------------- MODULE SharesOrMoney ----------------------------
(***************************************************************************)
(* What an allotment promises about a subscriber's money: the shares are   *)
(* issued at most once and only for money still held, and what pays for    *)
(* them never goes back while they are claimed or issued.                  *)
(***************************************************************************)
EXTENDS Naturals

CONSTANTS Paid, Cost

VARIABLES
    shares,    \* "unclaimed", "claimed" by an attempt to issue, or "issued"
    returned   \* money sent back

vars == <<shares, returned>>

Claim ==
    /\ shares = "unclaimed"
    /\ Paid - returned >= Cost
    /\ shares' = "claimed"
    /\ UNCHANGED returned

Release ==
    /\ shares = "claimed"
    /\ shares' = "unclaimed"
    /\ UNCHANGED returned

Issue ==
    /\ shares = "claimed"
    /\ shares' = "issued"
    /\ UNCHANGED returned

Return(amount) ==
    /\ \/ shares = "unclaimed" /\ returned + amount <= Paid
       \/ shares = "issued" /\ returned + amount <= Paid - Cost
    /\ returned' = returned + amount
    /\ UNCHANGED shares

Init == shares = "unclaimed" /\ returned = 0

Next == Claim \/ Release \/ Issue \/ \E amount \in 1..Paid : Return(amount)

Spec == Init /\ [][Next]_vars
=============================================================================
