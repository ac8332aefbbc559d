-------------------------- MODULE SettledOrReleased --------------------------
(***************************************************************************)
(* What matching promises the owners of two orders: the shares a match     *)
(* reserves are either settled, once, or released, never both, and an order*)
(* never reserves or settles more than its owner signed.                   *)
(***************************************************************************)
EXTENDS Naturals

CONSTANTS Orders, Matches

VARIABLES
    limit,    \* quantity the owner of each order signed; 0 before it exists
    used,     \* shares of the order reserved by a match or settled
    moved,    \* shares of the order that changed hands
    trade     \* state, parties and amount of each match

vars == <<limit, used, moved, trade>>

Take(f, m, n) == [o \in Orders |-> IF o \in trade'[m].parties THEN f[o] + n ELSE f[o]]

Free == [state |-> "none", parties |-> {}, amount |-> 0]

\* An owner places an order or signs another quantity for it.
Restate(o) ==
    /\ limit'[o] >= used[o]
    /\ \A p \in Orders \ {o} : limit'[p] = limit[p]
    /\ UNCHANGED <<used, moved, trade>>

\* An order is placed, or was, and two orders set the same shares aside for each other.
Reserve(m) ==
    /\ trade[m] = Free /\ trade'[m].state = "reserved" /\ trade'[m].amount > 0
    /\ trade' = [trade EXCEPT ![m] = trade'[m]]
    /\ used' = Take(used, m, trade'[m].amount)
    /\ \A o \in Orders : limit'[o] >= used'[o]
    /\ \A o \in Orders : limit'[o] = limit[o] \/ limit[o] = 0
    /\ UNCHANGED moved

Settle(m) ==
    /\ trade[m].state = "reserved"
    /\ trade' = [trade EXCEPT ![m].state = "settled"]
    /\ moved' = Take(moved, m, trade[m].amount)
    /\ UNCHANGED <<limit, used>>

Release(m) ==
    /\ trade[m].state = "reserved"
    /\ trade' = [trade EXCEPT ![m].state = "released"]
    /\ Take(used', m, trade[m].amount) = used
    /\ UNCHANGED <<limit, moved>>

Init ==
    /\ limit = [o \in Orders |-> 0]
    /\ used = [o \in Orders |-> 0]
    /\ moved = [o \in Orders |-> 0]
    /\ trade = [m \in Matches |-> Free]

Next ==
    \/ \E o \in Orders : Restate(o)
    \/ \E m \in Matches : Reserve(m) \/ Settle(m) \/ Release(m)

Spec == Init /\ [][Next]_vars
=============================================================================
