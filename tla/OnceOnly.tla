------------------------------ MODULE OnceOnly -------------------------------
(***************************************************************************)
(* What the outgoing journal promises the services that use it: an         *)
(* operation takes effect on the chain at most once, whatever is retried,  *)
(* and it may be tried again only when the last try provably had no effect.*)
(***************************************************************************)
CONSTANTS Ops       \* operation keys

VARIABLES
    stage,    \* what the journal's row says of each operation
    applied   \* whether the operation has taken effect on the chain

vars == <<stage, applied>>

Stages == {"absent", "open", "dispatched", "done", "undone"}

Move(o, from, to) ==
    /\ stage[o] \in from
    /\ stage' = [stage EXCEPT ![o] = to]
    /\ UNCHANGED applied

Open(o) == Move(o, {"absent", "undone"}, "open")

GiveUp(o) == Move(o, {"open"}, "undone")

Dispatch(o) == Move(o, {"open"}, "dispatched")

TakeEffect(o) ==
    /\ stage[o] = "dispatched"
    /\ ~applied[o]
    /\ applied' = [applied EXCEPT ![o] = TRUE]
    /\ UNCHANGED stage

Confirm(o) == applied[o] /\ Move(o, {"dispatched"}, "done")

Reject(o) == ~applied[o] /\ Move(o, {"dispatched"}, "undone")

Init ==
    /\ stage = [o \in Ops |-> "absent"]
    /\ applied = [o \in Ops |-> FALSE]

Next ==
    \E o \in Ops :
        \/ Open(o) \/ GiveUp(o) \/ Dispatch(o)
        \/ TakeEffect(o) \/ Confirm(o) \/ Reject(o)

Spec == Init /\ [][Next]_vars
=============================================================================
