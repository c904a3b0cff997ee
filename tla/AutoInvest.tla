----------------------------- MODULE AutoInvest -----------------------------
(***************************************************************************)
(* What auto-invest promises its user, whatever runs at the same time and  *)
(* whatever fails: a due date of a plan is materialized at most once, and  *)
(* only a date that was materialized is ever called executed or a          *)
(* duplicate.  Module DCA implements this.                                 *)
(***************************************************************************)

VARIABLES
    invested,  \* buys: a plan, a date and what else a row holds
    told       \* plan and date of what callers were told is done

vars == <<invested, told>>

Order(x) == <<x.plan, x.date>>

Init == invested = {} /\ told = {}

\* A buy is made, and its caller is told.
Materialize(x) ==
    /\ \A y \in invested : Order(y) # Order(x)
    /\ invested' = invested \cup {x}
    /\ told' = told \cup {Order(x)}

\* A caller is told that the date was done before.
Acknowledge(o) ==
    /\ \E y \in invested : Order(y) = o
    /\ told' = told \cup {o}
    /\ UNCHANGED invested

\* x and o are what the step adds.
Next ==
    \/ \E x \in invested' \ invested : Materialize(x)
    \/ \E o \in told' \ told : Acknowledge(o)

Spec == Init /\ [][Next]_vars

=============================================================================
