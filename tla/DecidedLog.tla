----------------------------- MODULE DecidedLog -----------------------------
(***************************************************************************)
(* What a replica promises the application about decisions (spec section  *)
(* 4.3 and section 8, Safety-Decide): decisions move an anchor up one      *)
(* branch of the leaf tree, and each Decide hands over, newest first,      *)
(* exactly the leaves between the new anchor and the old one -- none       *)
(* skipped, none repeated.                                                 *)
(***************************************************************************)
EXTENDS Integers, Sequences

CONSTANT Parent         \* leaf view -> parent leaf view; genesis 0

VARIABLES anchor,       \* the last decided leaf
          log           \* the leaves handed to the application, in order

\* The leaves from `a` down to, not including, its ancestor `stop`.
RECURSIVE PathDown(_, _)
PathDown(a, stop) == IF a = stop THEN <<>> ELSE <<a>> \o PathDown(Parent[a], stop)

RECURSIVE Descends(_, _)
Descends(b, a) == b = a \/ (b > a /\ Descends(Parent[b], a))

Init == anchor = 0 /\ log = <<>>

\* A decision on a leaf above the anchor on the anchor's branch.
Decide(a) ==
    /\ a > anchor /\ Descends(a, anchor)
    /\ log' = log \o PathDown(a, anchor)
    /\ anchor' = a

Next == \E a \in DOMAIN Parent : Decide(a)

Spec == Init /\ [][Next]_<<anchor, log>>

=============================================================================
