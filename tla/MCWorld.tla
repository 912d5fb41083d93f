------------------------------ MODULE MCWorld ------------------------------
(* The root and three branches, three items of which one carries a hole.   *)
EXTENDS World, TLC
CONSTANTS r, n1, n2, n3, a, b, p, h
MCNode == {r, n1, n2, n3}
MCItem == {a, b, p, h}
MCBody == {a, b, p}
MCDrill == (a :> {}) @@ (b :> {}) @@ (p :> {h})
Symmetry == Permutations({n1, n2, n3}) \cup Permutations({a, b})
=============================================================================
