----------------------------- MODULE MCJointMap -----------------------------
(* Vias or pads on layers 0 and 1, tracks on layers 0, 1 and 2.            *)
EXTENDS JointMap, TLC
CONSTANTS v, w, t0, t1, t2, r, m, n

LayersOf == [i \in Item |-> CASE i = t0 -> {0} [] i = t1 -> {1} [] i = t2 -> {2}
                               [] OTHER -> 0..1]

(* The branches are interchangeable.                                       *)
Branches == Permutations({m, n})
=============================================================================
