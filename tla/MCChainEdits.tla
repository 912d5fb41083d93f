---------------------------- MODULE MCChainEdits ----------------------------
(* Circles of 16 positions, a straight line that runs into the first one in  *)
(* position 0 and three further points.  The lines: two arcs and a track; a  *)
(* track, an arc and a track; arcs at both ends; tracks only.                *)
EXTENDS ChainEdits

MCTurn == 16
MCStraight == <<18, 17, 16, 0>>
A(p, q, ccw) == ArcItem([from |-> p, to |-> q, ccw |-> ccw])
MCLines == {
  <<A(0, 4, TRUE), A(4, 12, TRUE), SegItem(12, 20)>>,
  <<SegItem(16, 0), A(0, 8, TRUE), SegItem(8, 20)>>,
  <<A(0, 6, TRUE), SegItem(6, 20), SegItem(20, 36), A(36, 32, FALSE)>>,
  <<SegItem(18, 17), SegItem(17, 16), SegItem(16, 0), SegItem(0, 20)>>}
MCFillets == {[from |-> 32, to |-> 36, ccw |-> TRUE]}
MCPoints == {16, 21}
=============================================================================
