--------------------------- MODULE MCPlacerSession ---------------------------
(* Two pieces, one free and one tight place.  The mode may change during a *)
(* drag as long as violations are not allowed.                             *)
EXTENDS PlacerSession, TLC
CONSTANTS track, other, wide, narrow
MCSetting == [mode : {"mark", "walk", "shove"}, drc : {FALSE}]
               \cup [mode : {"mark"}, drc : {TRUE}]
MCMidDrag == {m \in MCSetting \X MCSetting : ~m[1].drc /\ ~m[2].drc}
Symmetry == Permutations({track, other})
=============================================================================
