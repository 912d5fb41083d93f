---------------------------- MODULE MCShoveRun ----------------------------
(* Two heads, tracks 1 and 2, the first with a via of its own (6), or via 7*)
(* dragged; on the board tracks 3 and 4, which end at via 7, and track 5,  *)
(* which the user locked and which ends at via 8.                          *)
EXTENDS ShoveRun

MCEnd == <<6, 0, 7, 7, 8>>
MCNet == <<"a", "d", "b", "b", "c", "a", "b", "c">>
=============================================================================
