-------------------------- MODULE MCLinePlacement --------------------------
(* Two plans.  In the steady one two legs are in force and a move has two  *)
(* passes; the other has one of each and anything goes.                    *)
EXTENDS LinePlacement
MCPlans == {
    [modes |-> Mode, switches |-> {"mark", "walk"} \X {"mark", "walk"},
     outcomes |-> {"moved"}, nodes |-> 11, fixes |-> 2, frames |-> 4, rounds |-> 2],
    [modes |-> {"walk", "shove"}, switches |-> {"walk", "shove"} \X {"walk", "shove"},
     outcomes |-> Outcome, nodes |-> 7, fixes |-> 1, frames |-> 2, rounds |-> 1]}
=============================================================================
