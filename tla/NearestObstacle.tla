--------------------------- MODULE NearestObstacle ---------------------------
(***************************************************************************)
(* What World::nearest_obstacle promises (src/src/node.rs): of the         *)
(* candidates, in the order of their uids, the one the line meets first,   *)
(* the smaller uid on a tie, whatever number of threads looked for it.     *)
(***************************************************************************)
EXTENDS Integers, Sequences

CONSTANT Candidates  \* candidate lists: where the line meets each of them

NoCrossing == -1     \* the line's path does not meet the candidate's hulls

VARIABLES asked,      \* a query is under way
          crossings,  \* its candidates
          answer      \* what it returned

vars == <<asked, crossings, answer>>

(* NearestObstacle: the candidate, and whether it was picked by geometry.  *)
NoAnswer == [item |-> 0, found |-> FALSE]
Answers == [item : Nat, found : BOOLEAN]

Crossed(c) == {i \in DOMAIN c : c[i] # NoCrossing}

(* Where nothing is crossed the first candidate stands in.                 *)
IsNearest(c, a) ==
    IF Crossed(c) = {}
    THEN a = [item |-> IF c = <<>> THEN 0 ELSE 1, found |-> FALSE]
    ELSE /\ a.found /\ a.item \in Crossed(c)
         /\ \A i \in Crossed(c) : \/ c[a.item] < c[i]
                                  \/ c[a.item] = c[i] /\ a.item <= i

Init == asked = FALSE /\ crossings = <<>> /\ answer = NoAnswer

Ask(c) == /\ ~asked
          /\ asked' = TRUE /\ crossings' = c /\ answer' = NoAnswer

Answer(a) == /\ asked /\ IsNearest(crossings, a)
             /\ asked' = FALSE /\ crossings' = <<>> /\ answer' = a

Next == \/ \E c \in Candidates : Ask(c)
        \/ \E item \in 0..Len(crossings), found \in BOOLEAN :
             Answer([item |-> item, found |-> found])

Spec == Init /\ [][Next]_vars
=============================================================================
