---------------------------- MODULE MCSessionLog ----------------------------
(* A session starts at p, a head may be moved to q and s, what ends at q   *)
(* is pulled back to p and what ends at s is refused to go on.  Host       *)
(* object h is on the board, k is a name for what a commit added.          *)
EXTENDS SessionLog, TLC
CONSTANTS p, q, s, h, k
MCPlace == {p, q, s}
MCStep == [m \in MCPlace \X MCPlace |-> m[2]]
MCAnchor == (p :> NoPlace) @@ (q :> p) @@ (s :> s)
MCReach == (p :> {0, 1}) @@ (q :> {0}) @@ (s :> {1})
MCStartAt == {<<p, 0>>}
MCShows == (h :> -1) @@ (k :> 0)
=============================================================================
