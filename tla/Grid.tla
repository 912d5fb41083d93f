-------------------------------- MODULE Grid --------------------------------
(***************************************************************************)
(* Points with small coordinates and the lines drawn through them, as      *)
(* geometry/line_chain.rs and geometry/seg.rs treat them while there are   *)
(* no arcs: a point is a pair, a line the sequence of its points.  The     *)
(* code's tolerances are a nanometre or two and the points of a grid are   *)
(* much further apart, so nothing here has a tolerance.                    *)
(***************************************************************************)
EXTENDS Integers, Sequences, SequencesExt, FiniteSetsExt

Sign(z) == IF z > 0 THEN 1 ELSE IF z < 0 THEN -1 ELSE 0
AbsOf(z) == z * Sign(z)
\* On which side of the line from p to q is r.
Side(p, q, r) ==
  Sign((q[1] - p[1]) * (r[2] - p[2]) - (q[2] - p[2]) * (r[1] - p[1]))
Within(r, p, q) ==
  \A k \in 1..2 : r[k] \in Min({p[k], q[k]})..Max({p[k], q[k]})
OnSegment(r, p, q) == Side(p, q, r) = 0 /\ Within(r, p, q)

\* append_chain, of lines without arcs.
Joined(c, d) ==
  IF c # <<>> /\ d # <<>> /\ Last(c) = d[1] THEN c \o Tail(d) ELSE c \o d

\* simplify with no tolerance.
Simplified(c) ==
  LET n == Len(c)
      fits(i, k) == \A m \in i + 1..k - 1 : OnSegment(c[m], c[i], c[k])
      reach(i) == Min({k \in i + 2..n : ~fits(i, k)} \cup {n + 1}) - 1
      from[i \in 1..n] ==
        IF i >= n - 1 THEN <<c[i]>> ELSE <<c[i]>> \o from[reach(i)]
  IN IF n < 3 THEN c
     ELSE IF Last(from[1]) # c[n] \/ Len(from[1]) = 1 THEN Append(from[1], c[n])
     ELSE from[1]

\* nearest_point_to_point, of the segment from a to b to a point of its line.
Nearest(p, a, b) ==
  LET dot(q) == (q[1] - a[1]) * (b[1] - a[1]) + (q[2] - a[2]) * (b[2] - a[2])
  IN IF dot(p) < 0 THEN a ELSE IF dot(p) > dot(b) THEN b ELSE p

\* LinePlacer::move_to: a trace that would run along the track from a to b ends
\* where it gets there.
EndedOn(c, a, b) ==
  LET p == c[Len(c) - 1]
      q == Last(c)
      along == /\ Side(p, q, a) = 0 /\ Side(p, q, b) = 0
               /\ \/ OnSegment(p, a, b) \/ OnSegment(q, a, b)
                  \/ OnSegment(a, p, q) \/ OnSegment(b, p, q)
  IN IF along THEN [c EXCEPT ![Len(c)] = Nearest(p, a, b)] ELSE c
=============================================================================
