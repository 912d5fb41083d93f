------------------------------ MODULE LineChain ------------------------------
(***************************************************************************)
(* The polyline with arcs of geometry/line_chain.rs, as an algebra: what   *)
(* each query answers and what each mutator makes of an open chain, and    *)
(* how node.rs cuts a chain into board items (add_line) and puts one       *)
(* together again (assemble_line).                                         *)
(*                                                                         *)
(* A chain is [v, arcs]: v pairs the parallel vectors points and shapes,   *)
(* indices count from 1 and 0 stands for None.  All arcs lie on one circle *)
(* of Turn positions, so an arc is [from, to, ccw]; other points are       *)
(* numbers above the circle.  Straight is a line that meets the circle in  *)
(* position 0.  Only outlines without arcs are closed in this crate, so a  *)
(* chain is open here.                                                     *)
(***************************************************************************)
EXTENDS Integers, FiniteSets, Sequences, SequencesExt, FiniteSetsExt

CONSTANTS
  Turn,      \* positions on a circle
  Straight   \* the points on the line through position 0, in its order

Ascending(S, n) == SelectSeq([k \in 1..n |-> k], LAMBDA k : k \in S)

\* The circle a position lies on starts at a multiple of twice the turn.
Circle(p) == p - (p % (2 * Turn))

Folded(op(_, _), base, s) ==
  LET to[i \in 0..Len(s)] == IF i = 0 THEN base ELSE op(to[i - 1], s[i])
  IN to[Len(s)]

-----------------------------------------------------------------------------
(* Arcs and vertices *)

Span(arc) ==
  LET s == (IF arc.ccw THEN arc.to - arc.from ELSE arc.from - arc.to) % Turn
  IN IF s = 0 THEN Turn ELSE s

Along(arc, s) ==
  Circle(arc.from) + ((IF arc.ccw THEN arc.from + s ELSE arc.from - s) % Turn)

Turned(arc) == [from |-> arc.to, to |-> arc.from, ccw |-> ~arc.ccw]

Plain(p) == [at |-> p, ends |-> 0, starts |-> 0, role |-> "plain"]
On(p, a, r) == [at |-> p, ends |-> a, starts |-> a, role |-> r]
Shared(p, e, s) == [at |-> p, ends |-> e, starts |-> s, role |-> "shared"]

EmptyChain == [v |-> <<>>, arcs |-> <<>>]

IsOnArc(c, i) == i \in DOMAIN c.v /\ c.v[i].role # "plain"
IsShared(c, i) == i \in DOMAIN c.v /\ c.v[i].role = "shared"

\* The arc of the segment that leaves a vertex, the arc of the one that
\* arrives, and the index the code calls the vertex's arc.
LeavingArc(w) == IF w.role = "end" THEN 0 ELSE w.starts
EnteringArc(w) == w.ends
ArcIndex(w) == w.starts
Touches(w, a) == a \in {w.ends, w.starts}

\* The vertex after an edit that moved the arcs from first on by count.
ShiftedUp(w, first, count) ==
  LET shift(a) == IF a >= first /\ a # 0 THEN a + count ELSE a
  IN [w EXCEPT !.ends = shift(@), !.starts = shift(@)]

-----------------------------------------------------------------------------
(* Queries *)

IsArcSegment(c, i) ==
  /\ i \in 1..Len(c.v) - 1
  /\ LeavingArc(c.v[i]) # 0
  /\ EnteringArc(c.v[i + 1]) = LeavingArc(c.v[i])

IsArcStart(c, i) == IsArcSegment(c, i) /\ c.v[i].role \in {"start", "shared"}

IsArcEnd(c, i) == IsArcSegment(c, i - 1) /\ c.v[i].role \in {"end", "shared"}

\* Mutant of NextShape: the end of the arc's indices is taken for the end of the arc.
NextShapeOver(c, i) ==
  LET a == ArcIndex(c.v[i])
      other == {k \in i..Len(c.v) : ArcIndex(c.v[k]) # a} \cup {Len(c.v)}
      next == IF a = 0 THEN i + 1 ELSE Min(other)
  IN IF i >= Len(c.v) \/ next = Len(c.v) THEN 0 ELSE next

NextShape(c, i) ==
  LET n == Len(c.v)
      a == ArcIndex(c.v[i])
      leaves == CHOOSE k \in i..n : /\ k = n \/ ArcIndex(c.v[k]) # a
                                    /\ \A m \in i..k - 1 : ArcIndex(c.v[m]) = a
      stop == IF leaves - i > 1 /\ ~Touches(c.v[leaves], a)
              THEN leaves - 1 ELSE leaves
      next == IF a = 0 THEN i + 1 ELSE stop
  IN IF i >= n \/ next = n THEN 0 ELSE next

\* The vertices where the shapes of a chain start, by its own walk.
ShapeStarts(c) ==
  LET walk[i \in 0..Len(c.v)] ==
        IF i = 0 THEN <<>> ELSE <<i>> \o walk[NextShape(c, i)]
  IN IF Len(c.v) < 2 THEN <<>> ELSE walk[1]

-----------------------------------------------------------------------------
(* Internals *)

\* mark_arc_run_roles
MarkRoles(c, a) ==
  LET run == {i \in DOMAIN c.v : Touches(c.v[i], a)}
      role(i) == CASE i = Min(run) -> "start"
                   [] i # Min(run) /\ i = Max(run) -> "end"
                   [] OTHER -> "interior"
  IN [c EXCEPT !.v = [i \in DOMAIN c.v |->
        IF i \in run /\ c.v[i].role # "shared"
        THEN On(c.v[i].at, a, role(i)) ELSE c.v[i]]]

\* convert_arc for one vertex, and for the chain: the arc goes, what it
\* approximated stays as plain points, the arcs above it move down.
Dropped(w, a) ==
  LET shift(b) == IF b > a THEN b - 1 ELSE b
  IN CASE w.role = "shared" /\ w.ends = a -> On(w.at, shift(w.starts), "start")
       [] w.role = "shared" /\ w.starts = a -> On(w.at, shift(w.ends), "end")
       [] w.role \notin {"shared", "plain"} /\ w.starts = a -> Plain(w.at)
       [] OTHER -> [w EXCEPT !.ends = shift(@), !.starts = shift(@)]

ConvertArc(c, a) ==
  IF a > Len(c.arcs) THEN c
  ELSE [v |-> [i \in DOMAIN c.v |-> Dropped(c.v[i], a)],
        arcs |-> RemoveAt(c.arcs, a)]

\* split_arc on a vertex that ends an arc: the arc ends one vertex earlier.
Shortened(c, i) ==
  LET a == EnteringArc(c.v[i])
      w == IF IsShared(c, i) THEN On(c.v[i].at, c.v[i].starts, "start")
           ELSE Plain(c.v[i].at)
  IN MarkRoles([c EXCEPT !.arcs[a].to = c.v[i - 1].at, !.v[i] = w], a)

\* Mutant of Halved: the vertices behind the cut keep their arcs.
HalvedUnshifted(c, i, coincident) ==
  LET a == ArcIndex(c.v[i])
      first == [c.arcs[a] EXCEPT !.to = c.v[IF coincident THEN i ELSE i - 1].at]
      second == [c.arcs[a] EXCEPT !.from = c.v[i].at]
      v == [k \in DOMAIN c.v |-> IF k = i /\ coincident
                                 THEN Shared(c.v[i].at, a, a + 1) ELSE c.v[k]]
  IN IF ~coincident /\ ArcIndex(c.v[i - 1]) # a
     THEN MarkRoles([c EXCEPT !.arcs[a] = second], a)
     ELSE MarkRoles(MarkRoles(
            [v |-> v, arcs |-> InsertAt([c.arcs EXCEPT ![a] = first], a + 1, second)],
            a), a + 1)

\* split_arc inside an arc: two arcs, which meet in vertex i or, when they
\* are not to be coincident, leave a straight gap before it.
Halved(c, i, coincident) ==
  LET a == ArcIndex(c.v[i])
      first == [c.arcs[a] EXCEPT !.to = c.v[IF coincident THEN i ELSE i - 1].at]
      second == [c.arcs[a] EXCEPT !.from = c.v[i].at]
      v == [k \in DOMAIN c.v |->
              CASE k < i -> c.v[k]
                [] k = i /\ coincident -> Shared(c.v[i].at, a, a + 1)
                [] OTHER -> ShiftedUp(c.v[k], 1, 1)]
  IN IF ~coincident /\ ArcIndex(c.v[i - 1]) # a
     THEN MarkRoles([c EXCEPT !.arcs[a] = second], a)
     ELSE MarkRoles(MarkRoles(
            [v |-> v, arcs |-> InsertAt([c.arcs EXCEPT ![a] = first], a + 1, second)],
            a), a + 1)

SplitArc(c, i, coincident) ==
  IF \/ ~IsOnArc(c, i)
     \/ ~IsShared(c, i) /\ IsArcStart(c, i)
     \/ ~coincident /\ i = 1
     \/ coincident /\ (IsShared(c, i) \/ IsArcEnd(c, i))
  THEN c
  ELSE IF IsShared(c, i) \/ IsArcEnd(c, i) THEN Shortened(c, i)
  ELSE Halved(c, i, coincident)

-----------------------------------------------------------------------------
(* Growing *)

AppendPoint(c, p) ==
  IF c.v # <<>> /\ Last(c.v).at = p THEN c ELSE [c EXCEPT !.v = @ \o <<Plain(p)>>]

\* Mutant of AppendChain: a seam stays what it was when an arc begins there.
AppendChainSeamless(c, o) ==
  LET moved == [i \in DOMAIN o.v |-> ShiftedUp(o.v[i], 1, Len(c.arcs))]
      repeats == c.v # <<>> /\ o.v # <<>> /\ Last(c.v).at = o.v[1].at
  IN [v |-> c.v \o (IF repeats THEN Tail(moved) ELSE moved), arcs |-> c.arcs \o o.arcs]

\* append_chain.  A first point that repeats our last one is not doubled: the
\* arc it starts, if any, starts in our last vertex instead.
AppendChain(c, o) ==
  LET n == Len(c.v)
      moved == [i \in DOMAIN o.v |-> ShiftedUp(o.v[i], 1, Len(c.arcs))]
      arcs == c.arcs \o o.arcs
      arriving == EnteringArc(moved[1])
      seam == IF Last(c.v).role = "plain" THEN On(Last(c.v).at, arriving, "start")
              ELSE Shared(Last(c.v).at, Last(c.v).ends, arriving)
  IN CASE o.v = <<>> -> c
       [] o.v # <<>> /\ (n = 0 \/ Last(c.v).at # o.v[1].at) ->
            [v |-> c.v \o moved, arcs |-> arcs]
       [] OTHER ->
            [v |-> (IF IsArcSegment(o, 1) THEN ReplaceAt(c.v, n, seam) ELSE c.v)
                   \o Tail(moved),
             arcs |-> arcs]

\* convert_to_polyline with two pieces, the fewest: its points lie at odd
\* quarters of the span.  A flat arc comes out as its chord.
Approximation(arc) ==
  LET quarter(q) == Along(arc, (q * Span(arc)) \div 4)
      pts == <<arc.from, quarter(1), quarter(3), arc.to>>
  IN Folded(AppendPoint, EmptyChain, pts)

\* append_arc: what it appends is an arc only if it has more than two points.
ArcChain(arc) ==
  LET c == Approximation(arc)
  IN IF Len(c.v) <= 2 THEN c
     ELSE MarkRoles([v |-> [i \in DOMAIN c.v |-> On(c.v[i].at, 1, "interior")],
                     arcs |-> <<arc>>], 1)

AppendArc(c, arc) == AppendChain(c, ArcChain(arc))

-----------------------------------------------------------------------------
(* Editing *)

Insert(c, i, p) ==
  LET split == IF i > 1 /\ IsOnArc(c, i) THEN SplitArc(c, i, FALSE) ELSE c
  IN IF i > Len(c.v) THEN AppendPoint(c, p)
     ELSE [split EXCEPT !.v = InsertAt(@, i, Plain(p))]

\* The index that arcs inserted before vertex i get.
SplicePosition(c, i) ==
  LET later == {k \in i..Len(c.v) : EnteringArc(c.v[k]) # 0}
  IN IF later = {} THEN Len(c.arcs) + 1 ELSE EnteringArc(c.v[Min(later)])

\* The vertices and arcs of o between what is before vertex i and the rest.
Spliced(c, i, o) ==
  LET pos == SplicePosition(c, i)
      ours == [k \in DOMAIN c.v |-> ShiftedUp(c.v[k], pos, Len(o.arcs))]
      theirs == [k \in DOMAIN o.v |-> ShiftedUp(o.v[k], 1, pos - 1)]
  IN [v |-> SubSeq(ours, 1, i - 1) \o theirs \o SubSeq(ours, i, Len(ours)),
      arcs |-> SubSeq(c.arcs, 1, pos - 1) \o o.arcs
               \o SubSeq(c.arcs, pos, Len(c.arcs))]

\* The end of remove_range, when no arc goes across the ends of the range: a
\* vertex that an outer arc ends or starts in stays.  The arcs inside go one
\* by one by the numbers they had at first (erratum E6).
Emptied(c, i, j) ==
  LET first == IF IsShared(c, i) THEN i + 1 ELSE i
      last == IF IsShared(c, j) THEN j - 1 ELSE j
      arcsAt(k) == CASE k = first /\ IsShared(c, k) -> {c.v[k].starts}
                     [] k = last /\ k # first /\ IsShared(c, k) -> {c.v[k].ends}
                     [] OTHER -> {c.v[k].ends, c.v[k].starts}
      doomed == UNION {arcsAt(k) : k \in first..last} \ {0}
      bare == Folded(ConvertArc, c, Ascending(doomed, Len(c.arcs)))
  IN IF first > last THEN c
     ELSE [bare EXCEPT !.v = SubSeq(@, 1, first - 1) \o SubSeq(@, last + 1, Len(@))]

\* remove_range.  An arc that is cut goes on in what stays of it.
RemoveRange(c, i, j) ==
  LET step(d, what) ==
        CASE what = "free the start" ->
               IF IsOnArc(d, i) /\ ~IsArcStart(d, i) THEN SplitArc(d, i, FALSE) ELSE d
          [] what = "free the end" ->
               IF IsOnArc(d, j) /\ ~IsArcEnd(d, j) /\ j < Len(d.v)
               THEN SplitArc(d, j + 1, TRUE) ELSE d
          [] what = "empty" -> Emptied(d, i, j)
  IN IF i > j \/ j > Len(c.v) THEN c
     ELSE Folded(step, c, <<"free the start", "free the end", "empty">>)

\* remove_shape
RemoveShape(c, i) ==
  LET a == ArcIndex(c.v[i])
      onto == {k \in 1..i : \A m \in k..i : ArcIndex(c.v[m]) = a}
      start == IF IsArcStart(c, i) THEN i ELSE Min(onto)
      next == NextShape(c, i)
      end == IF IsArcEnd(c, i) /\ start # i THEN i
             ELSE IF next = 0 THEN Len(c.v) ELSE next
  IN IF a = 0 THEN RemoveRange(c, i, i) ELSE RemoveRange(c, start, end)

Replace(c, i, j, p) == Insert(RemoveRange(c, i, j), i, p)

\* replace_with_chain.  Ends the two have in common are kept, not replaced.
ReplaceChain(c, i, j, o) ==
  LET head == IF o.v # <<>> /\ o.v[1].at = c.v[i].at THEN 1 ELSE 0
      tail == IF Len(o.v) > head /\ Last(o.v).at = c.v[j].at /\ j > 1 THEN 1 ELSE 0
      common == SubSeq(<<1>>, 1, head) \o SubSeq(<<Len(o.v) - head>>, 1, tail)
      middle == Folded(LAMBDA d, k : RemoveRange(d, k, k), o, common)
      rest == RemoveRange(c, i + head, j - tail)
  IN IF middle.v = <<>> THEN rest ELSE Spliced(rest, i + head, middle)

\* split in a point strictly inside segment i.
Split(c, i, p) ==
  LET inserted == [c EXCEPT !.v = InsertAt(@, i + 1,
                                           On(p, ArcIndex(c.v[i]), "interior"))]
  IN IF IsArcSegment(c, i) THEN SplitArc(inserted, i + 1, TRUE)
     ELSE Insert(c, i + 1, p)

ReverseChain(c) ==
  LET remap(a) == IF a = 0 THEN 0 ELSE Len(c.arcs) - a + 1
      flip(r) == CASE r = "start" -> "end" [] r = "end" -> "start" [] OTHER -> r
      turn(w) == [at |-> w.at, ends |-> remap(w.starts), starts |-> remap(w.ends),
                  role |-> flip(w.role)]
      v == Reverse(c.v)
      arcs == Reverse(c.arcs)
  IN [v |-> [i \in DOMAIN v |-> turn(v[i])],
      arcs |-> [a \in DOMAIN arcs |-> Turned(arcs[a])]]

\* set_point: of the two arcs at a shared vertex only the one that ends there
\* becomes plain points.
SetPoint(c, i, p) ==
  LET moved == [c EXCEPT !.v[i].at = p]
  IN IF IsOnArc(c, i) THEN ConvertArc(moved, EnteringArc(c.v[i])) ELSE moved

-----------------------------------------------------------------------------
(* Slicing *)

\* slice that begins inside an arc: the rest of the arc, to its end even if
\* that lies after the slice's (erratum E10).
ArcTail(c, i) ==
  LET a == ArcIndex(c.v[i])
      run == {k \in i..Len(c.v) : \A m \in i..k : ArcIndex(c.v[m]) = a}
      w == [k \in 1..Cardinality(run) |-> On(c.v[i + k - 1].at, 1, "interior")]
  IN MarkRoles([v |-> w, arcs |-> <<[c.arcs[a] EXCEPT !.from = c.v[i].at]>>], 1)

\* slice that ends inside the arc which starts at vertex i.
ArcHead(r, c, i, j) ==
  LET a == ArcIndex(c.v[i])
      run == {k \in i..j : \A m \in i..k : ArcIndex(c.v[m]) = a}
      b == Len(r.arcs) + 1
      w == [k \in 1..Cardinality(run) |-> On(c.v[i + k - 1].at, b, "interior")]
  IN MarkRoles([v |-> r.v \o w,
                arcs |-> Append(r.arcs, [c.arcs[a] EXCEPT !.to = c.v[j].at])], b)

\* Mutant of SlicedShape: a straight shape is taken along even if it starts at the end.
SlicedShapePast(r, c, first, i, j) ==
  LET next == NextShape(c, i)
      ours == IF i = first THEN AppendPoint(r, c.v[i].at) ELSE r
      within == (next # 0 /\ next <= j) \/ (next = 0 /\ j = Len(c.v))
  IN CASE IsArcStart(c, i) /\ within -> AppendArc(r, c.arcs[ArcIndex(c.v[i])])
       [] IsArcStart(c, i) /\ ~within /\ i < j -> ArcHead(r, c, i, j)
       [] IsArcStart(c, i) /\ ~within /\ i = j -> AppendPoint(r, c.v[i].at)
       [] ~IsArcStart(c, i) /\ i < Len(c.v) -> AppendPoint(ours, c.v[i + 1].at)
       [] OTHER -> ours

\* One shape of the walk, the one that starts at vertex i, onto the result r.
SlicedShape(r, c, first, i, j) ==
  LET next == NextShape(c, i)
      ours == IF i = first THEN AppendPoint(r, c.v[i].at) ELSE r
      within == (next # 0 /\ next <= j) \/ (next = 0 /\ j = Len(c.v))
  IN CASE IsArcStart(c, i) /\ within -> AppendArc(r, c.arcs[ArcIndex(c.v[i])])
       [] IsArcStart(c, i) /\ ~within /\ i < j -> ArcHead(r, c, i, j)
       [] IsArcStart(c, i) /\ ~within /\ i = j -> AppendPoint(r, c.v[i].at)
       [] ~IsArcStart(c, i) /\ i < j /\ ~IsArcSegment(c, next) ->
            AppendPoint(ours, c.v[i + 1].at)
       [] OTHER -> ours

RECURSIVE SliceFrom(_, _, _, _, _)
SliceFrom(r, c, first, i, j) ==
  IF i = 0 \/ i > j THEN r
  ELSE SliceFrom(SlicedShape(r, c, first, i, j), c, first, NextShape(c, i), j)

Slice(c, i, j) ==
  LET tail == ArcTail(c, i)
      first == i + Len(tail.v)
  IN IF IsArcSegment(c, i) /\ ~IsArcStart(c, i)
     THEN SliceFrom(tail, c, first, first, j)
     ELSE SliceFrom(EmptyChain, c, i, i, j)

-----------------------------------------------------------------------------
(* Simplifying *)

\* Is p on the segment from a to b; and is it on the line through them.
OnSegment(p, a, b) ==
  \/ p \in {a, b}
  \/ \E k \in DOMAIN Straight :
       /\ Straight[k] = p
       /\ \E x \in 1..k - 1, z \in k + 1..Len(Straight) :
            {Straight[x], Straight[z]} = {a, b}

OnLine(p, a, b) == p \in {a, b} \/ a = b \/ {p, a, b} \subseteq ToSet(Straight)

\* merged_duplicate_points: a run of equal points that do not belong to
\* different arcs becomes one vertex.
MergedDuplicates(c) ==
  LET same(i, k) == /\ c.v[k].at = c.v[i].at
                    /\ c.v[k] = c.v[i] \/ "plain" \in {c.v[i].role, c.v[k].role}
      next(i) == Min({k \in i + 1..Len(c.v) : ~same(i, k)} \cup {Len(c.v) + 1})
      from[i \in 1..Len(c.v) + 1] ==
        IF i > Len(c.v) THEN <<>>
        ELSE <<IF c.v[i].role = "plain" THEN c.v[next(i) - 1] ELSE c.v[i]>>
             \o from[next(i)]
  IN [c EXCEPT !.v = from[1]]

RemoveDuplicates(c) ==
  CASE Len(c.v) < 3 -> c
    [] Len(c.v) = 3 -> IF c.v[1].at = c.v[2].at THEN RemoveRange(c, 2, 2) ELSE c
    [] OTHER -> MergedDuplicates(c)

\* simplify with no tolerance: plain vertices on the straight segment between
\* the ones that stay go; the last two vertices are never skipped over.
Simplify(c) ==
  LET n == Len(c.v)
      fits(i, k) == \A m \in i + 1..k - 1 :
                      ~IsOnArc(c, m) /\ OnSegment(c.v[m].at, c.v[i].at, c.v[k].at)
      reach(i) == Min({k \in i + 2..n : ~fits(i, k)} \cup {n + 1}) - 1
      from[i \in 1..n] == IF i >= n - 1 THEN <<c.v[i]>>
                          ELSE <<c.v[i]>> \o from[reach(i)]
      kept == from[1]
  IN IF n < 3 THEN c
     ELSE IF Last(kept).at # c.v[n].at \/ Len(kept) = 1
     THEN [c EXCEPT !.v = Append(kept, c.v[n])] ELSE [c EXCEPT !.v = kept]

\* simplify2 with collinear runs: a run starts at two plain vertices and goes
\* on as far as the next vertex is in line, whatever the vertices are (E12).
Simplify2(c) ==
  LET u == MergedDuplicates(c).v
      n == Len(u)
      inLine(i, r) == OnLine(u[r + 1].at, u[i].at, u[r + 2].at)
      reach(i) == IF u[i].role = "plain" /\ u[i + 1].role = "plain"
                  THEN Min({r \in i..n - 2 : ~inLine(i, r)} \cup {n - 1}) ELSE i
      from[i \in 1..n] ==
        IF i >= n - 1 THEN SubSeq(u, i, n)
        ELSE <<u[i]>> \o from[reach(i) + 1]
  IN IF Len(c.v) <= 3 THEN RemoveDuplicates(c) ELSE [c EXCEPT !.v = from[1]]
=============================================================================
