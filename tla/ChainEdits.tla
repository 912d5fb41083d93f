----------------------------- MODULE ChainEdits -----------------------------
(***************************************************************************)
(* The life of one line's chain: it comes off the board as items, is       *)
(* edited by any sequence of the mutators of geometry/line_chain.rs, and   *)
(* may go back to the board at any time.  The optimizer, the shove and the *)
(* placer all edit lines in this way and store them with add_line, and the *)
(* next assemble_line has to find what was stored.                         *)
(***************************************************************************)
EXTENDS LineChain

CONSTANTS
  Lines,      \* the lines on the board at first, as sequences of items
  Fillets,    \* the arcs a new trace may bring in
  Points,     \* the points an edit may bring in
  AnyCut,     \* may a slice begin inside an arc that another arc follows
  MaxEdits,   \* bound on the edits of one chain
  MaxPoints   \* bound on the vertices of a chain that is edited further

VARIABLES
  chain,
  merging,    \* is merge_full at work on it
  edits       \* how many edits it has seen

vars == <<chain, merging, edits>>

-----------------------------------------------------------------------------
(* Between chains and items on the board *)

SegItem(p, q) == [kind |-> "seg", from |-> p, to |-> q, ccw |-> TRUE]
ArcItem(a) == [kind |-> "arc", from |-> a.from, to |-> a.to, ccw |-> a.ccw]
ArcOf(it) == [from |-> it.from, to |-> it.to, ccw |-> it.ccw]

\* assemble_line: the corners of tracks and the arcs in the order of the
\* line, then the points that came twice go.
Assembled(items) ==
  LET next(c, it) ==
        IF it.kind = "arc" THEN AppendArc(c, ArcOf(it))
        ELSE AppendPoint(AppendPoint(c, it.from), it.to)
  IN RemoveDuplicates(FoldLeft(next, EmptyChain, items))

\* The segments for which add_line stores an item: the first one of each arc,
\* and every straight one that has a length.
Stored(c) ==
  {i \in 1..Len(c.v) - 1 :
     IF IsArcSegment(c, i)
     THEN ~IsArcSegment(c, i - 1) \/ ArcIndex(c.v[i - 1]) # ArcIndex(c.v[i])
     ELSE c.v[i].at # c.v[i + 1].at}

\* add_line on a board that holds nothing else along the line.
Items(c) ==
  LET item(i) == IF IsArcSegment(c, i) THEN ArcItem(c.arcs[ArcIndex(c.v[i])])
                 ELSE SegItem(c.v[i].at, c.v[i + 1].at)
      starts == Ascending(Stored(c), Len(c.v))
  IN [k \in DOMAIN starts |-> item(starts[k])]

\* clip_vertex_range on the links of a line that covers vertices i to j.
Clipped(c, links, i, j) ==
  LET starts == ShapeStarts(c)
      stops == {k \in DOMAIN starts : starts[k] >= j - 1 \/ k >= Len(links)}
      last == Min(stops \cup {Len(links)})
      first == Max({k \in 1..last : k = 1 \/ starts[k] <= i})
      rotated == SubSeq(links, first, last - 1) \o SubSeq(links, 1, first - 1)
                 \o SubSeq(links, last, Len(links))
  IN SubSeq(rotated, 1, last - first + 1)

-----------------------------------------------------------------------------
(* Edits *)

Init ==
  /\ chain \in {Assembled(items) : items \in Lines}
  /\ merging = FALSE
  /\ edits = 0

Vertices == DOMAIN chain.v
Size == Len(chain.v)

MayEdit == ~merging /\ edits < MaxEdits /\ Size \in 2..MaxPoints

\* One edit outside of merge_full: the chain is what the callee made of it.
Becomes(c) ==
  /\ MayEdit
  /\ edits' = edits + 1
  /\ chain' = c
  /\ UNCHANGED merging

NoArcs == chain.arcs = <<>>

FromPoints(pts) == FoldLeft(AppendPoint, EmptyChain, pts)

\* A slice that begins inside an arc takes the arc over without the vertex it
\* shares with the next one.  Unless AnyCut, no slice begins there.
Cuttable(c, i) ==
  \/ AnyCut \/ ~IsArcSegment(c, i) \/ IsArcStart(c, i)
  \/ \A k \in i..Len(c.v) : IsShared(c, k) => c.v[k].ends # ArcIndex(c.v[i])

\* What build_initial_trace may draw between two points.
Traces(p, q) ==
  {FromPoints(<<p, q>>)} \cup {FromPoints(<<p, m, q>>) : m \in Points}
  \cup {AppendPoint(AppendArc(FromPoints(<<p>>), a), q) : a \in Fillets}

\* optimize_line on a line that has no arcs yet: merge_full with its steps.  A
\* step replaces a span that begins and ends in straight segments; the arcs it
\* meets are the ones that earlier steps have drawn.
StartMerge ==
  /\ ~merging /\ edits < MaxEdits /\ NoArcs /\ Size \in 2..MaxPoints
  /\ merging' = TRUE
  /\ chain' = Simplify2(chain)
  /\ UNCHANGED edits

MayMerge(i, step) == ~IsArcSegment(chain, i) /\ ~IsArcSegment(chain, i + step)

MergeStep ==
  /\ merging /\ edits < MaxEdits /\ Size <= MaxPoints
  /\ \E i \in Vertices, step \in 1..Size - 2 :
       /\ i + step < Size
       /\ MayMerge(i, step)
       /\ \E bypass \in Traces(chain.v[i].at, chain.v[i + step + 1].at) :
            \E merged \in {ReplaceChain(chain, i, i + step, bypass)} :
              chain' = Simplify2(merged)
  /\ edits' = edits + 1
  /\ UNCHANGED merging

EndMerge ==
  /\ merging
  /\ merging' = FALSE
  /\ UNCHANGED <<chain, edits>>

\* drag_fix_corner, which also runs on lines with arcs.
DragFixCorner ==
  MayEdit /\ \E i \in 2..Size - 1 :
    /\ ~IsArcSegment(chain, i - 1) /\ ~IsArcSegment(chain, i)
    /\ \E m \in Points :
         \E fixed \in {ReplaceChain(chain, i - 1, i,
                         FromPoints(<<chain.v[i - 1].at, m, chain.v[i + 1].at>>))} :
           Becomes(Simplify2(fixed))

\* merge_obtuse, one fold.
MergeObtuse ==
  \E i, k \in Vertices, p \in Points :
    NoArcs /\ i < k /\ k < Size /\ Becomes(Replace(chain, i + 1, k, p))

\* merge_colinear: plain corners that are none go; after one has gone the next
\* one is passed over.
MergeColinear ==
  LET flat(c, i) ==
        /\ Cardinality({c.v[k].at : k \in i..i + 2}) = 3
        /\ OnLine(c.v[i + 1].at, c.v[i].at, c.v[i + 2].at)
        /\ ~IsOnArc(c, i + 1)
      next(c, i) == IF i + 2 <= Len(c.v) /\ flat(c, i) THEN RemoveRange(c, i + 1, i + 1)
                    ELSE c
  IN Becomes(FoldLeft(next, chain, [i \in Vertices |-> i]))

\* smart_pads_single: a new way out of the pad at either end, up to vertex k;
\* the rest of the line comes over as points.
RedrawExit(c, k, p) ==
  FromPoints(<<c.v[1].at, p>> \o [m \in 1..Len(c.v) - k + 1 |-> c.v[k + m - 1].at])
SmartPads ==
  \E k \in 2..Size, p \in Points :
    /\ NoArcs /\ Size >= 3
    /\ \/ Becomes(Simplify2(RedrawExit(chain, k, p)))
       \/ Becomes(Simplify2(ReverseChain(RedrawExit(ReverseChain(chain), k, p))))

FanoutCleanup ==
  /\ NoArcs /\ Size >= 3
  /\ \E c \in Traces(chain.v[1].at, Last(chain.v).at) : Becomes(c)

\* drag_corner_free: at the outer end of an arc a copy of the vertex is moved.
\* Where that end is the last vertex of the chain, the vertex to copy is looked
\* for beyond it and the call ends in a panic, which is no step here.
DragCornerFree ==
  \E i \in Vertices, p \in Points :
    LET c == chain
        before == i = 1 \/ ~IsOnArc(c, i - 1)
        after == i = Size \/ ~IsArcSegment(c, i)
    IN CASE ~IsOnArc(c, i) -> Becomes(Simplify(SetPoint(c, i, p)))
         [] IsOnArc(c, i) /\ before ->
              Becomes(Simplify(SetPoint(Insert(c, i, c.v[i].at), i, p)))
         [] IsOnArc(c, i) /\ ~before /\ after /\ i < Size ->
              Becomes(Simplify(SetPoint(Insert(c, i + 1, c.v[i].at), i + 1, p)))
         [] OTHER -> FALSE

\* drag_corner_internal: a prefix of the line and a new trace to p.
DraggedTo(c, p) ==
  LET prefix(k) == AppendChain(Slice(c, 1, k), FromPoints(<<c.v[k].at, p>>))
  IN IF Len(c.v) <= 2 THEN {FromPoints(<<c.v[1].at, p>>)}
     ELSE {prefix(k) : k \in 1..Len(c.v) - 1}

\* drag_corner_45.  A corner inside the line is dragged from both sides; the
\* far end of a segment before an arc is copied first.
DragCorner45 ==
  MayEdit /\ \E i \in Vertices, p \in Points :
    \/ /\ i = 1
       /\ \E back \in {ReverseChain(chain)} : \E d \in DraggedTo(back, p) :
            Becomes(Simplify(ReverseChain(d)))
    \/ /\ i = Size
       /\ \E d \in DraggedTo(chain, p) : Becomes(Simplify(d))
    \/ /\ i \in 2..Size - 1
       /\ \E c \in {IF IsOnArc(chain, i + 1) THEN Insert(chain, i + 1, chain.v[i + 1].at)
                    ELSE chain} :
            /\ Cuttable(c, i)
            /\ \E left \in {Slice(c, 1, i)},
                  right \in {ReverseChain(Slice(c, i, Len(c.v)))} :
                 \E head \in DraggedTo(left, p),
                    tail \in {ReverseChain(d) : d \in DraggedTo(right, p)} :
                   \E joined \in {AppendChain(head, tail)} : Becomes(Simplify(joined))

\* drag_segment: the segment moves to p q and its neighbours follow; a vertex
\* of an arc, and one whose neighbour runs the same way, stays and the segment
\* leaves from it.
DragSegment ==
  MayEdit /\ \E i \in 1..Size - 1, p, q \in Points :
    /\ ~IsArcSegment(chain, i)
    /\ \E from \in IF i = 1 \/ IsOnArc(chain, i) THEN {i} ELSE {i - 1, i},
          to \in IF i + 1 = Size \/ IsOnArc(chain, i + 1) THEN {i + 1} ELSE {i + 1, i + 2} :
         \E moved \in {ReplaceChain(chain, i, i + 1,
                         FromPoints(<<chain.v[from].at, p, q, chain.v[to].at>>))} :
            Becomes(Simplify(moved))

\* drag_arc: what comes before the arc, the new arc unless it has collapsed,
\* what comes after it.  A tangent neighbour gives up its end vertex, and its
\* other one too when the new arc reaches that.
DragArc ==
  MayEdit /\ \E i \in Vertices :
    LET run == {k \in Vertices : ArcIndex(chain.v[k]) = ArcIndex(chain.v[i])}
        firsts == IF Min(run) = 1 THEN {1} ELSE Min(run) - 2..Min(run)
        lasts == IF Max(run) = Size THEN {Size} ELSE Max(run)..Max(run) + 2
        prefix(k) == IF k < 1 THEN EmptyChain ELSE Slice(chain, 1, k)
        suffix(k) == IF k > Size THEN EmptyChain ELSE Slice(chain, k, Size)
    IN /\ IsOnArc(chain, i)
       /\ \E first \in firsts, last \in lasts,
             middle \in {EmptyChain} \cup {ArcChain(a) : a \in Fillets} :
            /\ middle = EmptyChain => first >= Min(run) - 1 /\ last <= Max(run) + 1
            /\ Cuttable(chain, last)
            /\ Becomes(AppendChain(AppendChain(prefix(first), middle), suffix(last)))

\* The points of the model strictly inside segment i that are no vertex yet.
Inside(i) ==
  LET arc == [from |-> chain.v[i].at, to |-> chain.v[i + 1].at,
              ccw |-> chain.arcs[ArcIndex(chain.v[i])].ccw]
      all == IF IsArcSegment(chain, i)
             THEN {Along(arc, s) : s \in 1..Span(arc) - 1}
             ELSE {p \in ToSet(Straight) :
                     OnSegment(p, chain.v[i].at, chain.v[i + 1].at)}
  IN all \ {chain.v[k].at : k \in Vertices}

SplitAt ==
  \E i \in 1..Size - 1 : \E p \in Inside(i) : Becomes(Split(chain, i, p))

\* split_head_tail: the placer goes on with either part.
SplitHeadTail ==
  \E i \in 2..Size - 1 :
    \/ Becomes(Slice(chain, 1, i))
    \/ Cuttable(chain, i) /\ Becomes(Slice(chain, i, Size))

\* handle_pullback takes the last shape off the tail.
Pullback == Becomes(RemoveShape(chain, Size))

\* route_step's head that ends on a track it may join.
MoveEnd == \E p \in Points : Becomes(SetPoint(chain, Size, p))

TurnAround == Becomes(ReverseChain(chain))

Cleaned == Becomes(Simplify2(chain))

\* The line goes to the board and comes back.
Reassembled ==
  \E items \in {Items(chain)} : items # <<>> /\ Becomes(Assembled(items))

Next ==
  \/ StartMerge \/ MergeStep \/ EndMerge
  \/ DragFixCorner \/ MergeObtuse \/ MergeColinear \/ SmartPads \/ FanoutCleanup
  \/ DragCornerFree \/ DragCorner45 \/ DragSegment \/ DragArc
  \/ SplitAt \/ SplitHeadTail \/ Pullback \/ MoveEnd \/ TurnAround
  \/ Cleaned \/ Reassembled

Spec == Init /\ [][Next]_vars

-----------------------------------------------------------------------------
(* Properties *)

\* The vertices that refer to an arc.
Run(a) == {i \in Vertices : Touches(chain.v[i], a)}
Live == {a \in DOMAIN chain.arcs : Run(a) # {}}

\* What check_invariants asserts after every mutator: each arc's vertices form
\* one run, the first of them starts the arc and the last one ends it, and the
\* arcs come in the order of their runs.
Sound ==
  /\ \A i \in Vertices : {chain.v[i].ends, chain.v[i].starts} \subseteq 0..Len(chain.arcs)
  /\ \A a \in Live :
       LET first == Min(Run(a))
           last == Max(Run(a))
       IN /\ Run(a) = first..last
          /\ chain.v[first].role \in {"start", "shared"}
          /\ first = last \/ chain.v[last].role \in {"end", "shared"}
  /\ \A a, b \in Live : a < b => Min(Run(a)) <= Min(Run(b))

\* The walk over shapes that clip_vertex_range counts links by and the walk
\* over segments by which add_line makes them stop at the same vertices, but
\* for segments without length, which get no item.
ShapesAreItems ==
  LET long(i) == IsArcSegment(chain, i) \/ chain.v[i].at # chain.v[i + 1].at
  IN {i \in ToSet(ShapeStarts(chain)) : long(i)} = Stored(chain)

\* Whether a line visits a point twice (has_loops).
HasLoops(c) == \E i, k \in DOMAIN c.v : k >= i + 2 /\ c.v[i].at = c.v[k].at

Flattened(it) ==
  IF it.kind = "arc" /\ Len(Approximation(ArcOf(it)).v) <= 2
  THEN SegItem(it.from, it.to) ELSE it

\* The items that add_line makes of a chain lead from its first vertex to its
\* last without a gap.  Assembling them gives the line that was stored, but for
\* arcs so flat that their approximation is a segment.
BoardKeepsLine ==
  \A items \in {Items(chain)} : \A line \in {Assembled(items)} :
    items # <<>> =>
      /\ items[1].from = chain.v[1].at
      /\ Last(items).to = Last(chain.v).at
      /\ \A k \in 1..Len(items) - 1 : items[k].to = items[k + 1].from
      /\ HasLoops(chain) \/ Items(line) = [k \in DOMAIN items |-> Flattened(items[k])]

\* A slice from one shape's start to another's is just the items between them.
Corners == ToSet(ShapeStarts(chain)) \cup {Len(chain.v)}
SlicesKeepItems ==
  \A i, j \in Corners :
    i < j => LET before == {k \in Stored(chain) : k < i}
                 within == {k \in Stored(chain) : k \in i..j - 1}
             IN \A slice \in {Slice(chain, i, j)}, items \in {Items(chain)} :
                  Items(slice) = [k \in 1..Cardinality(within) |->
                                    Flattened(items[k + Cardinality(before)])]

\* The links a clipped line keeps are the items of the vertices it keeps.
ClipKeepsLinks ==
  \A i, j \in Corners :
    i < j => \A slice \in {Slice(chain, i, j)}, items \in {Items(chain)} :
               Clipped(chain, items, i, j) = Items(slice)
=============================================================================
