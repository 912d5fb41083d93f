----------------------------- MODULE LoopRemoval -----------------------------
(***************************************************************************)
(* What placer/line_placer.rs does to the tracks of the net it routes: the *)
(* track a trace starts or ends on is split, lines the trace makes         *)
(* redundant are removed as soon as it reaches its end, and each fix       *)
(* stores segments, drops loose stubs and joins what is straight.          *)
(*                                                                         *)
(* Walkaround mode, since what is pushed aside is of other nets; the       *)
(* trace is any line of one or two segments.  Vias, arcs, widths and undo  *)
(* are left out.                                                           *)
(***************************************************************************)
EXTENDS TrackNet

CONSTANTS Boards,    \* the tracks there are when a session begins
          Starts,    \* where it may begin
          MaxLegs,   \* bound on the legs fixed before the last
          MaxMoves   \* bound on the moves of a leg; each begins with what base is

\* Locked tracks end at pads, where every line ends; the code confuses lines that
\* end at a locked track elsewhere.
ASSUME AssumeLocks ==
  \A tracks \in Boards : \A i \in DOMAIN tracks :
    tracks[i].locked => Range(tracks[i].ends) \subseteq Pads

VARIABLES root,     \* the board of the root node
          base,     \* the board of the node the placer stands on
          scratch,  \* the board of its scratch branch
          trace,    \* the points of the trace
          to,       \* the end item of the last move
          phase,    \* "idle", "placing" or "fixed"
          start,    \* where the leg under way begins
          legs,     \* how many legs are fixed
          moves     \* how many moves the leg under way has seen

vars == <<root, base, scratch, trace, to, phase, start, legs, moves>>

\* An end item: a track of the root's board (the host knows no other), the pad
\* at a point, or none.
NoItem == [kind |-> "none", track |-> NoTrack]
PadItem == [kind |-> "pad", track |-> NoTrack]
TrackItem(t) == [kind |-> "track", track |-> t]

Ends(t) == root.tracks[t].ends
ItemsAt(p) == {NoItem} \cup {TrackItem(t) : t \in {t \in DOMAIN root.tracks :
                                                     OnSegment(p, Ends(t)[1], Ends(t)[2])}}
                       \cup (IF p \in Pads THEN {PadItem} ELSE {})

Init ==
  /\ root \in {NetOf(tracks) : tracks \in Boards}
  /\ base = root /\ scratch = root
  /\ trace = <<>> /\ to = NoItem
  /\ phase = "idle"
  /\ start \in Starts
  /\ legs = 0 /\ moves = 0

-----------------------------------------------------------------------------
(* Splitting *)

\* split_adjacent_segments, of a track of the root, which the board may have
\* split before.  The halves are not locked.
Split(b, item, at) ==
  LET half(p, q) == [ends |-> <<p, q>>, locked |-> FALSE]
      rest == Removed(b, {item.track})
  IN IF item.kind # "track" \/ LinkCount(b, at) > 0 THEN b
     ELSE Added(Added(rest, half(Ends(item.track)[1], at)), half(at, Ends(item.track)[2]))

\* LinePlacer::start.  A trace that starts on nothing has no net, so no track of
\* this one concerns it.
Start ==
  /\ phase = "idle"
  /\ \E item \in ItemsAt(start) \ {NoItem} : base' = Split(root, item, start)
  /\ phase' = "placing"
  /\ UNCHANGED <<root, scratch, trace, to, start, legs, moves>>

-----------------------------------------------------------------------------
(* Loops *)

New(b, c) == DOMAIN Laid(b, c).tracks \ DOMAIN b.tracks

IsLocked(b, l) == \E t \in Range(l.links) : b.tracks[t].locked

\* The lines between the ends of our, or of the trace where our is closed.
Parallel(b, our, c) ==
  LET of == IF our.points[1] = Last(our.points) THEN c ELSE our.points
  IN Between(b, of[1], Last(of))

\* Mutant of Redundancies: locked lines are not spared.
RedundanciesAny(b, t, c) ==
  {l \in Parallel(b, Assembled(b, t), c) : t \notin Range(l.links) /\ Len(l.points) > 1}

Redundancies(b, t, c) ==
  {l \in Parallel(b, Assembled(b, t), c) :
     t \notin Range(l.links) /\ Len(l.points) > 1 /\ ~IsLocked(b, l)}

\* remove_loops: the board without the loops and without the trace.
LoopsRemoved(b, c) ==
  LET with == Laid(b, c)
      ours == New(b, c)
      lines == UNION {Redundancies(with, t, c) : t \in ours}
  IN IF Len(c) < 2 \/ c[1] = Last(c) THEN b
     ELSE Removed(with, ours \cup UNION {Range(l.links) : l \in lines})

Traces == {Simplified(c) : c \in {c \in [1..2 -> Points] \cup [1..3 -> Points] :
              /\ c[1] = start
              /\ \A i \in 1..Len(c) - 1 : c[i] # c[i + 1]}}

MoveTo ==
  /\ phase = "placing" /\ moves < MaxMoves
  /\ \E c \in Traces : \E item \in ItemsAt(Last(c)) :
       LET d == IF item.kind = "track"
                THEN EndedOn(c, Ends(item.track)[1], Ends(item.track)[2]) ELSE c
       IN /\ trace' = d
          /\ to' = item
          /\ scratch' = IF item = NoItem THEN base
                        ELSE LoopsRemoved(Split(base, item, Last(d)), d)
  /\ moves' = moves + 1
  /\ UNCHANGED <<root, base, phase, start, legs>>

-----------------------------------------------------------------------------
(* Fixing *)

\* Mutant of IsLoose: whatever lies along another track is a stub.
IsLooseAlways(b, p, t) == p \in Range(b.tracks[t].ends)

\* stub_is_loose: the track hangs off p and nothing hangs off it.
IsLoose(b, p, t) ==
  LET e == b.tracks[t].ends
  IN \/ e[1] = p /\ LinkCount(b, e[2]) = 1
     \/ e[2] = p /\ LinkCount(b, e[1]) = 1

\* Joint::is_line_corner
IsCorner(b, p) ==
  /\ p \notin Pads /\ Len(b.links[p]) = 2
  /\ \A t \in Range(b.links[p]) : ~b.tracks[t].locked

Covers(b, t, u) ==
  \A p \in Range(b.tracks[u].ends) : OnSegment(p, b.tracks[t].ends[1], b.tracks[t].ends[2])

\* process_stub_joint, for track t at its end p.
Stubs(b, p, t) ==
  LET others == SelectSeq(b.links[p], LAMBDA o : o # t)
      shorter == {i \in DOMAIN others : Covers(b, t, others[i])}
      longer == {i \in DOMAIN others \ shorter : Covers(b, others[i], t)}
      stop == IF IsLoose(b, p, t) THEN Min(longer \cup {Len(others) + 1})
              ELSE Len(others) + 1
  IN IF IsCorner(b, p) THEN {}
     ELSE {others[i] : i \in {i \in shorter : i < stop /\ IsLoose(b, p, others[i])}}
            \cup (IF stop <= Len(others) THEN {t} ELSE {})

LooseStubs(b) ==
  LET added == SelectSeq([t \in 1..b.next - 1 |-> t],
                         LAMBDA t : t \in DOMAIN b.tracks \ DOMAIN root.tracks)
  IN FoldLeft(LAMBDA gone, t : IF t \in gone THEN gone
                               ELSE gone \cup Stubs(b, b.tracks[t].ends[1], t)
                                         \cup Stubs(b, b.tracks[t].ends[2], t),
              {}, added)

\* Optimizer::merge_colinear, which does not look again at a corner it has made.
Straightened(c) ==
  LET straight(i) == Side(c[i], c[i + 1], c[i + 2]) = 0
      from[i \in 1..Len(c)] ==
        IF i + 2 > Len(c) THEN SubSeq(c, i, Len(c))
        ELSE IF straight(i) THEN <<c[i]>> \o from[i + 2]
        ELSE <<c[i]>> \o from[i + 1]
  IN IF c = <<>> THEN c ELSE from[1]

\* World::add_line with redundancy refused.
AddedLine(b, c) ==
  FoldLeft(LAMBDA n, i : AddedOnce(n, c[i], c[i + 1]), b, [i \in 1..Len(c) - 1 |-> i])

\* simplify_new_line
SimplifiedLine(b, t) ==
  LET clean == Removed(b, LooseStubs(b))
      l == Assembled(clean, t)
      c == Simplified(Straightened(l.points))
  IN IF t \notin DOMAIN clean.tracks \/ Len(c) = Len(l.points) THEN clean
     ELSE AddedLine(Removed(clean, Range(l.links)), c)

Trace == IF Len(trace) > 2 THEN Simplified(trace) ELSE trace

\* The first n points of the trace on the scratch branch, and what is simplified
\* is the line of the last segment, unless that was refused.
Stored(n) ==
  LET before == AddedLine(scratch, SubSeq(Trace, 1, n - 1))
      after == AddedLine(before, SubSeq(Trace, n - 1, n))
  IN IF after = before THEN after ELSE SimplifiedLine(after, before.next)

\* fix_route at an intermediate click.
FixLeg ==
  /\ phase = "placing" /\ legs < MaxLegs /\ trace # <<>> /\ to = NoItem
  /\ \E fixAll \in BOOLEAN :
       LET n == IF fixAll \/ Len(Trace) = 2 THEN Len(Trace) ELSE Len(Trace) - 1
       IN /\ base' = Stored(n)
          /\ start' = IF fixAll \/ Len(Trace) = 2 THEN Last(Trace) ELSE Trace[n]
  /\ scratch' = base'
  /\ trace' = <<>>
  /\ legs' = legs + 1 /\ moves' = 0
  /\ UNCHANGED <<root, to, phase>>

\* fix_route at a real end, or where the host wants the end to be.
FixEnd ==
  /\ phase = "placing" /\ trace # <<>>
  /\ scratch' = Stored(Len(Trace))
  /\ phase' = "fixed"
  /\ UNCHANGED <<root, base, trace, to, start, legs, moves>>

Next == Start \/ MoveTo \/ FixLeg \/ FixEnd

Spec == Init /\ [][Next]_vars

-----------------------------------------------------------------------------
(* Properties *)

TypeOK ==
  /\ \A b \in {root, base, scratch} : \A t \in DOMAIN b.tracks :
       b.tracks[t] \in Track /\ t \in 1..b.next - 1
  /\ trace \in Seq(Points) /\ start \in Points
  /\ phase \in {"idle", "placing", "fixed"}
  /\ to \in {NoItem, PadItem} \cup {TrackItem(t) : t \in DOMAIN root.tracks}
  /\ legs \in 0..MaxLegs

\* The parts of a set whose elements R joins, directly or through others.
Parts(S, R(_, _)) ==
  FoldSet(LAMBDA e, parts :
            LET near == {part \in parts : \E f \in part : R(e, f) \/ R(f, e)}
            IN (parts \ near) \cup {{e} \cup UNION near},
          {}, S)

\* What tracks connect.
Islands(b) ==
  LET joined == {b.tracks[t].ends : t \in DOMAIN b.tracks}
  IN Parts(Points, LAMBDA p, q : <<p, q>> \in joined)

\* The lines of a board, without walks and orders of links: all tracks that
\* corners join.
Lines(b) ==
  LET corners == {p \in Points : IsCorner(b, p)}
  IN Parts(DOMAIN b.tracks,
           LAMBDA t, u : Range(b.tracks[t].ends) \cap Range(b.tracks[u].ends) \cap corners # {})
EndsOf(b, line) ==
  {p \in Points : Cardinality({t \in line : p \in Range(b.tracks[t].ends)}) = 1}
LockedLine(b, line) == \E t \in line : b.tracks[t].locked

\* The lines of the board of a move with its trace, and those with a piece of
\* the trace.
Board == Split(base, to, Last(trace))
With == Laid(Board, trace)
Ours == {l \in Lines(With) : l \cap New(Board, trace) # {}}

\* Two pieces of the trace belong to lines between the same ends.
OwnLoop == \E l, m \in Ours : l # m /\ EndsOf(With, l) = EndsOf(With, m)

\* What the board connected stays connected: the split of a track, the loops
\* that move_to removes and the stubs that fix_route drops never cut a pad off,
\* once the trace that replaces them is there.  Unless the trace makes a loop of
\* its own: then each piece makes the line of the other redundant, and both go.
StaysConnected ==
  LET kept(b) == \A was \in Islands(root) : \E now \in Islands(b) : was \cap Pads \subseteq now
  IN /\ kept(base)
     /\ trace = <<>> \/ (to # NoItem /\ OwnLoop)
          \/ kept(IF phase = "placing" THEN Laid(scratch, trace) ELSE scratch)

\* remove_loops takes just the lines that lead from one end of a line with a
\* piece of the trace to its other end and are not locked.  Where a trace
\* closes a ring its line has no ends, and what goes depends on the walk around it.
LoopsGo ==
  LET ours == Ours
      loops == {l \in Lines(With) :
                  /\ ~LockedLine(With, l)
                  /\ \E o \in ours : o # l /\ EndsOf(With, o) = EndsOf(With, l)}
  IN phase = "placing" /\ to # NoItem /\ trace[1] # Last(trace)
       /\ (\A o \in ours : EndsOf(With, o) # {})
     => DOMAIN scratch.tracks = DOMAIN Board.tracks \ UNION loops

\* A locked track that the session does not start or end on stays: neither a
\* loop nor a stub takes it.
LockedStay ==
  \A t \in DOMAIN base.tracks \cap DOMAIN root.tracks :
    root.tracks[t].locked /\ to.track # t => t \in DOMAIN scratch.tracks

\* No track lies on another.  The code does not keep this: the end item of a
\* move is looked up on the root, and a track the start has split is split again.
NothingDoubled ==
  phase = "fixed" => \A t, u \in DOMAIN scratch.tracks : t # u => ~Covers(scratch, t, u)
=============================================================================
