------------------------------ MODULE HeadTail ------------------------------
(***************************************************************************)
(* The trace under the cursor of placer/line_placer.rs: the tail, which is *)
(* settled, and the head, which is drawn anew for every position of the    *)
(* mouse.  route_step passes over the two until nothing has to be given    *)
(* back any more; a fix cuts legs off the trace, an undo returns to where  *)
(* the last leg began.                                                     *)
(*                                                                         *)
(* Points are on a small grid, y downwards, and lines are the sequences of *)
(* their points: corners are mitered, there are no arcs and no via is      *)
(* placed.  What is in the way is left open: whether a replacement         *)
(* collides, what the walkaround makes of a line, what the hull of an      *)
(* obstacle catches.  Shove mode differs from walkaround mode in the node  *)
(* and not in what happens to the two lines.                               *)
(***************************************************************************)
EXTENDS Grid

CONSTANTS
  Points,     \* where the cursor can be
  Starts,     \* where a session can begin
  Corners,    \* the points the walkaround may lead a line over
  Targets,    \* the tracks a move may be led to, each by its two ends
  Pads,       \* the points with a pad or via of the net
  Hull,       \* the points of hulls that catch the cursor in mark obstacles mode
  MaxMoves,   \* bound on the moves of a session
  MaxFixes,   \* bound on the legs it fixes
  PassLimit   \* ROUTE_STEP_ITERATION_LIMIT

VARIABLES
  line,       \* tail, head and the routing direction
  initDir,    \* the direction the leg began with
  start,      \* current_start
  forced,     \* was the posture flipped by hand
  mode,       \* of routing, "mark" or "walk"
  move,       \* the last move: is it under way, where to and to which track, its
              \* passes, did the last one give something back; history: is the trace torn,
              \* since the pass after one that cut the tail has found no way,
              \* or since a head of one point was moved away from the tail
  fixed,      \* history: the legs that are fixed, each by its points
  stages,     \* fixed_tail
  moves       \* how many moves there have been

vars == <<line, initDir, start, forced, mode, move, fixed, stages, moves>>

NoPoint == <<-1, -1>>
NoTarget == <<>>

-----------------------------------------------------------------------------
(* Directions and the traces drawn in them *)

NoDir == 8

Unit == <<<<0, -1>>, <<1, -1>>, <<1, 0>>, <<1, 1>>, <<0, 1>>, <<-1, 1>>, <<-1, 0>>, <<-1, -1>>>>

\* The octant of the way from p to q, the nearest one; 5/12 is tan(22.5).
Dir(p, q) ==
  LET w == AbsOf(q[1] - p[1])
      h == AbsOf(q[2] - p[2])
      x == IF 12 * w < 5 * h THEN 0 ELSE Sign(q[1] - p[1])
      y == IF 12 * h < 5 * w THEN 0 ELSE Sign(q[2] - p[2])
  IN IF p = q THEN NoDir ELSE CHOOSE d \in 0..7 : Unit[d + 1] = <<x, y>>

Angle(d, e) ==
  LET turn == AbsOf(d - e)
  IN CASE NoDir \in {d, e} -> "undefined"
       [] NoDir \notin {d, e} /\ turn \in {1, 7} -> "obtuse"
       [] NoDir \notin {d, e} /\ turn \in {2, 6} -> "right"
       [] NoDir \notin {d, e} /\ turn \in {3, 5} -> "acute"
       [] NoDir \notin {d, e} /\ turn = 4 -> "half full"
       [] OTHER -> "straight"

Forbidden == {"acute", "half full", "undefined"}

\* build_initial_trace: one straight and one diagonal leg, in the order that
\* the direction asks for.
Drawn(d, p, q) ==
  LET w == AbsOf(q[1] - p[1])
      h == AbsOf(q[2] - p[2])
      x == Sign(q[1] - p[1])
      y == Sign(q[2] - p[2])
      short == Min({w, h})
      corner == IF d % 2 = 1 THEN <<p[1] + short * x, p[2] + short * y>>
                ELSE IF w > h THEN <<p[1] + (w - h) * x, p[2]>>
                ELSE <<p[1], p[2] + (h - w) * y>>
  IN CASE p = q -> <<p>>
       [] p # q /\ (w = 0 \/ h = 0 \/ w = h) -> <<p, q>>
       [] OTHER -> <<p, corner, q>>

-----------------------------------------------------------------------------
(* Lines *)

Trace(t, h) ==
  LET c == Joined(t, h) IN IF Len(c) > 2 THEN Simplified(c) ELSE c

PStart(t) == IF t = <<>> THEN start ELSE Last(t)

DirOf(c, i) == Dir(c[i], c[i + 1])
LastDir(c) == DirOf(c, Len(c) - 1)

\* Where segment i of ours and segment k of theirs meet, as intersect_chain
\* finds it: the vertex or segment of ours, and whether that is at a point of
\* joints.
Hits(ours, i, theirs, k, joints) ==
  LET a == ours[i] b == ours[i + 1]
      c == theirs[k] d == theirs[k + 1]
      hit(p, v) == IF OnSegment(p, a, b) /\ OnSegment(p, c, d)
                   THEN <<[vertex |-> v, joint |-> p \in joints]>> ELSE <<>>
      along == Side(a, b, c) = 0 /\ Side(a, b, d) = 0
      across == /\ Side(a, b, c) # Side(a, b, d) /\ Side(c, d, a) # Side(c, d, b)
                /\ Side(a, b, c) * Side(a, b, d) <= 0
                /\ Side(c, d, a) * Side(c, d, b) <= 0
      meets(p) == OnSegment(p, a, b) /\ OnSegment(p, c, d)
  IN IF along THEN hit(c, i) \o hit(d, i) \o hit(a, i) \o hit(b, i + 1)
     ELSE IF across
     THEN <<[vertex |-> IF meets(b) THEN i + 1 ELSE i,
             joint |-> \E p \in joints : meets(p)]>>
     ELSE <<>>

AllHits(ours, theirs, joints) ==
  LET n == Len(theirs) - 1
      pairs == [m \in 0..(Len(ours) - 1) * n - 1 |-> <<(m \div n) + 1, (m % n) + 1>>]
  IN FlattenSeq([m \in 1..(Len(ours) - 1) * n |->
                   Hits(ours, pairs[m - 1][1], theirs, pairs[m - 1][2], joints)])

-----------------------------------------------------------------------------
(* The optimizer, as far as the placer's lines see it *)

CornerCost(c) ==
  LET cost == [straight |-> 5, obtuse |-> 10, right |-> 30, acute |-> 50]
      of(a) == CASE a = "half full" -> 60 [] a = "undefined" -> 100 [] OTHER -> cost[a]
  IN FoldLeft(+, 0, [i \in 1..Len(c) - 2 |-> of(Angle(DirOf(c, i), DirOf(c, i + 1)))])

\* merge_step: the paths with one span bypassed, at a lower cost of corners.
Bypassed(c) ==
  LET span(i, k, d) == Simplified(SubSeq(c, 1, i - 1) \o Drawn(d, c[i], c[k])
                                  \o SubSeq(c, k + 1, Len(c)))
      spans == {r \in (1..Len(c)) \X (1..Len(c)) :
                  r[2] \in r[1] + 2..Len(c) /\ r # <<1, Len(c)>>}
  IN {m \in {span(r[1], r[2], d) : r \in spans, d \in {0, 1}} :
        CornerCost(m) < CornerCost(c)}

\* merge_full, whatever of it collides: what it may make of a path that it
\* says it has changed, which is when there are fewer segments.
Merged(c) ==
  LET once == Bypassed(Simplified(c))
  IN {m \in once \cup UNION {Bypassed(b) : b \in once} : Len(m) < Len(c)}

-----------------------------------------------------------------------------
(* Giving back *)

Settle(l, t, h, d) == [tail |-> t, head |-> h, dir |-> d]

\* reduce_tail: a straight run to the cursor in place of the end of the tail,
\* from the earliest segment up to which no replacement collides.
Reduced(l, to) ==
  LET n == Len(l.tail)
      goesOn(i) == LET r == Drawn(DirOf(l.tail, i), l.tail[i], to)
                   IN Len(r) > 1 /\ DirOf(r, 1) = DirOf(l.tail, i)
      cut(i) == Settle(l, SubSeq(l.tail, 1, i), <<>>, DirOf(l.tail, i))
      from(stop) == {i \in stop..n - 1 : goesOn(i)}
  IN IF Len(l.head) < 2 \/ n < 3 THEN {l}
     ELSE {IF from(stop) = {} THEN l ELSE cut(Min(from(stop))) : stop \in 1..n}

\* handle_self_intersections
FirstHit(l) ==
  LET hits == AllHits(l.tail, l.head, {l.head[1], Last(l.tail)})
      least == Min({hits[k].vertex : k \in DOMAIN hits})
  IN IF hits = <<>> THEN [vertex |-> 0, joint |-> TRUE]
     ELSE hits[Min({k \in DOMAIN hits : hits[k].vertex = least})]

CrossesItself(l) ==
  /\ Len(l.tail) > 1 /\ Len(l.head) > 1
  /\ l.tail[1] = l.head[1] \/ ~FirstHit(l).joint

Uncrossed(l) ==
  LET v == FirstHit(l).vertex
  IN IF l.tail[1] = l.head[1] THEN Settle(l, <<>>, l.head, initDir)
     ELSE IF v < 3 THEN Settle(l, <<>>, <<>>, initDir)
     ELSE Settle(l, SubSeq(l.tail, 1, v - 1), l.head, DirOf(l.tail, v - 1))

\* handle_pullback, with the head cleared for the next pass.
DoublesBack(l) ==
  /\ Len(l.head) > 1 /\ l.tail # <<>>
  /\ Len(l.tail) > 1 => Angle(DirOf(l.head, 1), LastDir(l.tail)) \in {"right", "acute"}

PulledBack(l) ==
  LET n == Len(l.tail)
  IN IF n = 1 THEN Settle(l, <<>>, <<>>, l.dir)
     ELSE Settle(l, SubSeq(l.tail, 1, n - 1), <<>>,
                 IF n = 2 THEN initDir ELSE LastDir(l.tail))

-----------------------------------------------------------------------------
(* The head *)

\* build_initial_line: a tail of one segment goes when the posture is flipped.
Unbent(l) ==
  IF /\ forced /\ Len(l.tail) = 2 /\ Len(l.head) > 1
     /\ DirOf(l.tail, 1) = DirOf(l.head, 1) \/ Len(l.head) = 2
  THEN [l EXCEPT !.tail = <<>>] ELSE l

Heads(t, d, to) ==
  IF PStart(t) = to THEN {<<>>}
  ELSE {Drawn(e, PStart(t), to) : e \in IF t = <<>> THEN {0, 1} ELSE {d}}

\* rh_mark_obstacles; the hull of an obstacle may catch a cursor next to it.
Caught(to) ==
  {to} \cup {p \in Hull : \A k \in 1..2 : AbsOf(p[k] - to[k]) <= 1}

\* What rh_walk_base may come back with: the line itself, another way over
\* one of the corners, a part of either that ends near the cursor.
Walks(c) ==
  LET around == {SubSeq(c, 1, i) \o <<p>> \o SubSeq(c, i + 1, Len(c)) :
                   i \in 1..Len(c) - 1, p \in Corners}
      whole == {c} \cup {Simplified(w) : w \in around}
  IN UNION {{SubSeq(w, 1, k) : k \in DOMAIN w} : w \in whole}

\* The new line, cut at the last point of the old tail if it passes there.
CutAt(c, p) ==
  LET at == {i \in DOMAIN c : c[i] = p}
      on == {i \in 1..Len(c) - 1 : OnSegment(p, c[i], c[i + 1]) /\ p \notin {c[i], c[i + 1]}}
      i0 == Min(on \cup {Len(c)})
  IN IF on # {} /\ \A k \in at : i0 < k THEN InsertAt(c, i0 + 1, p) ELSE c

\* split_head_tail: the tail goes up to the first point that the new line has
\* not taken from it.
SplitPoint(w, t) == Min({i \in DOMAIN t : t[i] \notin Range(w)} \cup {Len(t), Len(w)})

SplitAt(w, i, k) ==
  [tail |-> IF i = 1 THEN <<>> ELSE SubSeq(w, 1, i), head |-> SubSeq(w, k, Len(w))]

\* Two bugs: the head begins one point late, the tail ends one late.
SplitLate(c, t) ==
  IF Len(c) < 2 \/ Len(t) < 2 THEN [tail |-> <<>>, head |-> c]
  ELSE SplitAt(c, SplitPoint(c, t), SplitPoint(c, t) + 1)
SplitLong(c, t) ==
  LET k == Min({SplitPoint(c, t) + 1, Len(c)})
  IN IF Len(c) < 2 \/ Len(t) < 2 THEN [tail |-> <<>>, head |-> c] ELSE SplitAt(c, k, k)

Split(c, t) ==
  LET w == CutAt(c, Last(t))
  IN IF Len(c) < 2 \/ Len(t) < 2 THEN [tail |-> <<>>, head |-> c]
     ELSE SplitAt(w, SplitPoint(w, t), SplitPoint(w, t))

\* route_head: the lines that one pass may draw.
Headed(l, to) ==
  {[l EXCEPT !.head = h] : h \in Heads(l.tail, l.dir, to)}
WalkedTo(l, to) ==
  LET drawn == {Simplified(Joined(l.tail, h)) : h \in Heads(l.tail, l.dir, to)}
      split == {Split(w, l.tail) : w \in UNION {Walks(c) : c \in drawn \ {<<>>}}}
  IN UNION {{Settle(l, s.tail, h, l.dir) : h \in {s.head} \cup Merged(s.head)} : s \in split}

-----------------------------------------------------------------------------
(* Settling *)

\* optimize_tail_head_transition, where it changes something.
Fanout(l) ==
  LET c == Trace(l.tail, l.head)
  IN IF forced \/ Len(c) < 3 \/ ~{c[1], Last(c)} \subseteq Pads THEN {}
     ELSE {Settle(l, <<>>, r, IF Len(r) > 1 THEN DirOf(r, 1) ELSE l.dir) :
             r \in {Drawn(d, c[1], Last(c)) : d \in {0, 1}}}

Transitions(l) ==
  LET n == Len(l.tail)
      kept == n - Min({n, 4})
      seam == Joined(SubSeq(l.tail, kept + 1, n), SubSeq(l.head, 1, Min({3, Len(l.head)})))
  IN IF n < 4 THEN {}
     ELSE {Settle(l, Simplified(SubSeq(l.tail, 1, kept) \o m), <<>>, LastDir(m)) :
             m \in Merged(seam)}

\* merge_head
HeadMerged(l) ==
  LET h == Simplified(l.head)
      t == Simplified(l.tail)
      whole == Simplified(Joined(t, h))
      smooth == \A i \in 1..Len(h) - 2 : Angle(DirOf(h, i), DirOf(h, i + 1)) \notin Forbidden
      follows == Len(t) < 2 \/ /\ h[1] = Last(t)
                               /\ Angle(DirOf(h, 1), LastDir(t)) \notin Forbidden
  IN IF Len(h) > 3 /\ smooth /\ follows THEN Settle(l, whole, <<>>, LastDir(whole))
     ELSE [l EXCEPT !.tail = t, !.head = h]

\* follow_mouse is off in mark obstacles mode.
Settled(l) ==
  IF mode = "mark" THEN {l} ELSE Fanout(l) \cup Transitions(l) \cup {HeadMerged(l)}

\* The line that a pass leaves which finds no way; line is as the pass found it.
Failed(d) ==
  [line EXCEPT !.tail = IF @ = <<>> THEN <<start, start>> ELSE @, !.dir = d]

\* move_to, when route has reached the cursor.
Ended(l, to, track) ==
  LET c == Trace(l.tail, l.head)
  IN IF l.head # <<>> /\ Last(l.head) = to /\ Len(c) > 1 /\ track # NoTarget
     THEN [l EXCEPT !.head = Front(@) \o <<Last(EndedOn(c, track[1], track[2]))>>] ELSE l

\* A head of one point, which is the end of the tail, is moved away from it.
Tears(l, to, track) == Len(l.head) = 1 /\ Ended(l, to, track) # l

-----------------------------------------------------------------------------
(* Actions *)

NoMove == [on |-> FALSE, to |-> NoPoint, target |-> NoTarget, passes |-> 0, back |-> FALSE, torn |-> FALSE]

Init ==
  /\ start \in Starts
  /\ initDir \in {0, 1}
  /\ line = [tail |-> <<>>, head |-> <<>>, dir |-> initDir]
  /\ forced = FALSE
  /\ mode = "walk"
  /\ move = NoMove
  /\ fixed = <<>>
  /\ stages = <<[pos |-> start, dir |-> initDir, legs |-> <<>>]>>
  /\ moves = 0

MoveTo ==
  /\ ~move.on /\ moves < MaxMoves
  /\ \E p \in Points, track \in Targets \cup {NoTarget} :
       move' = [on |-> TRUE, to |-> p, target |-> track, passes |-> 1, back |-> FALSE,
                torn |-> move.torn]
  /\ moves' = moves + 1
  /\ UNCHANGED <<line, initDir, start, forced, mode, fixed, stages>>

\* A bug: a pullback asks for no further pass.
GivesBackCrossings(l) == CrossesItself(l)

GivesBack(l) == CrossesItself(l) \/ DoublesBack(l)

\* What a pass has drawn is given back in part, and there is another pass, or
\* it settles.
Drew(l, to) ==
  LET less == IF CrossesItself(l) THEN Uncrossed(l)
              ELSE IF DoublesBack(l) THEN PulledBack(l) ELSE l
      again == GivesBack(l) /\ move.passes < PassLimit
  IN \/ /\ again
        /\ line' = less
        /\ move' = [move EXCEPT !.passes = @ + 1, !.back = TRUE, !.torn = FALSE]
     \/ /\ ~again
        /\ \E s \in Settled(less) :
             /\ line' = Ended(s, move.to, move.target)
             /\ move' = [move EXCEPT !.on = FALSE, !.to = to, !.back = FALSE,
                                     !.torn = Tears(s, move.to, move.target)]

PassMark ==
  /\ move.on /\ mode = "mark"
  /\ \E to \in Caught(move.to) : \E l \in Headed(Unbent(line), to) : Drew(l, to)
  /\ UNCHANGED <<initDir, start, forced, mode, fixed, stages, moves>>

PassWalk ==
  /\ move.on /\ mode = "walk"
  /\ \E r \in IF move.back THEN {line} ELSE Reduced(line, move.to) :
       \/ \E l \in WalkedTo(Unbent(r), move.to) : Drew(l, move.to)
       \/ LET kept == Failed(r.dir)
          IN /\ line' = Ended(kept, move.to, move.target)
             /\ move' = [NoMove EXCEPT !.torn = \/ move.torn \/ move.back
                                               \/ Tears(kept, move.to, move.target)]
  /\ UNCHANGED <<initDir, start, forced, mode, fixed, stages, moves>>

\* How many points fix_route stores of a trace and where the next leg begins:
\* with fixAll off the last segment goes on following the cursor.
LastVertex(c, fixAll) == IF fixAll \/ Len(c) = 2 THEN Len(c) ELSE Len(c) - 1

NextStart(c, fixAll) == IF fixAll \/ Len(c) = 2 THEN Last(c) ELSE c[Len(c) - 1]

\* fix_route at an intermediate click.
FixRoute ==
  /\ ~move.on /\ Len(stages) <= MaxFixes
  /\ \E fixAll \in BOOLEAN :
       LET c == Trace(line.tail, line.head)
           d == DirOf(c, LastVertex(c, fixAll) - 1)
       IN /\ Len(c) > 1
          /\ fixed' = Append(fixed, SubSeq(c, 1, LastVertex(c, fixAll)))
          /\ start' = NextStart(c, fixAll)
          /\ initDir' = d
          /\ stages' = Append(stages,
               [pos |-> start, dir |-> IF Len(line.tail) < 2 THEN d ELSE line.dir,
                legs |-> fixed])
          /\ line' = [tail |-> <<>>, head |-> <<>>, dir |-> d]
  /\ forced' = FALSE
  /\ move' = NoMove
  /\ UNCHANGED <<mode, moves>>

UndoLastSegment ==
  /\ ~move.on
  /\ start' = Last(stages).pos
  /\ line' = [tail |-> <<>>, head |-> <<>>, dir |-> Last(stages).dir]
  /\ fixed' = Last(stages).legs
  /\ stages' = IF Len(stages) > 1 THEN Front(stages) ELSE stages
  /\ forced' = FALSE
  /\ move' = NoMove
  /\ UNCHANGED <<initDir, mode, moves>>

FlipPosture ==
  /\ ~move.on /\ ~forced
  /\ forced' = TRUE
  /\ UNCHANGED <<line, initDir, start, mode, move, fixed, stages, moves>>

SetMode ==
  /\ ~move.on
  /\ mode' = IF mode = "walk" THEN "mark" ELSE "walk"
  /\ move' = [NoMove EXCEPT !.torn = move.torn]
  /\ UNCHANGED <<line, initDir, start, forced, fixed, stages, moves>>

Next ==
  \/ MoveTo \/ PassMark \/ PassWalk
  \/ FixRoute \/ UndoLastSegment \/ FlipPosture \/ SetMode

Spec == Init /\ [][Next]_vars

-----------------------------------------------------------------------------
(* Properties *)

\* All that is routed is one line.  The legs that are fixed join, from where the
\* session began to where the leg under way begins, also after an undo; the tail
\* begins there, however often its end was cut off and drawn anew (p_start
\* relies on it); and the head goes on where the tail ends, save where a pass
\* has cut the tail and the next one has found no way, or where move_to has moved
\* a head of one point.
OneLine ==
  LET ends == <<stages[1].pos>> \o [i \in DOMAIN fixed |-> Last(fixed[i])]
  IN /\ \A i \in DOMAIN fixed : fixed[i][1] = ends[i]
     /\ start = Last(ends)
     /\ line.tail # <<>> => line.tail[1] = start
     /\ ~move.on /\ line.head # <<>> /\ ~move.torn => line.head[1] = PStart(line.tail)

\* In mark obstacles mode a move never gets stuck: whatever its passes give
\* back, the trace ends at the cursor, or where a hull has caught it, or on a
\* track that it is led to and would run along to get to the cursor.
CursorReached ==
  LET c == Trace(line.tail, line.head)
      end == IF c = <<>> THEN start ELSE Last(c)
      on(track) == /\ OnSegment(end, track[1], track[2])
                   /\ Side(track[1], track[2], move.to) = 0
  IN mode = "mark" /\ ~move.on /\ move.to # NoPoint =>
       end = move.to \/ (move.target # NoTarget /\ on(move.target))

\* Another pass follows only on a tail that has become shorter, whatever the
\* walkaround has drawn in between: the passes of a move end by themselves, and
\* ROUTE_STEP_ITERATION_LIMIT never decides on the trace.
PassesShrink ==
  [][move.on /\ move'.on => Len(line'.tail) < Len(line.tail)]_vars
=============================================================================
