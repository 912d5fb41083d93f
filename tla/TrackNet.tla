------------------------------ MODULE TrackNet ------------------------------
(***************************************************************************)
(* The tracks of one net on one layer as node.rs keeps them: stored        *)
(* segments, and for each point the joint that links what ends there, in   *)
(* the order in which it was linked.  Lines are not stored; they are found *)
(* by walking from joint to joint, which the placer, the shove and the     *)
(* optimizer do all the time.                                              *)
(*                                                                         *)
(* All tracks have one width.  A pad or via is a point of Pads: it is in   *)
(* the joint for good.  A track may be locked.                             *)
(***************************************************************************)
EXTENDS Grid

CONSTANTS Points,  \* where tracks can end
          Pads     \* the points with a pad or via of the net

NoTrack == 0
Track == [ends : Points \X Points, locked : BOOLEAN]

\* World::do_remove: the joints at both ends forget the track.
Removed(b, gone) ==
  [b EXCEPT !.tracks = [t \in DOMAIN @ \ gone |-> @[t]],
            !.links = [p \in Points |-> SelectSeq(@[p], LAMBDA t : t \notin gone)]]

\* World::add_segment with redundancy allowed: a fresh handle, unless the ends
\* coincide.
Added(b, track) ==
  IF track.ends[1] = track.ends[2] THEN b
  ELSE [tracks |-> b.tracks @@ (b.next :> track),
        links |-> [p \in Points |-> IF p \in Range(track.ends)
                                    THEN Append(b.links[p], b.next) ELSE b.links[p]],
        next |-> b.next + 1]

\* find_redundant_segment
Redundant(b, p, q) ==
  \E t \in Range(b.links[p]) : Range(b.tracks[t].ends) = {p, q}

AddedOnce(b, p, q) ==
  IF Redundant(b, p, q) THEN b ELSE Added(b, [ends |-> <<p, q>>, locked |-> FALSE])

EmptyNet == [tracks |-> <<>>, links |-> [p \in Points |-> <<>>], next |-> 1]
NetOf(tracks) == FoldLeft(Added, EmptyNet, tracks)

\* The segments of a line, whether or not they are there already.
Laid(b, c) ==
  FoldLeft(Added, b, [i \in 1..Len(c) - 1 |-> [ends |-> <<c[i], c[i + 1]>>, locked |-> FALSE]])

LinkCount(b, p) == Len(b.links[p]) + (IF p \in Pads THEN 1 ELSE 0)

-----------------------------------------------------------------------------
(* Walking *)

\* Mutant of NextSegment: the line goes on over branches.
NextSegmentFirst(b, p, t) ==
  LET others == SelectSeq(b.links[p], LAMBDA o : o # t)
  IN IF p \notin Pads /\ others # <<>> /\ ~b.tracks[others[1]].locked
     THEN others[1] ELSE NoTrack

\* Joint::next_segment.  A locked track is passed over when it comes before the
\* one to go on with, and ends the line when it comes after it.
NextSegment(b, p, t) ==
  LET others == SelectSeq(b.links[p], LAMBDA o : o # t)
  IN IF /\ p \notin Pads /\ others # <<>>
        /\ ~b.tracks[Last(others)].locked
        /\ \A i \in 1..Len(others) - 1 : b.tracks[others[i]].locked
     THEN Last(others) ELSE NoTrack

\* World::follow_line: the corners in the order of the walk.  reversed says that
\* the walk goes through a track against the direction of the scan.
Closed(walk) == Len(walk) > 1 /\ Last(walk).at = walk[1].at

Follow(b, seed, forward) ==
  LET exit(t, reversed) == b.tracks[t].ends[IF forward # reversed THEN 2 ELSE 1]
      corner(t, reversed) == [at |-> exit(t, reversed), track |-> t, reversed |-> reversed]
      next(c) == NextSegment(b, c.at, c.track)
      onto(walk, t) == Append(walk, corner(t, Last(walk).at = exit(t, FALSE)))
      walk[n \in 0..Cardinality(DOMAIN b.tracks)] ==
        IF n = 0 THEN <<corner(seed, FALSE)>>
        ELSE LET w == walk[n - 1]
             IN IF Closed(w) \/ next(Last(w)) = NoTrack THEN w ELSE onto(w, next(Last(w)))
  IN walk[Cardinality(DOMAIN b.tracks)]

\* Every element of a sequence at its first place.
Distinct(s) == FoldLeft(LAMBDA d, e : IF e \in Range(d) THEN d ELSE Append(d, e), <<>>, s)

\* A line without the points that repeat the one before.
Thinned(c) == FoldLeft(LAMBDA d, p : IF d # <<>> /\ Last(d) = p THEN d ELSE Append(d, p), <<>>, c)

\* World::assemble_line, not across locked tracks.
Assembled(b, seed) ==
  LET back == Follow(b, seed, FALSE)
      corners == Reverse(back) \o (IF Closed(back) THEN <<>> ELSE Follow(b, seed, TRUE))
  IN [points |-> Thinned([i \in DOMAIN corners |-> corners[i].at]),
      links |-> Distinct([i \in DOMAIN corners |-> corners[i].track])]

\* Line::clip_vertex_range.  A range that does not begin at the first vertex
\* is given the first link in place of its last.
Clipped(l, i, k) ==
  LET last == Min({Max({k - 1, 1}), Len(l.links)})
      first == Min({i, last})
      links == SubSeq(l.links, first, last)
  IN [points |-> SubSeq(l.points, i, k),
      links |-> IF first = 1 THEN links ELSE [links EXCEPT ![Len(links)] = l.links[1]]]

\* World::find_lines_between_joints
Between(b, p, q) ==
  LET found(t) == Assembled(b, t)
      at(l, r) == SelectInSeq(l.points, LAMBDA s : s = r)
      clip(l) == Clipped(l, Min({at(l, p), at(l, q)}), Max({at(l, p), at(l, q)}))
  IN {clip(l) : l \in {found(t) : t \in {t \in Range(b.links[p]) :
                                            {p, q} \subseteq Range(found(t).points)}}}
=============================================================================
