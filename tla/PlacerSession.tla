--------------------------- MODULE PlacerSession ---------------------------
(***************************************************************************)
(* The sessions of the router other than the single track's: the drags of  *)
(* module DragSession, and the placement of a differential pair            *)
(* (src/src/placer/diff_pair_placer.rs) and the tuning of a track's, a     *)
(* pair's or a skew's length (placer/meander_placer.rs,                    *)
(* dp_meander_placer.rs, meander_skew_placer.rs), which do not commit      *)
(* before the session ends.                                                *)
(*                                                                         *)
(* A pair's leg is one fact: both lanes go down together.  It remembers    *)
(* for which leg its trace was routed, where to, and whether straight or   *)
(* walked around.  Whether the gateways fit, whether a walk or a run of    *)
(* the shove succeeds, whether there is room for meanders, is open.        *)
(***************************************************************************)
EXTENDS DragSession

CONSTANT MaxLegs    \* bound: fixes of one pair placement

ASSUME AssumeLegs == MaxLegs \in Nat \ {0}

VARIABLES placer,   \* the placer's fields
          fixes     \* history: [leg, excused] of every fix of a pair

vars == <<dragVars, placer, fixes>>

Leg(j, p, way) == <<"leg", j, p, way>>
IsLeg(f) == f[1] = "leg"
Nowhere == "nowhere"

(* DpPlacing with the placer's nodes; a tuning uses the first line and     *)
(* shape, what it would write.                                             *)
NoPlacer == [kind |-> "none", world |-> NoNode, current |-> NoNode, last |-> NoNode,
             fixed |-> NoNode, end |-> Nowhere, pieces |-> {}, shape |-> {},
             trace |-> "none", at |-> Nowhere, leg |-> 0, vias |-> FALSE,
             fit |-> FALSE, ok |-> FALSE, snap |-> FALSE, placing_via |-> FALSE,
             chained |-> FALSE, prev |-> "unset", start |-> "other",
             resized |-> FALSE]

Init == DragInit /\ placer = NoPlacer /\ fixes = <<>>

(* All nodes a placer holds are live whenever a new one is taken below     *)
(* (HandlesLive), so that NewIn does not have to know them.                *)
PState == [tree |-> tree, drag |-> drag, shove |-> shove, placer |-> placer]
PBecome(s) == tree' = s.tree /\ shove' = s.shove /\ placer' = s.placer /\ UNCHANGED drag
----------------------------------------------------------------------------
(* DpPlacing::route_head.  A fit that fails keeps an earlier trace of the  *)
(* leg and calls it a success; a head that cannot be pushed free of what   *)
(* it is in keeps the snap as well.                                        *)
Headed(s, p, c) ==
    LET q == s.placer
        from == [q EXCEPT !.fit = FALSE, !.prev = IF @ = "unset" THEN q.start ELSE @]
    IN  [s EXCEPT !.placer =
           CASE c.fits = "fits" -> [from EXCEPT !.trace = "straight", !.at = p,
                                        !.leg = Len(fixes) + 1, !.ok = TRUE,
                                        !.vias = q.placing_via, !.snap = c.snap]
             [] c.fits = "sticky" -> [from EXCEPT !.snap = c.snap]
             [] c.fits = "lost" -> from]
Routable(s, c) == CASE c.fits = "fits" -> TRUE
                    [] c.fits = "sticky" -> s.placer.ok
                    [] c.fits = "lost" -> FALSE

(* check_colliding_line of the two lanes in a node.                        *)
Free(s, n) == s.placer.trace = "straight" /\ s.placer.at \in Tight
                => Push(s.placer.at) \in s.tree.view[n]

(* DpPlacing::rh_mark_obstacles                                            *)
PairMark(s, p, c) ==
    LET h == Headed(s, p, c)
    IN  IF ~Routable(s, c) THEN h
        ELSE [h EXCEPT !.placer.fit = Free(h, h.placer.current)]

(* DpPlacing::try_walk_dp: a pair that no order of the lanes gets around   *)
(* the obstacles is empty, and that counts as a success.                   *)
Walked(s, meets, c) == [s EXCEPT !.placer.trace =
                            IF ~meets THEN @ ELSE IF c.walks THEN "walked" ELSE "empty"]

(* DpPlacing::rh_walk_only                                                 *)
PairWalk(s, p, c) ==
    LET h == Headed(s, p, c)
        w == Walked(h, ~Free(h, h.placer.current), c)
    IN  IF ~Routable(s, c) THEN h ELSE [w EXCEPT !.placer.fit = TRUE]

(* DpPlacing::rh_shove_only: past what cannot be shoved the pair is walked *)
(* first, or it is empty, and then both lanes are heads of one run.  An    *)
(* empty head fails the run.                                               *)
PairShove(s, p, c) ==
    LET h == Headed([s EXCEPT !.placer.current = s.shove.current], p, c)
        solid == [h EXCEPT !.placer.trace = IF c.walks THEN @ ELSE "empty"]
        head == IF solid.placer.trace = "straight" THEN solid.placer.at ELSE Nowhere
        shoves == c.shoves /\ solid.placer.trace # "empty"
        ran == Ran(solid, head, [c EXCEPT !.shoves = shoves])
        stands == [ran EXCEPT !.placer.current = ran.shove.current]
    IN  IF ~Routable(s, c) THEN h
        ELSE [stands EXCEPT !.placer.fit = shoves /\ Free(stands, stands.placer.current)]

PairRoute(s, p, c) == CASE setting.mode = "mark" -> PairMark(s, p, c)
                        [] setting.mode = "walk" -> PairWalk(s, p, c)
                        [] setting.mode = "shove" -> PairShove(s, p, c)

(* DiffPairPlacer::move_to                                                 *)
PairMoved(s, p, c) ==
    LET clear == [s EXCEPT !.tree = Dropped(@, s.placer.last), !.placer.last = NoNode,
                           !.placer.fit = FALSE, !.placer.resized = FALSE]
        routed == PairRoute(clear, p, c)
        n == NewIn(routed)
    IN  [routed EXCEPT !.tree = Branched(@, routed.placer.current, n),
                       !.placer.last = n, !.placer.end = p]

(* DiffPairPlacer::init_placement                                          *)
Restarted(s, from) ==
    LET world == NewIn(s)
        branch == [s EXCEPT !.tree = Branched(@, from, world)]
        ground == NewIn(branch)
    IN  [branch EXCEPT !.tree = Branched(@, world, ground),
            !.shove = [NoShove EXCEPT !.root = ground, !.current = ground],
            !.placer = [@ EXCEPT !.world = world, !.current = world, !.last = NoNode]]

PairChoice == [k : FramesKept(setting.mode), shoves : Shoves(setting.mode),
               walks : Walks(setting.mode), snap : BOOLEAN,
               fits : {"fits", "sticky", "lost"}]
Moves(c) == placer.kind = "pair" /\ phase = "placing" /\ drags < MaxDrags /\ Possible(c)
Moving == drags' = drags + 1 /\ UNCHANGED <<phase, setting, good, ended, fixes>>
----------------------------------------------------------------------------
(* Router::start_routing_diff_pair; the pair is looked for on the board    *)
(* before a branch is made, so a refused start changes nothing.            *)
StartPair(p, start) ==
    /\ phase = "idle" /\ Room(3)
    /\ PBecome(Restarted([PState EXCEPT !.tree = KilledChildren(@, Root),
                              !.placer = [NoPlacer EXCEPT !.kind = "pair", !.start = start,
                                                          !.end = p]], Root))
    /\ phase' = "placing"
    /\ UNCHANGED <<setting, drags, good, ended, fixes>>

MovePair(p, c) == /\ Moves(c)
                  /\ PBecome(PairMoved(PState, p, c))
                  /\ Moving

(* DiffPairPlacer::toggle_via and flip_posture move again to where the     *)
(* cursor is, over nothing.                                                *)
ToggleVia(enabled, c) ==
    /\ Moves(c) /\ ~c.snap
    /\ PBecome(PairMoved([PState EXCEPT !.placer.placing_via = enabled], placer.end, c))
    /\ Moving
FlipPosture(c) == /\ Moves(c) /\ ~c.snap
                  /\ PBecome(PairMoved(PState, placer.end, c))
                  /\ Moving

(* DiffPairPlacer::set_layer: the leg begins anew, on the node it stands   *)
(* on and with what was pushed aside there.                                *)
SetLayer(c) ==
    /\ Moves(c) /\ ~c.snap /\ Room(6)
    /\ ~placer.chained /\ placer.prev = "via"
    /\ LET again == Restarted([PState EXCEPT !.placer.start = placer.prev], placer.current)
       IN  PBecome(PairMoved(again, placer.end, [c EXCEPT !.k = 0]))
    /\ Moving

(* Router::set_sizes with DiffPairPlacer::update_sizes: the trace takes    *)
(* the new width as it lies.                                               *)
SetSizes ==
    /\ placer.kind = "pair" /\ phase = "placing" /\ placer.trace # "none"
    /\ placer' = [placer EXCEPT !.resized = TRUE]
    /\ UNCHANGED <<dragVars, fixes>>

(* Router::finish_session                                                  *)
FinishSession == /\ placer' = [NoPlacer EXCEPT !.kind = placer.kind, !.pieces = placer.pieces]
                 /\ FinishDrag(drag)
                 /\ UNCHANGED <<setting, good>>

(* A placer's commit_placement within Router::stop_routing.                *)
Finish(t, n) ==
    /\ tree' = KilledChildren(Committed(t, n), Root)
    /\ ended' = [by |-> "commit", excused |-> FALSE, lost |-> {}]
    /\ FinishSession

(* What DiffPairPlacer::fix_route writes, and what it remembers of it.     *)
Fixed == Leg(placer.leg, placer.at, placer.trace)
Laid(s) == [s EXCEPT !.tree = Written(@, s.placer.last, {Fixed}),
                         !.placer = [@ EXCEPT !.fixed = placer.last, !.placing_via = FALSE,
                                              !.prev = IF placer.vias THEN "via" ELSE "other"]]
FixGate == /\ placer.kind = "pair" /\ phase = "placing" /\ placer.last # NoNode
           /\ placer.fit \/ AllowDrc
           /\ placer.trace \in {"straight", "walked"}
           /\ Len(fixes) < MaxLegs
           /\ fixes' = Append(fixes, [leg |-> Fixed, excused |-> AllowDrc \/ placer.resized])

(* Mutant of NextLeg: the trace and its success outlive the fix.           *)
NextLegKeeps(s) == [s EXCEPT !.placer.chained = ~placer.vias]

NextLeg(s) == [s EXCEPT !.placer = [@ EXCEPT !.chained = ~placer.vias, !.trace = "none",
                                             !.ok = FALSE, !.vias = FALSE]]

(* A fix that carries on: the next leg branches off what was fixed.        *)
FixLeg ==
    /\ FixGate /\ ~placer.snap /\ Room(2)
    /\ PBecome(Restarted(NextLeg(Laid(PState)), placer.last))
    /\ UNCHANGED <<phase, setting, drags, good, ended>>

(* A fix that ends the session.                                            *)
FixLast(force) ==
    /\ FixGate
    /\ placer.snap \/ force
    /\ LET s == Laid(PState) IN Finish(s.tree, s.placer.fixed)

(* Router::stop_routing of what was fixed; what is under way goes.         *)
StopPair ==
    /\ placer.kind = "pair" /\ phase = "placing" /\ placer.fixed # NoNode
    /\ Finish(tree, placer.fixed)
    /\ UNCHANGED fixes
----------------------------------------------------------------------------
(* Router::start_tuning and its two kin: the tuned lanes leave the branch. *)
StartTuning(how, x, p) ==
    LET pieces == IF how = "both" THEN Piece ELSE {x}
        world == NewIn(State)
        branch == [PState EXCEPT !.tree = Branched(@, Root, world)]
    IN  /\ phase = "idle" /\ Room(2)
        /\ PBecome([Put(branch, world, Olds(pieces), {}) EXCEPT
                !.placer = [NoPlacer EXCEPT !.kind = how, !.world = world,
                                            !.pieces = pieces, !.end = p]])
        /\ phase' = "placing" /\ good' = p
        /\ UNCHANGED <<setting, drags, ended, fixes>>

(* A track without a path to tune is refused after the branch was made.    *)
StartTuningRefused ==
    /\ phase = "idle" /\ Room(8)
    /\ tree' = Branched(tree, Root, NewIn(State))
    /\ UNCHANGED <<drag, shove, phase, setting, drags, good, ended, placer, fixes>>

(* MeanderPlacer::do_move and DpMeanderPlacer::move_to: every move starts  *)
(* from the bare branch again; one without room for meanders keeps the     *)
(* lanes' shape.                                                           *)
Tuned(s, p, meanders) ==
    LET clear == Dropped(s.tree, s.placer.current)
        n == NewIn([s EXCEPT !.tree = clear])
    IN  [s EXCEPT !.tree = Branched(clear, s.placer.world, n), !.placer.current = n,
                  !.placer.shape = IF meanders THEN Of(s.placer.pieces, p, "walked")
                                   ELSE Olds(s.placer.pieces)]

MoveTuning(p, meanders) ==
    /\ placer.kind \in {"one", "both"} /\ phase = "placing" /\ drags < MaxDrags
    /\ p # placer.end /\ Room(1)
    /\ PBecome(Tuned(PState, p, meanders))
    /\ drags' = drags + 1 /\ good' = p
    /\ UNCHANGED <<phase, setting, ended, fixes>>

(* MeanderPlacer::fix_route and DpMeanderPlacer::fix_route                 *)
FixTuning ==
    /\ placer.kind \in {"one", "both"} /\ phase = "placing" /\ placer.current # NoNode
    /\ Finish(Written(tree, placer.current, placer.shape), placer.current)
    /\ UNCHANGED fixes
----------------------------------------------------------------------------
(* Router::abort_routing, and a stop_routing that finds nothing to commit: *)
(* it commits no drag, and of a placer's only what was fixed.              *)
Abort == /\ phase \in {"dragging", "placing"}
         /\ tree' = KilledChildren(tree, Root)
         /\ ended' = [by |-> "abort", excused |-> FALSE, lost |-> {}]
         /\ FinishSession
         /\ UNCHANGED fixes

Next == \/ DragNext /\ UNCHANGED <<placer, fixes>>
        \/ \E p \in Place, start \in {"via", "other"} : StartPair(p, start)
        \/ \E c \in PairChoice : \/ \E p \in Place : MovePair(p, c)
                                 \/ \E enabled \in BOOLEAN : ToggleVia(enabled, c)
                                 \/ FlipPosture(c)
                                 \/ SetLayer(c)
        \/ SetSizes
        \/ FixLeg
        \/ \E force \in BOOLEAN : FixLast(force)
        \/ StopPair
        \/ \E how \in {"one", "both"}, x \in Piece, p \in Place : StartTuning(how, x, p)
        \/ StartTuningRefused
        \/ \E p \in Place, meanders \in BOOLEAN : MoveTuning(p, meanders)
        \/ FixTuning
        \/ Abort

Spec == Init /\ [][Next]_vars
----------------------------------------------------------------------------
(* However a session went, every piece is on the board once when it is     *)
(* over: none is forgotten by a dragger or a tuning that took it out of    *)
(* its branch, none is doubled, no stub stays.  What is not there is just  *)
(* what the position committed has left nothing of: a line or an arc that  *)
(* collapses, a track whose pad meets its other end, one of several lines  *)
(* that is clipped away; no position before it, none that failed, none of  *)
(* a walkaround or a shove.                                                *)
PiecesWhole ==
    phase = "over" =>
        /\ Stub \notin Board
        /\ \A x \in Piece : Cardinality(Shown(x)) = IF x \in ended.lost THEN 0 ELSE 1

(* Not kept: no drag takes a piece off the board.                          *)
NothingDraggedAway == phase = "over" => \A x \in Piece : Shown(x) # {}

(* A drag commits the last position that worked, not the one the cursor    *)
(* was at when it failed; a tuning that of its last move.                  *)
CommitsLastGood ==
    ended.by = "commit" /\ drag.kind # "multi" =>
        \A x \in Piece : Shown(x) \subseteq
            IF x \in drag.pieces THEN {New(x, good, way) : way \in {"straight", "walked"}}
            ELSE IF x \in placer.pieces THEN {Old(x), New(x, good, "walked")}
            ELSE {Old(x)}

(* Between two events every node the algorithm and its shove come back to  *)
(* is live.                                                                *)
HandlesLive ==
    phase \in {"dragging", "placing"} =>
        (Held(State) \cup {placer.world, placer.current, placer.last, placer.fixed})
            \ {NoNode} \subseteq tree.live

(* An aborted session, and one that commits nothing, leaves the board as   *)
(* it was, but for the lock the item dragger takes off.                    *)
AbortRestores ==
    ended.by = "abort" => /\ tree.live = {Root}
                          /\ Board \ {Lock(x) : x \in Piece} = {Old(x) : x \in Piece}

(* The legs of a pair on the board are just those that were fixed, each    *)
(* once, and each fix put down what was routed for that leg, not what is   *)
(* left of the one before.                                                 *)
LegsStand ==
    /\ phase = "over" => {f \in Board : IsLeg(f)} =
                            IF ended.by = "commit" THEN {fixes[i].leg : i \in DOMAIN fixes}
                            ELSE {}
    /\ \A i \in DOMAIN fixes : fixes[i].leg[2] = i

(* A leg that was committed straight through a tight place has what stood  *)
(* there pushed aside with it, whatever was routed, undone or switched     *)
(* afterwards; but for legs that may violate the rules, and for those that *)
(* were made wider after their last move.                                  *)
LegsLegal ==
    ended.by = "commit" =>
        \A i \in DOMAIN fixes :
            ~fixes[i].excused /\ fixes[i].leg[4] = "straight" /\ fixes[i].leg[3] \in Tight
                => Push(fixes[i].leg[3]) \in Board

(* What a session commits collides with nothing, be it dragged or routed.  *)
CommitLegal == DragLegal /\ LegsLegal
----------------------------------------------------------------------------
(* The inductive invariant behind these properties (PlacerSessionProofs).  *)
NodeOrNone == Node \cup {NoNode}
Ways == {"straight", "walked"}
Fact == {Old(x) : x \in Piece} \cup {Lock(x) : x \in Piece} \cup {Stub}
          \cup {New(x, p, way) : x \in Piece, p \in Place, way \in Ways}
          \cup {Push(p) : p \in Place}
          \cup {Leg(j, p, way) : j \in 1..MaxLegs, p \in Place, way \in Ways}

DragType == [kind : Kind, pieces : SUBSET Piece, free : BOOLEAN,
             mode : {"mark", "walk", "shove"}, bed : NodeOrNone, last : NodeOrNone,
             walk : NodeOrNone, status : BOOLEAN, forced : BOOLEAN, at : Place,
             solution : SUBSET Fact, lost : SUBSET Piece]
ShoveType == [root : NodeOrNone, current : NodeOrNone, stack : Seq(Node)]
PlacerType == [kind : {"none", "pair", "one", "both"}, world : NodeOrNone,
               current : NodeOrNone, last : NodeOrNone, fixed : NodeOrNone,
               end : Place \cup {Nowhere}, pieces : SUBSET Piece, shape : SUBSET Fact,
               trace : {"none", "straight", "walked", "empty"},
               at : Place \cup {Nowhere}, leg : Nat, vias : BOOLEAN, fit : BOOLEAN,
               ok : BOOLEAN, snap : BOOLEAN, placing_via : BOOLEAN, chained : BOOLEAN,
               prev : {"unset", "via", "other"}, start : {"via", "other"},
               resized : BOOLEAN]

TypeOK == /\ tree \in Tree(Fact)
          /\ drag \in DragType /\ shove \in ShoveType /\ placer \in PlacerType
          /\ phase \in {"idle", "dragging", "placing", "over"}
          /\ setting \in Setting /\ drags \in Nat /\ good \in Place
          /\ ended \in [by : {"none", "commit", "abort"}, excused : BOOLEAN, lost : SUBSET Piece]
          /\ fixes \in Seq([leg : Fact, excused : BOOLEAN]) /\ Len(fixes) <= MaxLegs

TreeOK(t) ==
    /\ t \in Tree(Fact)
    /\ Root \in t.live /\ t.chain[Root] = {Root}
    /\ \A n \in t.live : {Root, n} \subseteq t.chain[n] /\ t.chain[n] \subseteq t.live
    /\ \A n \in t.live : \A m \in t.chain[n] :
         /\ t.chain[m] \subseteq t.chain[n]
         /\ n \in t.chain[m] => m = n

(* What a dragger and the shove hold in the midst of a handler: live nodes *)
(* other than the board; the node that is dropped before the next move has *)
(* nothing else on it, and a frame was branched after those below it.      *)
Frames(s) == ToSet(s.shove.stack)
HandlesHold(s) ==
    /\ Held(s) \ {NoNode} \subseteq s.tree.live \ {Root}
    /\ s.shove.current = IF s.shove.stack = <<>> THEN s.shove.root ELSE Last(s.shove.stack)
    /\ s.shove.root = NoNode => s.shove.stack = <<>>
LastAlone(s) ==
    s.drag.last # NoNode =>
        /\ Subtree(s.tree, s.drag.last) = {s.drag.last}
        /\ s.drag.last \notin {s.drag.bed, s.drag.walk, s.shove.root} \cup Frames(s)
WalkAlone(s) ==
    s.drag.walk # NoNode =>
        /\ Subtree(s.tree, s.drag.walk) \subseteq {s.drag.walk, s.drag.last}
        /\ s.drag.walk \notin {s.drag.bed, s.shove.root} \cup Frames(s)
FramesOrdered(s) ==
    \A j \in DOMAIN s.shove.stack :
        /\ \A n \in {s.drag.bed, s.drag.walk, s.shove.root} \ {NoNode} :
             s.shove.stack[j] \notin s.tree.chain[n]
        /\ \A i \in 1..(j - 1) : s.shove.stack[j] \notin s.tree.chain[s.shove.stack[i]]
Standing(s) == /\ TreeOK(s.tree) /\ HandlesHold(s)
               /\ LastAlone(s) /\ WalkAlone(s) /\ FramesOrdered(s)

(* What a placer holds on top of that.                                     *)
PairStands(s) ==
    /\ {s.placer.world, s.placer.current, s.placer.last, s.placer.fixed} \ {NoNode}
         \subseteq s.tree.live \ {Root}
    /\ s.placer.world # NoNode /\ s.shove.root # NoNode
    /\ s.placer.current \in {s.placer.world, s.shove.current}
    /\ s.placer.last # NoNode =>
         /\ Subtree(s.tree, s.placer.last) = {s.placer.last}
         /\ s.placer.last \notin {s.placer.world, s.placer.fixed, s.shove.root} \cup Frames(s)
    /\ \A j \in DOMAIN s.shove.stack : \A n \in {s.placer.world, s.placer.fixed} \ {NoNode} :
         s.shove.stack[j] \notin s.tree.chain[n]
TuningStands(s) ==
    /\ s.placer.world \in s.tree.live \ {Root} /\ s.shove = NoShove
    /\ s.placer.last = NoNode /\ s.placer.fixed = NoNode
    /\ s.placer.current # NoNode =>
         /\ s.placer.current \in s.tree.live \ {Root, s.placer.world}
         /\ Subtree(s.tree, s.placer.current) = {s.placer.current}

(* What the boards show.  Until the session is over the root waits.        *)
Locks == {Lock(x) : x \in Piece}
RootWaits == phase # "over" => tree.view[Root] \ Locks = Olds(Piece)

LegsIn(t, n) == {f \in t.view[n] : IsLeg(f)}
LegsFixed == {fixes[i].leg : i \in DOMAIN fixes}
Shows(t, n, x) == Versions(x) \cap t.view[n]
Bare(t, n, x) == Shows(t, n, x) = {} /\ Stub \notin t.view[n]
WholeAt(t, n, lost) ==
    /\ Stub \notin t.view[n]
    /\ \A x \in Piece : IF x \in lost THEN Shows(t, n, x) = {}
                        ELSE \E v \in Versions(x) : Shows(t, n, x) = {v}

(* Nobody touches what is not dragged, and no drag or tuning lays legs.    *)
OthersStay(t, pieces) == \A n \in t.live, y \in Piece \ pieces : Shows(t, n, y) = {Old(y)}
NoLegs(t) == \A n \in t.live : LegsIn(t, n) = {}

(* A single drag: the nodes the item is put into do not show it before,    *)
(* and where the drag stands it shows it once, and legally.                *)
SingleGround(s, x) ==
    /\ s.drag.pieces = {x} /\ s.drag.bed # NoNode /\ s.drag.walk = NoNode
    /\ Shows(s.tree, s.drag.bed, x) \subseteq {Old(x)}
    /\ s.drag.kind # "arc" => Stub \notin s.tree.view[s.drag.bed]
    /\ s.drag.mode = "shove" /\ ~s.drag.free => s.shove.root = s.drag.bed
    /\ \A n \in Frames(s) : /\ Stub \notin s.tree.view[n]
                            /\ s.drag.kind # "via" => Shows(s.tree, n, x) = {}
ShowsOnce(s, x) ==
    /\ s.drag.last # NoNode /\ Stub \notin s.tree.view[s.drag.last]
    /\ \/ /\ s.drag.lost = {}
          /\ \E way \in Ways : Shows(s.tree, s.drag.last, x) = {New(x, s.drag.at, way)}
       \/ s.drag.lost = {x} /\ Shows(s.tree, s.drag.last, x) = {}
Marks(s) == s.drag.free \/ s.drag.forced \/ s.drag.mode = "mark"
SingleShows(s) == \E x \in Piece : /\ SingleGround(s, x)
                                   /\ Marks(s) \/ s.drag.lost = {}
                                   /\ s.drag.solution \subseteq Versions(x)
                                   /\ s.drag.status \/ s.drag.forced => ShowsOnce(s, x)
SingleLegal(s) ==
    s.drag.kind \in Single /\ s.drag.status /\ ~AllowDrc /\ s.drag.at \in Tight =>
        \A x \in Piece : New(x, s.drag.at, "straight") \in s.tree.view[s.drag.last]
                            => Push(s.drag.at) \in s.tree.view[s.drag.last]

MultiShows(s) ==
    /\ s.drag.pieces = Piece
    /\ s.shove.root # NoNode =>
         \A n \in {s.shove.root} \cup Frames(s), x \in Piece : Bare(s.tree, n, x)
    /\ s.drag.status => WholeAt(s.tree, Current(s), s.drag.lost)
MultiExcused(s) == s.drag.kind = "multi" /\ AllowDrc => WholeAt(s.tree, Current(s), s.drag.lost)

ComponentShows(s) ==
    /\ s.drag.pieces = Piece /\ s.drag.bed = NoNode /\ s.drag.walk = NoNode
    /\ s.shove = NoShove
    /\ s.drag.last # NoNode =>
         /\ Stub \notin s.tree.view[s.drag.last]
         /\ \A x \in Piece : Shows(s.tree, s.drag.last, x) =
                              IF x \in s.drag.lost THEN {} ELSE {New(x, s.drag.at, "straight")}

DragShows(s) == /\ s.drag.kind \in Single => SingleShows(s)
                /\ s.drag.kind = "multi" => MultiShows(s)
                /\ s.drag.kind = "component" => ComponentShows(s)

(* A pair: every node it stands on has the legs that were fixed, and what  *)
(* was pushed aside for them.                                              *)
PairNodes(s) == ({s.placer.world, s.placer.current, s.placer.last, s.placer.fixed,
                  s.shove.root} \cup Frames(s)) \ {NoNode}
LegsPushed(view) ==
    \A i \in DOMAIN fixes :
        ~fixes[i].excused /\ fixes[i].leg[4] = "straight" /\ fixes[i].leg[3] \in Tight
            => Push(fixes[i].leg[3]) \in view
PairShows(s) ==
    /\ \A n \in PairNodes(s) : /\ LegsIn(s.tree, n) = LegsFixed
                               /\ Stub \notin s.tree.view[n]
                               /\ LegsPushed(s.tree.view[n])
    /\ s.placer.fixed = NoNode <=> fixes = <<>>
    /\ s.placer.end \in Place
    /\ s.placer.ok => s.placer.trace # "none"
    /\ s.placer.trace # "none" => s.placer.leg = Len(fixes) + 1 /\ s.placer.at \in Place
    /\ s.placer.fit /\ s.placer.last # NoNode => Free(s, s.placer.last)
TuningShows(s) ==
    /\ s.placer.pieces # {}
    /\ \A n \in {s.placer.world, s.placer.current} \ {NoNode} :
         \A x \in s.placer.pieces : Bare(s.tree, n, x)
    /\ s.placer.current # NoNode =>
         s.placer.shape \in {Olds(s.placer.pieces), Of(s.placer.pieces, good, "walked")}

LegsNumbered == \A i \in DOMAIN fixes : fixes[i].leg[2] = i

Idle == phase = "idle" =>
           /\ drag = NoDrag /\ shove = NoShove /\ placer = NoPlacer /\ fixes = <<>>
           /\ TreeOK(tree) /\ OthersStay(tree, {}) /\ NoLegs(tree)
Dragging == phase = "dragging" =>
           /\ placer = NoPlacer /\ fixes = <<>> /\ good = drag.at
           /\ Standing(State) /\ OthersStay(tree, drag.pieces) /\ NoLegs(tree)
           /\ DragShows(State)
Placing == phase = "placing" =>
           /\ drag = NoDrag /\ placer.kind # "none" /\ Standing(State)
           /\ OthersStay(tree, placer.pieces)
           /\ IF placer.kind = "pair" THEN placer.pieces = {} /\ PairStands(PState) /\ PairShows(PState)
              ELSE fixes = <<>> /\ NoLegs(tree) /\ TuningStands(PState) /\ TuningShows(PState)
Over == /\ phase = "over" <=> ended.by # "none"
        /\ phase = "over" => tree.live = {Root}

AnySession == /\ TypeOK /\ RootWaits /\ LegsNumbered /\ Idle /\ Dragging /\ Placing /\ Over
              /\ CommitsLastGood /\ AbortRestores /\ LegsStand /\ LegsLegal

(* What holds beyond that if the settings between which a session changes  *)
(* allow no violations.                                                    *)
Quiet == \A m \in MidDrag : ~m[1].drc /\ ~m[2].drc
QuietSession == /\ phase = "dragging" => SingleLegal(State) /\ MultiExcused(State)
                /\ PiecesWhole /\ DragLegal
IInv == AnySession /\ QuietSession
=============================================================================
