---------------------------- MODULE DragSession ----------------------------
(***************************************************************************)
(* A drag: the router (src/src/router.rs) with one of its three draggers,  *)
(* the single item dragger (dragger.rs), the multi dragger                 *)
(* (multi_dragger.rs) and the component dragger (component_dragger.rs),    *)
(* over a tree of boards and the shove's springback stack (shove.rs).      *)
(*                                                                         *)
(* A board shows each piece where it was or where the cursor took it,      *)
(* straight or walked around what is there.  Geometry is reduced to the    *)
(* tight places: a piece that goes straight to one collides, unless the    *)
(* shove pushed something aside.  Whether a walkaround or a run of the     *)
(* shove succeeds, how much of the springback it takes back, and whether a *)
(* line is left with nothing where it goes, is open.                       *)
(***************************************************************************)
EXTENDS Integers, SequencesExt, FiniteSetsExt

CONSTANTS MaxNode,    \* bound: nodes alive or referred to at one time
          MaxFrames,  \* bound: springback frames
          MaxDrags,   \* bound: positions of the cursor in one drag
          Piece,      \* what is dragged
          Place,      \* where the cursor may be
          Tight,      \* places where a piece collides
          Setting,    \* [mode, drc]: routing mode, allow_drc_violations
          MidDrag     \* bound: the changes of the settings during a drag

Root == 0
Node == 0..MaxNode
NoNode == -1

INSTANCE BoardTree

ASSUME AssumeBounds == {MaxNode, MaxFrames, MaxDrags} \subseteq Nat \ {0}
ASSUME AssumePlaces == Piece # {} /\ Place # {} /\ Tight \subseteq Place
ASSUME AssumeSettings == /\ Setting \subseteq [mode : {"mark", "walk", "shove"}, drc : BOOLEAN]
                         /\ MidDrag \subseteq Setting \X Setting

VARIABLES tree,     \* the world
          drag,     \* the dragger's fields
          shove,    \* the shove's fields
          phase,    \* "idle", "dragging", "placing" (PlacerSession) or "over"
          setting,  \* mode and allow_drc_violations
          drags,    \* history: positions the cursor was given
          good,     \* history: the last of them that worked
          ended     \* history: how the drag ended

dragVars == <<tree, drag, shove, phase, setting, drags, good, ended>>

Old(x) == <<"old", x>>
New(x, p, way) == <<"new", x, p, way>>
Push(p) == <<"push", p>>
Stub == <<"stub">>   \* a tangent an isolated arc is given to drag it by
Lock(x) == <<"lock", x>>
Versions(x) == {Old(x)} \cup {New(x, p, way) : p \in Place, way \in {"straight", "walked"}}

(* The facade's kind of dragger, and what the item dragger has in hand.    *)
Kind == {"line", "arc", "via", "multi", "component"}
Single == {"line", "arc", "via"}

NoDrag == [kind |-> "line", pieces |-> {}, free |-> FALSE, mode |-> "mark",
           bed |-> NoNode, last |-> NoNode, walk |-> NoNode, status |-> FALSE,
           forced |-> FALSE, at |-> CHOOSE p \in Place : TRUE, solution |-> {},
           lost |-> {}]   \* history: the pieces of which nothing is left at at
NoShove == [root |-> NoNode, current |-> NoNode, stack |-> <<>>]

AllowDrc == setting.mode = "mark" /\ setting.drc

DragInit ==
        /\ tree = [NewTree EXCEPT !.view[Root] = {Old(x) : x \in Piece} \cup {Lock(x) : x \in Piece}]
        /\ drag = NoDrag /\ shove = NoShove
        /\ phase = "idle"
        /\ setting \in Setting
        /\ drags = 0 /\ good = NoDrag.at
        /\ ended = [by |-> "none", excused |-> FALSE, lost |-> {}]
----------------------------------------------------------------------------
(* What the draggers' methods work on: the world and their own fields.     *)
State == [tree |-> tree, drag |-> drag, shove |-> shove]

Held(s) == {s.drag.bed, s.drag.last, s.drag.walk, s.shove.root, s.shove.current}
             \cup ToSet(s.shove.stack)
NewIn(s) == Min(Node \ (s.tree.live \cup Held(s)))
Room(n) == Cardinality(Node \ (tree.live \cup Held(State))) >= n

Put(s, n, gone, new) == [s EXCEPT !.tree.view[n] = (@ \ gone) \cup new]
LastOn(s, n) == [s EXCEPT !.tree = Branched(@, n, NewIn(s)), !.drag.last = NewIn(s)]
WithoutLast(s) == [s EXCEPT !.tree = Dropped(@, s.drag.last), !.drag.last = NoNode]
Parent(t, n) == CHOOSE m \in t.chain[n] \ {n} : t.chain[m] = t.chain[n] \ {n}

(* What an assembled line takes with it when it is removed.                *)
Gone(s) == {Old(x) : x \in s.drag.pieces} \cup {Stub}
Moved(s, p, way) == {New(x, p, way) : x \in s.drag.pieces}

(* Shove::run: the springback is reduced to its first k frames, then the   *)
(* run keeps its branch as a frame, or drops it and stands on the frame it *)
(* started from.  A dragged via is moved in the branch itself.             *)
Kept(s) == IF s.shove.stack = <<>> THEN {0} ELSE 1 .. Len(s.shove.stack)
Ran(s, p, c) ==
    LET ground == IF c.k = 0 THEN s.shove.root ELSE s.shove.stack[c.k]
        popped == ToSet(SubSeq(s.shove.stack, c.k + 1, Len(s.shove.stack)))
        frames == SubSeq(s.shove.stack, 1, c.k)
        reduced == [s EXCEPT !.tree = Without(@, UNION {Subtree(@, n) : n \in popped}),
                             !.shove.stack = frames, !.shove.current = ground]
        frame == NewIn(reduced)
        pushed == IF p \in Tight THEN {Push(p)} ELSE {}
        run == [reduced EXCEPT !.tree = Branched(@, ground, frame),
                               !.shove.stack = Append(@, frame), !.shove.current = frame]
    IN  IF ~c.shoves THEN reduced
        ELSE IF s.drag.kind = "via"
        THEN Put(run, frame, UNION {Versions(x) : x \in s.drag.pieces},
                 pushed \cup Moved(s, p, "straight"))
        ELSE Put(run, frame, {}, pushed)
----------------------------------------------------------------------------
(* Dragger::drag_mark_obstacles stores what the drag has left of the line, *)
(* and nothing collides with nothing.                                      *)
MarkDrag(s, p, c) ==
    LET b == LastOn(WithoutLast(s), s.drag.bed)
        moved == IF c.collapses THEN {} ELSE Moved(s, p, "straight")
    IN  [Put(b, b.drag.last, Gone(s), moved) EXCEPT
            !.drag.status = AllowDrc \/ p \notin Tight \/ c.collapses,
            !.drag.lost = IF c.collapses THEN s.drag.pieces ELSE {}]

(* tryWalkaround is asked only when the piece collides where it goes.      *)
Way(p) == IF p \in Tight THEN "walked" ELSE "straight"

(* Dragger::drag_via_walkaround takes the via out before it knows where it *)
(* can go.                                                                 *)
ViaWalk(s, p, ok) ==
    Put([s EXCEPT !.drag.status = ok], s.drag.last, UNION {Versions(x) : x \in s.drag.pieces},
        IF ok THEN Moved(s, p, Way(p)) ELSE {})

(* Dragger::drag_walkaround                                                *)
WalkDrag(s, p, c) ==
    LET b == LastOn(WithoutLast(s), s.drag.bed)
        ok == (p \notin Tight \/ c.walks) /\ ~c.collapses
    IN  IF s.drag.kind = "via" THEN ViaWalk(b, p, ok)
        ELSE IF ~ok THEN [b EXCEPT !.drag.status = FALSE]
        ELSE [Put(b, b.drag.last, Gone(s), Moved(s, p, Way(p))) EXCEPT !.drag.status = TRUE]

(* Shove::run fails on a head without a segment.                           *)
Run(c) == [k |-> c.k, shoves |-> c.shoves /\ ~c.collapses]

(* Mutant of ShoveDrag: the line is taken out of the drag's own branch.    *)
ShoveDragInLast(s, p, c) ==
    LET clear == WithoutLast(s)
        ran == Ran(clear, p, Run(c))
        b == LastOn(ran, ran.shove.current)
    IN  IF s.drag.kind = "via"
        THEN IF c.shoves THEN [b EXCEPT !.drag.status = TRUE]
             ELSE ViaWalk(b, p, p \notin Tight \/ c.walks)
        ELSE IF c.collapses \/ ~c.shoves THEN [b EXCEPT !.drag.status = FALSE]
        ELSE [Put(b, b.drag.last, {}, Moved(s, p, "straight"))
                EXCEPT !.drag.status = TRUE, !.drag.solution = Moved(s, p, "straight")]

(* Dragger::drag_shove: the line is taken out of the node the shove stands *)
(* on before the run, and put into a branch of the node it stands on after *)
(* it.  A via that could not be shoved is walked around instead; an arc    *)
(* that is left with nothing is not given to the shove.                    *)
ShoveDrag(s, p, c) ==
    LET clear == WithoutLast(s)
        idle == s.drag.kind = "arc" /\ c.collapses
        bare == IF s.drag.kind = "via" \/ idle THEN clear
                ELSE Put(clear, clear.shove.current, Gone(s), {})
        ran == IF idle THEN clear ELSE Ran(bare, p, Run(c))
        b == LastOn(ran, ran.shove.current)
    IN  IF s.drag.kind = "via"
        THEN IF c.shoves THEN [b EXCEPT !.drag.status = TRUE]
             ELSE ViaWalk(b, p, p \notin Tight \/ c.walks)
        ELSE IF c.collapses \/ ~c.shoves THEN [b EXCEPT !.drag.status = FALSE]
        ELSE [Put(b, b.drag.last, {}, Moved(s, p, "straight"))
                EXCEPT !.drag.status = TRUE, !.drag.solution = Moved(s, p, "straight")]

(* Mutant of Restored: what is shown again counts as a solution.           *)
RestoredStands(s) ==
    LET b == LastOn(s, Parent(s.tree, s.drag.last))
    IN  Put([b EXCEPT !.tree = Dropped(@, s.drag.last), !.drag.status = TRUE],
            b.drag.last, {}, s.drag.solution)

(* Dragger::restore_last_solution                                          *)
Restored(s) ==
    LET b == LastOn(s, Parent(s.tree, s.drag.last))
    IN  Put([b EXCEPT !.tree = Dropped(@, s.drag.last)], b.drag.last, {}, s.drag.solution)

(* Mutant of SingleDrag: the point counts as valid before it was tried.    *)
SingleDragEager(s, p, c) ==
    LET marks == s.drag.free \/ s.drag.forced \/ s.drag.mode = "mark"
        tried == IF marks THEN MarkDrag(s, p, c)
                 ELSE IF s.drag.mode = "shove" THEN ShoveDrag(s, p, c)
                 ELSE WalkDrag(s, p, c)
    IN  IF marks \/ tried.drag.status \/ s.drag.last # NoNode
        THEN [tried EXCEPT !.drag.at = p]
        ELSE [MarkDrag([tried EXCEPT !.drag.forced = TRUE], p, c) EXCEPT !.drag.at = p]

(* Dragger::drag: a first drag that fails goes on in mark obstacles mode,  *)
(* a later one comes back to the last solution.                            *)
SingleDrag(s, p, c) ==
    LET marks == s.drag.free \/ s.drag.forced \/ s.drag.mode = "mark"
        tried == IF marks THEN MarkDrag(s, p, c)
                 ELSE IF s.drag.mode = "shove" THEN ShoveDrag(s, p, c)
                 ELSE WalkDrag(s, p, c)
    IN  IF marks \/ tried.drag.status THEN [tried EXCEPT !.drag.at = p]
        ELSE IF s.drag.last = NoNode
        THEN [MarkDrag([tried EXCEPT !.drag.forced = TRUE], p, c) EXCEPT !.drag.at = p]
        ELSE Restored(tried)
----------------------------------------------------------------------------
Of(pieces, p, way) == {New(x, p, way) : x \in pieces}
Olds(pieces) == {Old(x) : x \in pieces}

(* MultiDragger::multidrag_mark_obstacles.  The lines whose posture fits   *)
(* are c.done, here and below.  Every line is clipped to those before it;  *)
(* of one that touches another all along, nothing is left (c.lost), and    *)
(* the answer is true all the same.                                        *)
MultiMark(s, p, c) ==
    LET b == LastOn(WithoutLast(s), Root)
    IN  [Put(b, b.drag.last, Olds(c.done), Of(c.done \ c.lost, p, "straight"))
            EXCEPT !.drag.status = TRUE]

(* MultiDragger::multidrag_walkaround: the better of two orders is kept.   *)
MultiWalk(s, p, c) ==
    LET fresh == IF s.drag.walk = NoNode THEN WithoutLast(s)
                 ELSE [s EXCEPT !.tree = Dropped(@, s.drag.walk),
                                !.drag.walk = NoNode, !.drag.last = NoNode]
        walk == NewIn(fresh)
        bare == Put([fresh EXCEPT !.tree = Branched(@, Root, walk), !.drag.walk = walk],
                    walk, Olds(c.done), {})
        b == LastOn(bare, walk)
    IN  IF p \in Tight /\ ~c.walks THEN [bare EXCEPT !.drag.status = FALSE]
        ELSE [Put(b, b.drag.last, {}, Of(c.done, p, Way(p))) EXCEPT !.drag.status = TRUE]

(* MultiDragger::multidrag_shove: start took every line out of the node    *)
(* the shove stands on; those that do not fit are put back.                *)
MultiShove(s, p, c) ==
    LET clear == WithoutLast(s)
        ran == Ran(clear, p, c)
        b == LastOn(ran, ran.shove.current)
    IN  IF s.shove.root = NoNode THEN [clear EXCEPT !.drag.status = FALSE]
        ELSE [Put(b, b.drag.last, {}, Olds(s.drag.pieces \ c.done)
                     \cup (IF c.shoves THEN Of(c.done, p, "straight") ELSE {}))
                EXCEPT !.drag.status = c.shoves]

(* MultiDragger::drag reads the mode anew.                                 *)
MultiDrag(s, p, c) ==
    LET tried == CASE setting.mode = "mark" -> MultiMark(s, p, c)
                   [] setting.mode = "walk" -> MultiWalk(s, p, c)
                   [] setting.mode = "shove" -> MultiShove(s, p, c)
    IN  [tried EXCEPT !.drag.at = p, !.drag.lost = c.lost]

(* Mutant of ComponentDrag: the component is moved in the board itself.    *)
ComponentDragInPlace(s, p, c) ==
    Put([s EXCEPT !.drag.last = Root, !.drag.at = p, !.drag.lost = c.lost], Root,
        Olds(s.drag.pieces), Of(s.drag.pieces \ c.lost, p, "straight"))

(* ComponentDragger::drag: pads, the tracks between them and the tracks    *)
(* that leave them go along in a new branch of the board; of a track whose *)
(* pad meets its other end nothing is left.                                *)
ComponentDrag(s, p, c) ==
    LET b == LastOn([s EXCEPT !.tree = KilledChildren(@, Root)], Root)
    IN  [Put(b, b.drag.last, Olds(s.drag.pieces), Of(s.drag.pieces \ c.lost, p, "straight"))
            EXCEPT !.drag.at = p, !.drag.lost = c.lost]

Dragged(s, p, c) == CASE s.drag.kind \in Single -> SingleDrag(s, p, c)
                      [] s.drag.kind = "multi" -> MultiDrag(s, p, c)
                      [] s.drag.kind = "component" -> ComponentDrag(s, p, c)

(* How a drag may come out: the springback frames kept, whether the shove  *)
(* or the walkaround finds a way, whether a single line collapses, which   *)
(* lines of several fit, and of which of them nothing is left: never of    *)
(* all, since the first is clipped by none and pads stay what they are.    *)
FramesKept(mode) == IF mode = "shove" THEN Kept(State) ELSE {0}
Shoves(mode) == IF mode = "shove" THEN BOOLEAN ELSE {FALSE}
Walks(mode) == IF mode = "mark" THEN {FALSE} ELSE BOOLEAN
NotAll(S) == {T \in SUBSET S : T = S => T = {}}
Clipped(done) == CASE drag.kind = "multi" /\ setting.mode = "mark" -> NotAll(done)
                   [] drag.kind = "component" -> NotAll(drag.pieces)
                   [] OTHER -> {{}}
Choice == LET mode == IF drag.kind \in Single THEN drag.mode ELSE setting.mode
          IN  UNION {[k : FramesKept(mode), shoves : Shoves(mode), walks : Walks(mode),
                      collapses : IF drag.kind \in {"line", "arc"} THEN BOOLEAN ELSE {FALSE},
                      done : {done}, lost : Clipped(done)] :
                     done \in IF drag.kind = "multi" THEN SUBSET drag.pieces ELSE {{}}}
Possible(c) == Room(4) /\ c.k < MaxFrames

Become(s) == tree' = s.tree /\ drag' = s.drag /\ shove' = s.shove
----------------------------------------------------------------------------
(* Router::start_dragging with the start of the dragger it chooses.  The   *)
(* item dragger unlocks the item in place, and gives an isolated arc two   *)
(* stubs; its shove stands on the drag's bed.                              *)
StartSingle(kind, x, free, p, stub) ==
    LET bed == NewIn(State)
        bedded == Branched(tree, Root, bed)
        unlocked == [bedded EXCEPT !.view = [n \in Node |-> @[n] \ {Lock(x)}]]
        shoves == setting.mode = "shove" /\ ~free
    IN  /\ phase = "idle" /\ Room(3)
        /\ stub # {} => kind = "arc"
        /\ tree' = Written(unlocked, bed, stub)
        /\ drag' = [NoDrag EXCEPT !.kind = kind, !.pieces = {x}, !.free = free,
                        !.mode = setting.mode, !.bed = bed, !.at = p,
                        !.solution = IF kind = "line" THEN {Old(x)} ELSE {}]
        /\ shove' = IF shoves THEN [NoShove EXCEPT !.root = bed, !.current = bed] ELSE NoShove
        /\ phase' = "dragging" /\ good' = p
        /\ UNCHANGED <<setting, drags, ended>>

(* An item that cannot be dragged is refused after its branch was made.    *)
StartRefused(x) ==
    /\ phase = "idle" /\ Room(8)
    /\ tree' = [Branched(tree, Root, NewIn(State)) EXCEPT !.view = [n \in Node |-> @[n] \ {Lock(x)}]]
    /\ UNCHANGED <<drag, shove, phase, setting, drags, good, ended>>

StartMulti(p) ==
    LET bed == NewIn(State)
        started == [NoDrag EXCEPT !.kind = "multi", !.pieces = Piece, !.at = p]
        bare == Put([State EXCEPT !.tree = Branched(@, Root, bed)], bed, Olds(Piece), {})
    IN  /\ phase = "idle" /\ Room(3)
        /\ IF setting.mode = "shove"
           THEN Become([bare EXCEPT !.drag = [started EXCEPT !.bed = bed],
                                    !.shove = [NoShove EXCEPT !.root = bed, !.current = bed]])
           ELSE Become([State EXCEPT !.drag = started, !.shove = NoShove])
        /\ phase' = "dragging" /\ good' = p
        /\ UNCHANGED <<setting, drags, ended>>

StartComponent(p) ==
    /\ phase = "idle"
    /\ drag' = [NoDrag EXCEPT !.kind = "component", !.pieces = Piece, !.at = p]
    /\ phase' = "dragging" /\ good' = p
    /\ UNCHANGED <<tree, shove, setting, drags, ended>>

(* Router::set_settings                                                    *)
SetSettings(new) ==
    /\ phase \in {"dragging", "placing"} /\ <<setting, new>> \in MidDrag
    /\ setting' = new
    /\ UNCHANGED <<tree, drag, shove, phase, drags, good, ended>>

(* What Dragger::drag answers; marked obstacles do not stop a drag.        *)
Worked(d) == d.kind \notin Single \/ d.free \/ d.forced \/ d.mode = "mark" \/ d.status

(* Router::move_to                                                         *)
MoveTo(p, c) ==
    /\ phase = "dragging" /\ drags < MaxDrags
    /\ Possible(c)
    /\ Become(Dragged(State, p, c))
    /\ drags' = drags + 1
    /\ good' = IF Worked(drag') THEN p ELSE good
    /\ UNCHANGED <<phase, setting, ended>>

Current(s) == IF s.drag.last = NoNode THEN Root ELSE s.drag.last

(* Router::finish_session drops the dragger and its shove; what it dragged *)
(* stays as history.                                                       *)
FinishDrag(d) == /\ drag' = [NoDrag EXCEPT !.kind = d.kind, !.pieces = d.pieces]
                 /\ shove' = NoShove
                 /\ phase' = "over" /\ drags' = 0

(* Router::commit_drag of what a dragger's fix_route_node answers.         *)
Commit(s, excused) ==
    /\ tree' = KilledChildren(Committed(s.tree, Current(s)), Root)
    /\ FinishDrag(s.drag)
    /\ ended' = [by |-> "commit", excused |-> excused, lost |-> s.drag.lost]
    /\ UNCHANGED <<setting, good>>

(* Dragger::fix_route_node of a drag that stands, or that is committed as  *)
(* it is because the host forces it.                                       *)
FixSingle(force) ==
    /\ phase = "dragging" /\ drag.kind \in Single
    /\ drag.status \/ (drag.forced /\ force)
    /\ Commit(State, ~drag.status \/ AllowDrc)

(* Otherwise the last position that worked is dragged to once more.        *)
FixRedrags(c) ==
    LET again == SingleDrag(State, drag.at, c)
    IN  /\ phase = "dragging" /\ drag.kind \in Single
        /\ ~drag.status /\ ~drag.forced
        /\ Possible(c)
        /\ IF again.drag.status THEN Commit(again, AllowDrc)
           ELSE Become(again) /\ UNCHANGED <<phase, setting, drags, good, ended>>

(* MultiDragger::fix_route_node                                            *)
FixMulti ==
    /\ phase = "dragging" /\ drag.kind = "multi"
    /\ drag.status \/ AllowDrc
    /\ Commit(State, TRUE)

(* ComponentDragger::fix_route_node                                        *)
FixComponent(force) ==
    /\ phase = "dragging" /\ drag.kind = "component" /\ drag.last # NoNode
    /\ AllowDrc \/ force \/ drag.at \notin Tight
    /\ Commit(State, AllowDrc \/ force)

DragNext ==
        \/ \E kind \in Single, x \in Piece, free \in BOOLEAN, p \in Place,
             stub \in SUBSET {Stub} : StartSingle(kind, x, free, p, stub)
        \/ \E x \in Piece : StartRefused(x)
        \/ \E p \in Place : StartMulti(p) \/ StartComponent(p)
        \/ \E new \in Setting : SetSettings(new)
        \/ \E p \in Place, c \in Choice : MoveTo(p, c)
        \/ \E force \in BOOLEAN : FixSingle(force) \/ FixComponent(force)
        \/ \E c \in Choice : FixRedrags(c)
        \/ FixMulti
----------------------------------------------------------------------------
Board == tree.view[Root]
Shown(x) == Versions(x) \cap Board

(* What a drag commits on its own collides with nothing: a piece that went *)
(* straight to a tight place comes with what was pushed aside for it.      *)
DragLegal ==
    ended.by = "commit" /\ ~ended.excused =>
        \A x \in Piece, p \in Tight : New(x, p, "straight") \in Board => Push(p) \in Board
=============================================================================
