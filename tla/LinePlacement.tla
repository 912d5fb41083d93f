--------------------------- MODULE LinePlacement ---------------------------
(***************************************************************************)
(* One single track routing session: the router (src/src/router.rs), the   *)
(* line placer (src/src/placer/line_placer.rs) with its stack of fix       *)
(* stages (placer/fixed_tail.rs), and the shove's springback stack         *)
(* (src/src/shove.rs), over a tree of boards.                              *)
(*                                                                         *)
(* Geometry is left open: whether the walkaround or the shove finds a way, *)
(* which springback frames the new head still touches, whether a trace has *)
(* segments.  What is kept is who holds which node, who writes into which  *)
(* node, and what every board shows: "leg k" is the k-th fixed leg, "push  *)
(* k" what the shove moved aside for it, "tidy k" what was tidied with it, *)
(* "cut" the split of the track the session started on, "net" the net an   *)
(* item without one was given.                                             *)
(*                                                                         *)
(* Node handles are never reissued by the arena; here a number is taken    *)
(* again only when nothing refers to it any more.                          *)
(***************************************************************************)
EXTENDS Integers, SequencesExt, FiniteSetsExt

CONSTANT Plans  \* what sessions are looked at: the modes one may begin in, the
                \* changes of the mode during it, how a pass of routing in shove
                \* mode may end; bounds: the nodes alive or referred to, the
                \* fixed legs in force, the springback frames, the passes of
                \* one move

Root == 0
MaxNode == Max({p.nodes : p \in Plans})
Node == 0..MaxNode
NoNode == -1

INSTANCE BoardTree

Mode == {"mark", "walk", "shove"}
Outcome == {"moved", "walked", "stuck", "blocked"}
MaxFixes == Max({p.fixes : p \in Plans})

ASSUME AssumePlans ==
    /\ Plans \subseteq [modes : SUBSET Mode, switches : SUBSET (Mode \X Mode),
                        outcomes : SUBSET Outcome, nodes : Nat \ {0, 1},
                        fixes : Nat \ {0}, frames : Nat \ {0}, rounds : Nat \ {0}]
    /\ IsFiniteSet(Plans)

VARIABLES plan,    \* which of the sessions this is
          tree,    \* the world
          phase,   \* "idle", "placing", "routing", "panicked" or "over"
          mode,    \* settings.mode
          placer,  \* the line placer's fields
          shove,   \* the shove's fields
          route,   \* the node route_step works on, passes left, any one found
          fixes,   \* history: the fixes in force, TRUE where a leg was placed
          host,    \* the host's board: what it was told through the diff
          ended    \* history: how the session ended

vars == <<plan, tree, phase, mode, placer, shove, route, fixes, host, ended>>

Leg(k) == <<"leg", k>>
Push(k) == <<"push", k>>
Tidy(k) == <<"tidy", k>>
Cut == <<"cut", 0>>
Net == <<"net", 0>>
Fact == {Cut, Net} \cup ({"leg", "push", "tidy"} \X (1..(MaxFixes + 1)))

(* The trace being placed: nothing, the zero length line route_step leaves *)
(* behind when it fails before anything was routed, a via alone, or a line.*)
Trace == {"none", "dot", "via", "line"}

NodeOrNone == Node \cup {NoNode}
Frame == [node : Node, locked : BOOLEAN]

TypeOK ==
    /\ tree \in Tree(Fact) /\ Root \in tree.live
    /\ phase \in {"idle", "placing", "routing", "panicked", "over"}
    /\ plan \in Plans /\ mode \in Mode
    /\ placer \in [current : NodeOrNone, last : NodeOrNone, stages : Seq(Node),
                   correct : BOOLEAN, trace : Trace, shoveMode : BOOLEAN]
    /\ Len(placer.stages) <= MaxFixes + 1
    /\ phase # "idle" => placer.current \in Node /\ placer.stages # <<>>
    /\ shove \in [root : NodeOrNone, current : NodeOrNone, stack : Seq(Frame)]
    /\ route \in [node : NodeOrNone, rounds : 0..plan.rounds, found : BOOLEAN]
    /\ fixes \in Seq(BOOLEAN) /\ Len(fixes) <= MaxFixes
    /\ host \subseteq Fact
    /\ ended \in [by : {"none", "commit", "abort"}, placed : BOOLEAN]

FrameNodes == {f.node : f \in ToSet(shove.stack)}

(* Node handles nobody holds.  The arena never runs out of them: Room is   *)
(* the bound on nodes as a guard.                                          *)
Unused == (0..plan.nodes) \ (tree.live \cup FrameNodes \cup ToSet(placer.stages)
                    \cup {placer.current, placer.last, route.node,
                          shove.root, shove.current})
Room(n) == Cardinality(Unused) >= n
NewNode == Min(Unused)
SecondNewNode == Min(Unused \ {NewNode})

NoPlacer == [current |-> NoNode, last |-> NoNode, stages |-> <<>>,
             correct |-> FALSE, trace |-> "none", shoveMode |-> FALSE]
NoShove == [root |-> NoNode, current |-> NoNode, stack |-> <<>>]
NoRoute == [node |-> NoNode, rounds |-> 0, found |-> FALSE]

Pending == Len(fixes) + 1

Init == /\ plan \in Plans
        /\ tree = NewTree
        /\ phase = "idle"
        /\ mode \in plan.modes
        /\ placer = NoPlacer /\ shove = NoShove /\ route = NoRoute
        /\ fixes = <<>>
        /\ host = {}
        /\ ended = [by |-> "none", placed |-> FALSE]
----------------------------------------------------------------------------
(* LinePlacer::start.  The placement branch takes the split of the start   *)
(* item, if it is a track; the shove stands on a branch of that branch.    *)
Start(cut) ==
    LET branch == NewNode
        bed == SecondNewNode
        cutTree == Written(Branched(KilledChildren(tree, Root), Root, branch),
                           branch, cut)
    IN  /\ phase = "idle"
        /\ tree' = Branched(cutTree, branch, bed)
        /\ placer' = [NoPlacer EXCEPT !.current = branch, !.stages = <<branch>>,
                                      !.shoveMode = (mode = "shove")]
        /\ shove' = [NoShove EXCEPT !.root = bed, !.current = bed]
        /\ phase' = "placing"
        /\ UNCHANGED <<plan, mode, route, fixes, host, ended>>

(* Router::set_settings.                                                   *)
SetMode(m) ==
    /\ phase \in {"idle", "placing"} /\ <<mode, m>> \in plan.switches
    /\ mode' = m
    /\ UNCHANGED <<plan, tree, phase, placer, shove, route, fixes, host, ended>>

(* LinePlacer::move_to, up to the call of route: the last scratch branch   *)
(* goes.  LinePlacer::set_layer ends in the same call.                     *)
MoveTo ==
    /\ phase = "placing" /\ Room(plan.rounds + 1)
    /\ tree' = Dropped(tree, placer.last)
    /\ placer' = [placer EXCEPT !.last = NoNode, !.shoveMode = (mode = "shove")]
    /\ route' = [node |-> placer.current, rounds |-> plan.rounds, found |-> FALSE]
    /\ phase' = "routing"
    /\ UNCHANGED <<plan, mode, shove, fixes, host, ended>>

(* Mutant of Kept: the locks are not looked at.                            *)
KeptAny == LET n == Len(shove.stack) IN IF n = 0 THEN {0} ELSE 1..n

(* Shove::reduce_springback keeps a prefix of the frames: it stops at the  *)
(* bottom one, at a locked one, and at one that is pinned or that the new  *)
(* head still touches, which is geometry.                                  *)
Kept == LET n == Len(shove.stack)
        IN  IF n = 0 THEN {0}
            ELSE {k \in 1..n : \A i \in (k + 1)..n : ~shove.stack[i].locked}

Above(k) == {shove.stack[i].node : i \in (k + 1)..Len(shove.stack)}
Reduced(k) == Without(tree, UNION {Subtree(tree, n) : n \in Above(k)})
Ground(k) == IF k = 0 THEN shove.root ELSE shove.stack[k].node

(* One pass of route_step in shove mode, down to Shove::run.  The run      *)
(* branches off the frame the springback was reduced to.  "moved": it      *)
(* pushed what was in the way (if anything) and keeps its branch as a      *)
(* frame.  Otherwise its branch is gone again and the walkaround is tried: *)
(* "walked" found a way, "stuck" did not, and route_step gives up with the *)
(* node it had.  A pass that is "blocked" by a solid never gets to the     *)
(* run: see MoveEnds.                                                      *)
RouteShove(k, outcome, pushed) ==
    LET frames == SubSeq(shove.stack, 1, k)
        branch == NewNode
    IN  /\ phase = "routing" /\ mode = "shove" /\ route.rounds > 0
        /\ Ground(k) \in Reduced(k).live
        /\ outcome # "moved" => pushed = {}
        /\ CASE outcome = "moved" ->
                  /\ Len(frames) < plan.frames /\ Room(1)
                  /\ tree' = Written(Branched(Reduced(k), Ground(k), branch),
                                     branch, pushed)
                  /\ shove' = [shove EXCEPT
                        !.stack = Append(frames, [node |-> branch, locked |-> FALSE]),
                        !.current = branch]
                  /\ route' = [node |-> branch, rounds |-> route.rounds - 1, found |-> TRUE]
             [] outcome = "walked" ->
                  /\ tree' = Reduced(k)
                  /\ shove' = [shove EXCEPT !.stack = frames, !.current = Ground(k)]
                  /\ route' = [node |-> Ground(k), rounds |-> route.rounds - 1, found |-> TRUE]
             [] outcome = "stuck" ->
                  /\ tree' = Reduced(k)
                  /\ shove' = [shove EXCEPT !.stack = frames, !.current = Ground(k)]
                  /\ route' = [route EXCEPT !.rounds = 0]
        /\ UNCHANGED <<plan, phase, mode, placer, fixes, host, ended>>

(* Shove::run on a springback frame that is no longer live: World::branch  *)
(* panics.                                                                 *)
ShovePanics(k) ==
    /\ phase = "routing" /\ mode = "shove" /\ route.rounds > 0
    /\ Ground(k) \notin Reduced(k).live
    /\ phase' = "panicked"
    /\ UNCHANGED <<plan, tree, mode, placer, shove, route, fixes, host, ended>>

(* When no pass found anything the old trace stays, or a zero length one.  *)
FailedTrace == CASE placer.trace = "none" -> "dot"
                 [] placer.trace = "via" -> "line"
                 [] OTHER -> placer.trace

(* The rest of move_to: a scratch branch of the node that was routed on,   *)
(* and in it whatever tidying the trace brings along.  The walkaround and  *)
(* mark obstacles modes keep the node they were given.                     *)
MoveEnds(trace, tidied) ==
    /\ phase = "routing"
    /\ mode = "shove" /\ ~route.found => "blocked" \in plan.outcomes \/ route.rounds = 0
    /\ trace \in IF route.found THEN {"none", "via", "line"}
                 ELSE IF mode = "shove" THEN {FailedTrace}
                 ELSE {FailedTrace, "none", "via", "line"}
    /\ route.node \in tree.live /\ Room(1)
    /\ tidied # {} => trace = "line"
    /\ tree' = Written(Branched(tree, route.node, NewNode), NewNode, tidied)
    /\ placer' = [placer EXCEPT !.current = route.node, !.last = NewNode,
                                !.trace = trace]
    /\ route' = NoRoute
    /\ phase' = "placing"
    /\ UNCHANGED <<plan, mode, shove, fixes, host, ended>>

MovePanics ==
    /\ phase = "routing"
    /\ route.node \notin tree.live
    /\ phase' = "panicked"
    /\ UNCHANGED <<plan, tree, mode, placer, shove, route, fixes, host, ended>>
----------------------------------------------------------------------------
(* Mutant of Locked: the frame a fix pushes is not locked.                 *)
LockedNot(s, n) == [s EXCEPT !.stack = Append(@, [node |-> n, locked |-> FALSE])]

(* Shove::add_locked_springback_node leaves current_node alone.            *)
Locked(s, n) == [s EXCEPT !.stack = Append(@, [node |-> n, locked |-> TRUE])]

(* Shove::rewind_to_last_locked_node, then current_node.                   *)
LastLocked(s) ==
    LET locked == {i \in DOMAIN s.stack : s.stack[i].locked}
    IN  IF s.stack = <<>> THEN s.current ELSE s.stack[Max(locked \cup {1})].node

(* Mutants of CommitNode: the node the last fix left, the node the scratch *)
(* branch stands on.                                                       *)
CommitStage == Last(placer.stages)
CommitCurrent == placer.current

(* LinePlacer::commit_placement: in shove mode the last locked frame.      *)
CommitNode == IF placer.shoveMode THEN LastLocked(shove) ELSE placer.last

(* LinePlacer::has_placed_anything of a session still placing.             *)
HasPlaced == placer.correct \/ Len(placer.stages) > 1

(* Router::stop_routing on world t: the plan for the host is taken from    *)
(* the placer's scratch branch, the placer commits, the session is torn    *)
(* down.                                                                   *)
StopRouting(t, committed, placed) ==
    /\ host' = IF placed /\ placer.last \in t.live THEN t.view[placer.last] ELSE host
    /\ tree' = KilledChildren(
                 Committed(IF placer.shoveMode' THEN KilledChildren(t, committed)
                                                ELSE t, committed), Root)
    /\ ended' = [by |-> "commit", placed |-> placed]
    /\ phase' = "over"

Stop == /\ phase = "placing"
        /\ placer' = placer
        /\ StopRouting(tree, CommitNode, HasPlaced)
        /\ UNCHANGED <<plan, mode, shove, route, fixes>>

(* Router::abort_routing.                                                  *)
Abort == /\ phase = "placing"
         /\ tree' = KilledChildren(tree, Root)
         /\ ended' = [by |-> "abort", placed |-> FALSE]
         /\ phase' = "over"
         /\ UNCHANGED <<plan, mode, placer, shove, route, fixes, host>>
----------------------------------------------------------------------------
(* LinePlacer::fix_route, before it does anything else: in mark obstacles  *)
(* mode an end item without a net is given the net of the trace.  The item *)
(* is written in place, whichever nodes show it.                           *)
Adopted(t, adopts) ==
    IF adopts THEN [t EXCEPT !.view = [n \in Node |-> IF n \in t.live
                                                     THEN @[n] \cup {Net} ELSE @[n]]]
              ELSE t

(* Mutants of FixedInto: the parent of the scratch branch, the board.      *)
FixedIntoCurrent == placer.current
FixedIntoWorld == Root

(* The node fix_route writes into.                                         *)
FixedInto == placer.last

(* The last segment the board was given may be simplified once more in the *)
(* scratch branch.                                                         *)
MayTidy(tidied) == tidied # {} => tree.view[placer.last] \ {Net} # {}

(* fix_route with a trace the board refuses, or without any.               *)
FixNothing(tidied, adopts) ==
    /\ phase = "placing" /\ placer.last # NoNode
    /\ adopts => mode = "mark"
    /\ tidied # {} => placer.trace = "none"
    /\ MayTidy(tidied)
    /\ tree' = Written(Adopted(tree, adopts), FixedInto, tidied)
    /\ placer' = [placer EXCEPT !.shoveMode = (mode = "shove")]
    /\ UNCHANGED <<plan, phase, mode, shove, route, fixes, host, ended>>

(* A zero length segment is not stored, see World::add_segment.            *)
NewLeg == IF placer.trace = "dot" THEN {} ELSE {Leg(Pending)}

(* A fix that ends the session: at a real end, forced, or of a via alone.  *)
(* The router stops routing in the same call.                              *)
FixEnd(tidied, adopts) ==
    LET placed == Written(Adopted(tree, adopts), FixedInto, NewLeg \cup tidied)
    IN  /\ phase = "placing" /\ placer.last # NoNode
        /\ placer.trace # "none" /\ Len(fixes) < plan.fixes
        /\ adopts => mode = "mark"
        /\ tidied # {} => placer.trace = "via"
        /\ MayTidy(tidied)
        /\ placer' = [placer EXCEPT !.shoveMode = (mode = "shove")]
        /\ shove' = Locked(shove, placer.last)
        /\ StopRouting(placed,
             IF mode = "shove" THEN LastLocked(shove') ELSE placer.last, TRUE)
        /\ fixes' = Append(fixes, placer.trace # "dot")
        /\ UNCHANGED <<plan, mode, route>>

(* An intermediate fix: the scratch branch becomes the node the placer     *)
(* stands on, and the stage remembers the node it stood on before.         *)
FixLeg(adopts) ==
    LET placed == Written(Adopted(tree, adopts), FixedInto, NewLeg)
    IN  /\ phase = "placing" /\ placer.last # NoNode
        /\ placer.trace \in {"dot", "line"} /\ Len(fixes) < plan.fixes
        /\ adopts => mode = "mark"
        /\ Len(placer.stages) <= plan.fixes /\ Len(shove.stack) < plan.frames
        /\ Room(1)
        /\ tree' = Branched(placed, placer.last, NewNode)
        /\ placer' = [current |-> placer.last, last |-> NewNode,
                      stages |-> Append(placer.stages, placer.current),
                      correct |-> TRUE, trace |-> "none",
                      shoveMode |-> (mode = "shove")]
        /\ shove' = Locked(shove, placer.last)
        /\ fixes' = Append(fixes, placer.trace # "dot")
        /\ UNCHANGED <<plan, phase, mode, route, host, ended>>

(* Mutant of Popped: no stage goes.                                        *)
PoppedNot(stages) == stages

(* FixedTail::pop_stage never removes the bottom stage.                    *)
Popped(stages) == IF Len(stages) > 1 THEN Front(stages) ELSE stages

(* Mutant of Rewound: the frames stay on the stack.                        *)
RewoundNot(s, n) == s

(* Shove::rewind_springback_to: if n is on the stack, everything branched  *)
(* from it goes and so do its frame and those above.                       *)
Rewound(s, n) ==
    LET at == {i \in DOMAIN s.stack : s.stack[i].node = n}
        frames == SubSeq(s.stack, 1, Min(at) - 1)
    IN  IF at = {} THEN s
        ELSE [s EXCEPT !.stack = frames,
                       !.current = IF frames = <<>> THEN s.root ELSE Last(frames).node]
RewoundTree(t, s, n) == IF n \in {f.node : f \in ToSet(s.stack)}
                        THEN KilledChildren(t, n) ELSE t

(* Shove::unlock_springback_node, the first frame of that node.            *)
Unlocked(s, n) ==
    LET at == {i \in DOMAIN s.stack : s.stack[i].node = n}
    IN  IF at = {} THEN s ELSE [s EXCEPT !.stack[Min(at)].locked = FALSE]

(* LinePlacer::undo_last_segment.                                          *)
UndoTarget == IF mode = "shove" THEN Rewound(shove, Last(placer.stages)).current
              ELSE Last(placer.stages)
UndoTree == KilledChildren(RewoundTree(tree, shove, Last(placer.stages)), UndoTarget)

UndoLastSegment ==
    LET stage == Last(placer.stages)
    IN  /\ phase = "placing" /\ Room(1)
        /\ UndoTarget \in UndoTree.live
        /\ shove' = Unlocked(Rewound(shove, stage), stage)
        /\ tree' = Branched(UndoTree, UndoTarget, NewNode)
        /\ placer' = [placer EXCEPT !.current = UndoTarget, !.last = NewNode,
                                    !.stages = Popped(@), !.trace = "none"]
        /\ fixes' = IF fixes = <<>> THEN <<>> ELSE Front(fixes)
        /\ UNCHANGED <<plan, phase, mode, route, host, ended>>

UndoPanics ==
    /\ phase = "placing"
    /\ UndoTarget \notin UndoTree.live
    /\ phase' = "panicked"
    /\ UNCHANGED <<plan, tree, mode, placer, shove, route, fixes, host, ended>>

Next == \/ \E cut \in SUBSET {Cut} : Start(cut)
        \/ \E m \in Mode : SetMode(m)
        \/ MoveTo
        \/ \E k \in Kept : ShovePanics(k)
        \/ \E k \in Kept, outcome \in plan.outcomes \ {"blocked"}, pushed \in SUBSET {Push(Pending)} :
             RouteShove(k, outcome, pushed)
        \/ \E trace \in Trace, tidied \in SUBSET {Tidy(Pending)} :
             MoveEnds(trace, tidied)
        \/ MovePanics
        \/ \E tidied \in SUBSET {Tidy(Pending)}, adopts \in BOOLEAN :
             FixNothing(tidied, adopts) \/ FixEnd(tidied, adopts)
        \/ \E adopts \in BOOLEAN : FixLeg(adopts)
        \/ UndoLastSegment \/ UndoPanics
        \/ Stop \/ Abort

Spec == Init /\ [][Next]_vars
----------------------------------------------------------------------------
LegsIn(facts) == {k \in 1..(MaxFixes + 1) : Leg(k) \in facts}
LegsOf(n) == LegsIn(tree.view[n])
LegsInForce == {k \in DOMAIN fixes : fixes[k]}
PushesOf(n) == {k \in 1..(MaxFixes + 1) : Push(k) \in tree.view[n]}

(* What the code takes for granted (README): the shove always finds a way, *)
(* and the mode is never changed from or to shove during a session.        *)
Steady == /\ plan.outcomes = {"moved"}
          /\ \A s \in plan.switches : "shove" \in {s[1], s[2]} => s[1] = s[2]

(* In a steady session every handle it may come back to is live between    *)
(* two events: the placer's node, its scratch branch, the nodes undo will  *)
(* come back to and, in shove mode, the shove's node and the springback    *)
(* frames; and it never asks the world to branch off a node that is gone.  *)
NoStaleHandle ==
    /\ Steady => phase # "panicked"
    /\ Steady /\ phase = "placing" =>
        /\ placer.current \in tree.live
        /\ placer.last \in tree.live \cup {NoNode}
        /\ ToSet(placer.stages) \subseteq tree.live
        /\ mode = "shove" => FrameNodes \cup {shove.root, shove.current} \subseteq tree.live

(* In a steady session the board the user routes on shows exactly the legs *)
(* that were fixed and not undone.                                         *)
FixesStand == Steady /\ phase = "placing" => LegsOf(placer.current) = LegsInForce

(* A commit leaves no branch, and in a steady session it has put exactly   *)
(* those legs on the board.                                                *)
CommitKeepsFixes ==
    /\ ended.by = "commit" => tree.live = {Root}
    /\ Steady /\ ended.by = "commit" => LegsOf(Root) = LegsInForce

(* Out of shove mode, what the diff told the host is what the board took,  *)
(* but for the net an end item was given, which no diff mentions.          *)
HostMatches == ended.by = "commit" /\ ended.placed /\ ~placer.shoveMode
                   => host \ {Net} = tree.view[Root] \ {Net}

(* Of what the shove pushed aside, the diff names what the board took.     *)
HostSeesPushes ==
    ended.by = "commit" /\ ended.placed =>
        \A k \in 1..(MaxFixes + 1) : Push(k) \in host <=> k \in PushesOf(Root)

(* An aborted session, whatever it went through, leaves the board as it    *)
(* was, but for the net an end item was given, and no branch behind.       *)
AbortRestores ==
    ended.by = "abort" => tree.live = {Root} /\ tree.view[Root] \subseteq {Net}

(* A session that placed nothing leaves the board as it was.               *)
UnplacedChangesNothing == phase = "over" /\ ~ended.placed => tree.view[Root] = {}

(* What was pushed aside for a leg reaches the board only with the leg.    *)
PushesServeLegs == ended.by = "commit" => PushesOf(Root) \subseteq LegsOf(Root)

(* A node that something was branched from is never written to: the        *)
(* discipline (Leaf) under which World shows the overlay to be a board per *)
(* node.  The commit writes the root, and the net an end item is given is  *)
(* written everywhere.                                                     *)
LeafWrites ==
    [][\A n \in (tree.live \cap tree'.live) \ {Root} :
          Subtree(tree, n) # {n} => tree'.view[n] \ {Net} = tree.view[n] \ {Net}]_vars

(* Routing never takes back a fixed leg: a shove run drops springback      *)
(* frames only above the last locked one.                                  *)
RoutingKeepsFixes ==
    [][phase = "routing" =>
         \A f \in ToSet(shove.stack) :
            f.locked /\ f.node \in tree.live => f.node \in tree'.live]_vars
----------------------------------------------------------------------------
(* The inductive invariant behind these properties (LinePlacementProofs).  *)
(* First what holds of every session.                                      *)
TreeOK(t) ==
    /\ t \in Tree(Fact)
    /\ Root \in t.live /\ t.chain[Root] = {Root}
    /\ \A n \in t.live : {Root, n} \subseteq t.chain[n] /\ t.chain[n] \subseteq t.live
    /\ \A n \in t.live : \A m \in t.chain[n] :
         /\ t.chain[m] \subseteq t.chain[n]
         /\ n \in t.chain[m] => m = n

InSession == phase \in {"placing", "routing"}

Untouched == phase = "idle" => /\ tree = NewTree /\ placer = NoPlacer
                               /\ shove = NoShove /\ route = NoRoute
                               /\ fixes = <<>>

(* Until the session is over the board shows what it showed before, and so *)
(* does the host's.                                                        *)
BoardWaits == phase # "over" =>
                /\ tree.view[Root] \subseteq {Net} /\ host = {} /\ ended.by = "none"

(* Nothing but its owner refers to the scratch branch, and nothing was     *)
(* branched from it.                                                       *)
ScratchOwned ==
    /\ phase = "routing" => placer.last = NoNode
    /\ InSession /\ placer.last # NoNode =>
         /\ placer.last \notin {Root, placer.current, shove.root, shove.current}
                                 \cup ToSet(placer.stages) \cup FrameNodes
         /\ placer.last \in tree.live /\ Subtree(tree, placer.last) = {placer.last}

(* A frame was branched after the frames below it.                         *)
FramesOrdered ==
    InSession =>
      /\ Root \notin FrameNodes
      /\ \A i \in 0..Len(shove.stack), j \in DOMAIN shove.stack :
           i < j /\ Ground(i) \in tree.live =>
               shove.stack[j].node \notin tree.chain[Ground(i)]

AnySession == TypeOK /\ TreeOK(tree) /\ Untouched /\ BoardWaits /\ ScratchOwned /\ FramesOrdered

(* Then what holds of a steady session under way, in any mode ...          *)
LegsAt(m) == {k \in 1..(m - 2) : fixes[k]}

StagesStand ==
    /\ placer.shoveMode = (mode = "shove")
    /\ Len(placer.stages) = Len(fixes) + 1
    /\ \A m \in 1..Len(placer.stages) : /\ placer.stages[m] \in tree.live
                                        /\ LegsOf(placer.stages[m]) = LegsAt(m)

HeadStands ==
    /\ phase = "placing" =>
         /\ placer.current \in tree.live /\ LegsOf(placer.current) = LegsInForce
         /\ IF placer.last = NoNode THEN fixes = <<>>
            ELSE /\ LegsOf(placer.last) = LegsInForce
                 /\ placer.current \in tree.chain[placer.last]
    /\ phase = "routing" => /\ route.node \in tree.live /\ LegsOf(route.node) = LegsInForce
                            /\ ~route.found => route.node = placer.current

(* ... out of shove mode, where every stage was branched from the one      *)
(* before ...                                                              *)
StagesOrdered ==
    \A j \in 1..Len(placer.stages) : \A i \in 1..j :
       placer.stages[i] \in tree.chain[placer.stages[j]]

HeadOrdered ==
    /\ phase = "routing" => ~route.found
    /\ \A j \in 1..Len(placer.stages) : placer.stages[j] \in tree.chain[placer.current]

(* ... and in shove mode, where a fix of a leg leaves two frames: the one  *)
(* the leg was routed on, which its stage remembers, and the locked one    *)
(* with the leg.  A frame that is not locked has the legs of the one below.*)
FramesStand ==
    /\ \A i \in 0..Len(shove.stack) : Ground(i) \in tree.live
    /\ placer.stages[1] \in tree.chain[shove.root] \ {shove.root}
    /\ LegsOf(Ground(Len(shove.stack))) = LegsInForce
    /\ \A i \in 0..Len(shove.stack), j \in 0..Len(shove.stack) :
         i < j /\ (\A l \in (i + 1)..j : ~shove.stack[l].locked)
           => LegsOf(Ground(i)) = LegsOf(Ground(j))

StagesFramed ==
    /\ \A m \in 2..Len(placer.stages) :
         \E f \in 1..(Len(shove.stack) - 1) :
            /\ shove.stack[f].node = placer.stages[m]
            /\ ~shove.stack[f].locked /\ shove.stack[f + 1].locked
    /\ \A i \in 1..Len(shove.stack) : shove.stack[i].locked =>
         \E m \in 2..Len(placer.stages) :
            i > 1 /\ shove.stack[i - 1].node = placer.stages[m]
    /\ \A m \in 2..Len(placer.stages), f, g \in 1..Len(shove.stack) :
         (/\ shove.stack[f].node = placer.stages[m]
          /\ \E l \in (m + 1)..Len(placer.stages) : shove.stack[g].node = placer.stages[l])
            => f + 1 < g

OnTop == /\ shove.stack # <<>> /\ ~Last(shove.stack).locked
         /\ shove.current = Last(shove.stack).node

ShoveStands ==
    /\ \/ shove.current = Ground(Len(shove.stack))
       \/ /\ shove.stack # <<>> /\ Last(shove.stack).locked
          /\ shove.current = Ground(Len(shove.stack) - 1)
    /\ phase = "placing" /\ placer.trace # "none" =>
         OnTop /\ placer.current = shove.current
    /\ phase = "routing" =>
         IF route.found THEN OnTop /\ route.node = shove.current ELSE route.rounds > 0

Standing == /\ StagesStand /\ HeadStands
            /\ mode # "shove" => StagesOrdered /\ HeadOrdered
            /\ mode = "shove" => FramesStand /\ StagesFramed /\ ShoveStands

SteadySession == /\ Steady => phase # "panicked"
                 /\ Steady /\ InSession => Standing

IInv == AnySession /\ SteadySession /\ HostMatches /\ AbortRestores /\ CommitKeepsFixes
=============================================================================
