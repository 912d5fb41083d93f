# pnsrouter, modelled and checked

pnsrouter is a push and shove router for printed circuit boards: a host hands it
a board, starts a session, feeds it mouse positions and clicks, and gets back
what changed.  This directory holds TLA+ models of the parts of it that keep
state and of the lines they work on, the TLC runs that check them on small
instances, and TLAPS proofs about the three lowest layers, the joints, the shove
run, every kind of session (line placement, drags, pairs and tunings), the commit
to the host and the replay of a recording.  Paths such as `shove.rs:1574` are relative to `src/src/`.

    tlc -config MCWorld.cfg MCWorld      one of the runs, see "Runs"
    tlapm WorldProofs.tla                the proofs, see "Proofs"

Contents: [Inventory](#inventory), [Modules](#modules-and-the-code),
[Runs](#runs), [Proofs](#proofs), [What the code does not
keep](#what-the-code-does-not-keep), [Not modelled](#not-modelled),
[Plan](#plan).

## Inventory

The engine is one library without tasks or I/O.  A host owns one `Router`, calls
it from one thread, and every call runs to its end before the next.  There is no
persistence, no message and no timer, so there are no crashes, losses or
retries to model.  What is hard lies in three places:

* **handles that outlive what they name.**  Everything is an index with a
  generation into an arena.  A session keeps node handles in five places, lines
  keep item handles, the host keeps ids, and all of them must be dropped or
  redirected whenever a branch is killed, an item is replaced, a fix is undone;
* **long sequences of legal calls.**  Start, move, fix, undo, change of mode,
  commit and abort come in any order, and within a single move the shove runs
  an iteration with a dozen outcomes up to hundreds of times;
* **one line in several shapes.**  A trace is a chain with arcs in it, a head and
  a tail, a row of items with joints; it changes shape at every step and each
  walk over it has to see the same corners.

The exception is the nearest obstacle query, which runs on several threads.

| component | state | operations | talks to | what makes it correct |
|---|---|---|---|---|
| arena (`arena.rs`) | slots with generations, free list | insert, remove, get | everyone | no handle is issued twice, a removed one answers nothing |
| branching world (`node.rs`) | node tree, per node index, overrides and home set, item arena, clearance and hull caches | branch, add, remove, replace, kill_children, drop_node, commit | arena, spatial index, joints | every node behaves as a board of its own; every item has one owner |
| joints (`joint.rs`) | per node map from position and net to layer ranges with links | link, unlink, lock, rebuild | world | the joints of a node describe the items the node shows |
| nearest obstacle query (`node.rs`) | candidates, results per thread | query, set_parallelism | walkaround, shove | the answer does not depend on the threads |
| line placement session (`placer/line_placer.rs`, `placer/fixed_tail.rs`) | the node it stands on, scratch branch, fix stages | start, move_to, fix_route, undo_last_segment, commit, abort | world, shove, router | fix and undo match, a commit keeps just the fixes, an abort nothing |
| loop removal (`placer/line_placer.rs`, `node.rs`) | tracks and joints of a net | split a track, find and remove loops, drop stubs, join what is straight | world, joints, optimizer | exactly what a trace makes redundant goes, nothing is cut off |
| head and tail (`placer/line_placer.rs`) | the settled part and the part under the cursor | route_step: draw, walk, cut back, split, merge | walkaround, optimizer | they stay one line; the passes of a move end |
| push and shove (`shove.rs`) | line stack, optimizer queue, root line index, springback stack | add heads, run, springback, lock, rewind | world, walkaround, optimizer | a run loses and doubles nothing; the stacks name only what is there |
| line chain (`geometry/line_chain.rs`), line (`line.rs`), optimizer (`optimizer.rs`) | points, arcs, for each vertex the arcs it belongs to; links | some twenty mutators; drags, clip; merge and clean up | placers, shove, world | arcs stay whole; the board gets what the line is, and gives it back |
| router, diff and host index (`router.rs`, `snapshot.rs`) | session, placer, `HostIndex`, last additions | start, stop, abort, assign_host_ids | host, placers, world | the host's board and the engine's are the same after each commit |
| session recording (`eventlog.rs`, `router.rs`) | events, results, recording depth | record, to_text, from_text, replay | router | a replay reaches the recorded commits |
| draggers (`dragger.rs`, `multi_dragger.rs`, `component_dragger.rs`) | drag branch, shove, the last solution that worked | start, drag, fix | world, shove | what is committed is legal, whole and the last that worked |
| pair, length and skew placers (`placer/…`) | their own branch per move, legs of the pair | as the line placer | world, shove | each fix puts down what was routed for it; nothing half done is committed |
| walkaround (`walkaround.rs`) | iteration count | route | world | ends within its budget |
| spatial index (`index.rs`), rules (`rules.rs`), collision (`collide.rs`), items (`item.rs`), topology (`topology.rs`), the rest of `geometry/`, pair and meander shapes (`diff_pair.rs`, `meander.rs`), via pushout (`via.rs`), posture (`mouse_trail.rs`) | none of their own beyond a value or a container | pure functions | all | integer geometry |

How they interact in one routing session:

    host -> Router::start_routing -> LinePlacer::start -> World::branch
    host -> Router::move_to -> LinePlacer::move_to -> route_step
                 -> Shove::run (branches, pushes, keeps a springback frame)
                    or Walkaround::route (reads) -> World::nearest_obstacle
    host -> Router::fix_route -> LinePlacer::fix_route -> World::add ...
    host <- CommitDiff <- Router::stop_routing -> World::commit
    host -> Router::assign_host_ids

## Modules and the code

    HandleStore  <=  Arena           ArenaProofs, MCArena
    WorldCopies  <=  World           WorldProofs, MCWorld
    NearestObstacle <= ParallelScan  WorldProofs, MCParallelScan
    BoardTree    <-  LinePlacement   LinePlacementProofs, MCLinePlacement
                     DragSession <- PlacerSession   PlacerSessionProofs,
                                     MCPlacerSession
    RecordingText <- SessionLog      SessionLogProofs, MCSessionLog
    LineChain    <-  ChainEdits      MCChainEdits
    Grid         <-  HeadTail        MCHeadTail
                     TrackNet <- LoopRemoval   MCLoopRemoval
                     JointMap        JointMapProofs, MCJointMap
                     HostCommit      HostCommitProofs, MCHostCommit
                     ShoveRun        ShoveRunProofs, MCShoveRun

`<=` is an implementation relation with a refinement mapping, `<-` a use.  The
layers fit together like this.  `Arena` shows that handles are never reissued,
so `World` may take a handle as a value used once.  `World` shows that a node is
a complete private board under the discipline that only leaves are written.
`BoardTree` is that promise, written as functions of a tree, for components that
call it several times within one handler; `LinePlacement`, `DragSession` and
`PlacerSession` use it, and the first is proved to keep the discipline
(`LeafWritesHolds`).
`ShoveRun` is the inside of what is one step of these sessions, `HeadTail` the
lines that the passes of `LinePlacement` draw, `LineChain` what such a line is
made of, `HostCommit` what happens to the node a session commits, and
`SessionLog` everything seen from the host's side of the facade.

**Arena** (`arena.rs`).  `slots`, `free`; `InsertReused`, `InsertFresh`,
`Remove`.  `issued` is history.  Generations wrap (`GenCount`) as
`wrapping_add` does; `MaxRecycles` keeps a slot below the wrap, which is 2^32
removals away.  `HandleStore` is the promise: a dictionary with keys that are
never issued again.

**World** (`node.rs`).  The two level overlay: a branch has its own index and a
set of root items it hides, both copied from the parent unless the parent is the
root; no read walks up the tree.  `Branch`, `Add`, `Remove`, `Replace`,
`KillChildren`, `DropNode`, `Commit` are the methods of those names, `Cache`
the two memo tables.  A body is added and removed together with its hole
(`Drill`).  `WorldCopies` is the promise: each node holds its own board, a write
changes one of them, a commit makes one of them the board.  Item kinds,
clearances, ranks and markers are left out.  The abstraction drops the redundant
segment check of `add_segment` (an add that is refused is no step).

**JointMap** (`joint.rs`, and its callers in `node.rs`).  Joints under one key,
since keys do not affect one another.  A branch that never touched the key sees
the root's bucket; from the first touch it has a bucket of its own, and an empty
one is a tombstone.  `Touched`, `Linked`, `Unlinked`, `Locked` and `Rebuilt` are
`touch_joint`, `link_joint`, `unlink_joint`, `lock_joint` and `rebuild_joint`, each
loop a function of the number of joints or links seen so far (`Taken`, `Kept`,
`Relinked` are its steps).  A range of layers is the set of them, up to
`MaxLayer`; an action is what `World` makes of them in `add`, `remove`, `branch`,
`drop_node` and `commit`.

**ParallelScan** (`node.rs`, `nearest_obstacle`, `scan_candidates`,
`fill_block`).  `Query` is the part up to the hulls; `Spawn`, `Fill` and `Join`
are the scope with its threads, one candidate a step; `Pick` and `Return` the
winner scan.  Results start as "no crossing", as in the code, so a result read
too early looks like an answer.  `NearestObstacle` says what the query promises.

**LinePlacement** (`placer/line_placer.rs`, `placer/fixed_tail.rs`, the
springback part of `shove.rs`, `stop_routing` and `abort_routing` of
`router.rs`).  One session, from `Start` to `Stop`, `Abort` or a panic.  A board
is a set of facts: leg k, what was pushed aside for it, what was tidied with it,
the split of the start item, the net an end item was given.  A move is three
actions because what the shove finds is decided anew in each pass of
`route_step`: `MoveTo`, then `RouteShove` or `ShovePanics`, then `MoveEnds`.
Geometry is nondeterminism: which springback frames the head still touches
(`Kept`), whether the shove or the walkaround finds a way (`outcomes`), what
trace comes out.  A plan of `Plans` says in which modes a session may begin, how
the mode may change, how the shove may end, and the bounds.  A number is reused for a node only when nothing refers to it;
`World::branch` of a stale handle is `ShovePanics`, `MovePanics` or
`UndoPanics`.

**HeadTail** (`Placing` of `placer/line_placer.rs`, the merge of `optimizer.rs`,
`geometry/direction45.rs`).  Lines are point sequences on a grid.  A move is
`MoveTo`, then one `PassMark` or `PassWalk` for each pass of `route_step`: draw
the head (`Headed`, or `WalkedTo` with `Split` at the boundary), give back what
crosses itself or doubles back, otherwise shorten and merge.  A move may be led to
a track (`Targets`): when the passes have reached the cursor and the trace would run
along it, the end goes back to where it gets there (`Ended`).  `FixRoute` cuts
legs off, `UndoLastSegment` returns to where the last one began.  What collides
and what the walkaround makes of a line is open.  Vias and arcs are left out, and of
several bypasses of the merge two in a row.  The board is not there: what a
session does to it is in the next two.

**TrackNet** (`node.rs`, `joint.rs`, `clip_vertex_range` of `line.rs`) is the
tracks of a net and the joints with their links in order; `Follow`, `Assembled`,
`Clipped` and `Between` are `follow_line`, `assemble_line`, `clip_vertex_range` and
`find_lines_between_joints`.  **LoopRemoval** (`placer/line_placer.rs`) is a session on
it in walkaround mode: `Split` is `split_adjacent_segments`, `LoopsRemoved`
`remove_loops`, `SimplifiedLine` `simplify_new_line` with its stubs.  The root's board,
that of the node the placer stands on and that of its scratch branch are three
variables; an end item is a track of the root, since the host knows no other.
The trace is any line of one or two segments.  Points and collinearity, shared
with `HeadTail`, are in **Grid**.

**DragSession** (`dragger.rs`, `multi_dragger.rs`, `component_dragger.rs`).  A
piece shows on a board where it was or where it was taken, straight or walked
around what is there; geometry is which places are tight.  `StartSingle`,
`StartMulti` and `StartComponent` are the draggers' starts, `MoveTo` is `drag` in
mark obstacles, walkaround and shove mode with the node that each keeps for the
next position (`MarkDrag`, `WalkDrag`, `ShoveDrag`), `Restored` the way back to
the last solution, and the fixes are `fix_route_node`.  A line may collapse: mark
obstacles mode stores what is left of it, walkaround and shove fail.  The clip
between several lines (`Clipped`) and the end of a track that a pad is moved to
may leave nothing as well; `drag.lost` is of which pieces.

**PlacerSession** (`placer/diff_pair_placer.rs`, `placer/meander_placer.rs`,
`placer/dp_meander_placer.rs`, `placer/meander_skew_placer.rs`) adds to that the
pair placer and the tunings, so that one run sees every session but the single
track's.  Each call of a host on the pair placer is an action, and one leg is one
fact that remembers for which leg it was routed.  A tuning takes the track off
its branch when it starts and puts another back when it is fixed.

**SessionLog** and **RecordingText** (`router.rs`, `eventlog.rs`).  All methods of
the router that record, with what each leaves for later calls to depend on;
composite methods suspend the recording around those they call (`Finished`,
`Continued`).  The engine is deterministic, so a call is a function from router
to router, and a replay applies the recorded events to a fresh one.  A shape that
is committed is a record of everything it depends on.  The text is a sequence of
lines with keyword, block number and payload; the payloads in tables of blocks
are written and resolved as in `to_text` and `parse_recording`.

**LineChain** and **ChainEdits** (`geometry/line_chain.rs`, `line.rs`,
`optimizer.rs`, `add_line` and `assemble_line` of `node.rs`).  The first is the
chain as an algebra: `points` and `shapes` are one sequence of vertices, an arc
lies on a circle of `Turn` positions and is as many vertices as `ArcChain` gives
it, and every mutator is a function.  The second applies them as their callers
do, with the board in between: what `add_line` stores and `assemble_line` reads.
What collides and which candidate is cheaper is open here.

**ShoveRun** (`shove.rs`, `run`, `shove_iteration`, the collision handlers and
`apply_effects`).  One run on its own branch: heads are added one after another,
each is followed by the main loop, then the optimizer runs and the heads are
taken off.  A track or via is known by its place in the topology and by the item
it is stored as at the moment; lines on the stack refer to items.  Which item is
hit next is nondeterminism over everything of another net, and every handler may
give up.  Ranks decide who gives way and are kept to scale (`HeadRank`,
`Promotion`).  `relinked` and `gone` are history.

**HostCommit** (`router.rs`, `snapshot.rs`).  A session is one step: the delta
of its node is turned into removals, updates and additions, the index forgets
and enters items, the host applies the diff and later reports ids for the
additions.  The fold of `commit_plan_for` is said without its loop: `Heir` pairs
the removed item that is k-th among those of its object with the k-th addition
that descends from it.  `shown` is the host's own board, which no variable of the
code holds.  The host may name the additions of the last diff in several calls,
name some of them only, or name one again (`AssignHostIds`).  Its side of the
bargain is external: an answer is about the last diff, whose positions it counts
in, and an item gets an id that no object has and keeps it.  `Prompt` says whether
it names all of them before it starts another session.

## Runs

Only `joints` and `scan` check deadlock.  The others stop in the ordinary way:
`arena`, `world` and `host` when the finite handles are used up, the sessions
when they are over, `shove` when the run has ended, `replay` when everything is
replayed, `chain` and `head_tail` when the edits or moves are used up, `loops` when
the last leg is fixed.

| run | question | instance | properties |
|---|---|---|---|
| `arena` | can reuse of slots confuse two values? | 3 slots, 2 values, 3 generations | `RefinesHandleStore` |
| `world` | is a node a board of its own? | root and 3 branches, 3 bodies, one with a hole | `NothingStale`, `RefinesWorldCopies` |
| `scan` | does the answer depend on the threads? | 0 to 4 candidates, 1 to 4 threads, distances 0 to 2 | `WithinParallelism`, `QueriesReturn`, `RefinesNearestObstacle` |
| `joints` | do joints describe the items? | a via on two layers and a track on each, root and 2 branches | `LayersDisjoint`, `JointsHoldItems`, `SplitsPerLayer` |
| `line` | do fix stages, springback and commit stay in step? | two plans: all modes, switched between mark obstacles and walkaround, 2 fixes, 4 frames, 2 passes a move, a shove that succeeds; and walkaround and shove mode in any order, 1 fix, 2 frames, every outcome | `NoStaleHandle`, `FixesStand`, `CommitKeepsFixes`, `HostMatches`, `AbortRestores`, `RoutingKeepsFixes`, `LeafWrites` |
| `loops` | does a trace take away what it makes redundant, and nothing else? | 7 boards of 6 points and 2 pads, 2 legs | `StaysConnected`, `LoopsGo`, `LockedStay` |
| `head_tail` | does the trace stay one line, does a move end? | 3 moves to 4 places, 1 fix | `OneLine`, `CursorReached`, `PassesShrink` |
| `sessions` | is what other sessions commit whole, legal, the last that worked? | 2 pieces, a free and a tight place, 3 moves, 2 legs, 3 frames | `PiecesWhole`, `CommitLegal`, `CommitsLastGood`, `HandlesLive`, `AbortRestores`, `LegsStand` |
| `shove` | do the stacks name what is there, is anything lost? | 2 heads, 5 tracks, 3 vias, 5 iterations | `StackStands`, `NothingLost`, `HeadsReported` |
| `chain` | do arcs stay whole, does the board keep the line? | 4 lines, 2 edits, circles of 16 positions | `Sound`, `ShapesAreItems`, `BoardKeepsLine`, `SlicesKeepItems` |
| `host` | is the host's board the engine's? | 6 items over all sessions, 3 ids, a prompt host | `HostAgrees`, `IdentityKept` |
| `replay` | does a recording reproduce the session? | 5 calls, 3 places, 2 host objects | `ReplayFollows`, `ReplayReproduces`, `TextRoundTrip` |

What the properties say, and why the bounds are enough:

* `arena`: three slots let one be free, one reused and one never freed, and two
  removals of the same slot produce handles of three generations.
* `world`: three branches give a branch of a branch, siblings, and a kill that
  takes two levels; three bodies let a root item be hidden in one branch,
  replaced in its child and committed.  `NothingStale` is that no board and no
  cache entry names a freed item.  Ownership (`OneHome`: nothing leaks, nothing is
  freed twice) and `HolesTravel` (a pad and its hole never part) are proved.
* `scan`: with one candidate enough for a block, four candidates on three
  threads are cut into two blocks where three were asked for, and three on two
  threads into blocks of two and one; distances 0, 1 and 2 give ties, the early
  end at zero and a later candidate that is nearer.
* `joints`: two layers, and ranges that only meet by overlap.  A joint whose last
  link goes keeps its place in the bucket, with no layers, for good; `MaxJoints`
  stops adding where a third joint would appear, so that one dead joint beside a
  live one and the merge of two live ones both happen.  The two branches are
  interchangeable, hence the symmetry.  `SplitsPerLayer` asks for what the rebuild
  is for, and only when the removed via was linked first: otherwise the code,
  like the program it ports, keeps the layers bound (`joint.rs:929`).
* `line`: two fixes are the first number at which undo can stop at the wrong one,
  and two passes the first at which one pass springs back what an earlier one
  pushed.  The second plan has one fix because panics and abandoned sessions do
  not need more.  `FixesStand`, `CommitKeepsFixes` and `NoStaleHandle` are asked of
  the first plan (`Steady`) since the code does not keep them in the second (see
  below); the others are asked of both.
* `loops`: the boards are a straight track, one beside a locked one, two rings, a
  detour, two tracks that end free and two that do not meet.  Two legs are the
  first number at which a trace meets what an earlier one of the session left.
  One move a leg is enough, since each begins with what `base` is.  `LoopsGo` says
  what a loop is by corners and ends of lines alone, without walks, clips and the
  order of links.  Locked tracks end at pads (`AssumeLocks`), where every line ends.
* `head_tail`: the places lie on a grid such that the cursor comes back over the
  tail, crosses it and doubles back; the one corner the walkaround may lead over
  gives the merge something to undo, the pads give its fanout two ends; the one
  track a move may be led to lies on the last stretch of a trace, from its corner to
  the cursor.  Three
  moves are the first number at which a tail that was cut is cut again.  Every
  pass of a run leaves at least one segment less, so that the limit of 64 is far
  away; it is the code's.
* `sessions`: with one free and one tight place a position that works is followed
  by one that does not and the other way round; three moves add the return to
  the last good one.  A second piece is what a shove may lose, a second leg what
  may start from what the first has left.  Changes of mode in the middle of a drag
  are limited to settings that allow no violations (see below).
* `shove`: two tracks on one via are unwound, dragged and collapsed together;
  the second head meets what the first has pushed; the locked track never
  moves; five iterations allow push, reverse collision, push back and retirement
  of one pair.  `ViaLines = FALSE` leaves out that a line that ends with a via
  gives way by itself, because the code fails there (see below).
* `chain`: the four lines have arcs that meet, that begin or end the chain, that
  lie inside it, or none; two edits let the second see every shape that the
  first leaves: a cut arc, an arc of two vertices, a point that comes twice.
  Sixteen positions let an arc be a segment, have one inner vertex or several.
  `AnyCut = FALSE` leaves out a cut the code fails at (see below).
* `host`: six item handles over all sessions let two objects be replaced
  twice, so that a reported id meets an item that is already gone, and let a
  commit add two items that are named one after the other.  `Prompt = TRUE` leaves
  out sessions begun before the host has answered, where the boards come apart (see
  below).
* `replay`: five calls allow a session with a fix and an undo, `finish` in a
  session, a commit with the ids reported back, each after a change of a setting.
  Calls that leave the engine as it was count twice, so that there are at most
  two of them.  `MaxBlock = 1` stands for 4095 and makes the limit happen.

Type invariants and the inductive invariants of the proved modules are proved
and not checked again; `TypeOK` in the other modules is there for a reader.

### Fairness

Only `ParallelScan` assumes fairness, weak fairness of every thread and of the
calling thread: the operating system runs what can run and nothing in the scan
waits for anything but the end of the scope.  `QueriesReturn` needs it.
Everything else is a call on one thread that a host may or may not make.  A
session that is never fixed is legal, so nothing there must eventually happen;
within a call, loops end by a counter (`shove_iteration_limit`, the walkaround's
limit), which the models have as bounds.  For the passes of `route_step` the
counter is not what ends them: `PassesShrink` gives the measure.

## Proofs

TLAPS checks these for every value of the constants, under the `ASSUME`s of the
modules and nothing else; TLC evaluates the `ASSUME`s in every run.

| theorem | statement |
|---|---|
| `ArenaProofs!ArenaInvariant` | `Spec => []IInv` |
| `ArenaProofs!FreeListIsExact` | `Spec => []FreeListExact` |
| `ArenaProofs!HandlesAreUnique` | `Spec => RefinesHandleStore` |
| `WorldProofs!OverlayInvariant` | `Spec => []IInv` |
| `WorldProofs!ItemsHaveOneHome` | `Spec => []OneHome` |
| `WorldProofs!HolesStayWithBodies` | `Spec => []HolesTravel` |
| `WorldProofs!TypeCorrect` | `Spec => []TypeOK` |
| `WorldProofs!NeverStale` | `Spec => []NothingStale` |
| `WorldProofs!OverlayIsCompleteWorld` | `Spec => RefinesWorldCopies` |
| `WorldProofs!ScanInvariant` | `ScanSpec => []ScanInv` |
| `WorldProofs!KeepsWithinParallelism` | `ScanSpec => []WithinParallelism` |
| `WorldProofs!ScanIsSequential` | `ScanSpec => RefinesNearestObstacle` |
| `LinePlacementProofs!AnySessionHolds` | `Spec => []AnySession` |
| `LinePlacementProofs!AbortRestoresHolds` | `Spec => []AbortRestores` |
| `LinePlacementProofs!HostMatchesHolds` | `Spec => []HostMatches` |
| `LinePlacementProofs!RoutingKeepsFixesHolds` | `Spec => RoutingKeepsFixes` |
| `LinePlacementProofs!LeafWritesHolds` | `Spec => LeafWrites` |
| `LinePlacementProofs!SteadySessionHolds` | `Spec => []SteadySession` |
| `LinePlacementProofs!NoStaleHandleHolds` | `Spec => []NoStaleHandle` |
| `LinePlacementProofs!FixesStandHolds` | `Spec => []FixesStand` |
| `LinePlacementProofs!CommitKeepsFixesHolds` | `Spec => []CommitKeepsFixes` |
| `PlacerSessionProofs!AnySessionHolds` | `Spec => []AnySession` |
| `PlacerSessionProofs!QuietSessionHolds` | `Quiet => (Spec => []QuietSession)` |
| `PlacerSessionProofs!TypeOKHolds` | `Spec => []TypeOK` |
| `PlacerSessionProofs!HandlesLiveHolds` | `Spec => []HandlesLive` |
| `PlacerSessionProofs!AbortRestoresHolds` | `Spec => []AbortRestores` |
| `PlacerSessionProofs!CommitsLastGoodHolds` | `Spec => []CommitsLastGood` |
| `PlacerSessionProofs!LegsStandHolds` | `Spec => []LegsStand` |
| `PlacerSessionProofs!PiecesWholeHolds` | `Quiet => (Spec => []PiecesWhole)` |
| `PlacerSessionProofs!CommitLegalHolds` | `Quiet => (Spec => []CommitLegal)` |
| `JointMapProofs!BucketsStaySeparate` | `Spec => []BucketsSeparate` |
| `JointMapProofs!LayersDisjointHolds` | `Spec => []LayersDisjoint` |
| `JointMapProofs!BucketsStayTrue` | `ViasReachAll => (Spec => []BucketsHold)` |
| `JointMapProofs!JointsHoldItemsHolds` | `ViasReachAll => (Spec => []JointsHoldItems)` |
| `SessionLogProofs!AnyRecording` | `Spec => []IInv` |
| `SessionLogProofs!ReplayFollowsHolds` | `Spec => []ReplayFollows` |
| `SessionLogProofs!ReplayReproducesHolds` | `Spec => []ReplayReproduces` |
| `HostCommitProofs!IndexInvariant` | `Spec => []MapInv` |
| `HostCommitProofs!PromptInvariant` | `Prompt => (Spec => []IInv)` |
| `HostCommitProofs!HostAgreesHolds` | `Prompt => (Spec => []HostAgrees)` |
| `HostCommitProofs!IdentityKeptHolds` | `Spec => IdentityKept` |
| `ShoveRunProofs!RunStands` | `~ViaLines => (Spec => []IInv)` |
| `ShoveRunProofs!StackStandsHolds` | `~ViaLines => (Spec => []StackStands)` |
| `ShoveRunProofs!NothingLostHolds` | `~ViaLines => (Spec => []NothingLost)` |
| `ShoveRunProofs!HeadsReportedHolds` | `~ViaLines => (Spec => []HeadsReported)` |

**Arena.**  `FreeListExact` is not inductive without `IssuedUpToNow`: a slot in
use has had its handle issued, and no handle of a later generation has been.
That a reused slot yields a new handle is then that its generation is above
every issued one.  Assumed: a slot is freed at most `MaxRecycles < GenCount`
times, in the code 2^32.

**World.**  The question is why a copied index stays valid although items die
elsewhere.  `IndexHomed` answers it: what a branch indexes is homed in itself or
in a branch it stands on, and those cannot die before it (`ChainsSound`).
`OverridesHideRoot` says that a branch hides only what the root owns, so hiding
and showing never meet.  `OneHome` and `HolesTravel` complete the induction.
Then a write shows in one view only, because a leaf's index is nobody else's and
the root is written only when it has no branches; the commit step maps to
`WorldCopies!Commit` because the root's index equals its home set.  Assumed:
writes go to leaves (`Leaf`); for the line placer this is `LeafWritesHolds`.

**ParallelScan.**  The invariant says that whatever is not left to do is done
right, and that the winner scan's best is the nearest so far and lies before the
cursor (without the latter a tie would not be settled).  The step that matters is
`Join`: the blocks being done, nothing is left, since every candidate lies in one
of them.  That is `ScanCover`, from three lemmas about `\div`: it keeps the order,
and what is below s * q is below q when divided by s.  The second also bounds the
blocks by the threads.  The query is the world's, so this is part of `WorldProofs`,
which extends both modules.

**LinePlacement.**  The properties speak of legs and boards, which no step
changes without moving a handle as well, so the invariant is about handles.  It
has two halves; TLC checked both on the instances of `line` before they were
proved.

`AnySession` holds whatever the host and the geometry do.  The live nodes form a
tree; the board waits unchanged below it until the session ends; the scratch
branch is the placer's alone, never the node it stands on nor one the shove
goes back to; each springback frame hangs from the one below.  Of these
`AbortRestores` and `LeafWrites` are consequences.  `HostMatches` needs what a
scratch branch shows beyond the board, which the walk along the tree gives.

`SteadySession` is the half that needs `Steady`, the same assumption under which
the runs ask for it: no change between the shove and the other modes, and no
shove that ends stuck or in the fallback.  Without it the three properties are
false (see below), so this is the most that can be proved of them.  Out of shove
mode a stage is a node on the way from the root to the head, in the order of
the stages (`StagesStand`, `StagesOrdered`, and the same for the head).  In shove
mode the nodes are the shove's and a stage must be found again by its frames: a
fix leaves one frame that its stage remembers unlocked and, above it, a locked
one that has the leg; an unlocked frame shows the legs of the frame below; and
the frames of a later stage lie above all those of an earlier one
(`FramesStand`, `StagesFramed`, `ShoveStands`).  The last is what makes undo sound:
it unlocks one frame and pops what is above, and only the order says that the
frames of the stages that stay are not among them (`UndoStands`).  That no handle
is stale is then that every handle of the placer is the root, a node on that way
or a frame (`NoPanics`), and that a commit keeps the fixes is that the last
locked frame has the legs of the last stage (`LastLockedStands`, `LockedLast`).

Assumed of the plans: finitely many, with at least two nodes beside the root.
The number of nodes, fixes, frames and passes is otherwise free.

**PlacerSession.**  The invariant covers every drag, the pair and the tunings,
since they share the tree, the shove and the router; it is at the end of
`PlacerSession`, and TLC checked it on the instance of `sessions` before it was
proved.  A handler goes through several boards before it returns (drop the last
node, run the shove, branch, write, perhaps restore), so the lemmas of
its proof are about a state `s` as a value that is handed from one step of a
handler to the next.

`Standing` is what survives each of these: the live nodes form a tree, every
handle of dragger and shove is live and not the board, the node that is dropped
first thing on the next move has nothing else on it (`LastAlone`), nor has the one
a walk keeps (`WalkAlone`), and no springback frame lies below the node a drag
began on or below an earlier frame (`FramesOrdered`).  Without the last two a pop
of frames could take along what the dragger still names.  `PairStands` and
`TuningStands` say the same of the placers.  This makes `HandlesLive`.

The other half says what the boards show.  Until a session is over the board
itself shows what it did, but for locks (`RootWaits`), hence `AbortRestores`.  Nobody
touches a piece that is not dragged (`OthersStay`).  In a drag of one item, the
nodes a position is written to do not show the item yet, and where the drag
stands with success it shows it once, at that position, or not at all if the
position left nothing of it (`SingleShows`); likewise
for several lines (`MultiShows`) and components (`ComponentShows`).  That a piece was
lost is known of the position shown and of no other: only mark obstacles mode
loses a single item, and that mode never comes back to an earlier position
(`Marks`).  With what is
restored from the last solution this gives `CommitsLastGood`.  Every node a pair
stands on has exactly the legs that were fixed, with what they pushed aside
(`PairShows`), and the leg under way has the next number, so a fix adds that leg
and no other: `LegsStand`.

`QuietSession` needs `Quiet`: no setting between which the host changes in the
midst of a session allows violations.  The settings a session starts with are
free, and sessions that allow violations from start to end are included.
Without `Quiet` both properties are false of the code: a position that was
accepted while violations were allowed is committed after they no longer are, and
lines that a failed shove took off are committed once violations are (see below).

Assumed: at least one piece and one place, at least one frame, move and leg, and
a pool of at least one node.  A step that needs more nodes than the pool has left
is not taken, so the theorems hold for pools of any size.

**HostCommit.**  An addition the host has not named may still carry the object of
what it descends from, so the invariant is about `Told`, the board without those:
each of its items is filed under the object it descends from, and every object
looks like the one item filed under it (`ToldAgree`).  When a session begins with
nothing unnamed, no two items of the board descend from one object, which makes
`Heir` the first descendant (`HeirIsFirst`), and then the lists of a plan are what
they should be (`PlanLists`): each object that lost its item gets one update or is
removed, never both.  `MapInv`, on which `IdentityKept` rests, needs no such host:
an item is filed under the object it descends from or not at all, however late,
partial or repeated the answers are.

**ShoveRun.**  The properties speak of items, and what keeps them is bookkeeping
in three places that the handlers change one after another: the branch, the root
line index and the two queues of lines.  `IInv` is about all three.  What the
branch holds (`Stock`): items are numbered as they are stored (`Numbered`), a
track or via shows one at most (`OneEach`), no entry of the index is of two
tracks (`Entered`), what a head brought is entered under the head's own entry and
nothing else is (`Headed`), and what is not there was taken off (`Present`).  The
lines on the stack (`StackOK`) are what the branch would assemble now, or a stub,
and no track is there twice.  A line that waits for the optimizer does so under
the entry of its track and with its present shape (`Waits`).  None of these
stands alone: a line replaced is found in the optimizer's queue by its entry, so
if two tracks shared one, the queue would keep a shape that is gone; and a head
is taken off by its entry alone.

A handler unwinds, pops, replaces and pushes in turn, so the lemmas are about the
record `s` that one step hands to the next: each step keeps it `Good`.  Amid the
drag of a via it is not: the via is stored anew while the tracks on it still
wait with the old one.  `Good(s, P)` allows that for the tracks `P` whose turn is
to come, and the turns (`TracksDragged`) make `P` empty.  The loops over tracks,
links and queue are walks, as in `JointMap`.  TLC checked `IInv` on the instance of
`shove` before it was proved.  Assumed: each head brings a via of its own, and
`~ViaLines`: a line that ends with a via does not give way itself, as in the
run.  Without the latter `StackStands` is false of the code (see below).  The
heads, the board, what is locked, the ranks and the budget are free.

**JointMap.**  Every operation on a bucket begins with `Touched`, so most of the
argument is one lemma, `TouchedStands`: of the result one joint spans the layers,
no other overlaps them, no layer is in two joints and no link was lost.  It is
proved along the walk over the bucket: at the k-th joint the first one that the
layers overlap has absorbed those of its kind, and what is built so far meets the
joints still to come nowhere but in the layers themselves (`Merging`).  That the
ranges stay ranges is part of it (`RangesMeet`: two that share a layer unite to
one).  `LayersDisjoint` then holds with nothing assumed.  `JointsHoldItems` needs
`BucketsHold`: what a node sees links what it shows, and a branch that does not own the
key has an empty bucket, so that a rebuild there begins with nothing.  The step
that matters is the removal of a via (`RemovedHolds`): the rebuild clears the
joints the via overlaps and relinks one of them, which is everything only if it
was the only joint with links.  That is `ViasReachAll`, no via or pad is blind;
without it the property is false of the code (see below).

**SessionLog.**  A call is made twice: by the host on a router that records, and
by the replay on one that does not.  Two routers that differ in nothing but the log
are twins, and each method of the facade, the composite ones and what they are
made of included, turns twins into twins (`SessionLogProofs` goes through all of
them).  At the outer level a method notes its own event and no other, in a
composite one it notes nothing, and the results of the log grow by what the call
answers.  The invariant keeps the whole trail: each engine is what `Apply` makes
of the one before and the event noted between them (`TrailReplays`), and the
answers heard up to each event, put together, are what the host was told
(`HeardReplays`).  Nothing is assumed of the engine, the geometry or the calls; how
many there are is free.

Left to TLC: `QueriesReturn`, which is liveness; `SplitsPerLayer`, which says what
comes of the order of links; `TextRoundTrip`, since the text is built with folds;
`ShoveRun` with lines that end with a via and give way themselves; and everything
about the chains and the lines (`ChainEdits`, `HeadTail`, `LoopRemoval`), which are
built with folds and a recursive operator.  A loop that is a recursive function
of a sequence can be proved about, as in `JointMap` and `ShoveRun`: the function
is known by its first value and its step, and there is an induction over the
numbers of its domain (`Walk`, `UpTo`).  A fold takes its step as an
operator, and a theorem about every operator cannot be instantiated by the
installed provers.

## What the code does not keep

These properties and promises are stated in the modules and not kept by the code.
No run checks them; to see one, change the named constants of a cfg and its
property.  The first group ends in a panic or a broken assertion.

* `NoStaleHandle` in `LinePlacement` without `Steady`, with a plan whose `modes` are
  `{"shove"}` and whose `outcomes` have `"stuck"`: a shove run that finds nothing leaves the placer on the shove's own
  node.  A fix there stores a zero length leg, that is nothing, but locks a
  springback frame on the scratch branch (`placer/line_placer.rs:3444`).  Undo
  drops the subtree of the placer's node (`:3606`) and with it the frame's, while
  the frame stays; the next move branches from it and `World::branch` panics
  (`node.rs:531`).
* The same with changes between `"walk"` and `"shove"` among `switches`: an undo in walkaround mode
  drops the node the shove's root stands on (`placer/line_placer.rs:3606`), and
  a move after the mode is back to shove branches from it.
* `StackStands` in `ShoveRun` with `ViaLines = TRUE`: a line that walked keeps
  its via without the link, so taking its track off the board leaves it on the
  stack unchanged (`shove.rs:793`).
* `AddsUnlinked` in `ShoveRun` with `ViaLines = TRUE`: `restore_via` links a
  stored via to the new shape of a line (`shove.rs:5017`), and the line goes on to
  `add_line`, which asserts that it has no links (`node.rs:2548`).  Without
  assertions the rank of the line is written through the link to the via.
* `Sound` in `ChainEdits` with `AnyCut = TRUE`: `split_arc` at an arc's second
  vertex, where another arc ends at its first, leaves a run of one vertex with the
  role of a start, which `reverse` turns into an end; `check_invariants` asserts
  (`geometry/line_chain.rs:3802`).  Dragging the first of two arcs that meet gets
  there (`line.rs:1573`).
* `remove_range` over more than one arc, ending inside one, takes the tag of the
  wrong arc (`geometry/line_chain.rs:1400`).  No caller removes such a range, so
  the model does not reach it.
* `drag_corner_free` of the last point of a line that ends in an arc copies the
  point after it (`line.rs:1170`), which is not there, and panics; `DragCornerFree`
  has no step for it.  A drag that starts on a segment does not get there, since it
  takes an end of the segment (`dragger.rs:594`), and the end of a line's last
  segment is on no arc.  A drag of a via at a free angle does:
  `find_via_fanout_by_handle` promises that every line starts at the via
  (`dragger.rs:2204`), but turns a line by where `assemble_line` says its first
  link is (`:2251`), and for an arc that is where the arc ends (`node.rs:2881`).  So a
  line that leaves the via by an arc whose first anchor is there is turned to end at the via.

The second group leaves something on the board, or off it.

* `JointsHoldItems` in `JointMap` with a track on a layer the via does not reach:
  in a branch that has not touched a key, removing a via erases nothing and plants
  a tombstone (`joint.rs:991`), which hides every joint the root has under the
  key, while only the links of the via's own joint are made anew.
* `FixesStand` in `LinePlacement` without `Steady`, with a plan of `modes` `{"shove"}`
  and `outcomes` `{"moved", "walked"}`: after a leg routed by the walkaround fallback is fixed, a
  further move shoves, and undo comes back to the shove's current node, in which
  the leg is still stored (`placer/line_placer.rs:3601`, `shove.rs:1579`);
  `placer/line_placer.rs:3504` promises the node before the fix.
* `HostSeesPushes` (`modes` `{"shove"}`, `outcomes` `{"moved"}`): the diff is
  built from the scratch branch (`placer/mod.rs:389`), the commit takes the last
  locked frame (`placer/line_placer.rs:3688`).  They differ in what the move
  under way has pushed aside.
* `PushesServeLegs` (same plan): stopped with no frame locked, the session
  commits the bottom frame (`shove.rs:1618`), that is, pushes without a leg.
* `UnplacedChangesNothing` (`modes` `{"walk"}`): `stop_routing` commits although
  nothing was placed (`router.rs:2815`), so the split of the start item stays
  and the host is not told.
* In mark obstacles mode `fix_route` gives an end item the trace's net in place, past
  the overlay (`placer/line_placer.rs:3246`), which an abort does not take back
  (`router.rs:2887`).  `AbortRestores` and `LeafWrites` except that net.
* `next_segment` passes over a locked track that is linked before the one to go on
  with, and stops at one that is linked after it; `joint.rs:511` says that a
  locked third branch ends a line in either case.  So one walk goes through the
  joint and another stops there.  With a board `<<T(A, C), K(C, D), T(D, B)>>` in
  `MCLoopRemoval` (and without `AssumeLocks`) `StaysConnected` fails: a trace from C to
  B is parallel to a line from A through C, of which the clip keeps the wrong link,
  and the track from A to C goes.
* `StaysConnected` without `OwnLoop`: where two pieces of a trace belong to lines
  between the same ends, `remove_loops` takes each line for a loop of the other
  (`placer/line_placer.rs:3774`), and the stored tracks of both go.
* `LoopsGo` for rings: the ends of a line that closes on itself are one joint, and
  the lines looked for instead are those between the ends of the trace
  (`placer/line_placer.rs:3759`), found on the ring itself.  Whether what lies beside
  the trace goes depends on where the walk around the ring begins.
* `NothingDoubled` in `LoopRemoval`: the end item is looked up on the root, so a
  track the start has split is split again, and four halves lie on each other
  (`placer/line_placer.rs:3058`, `:2851`).  A trace that comes back the way it went,
  or along a track, is stored on it as well.
* `split_adjacent_segments` does not copy the lock to the halves
  (`placer/line_placer.rs:2632`), so ending on a locked track unlocks it, and
  `process_stub_joint` does not ask for locks (`:3950`), so a locked track that ends
  free goes when a trace covers it.  `LockedStay` excepts the first,
  `AssumeLocks` excludes the second.
* The item dragger unlocks its item in place when it starts (`dragger.rs:521`),
  and neither a refused start nor an abort locks it again.  `AbortRestores` of
  `PlacerSession` excepts the lock.
* `PiecesWhole` with `MidDrag` all pairs of settings: a shove of several lines
  that fails leaves a branch without them (`multi_dragger.rs:1577`).  Going over
  to mark obstacles with violations allowed lets the fix commit it (`:1790`), and
  the tracks are lost.
* `NothingDraggedAway` in `PlacerSession`: of a line that touches an earlier one
  all along, `clip_to_other_line` leaves an empty chain and answers true (erratum
  E25, `multi_dragger.rs:2057`), a short line may be dragged to nothing in mark obstacles
  mode (`dragger.rs:1031`), and so may a track whose far end a pad is moved to
  (`component_dragger.rs:757`).  The old track is removed, nothing is added, the
  drag answers true, and a fix commits it.  `PiecesWhole` says that nothing else
  is missing.
* `CommitLegal` with the same `MidDrag`: the position a drag has reached while
  violations were allowed counts as one that works, and the fix after they no longer
  are commits it without routing again (`dragger.rs:2094`).
* A start that is refused leaves the branch it has taken until the next session
  ends (`router.rs:2172`, `placer/meander_placer.rs:652`).
* `update_sizes` of the pair placer does not route again, so the trace that is
  fixed may be wider than the one that was checked
  (`placer/diff_pair_placer.rs:1983`, `:1740`).  `LegsLegal` excepts it.
* `set_layer` of the pair placer in shove mode starts again on the shove's
  current node (`placer/diff_pair_placer.rs:1963`), so the pushes of the abandoned
  leg stay, contrary to `:2028`; and later legs do not kill the branches below
  their node as `:1575` says, since they pass `kill = false`.
* `ClipKeepsLinks` in `ChainEdits`: `clip_vertex_range` counts links by shapes from
  the wrong end once a slice stops short of the last one (`line.rs:1976`).
  `find_lines_between_joints` uses it (`node.rs:3038`), and the placer erases the
  links it gets (`placer/line_placer.rs:3774`).
* `HostAgrees` in `HostCommit` with `Prompt = FALSE`: an addition carries the object
  of what it descends from until the host names it (`router.rs:3157`), so a session
  begun before that takes what replaces it for an update of that object.  TLC: a
  commit replaces an item by an update and an addition; the next one replaces the
  addition, not named yet, and is told as an update of the object whose item is
  still there.
* `NoDeadEntry` in `HostCommit`: an update enters the new item and leaves the
  old one's entry (`router.rs:2853`); `resolve_host_item` has to skip it.
* `Readable` in `RecordingText`: the writer numbers blocks without a limit, the
  reader refuses numbers above `MAX_BLOCK` (`eventlog.rs:1754`), so a recording
  with 4096 changes of a setting cannot be read.  `TextRoundTrip` says just that.

The third group is about what a move shows.

* A pass of `route_step` that fails after one that cut the tail leaves the cut
  tail with the head of before (`placer/line_placer.rs:1938`): the trace has a gap
  until the next move.  `OneLine` excepts it by `torn`.
* `move_to` moves the last point of the head, also when that is its only one
  (`placer/line_placer.rs:3029`), the end of the tail: the walkaround leaves such a
  head when the cursor is where the tail ends.  The line for the preview is right,
  the trace a fix takes goes on to the cursor and back along the track.  `OneLine`
  excepts it by `torn`, too.
* `route` reports that the cursor was not reached when the head was merged into
  the tail (`placer/line_placer.rs:2000`).
* `placer/line_placer.rs:179` warns that the head routine may hand back a longer
  tail, so that only the limit ends the passes.  `PassesShrink` shows that it
  does not.
* `merge_step` simplifies its three points by comparing the first two only, so
  that `[a, b, b]` stays, and `merge_full` reports no change
  (`optimizer.rs:2344`).
* A slice that ends inside an arc that follows another one pushes their common
  point twice (`geometry/line_chain.rs:1719`), and `set_point` at such a vertex
  makes only the arc that ends there straight (`:1983`).

Limits known to the code and not modelled: the generation of a slot wraps
(`arena.rs:208`), `item_mut` leaves the caches to its callers (`node.rs:748`), a
dead joint keeps its place for good (`joint.rs:288`), a via hit with no force is
skipped (`shove.rs:3178`), and the shove's root line index outlives the branches it
was filled on (`shove.rs:1807`).

## Not modelled

* Geometry: distances, hulls, collision and offsets (`collide.rs`, `via.rs`,
  `diff_pair.rs`, `meander.rs`, `mouse_trail.rs`, most of `geometry/`).  The
  coordinates are 32 bit and the interesting inputs are not small.  In the models
  its outcome is a choice, so a property that holds there holds for whatever the
  geometry answers.  Exceptions are the directions, traces and crossings in
  `HeadTail`, collinear points in `Grid` and the order along arcs in `LineChain`.
* Read only walks (`topology.rs`), containers (`index.rs`), rules (`rules.rs`), and
  the walkaround's iteration, whose outcomes are choices.
* Of modelled components: several runs of the shove on one root line index,
  heads that are vias together with others, arcs as a kind of their own, markers;
  vias and arcs of head and loop removal; closed chains and rounded corners; the
  constraints and the cache of the optimizer; the shapes of a tuning.
* Formatting, tracing (`debug.rs`), settings beyond mode, violations and values
  that only have to be restored (`settings.rs`).

## Plan

Done, in this order: arena, world, line placement, joints, host commit, shove
run, nearest obstacle query; recording and replay, drags, pair and length
placers, chains with the optimizer, head and tail, loop removal.  Next, by importance:

1. Proofs: `SplitsPerLayer` of `JointMap`, and `ChainEdits` once its folds are
   recursive functions.
2. `Walkaround`: the iteration, its two directions and restarts, and its limit.
3. Vias in `HeadTail` and `LoopRemoval`, and the undo in the latter.
4. An abstract session (a stack of legs) that `LinePlacement` implements in
   walkaround mode, in place of `FixesStand` and `CommitKeepsFixes`.
5. The shove's root line index over several runs, and via heads among others.
6. Layer ranges, the symmetry of `collide.rs` and the walks of `topology.rs` over
   bounded inputs.
