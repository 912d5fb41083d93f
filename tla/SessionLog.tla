----------------------------- MODULE SessionLog -----------------------------
(***************************************************************************)
(* The facade of the router (Router of src/src/router.rs) with the         *)
(* recorder it writes every state changing call into, and the replay of    *)
(* src/src/eventlog.rs that drives a fresh router from what was recorded.  *)
(*                                                                         *)
(* The engine is deterministic, so a call is a function of the router.     *)
(* Geometry is a handful of constants: where a start is refused, how far a *)
(* move gets, where a fix ends the session, where the ratsnest leads.  A   *)
(* shape is where it ends and everything it depends on, so that a replay   *)
(* that missed a setting, a size or a posture commits something else.      *)
(***************************************************************************)
EXTENDS RecordingText

CONSTANTS Place, NoPlace,
          Host, NoHost,
          Shows,      \* what shows a host object on the fresh board, 0 for nothing
          Layer,
          Knob,       \* sizes and settings
          Refused,    \* places no session can start at
          Step,       \* where a head that ends at p gets to when moved to q
          Target,     \* places that end a route that is fixed there
          Anchor,     \* where the ratsnest of a route that ends at p leads
          Reach,      \* the layers of what is at a place
          StartAt,    \* bound: the places and layers a host starts at
          MaxCalls    \* bound: calls of one recording, one that leaves the
                      \* engine as it was counted twice

ASSUME AssumePlaces == /\ NoPlace \notin Place /\ NoHost \notin Host
                       /\ Shows \in [Host -> Int]
                       /\ Refused \subseteq Place /\ Target \subseteq Place
                       /\ Step \in [Place \X Place -> Place]
                       /\ Anchor \in [Place -> Place \cup {NoPlace}]
                       /\ Reach \in [Place -> (SUBSET Layer) \ {{}}]
                       /\ Layer \subseteq Nat /\ StartAt \subseteq Place \X Layer
ASSUME AssumeCalls == MaxCalls \in Nat

VARIABLES router,   \* the host's router: engine, log, and the diffs the call answers
          trail,    \* history: the engine as recording started and after each call
          told,     \* history: the diffs the host was answered
          player,   \* the replaying router
          replayed, \* the diffs the replay collected
          at        \* events replayed

vars == <<router, trail, told, player, replayed, at>>

NoSession == [kind |-> "none", start |-> NoPlace, end |-> NoPlace, layer |-> 0,
              legs |-> <<>>, host |-> NoHost, sizes |-> 0, tweaks |-> {}]

(* Router::new over the board the host describes.                          *)
Fresh(sizes, settings) ==
    [board |-> <<>>, shows |-> Shows, sizes |-> sizes,
     settings |-> settings, state |-> "Idle", session |-> NoSession, committed |-> <<>>]

NoLog == [on |-> FALSE, depth |-> 0, sizes |-> 0, settings |-> 0,
          events |-> <<>>, results |-> <<>>]

Event(call, place, host, value) ==
    [call |-> call, place |-> place, host |-> host, value |-> value]
Plain(call) == Event(call, NoPlace, NoHost, 0)

Over(engine) == [engine |-> engine, log |-> NoLog, answer |-> <<>>]
----------------------------------------------------------------------------
(* Mutant of RecordedCommit: a commit the router drives is no result.      *)
RecordedCommitOuter(r, diff) ==
    IF r.log.on /\ r.log.depth = 0 THEN [r EXCEPT !.log.results = Append(@, diff)] ELSE r

(* Router::record, record_commit, suspend_recording, resume_recording.     *)
Recorded(r, e) ==
    IF r.log.on /\ r.log.depth = 0 THEN [r EXCEPT !.log.events = Append(@, e)] ELSE r
RecordedCommit(r, diff) ==
    IF r.log.on THEN [r EXCEPT !.log.results = Append(@, diff)] ELSE r
Suspended(r) == [r EXCEPT !.log.depth = @ + 1]
Resumed(r) == [r EXCEPT !.log.depth = IF @ = 0 THEN 0 ELSE @ - 1]
----------------------------------------------------------------------------
StateOf(kind) == CASE kind \in {"line", "pair"} -> "RouteTrack"
                   [] kind = "tune" -> "TuneSingle"
                   [] kind = "drag" -> "DragSegment"

StartCall(kind) == CASE kind = "line" -> "start_routing"
                     [] kind = "pair" -> "start_routing_diff_pair"
                     [] kind = "tune" -> "start_tuning"
                     [] kind = "drag" -> "start_dragging"

(* resolve_host_item and the gates of the starting methods.                *)
Startable(g, kind, place, host) ==
    /\ g.state = "Idle"
    /\ place \notin Refused
    /\ host = NoHost => kind = "line"
    /\ host # NoHost => g.shows[host] # 0

(* start_routing, start_routing_diff_pair, start_tuning, start_dragging: a *)
(* refused call is an event all the same.                                  *)
Started(r, kind, place, host, value) ==
    LET e == Recorded(r, Event(StartCall(kind), place, host, value))
        session == [NoSession EXCEPT !.kind = kind, !.start = place, !.end = place,
                                     !.host = host, !.layer = value,
                                     !.sizes = r.engine.sizes]
    IN  IF Startable(r.engine, kind, place, host)
        THEN [e EXCEPT !.engine.session = session, !.engine.state = StateOf(kind)]
        ELSE e

(* move_to *)
Moved(r, place, host) ==
    LET e == Recorded(r, Event("move_to", place, host, 0))
    IN  IF r.engine.state = "Idle" THEN e
        ELSE [e EXCEPT !.engine.session.end = Step[<<@, place>>]]

(* What a leg fixed now looks like.                                        *)
Shape(g) == [from |-> g.session.start, to |-> g.session.end, layer |-> g.session.layer,
             sizes |-> g.session.sizes, settings |-> g.settings, tweaks |-> g.session.tweaks]

(* build_commit_plan: a drag's branch is not a placer's.                   *)
Plan(g) == CASE g.state = "RouteTrack" -> [added |-> g.session.legs, updated |-> <<>>]
             [] g.state = "TuneSingle" ->
                  [added |-> <<>>,
                   updated |-> [i \in DOMAIN g.session.legs |-> <<g.session.host, g.session.legs[i]>>]]
             [] OTHER -> NoDiff

(* apply_commit_plan, finish_session: the board takes the shapes, a host   *)
(* object that was changed is shown by the new item, the additions are     *)
(* what assign_host_ids may name.                                          *)
Applied(r, diff) ==
    LET n == Len(r.engine.board)
        shapes == diff.added \o [i \in DOMAIN diff.updated |-> diff.updated[i][2]]
        engine == [r.engine EXCEPT
            !.board = @ \o shapes,
            !.shows = [h \in Host |->
                         IF \E i \in DOMAIN diff.updated : diff.updated[i][1] = h
                         THEN n + Len(shapes) ELSE @[h]],
            !.committed = [i \in DOMAIN diff.added |-> n + i],
            !.session = NoSession, !.state = "Idle"]
    IN  RecordedCommit([r EXCEPT !.engine = engine, !.answer = Append(@, diff)], diff)

(* stop_routing *)
Stopped(r) == Applied(Recorded(r, Plain("stop_routing")), Plan(r.engine))

(* abort_routing *)
Aborted(r) == [Recorded(r, Plain("abort_routing")) EXCEPT
                  !.engine.session = NoSession, !.engine.state = "Idle"]

Placed(g) == g.session.end # g.session.start

(* fix_placement: a leg is fixed if there is one, and a real end, or any   *)
(* fix of a tuning, stops the session in the same call.                    *)
FixedPlacement(r, place, force) ==
    LET leg == [r EXCEPT !.engine.session.legs = Append(@, Shape(r.engine)),
                         !.engine.session.start = r.engine.session.end]
    IN  IF ~Placed(r.engine) THEN r
        ELSE IF r.engine.state = "TuneSingle" \/ place \in Target \/ force THEN Resumed(Stopped(Suspended(leg)))
        ELSE leg

(* fix_drag: a drag that went nowhere is refused.                          *)
FixedDrag(r) ==
    IF ~Placed(r.engine) THEN r
    ELSE Applied(r, [added |-> <<>>, updated |-> <<<<r.engine.session.host, Shape(r.engine)>>>>])

(* fix_route *)
Fixed(r, place, host, force) ==
    LET e == Recorded(r, Event("fix_route", place, host, IF force THEN 1 ELSE 0))
    IN  CASE r.engine.state = "Idle" -> e
          [] r.engine.state = "DragSegment" -> FixedDrag(e)
          [] OTHER -> FixedPlacement(e, place, force)

(* nearest_ratsnest_anchor: only a single track has one.                   *)
AnchorOf(g) == IF g.state = "RouteTrack" /\ g.session.kind = "line"
               THEN Anchor[g.session.end] ELSE NoPlace

(* One of the five tries of finish: [router, settled, done].               *)
Try(t, anchor) ==
    LET moved == Moved(t.router, anchor, NoHost)
    IN  IF t.done THEN t
        ELSE [router |-> moved, settled |-> t.router.engine.session.end,
              done |-> moved.engine.session.end = t.router.engine.session.end]
Tries(r, anchor) ==
    LET first == [router |-> r, settled |-> r.engine.session.end, done |-> FALSE]
    IN  Try(Try(Try(Try(Try(first, anchor), anchor), anchor), anchor), anchor)

(* Mutant of Finished: the early return leaves the recording off.          *)
FinishedUnresumed(r) ==
    LET e == Recorded(r, Plain("finish"))
        anchor == AnchorOf(r.engine)
        tries == Tries(Suspended(e), anchor)
    IN  IF anchor = NoPlace THEN e
        ELSE IF tries.settled # anchor \/ r.engine.session.layer \notin Reach[anchor]
        THEN tries.router
        ELSE Resumed(Fixed(tries.router, anchor, NoHost, FALSE))

(* finish: no event but its own is recorded, whichever way it ends.        *)
Finished(r) ==
    LET e == Recorded(r, Plain("finish"))
        anchor == AnchorOf(r.engine)
        tries == Tries(Suspended(e), anchor)
    IN  IF anchor = NoPlace THEN e
        ELSE IF tries.settled # anchor \/ r.engine.session.layer \notin Reach[anchor]
        THEN Resumed(tries.router)
        ELSE Resumed(Fixed(tries.router, anchor, NoHost, FALSE))

(* continue_from_end: stop, start at the anchor, move back to the end.     *)
Continued(r) ==
    LET e == Recorded(r, Plain("continue_from_end"))
        anchor == AnchorOf(r.engine)
        layer == IF r.engine.session.layer \in Reach[anchor] THEN r.engine.session.layer
                 ELSE Min(Reach[anchor])
        restarted == Started(Stopped(Suspended(e)), "line", anchor, NoHost, layer)
    IN  IF anchor = NoPlace THEN e
        ELSE Resumed(IF restarted.engine.state = "Idle" THEN restarted
                     ELSE Moved(restarted, r.engine.session.end, NoHost))

(* undo_last_segment *)
Undone(r) ==
    LET e == Recorded(r, Plain("undo_last_segment"))
    IN  IF r.engine.state # "RouteTrack" \/ r.engine.session.legs = <<>> THEN e
        ELSE [e EXCEPT !.engine.session.legs = Front(@),
                       !.engine.session.start = Last(r.engine.session.legs).from,
                       !.engine.session.end = Last(r.engine.session.legs).from]

(* switch_layer *)
Switched(r, layer) ==
    LET e == Recorded(r, Event("switch_layer", NoPlace, NoHost, layer))
    IN  IF r.engine.state # "RouteTrack" THEN e ELSE [e EXCEPT !.engine.session.layer = layer]

Toggle(S, x) == IF x \in S THEN S \ {x} ELSE S \cup {x}

(* toggle_via_placement, flip_posture; amplitude_step, spacing_step.       *)
Tweak == {"flip_posture", "amplitude_step"}
Tweaked(r, tweak) ==
    LET e == Recorded(r, Plain(tweak))
        listens == IF tweak = "flip_posture" THEN "RouteTrack" ELSE "TuneSingle"
    IN  IF r.engine.state # listens THEN e
        ELSE [e EXCEPT !.engine.session.tweaks = Toggle(@, tweak)]

(* set_sizes: of the running placers only that of a pair takes the sizes.  *)
Sized(r, sizes) ==
    [Recorded(r, Event("set_sizes", NoPlace, NoHost, sizes)) EXCEPT
        !.engine.sizes = sizes,
        !.engine.session.sizes = IF r.engine.session.kind = "pair" THEN sizes ELSE @]

(* set_settings, and toggle_corner_mode that changes one of them.          *)
Configured(r, settings) == [Recorded(r, Event("set_settings", NoPlace, NoHost, settings))
                               EXCEPT !.engine.settings = settings]

(* assign_host_ids, one pair: the position in the last additions.          *)
Assigned(r, index, host) ==
    LET e == Recorded(r, Event("assign_host_ids", NoPlace, host, index))
    IN  IF index \notin DOMAIN r.engine.committed THEN e
        ELSE [e EXCEPT !.engine.shows[host] = r.engine.committed[index]]
----------------------------------------------------------------------------
(* apply of src/src/eventlog.rs: the facade call an event stands for.      *)
Apply(r, e) ==
    CASE e.call = "start_routing" -> Started(r, "line", e.place, e.host, e.value)
      [] e.call = "start_routing_diff_pair" -> Started(r, "pair", e.place, e.host, e.value)
      [] e.call = "start_tuning" -> Started(r, "tune", e.place, e.host, e.value)
      [] e.call = "start_dragging" -> Started(r, "drag", e.place, e.host, e.value)
      [] e.call = "move_to" -> Moved(r, e.place, e.host)
      [] e.call = "fix_route" -> Fixed(r, e.place, e.host, e.value = 1)
      [] e.call = "finish" -> Finished(r)
      [] e.call = "continue_from_end" -> Continued(r)
      [] e.call = "undo_last_segment" -> Undone(r)
      [] e.call = "switch_layer" -> Switched(r, e.value)
      [] e.call \in Tweak -> Tweaked(r, e.call)
      [] e.call = "set_sizes" -> Sized(r, e.value)
      [] e.call = "set_settings" -> Configured(r, e.value)
      [] e.call = "stop_routing" -> Stopped(r)
      [] e.call = "abort_routing" -> Aborted(r)
      [] e.call = "assign_host_ids" -> Assigned(r, e.value, e.host)
----------------------------------------------------------------------------
(* Router::new and start_recording over the snapshot it was given.         *)
Init == /\ router = [Over(Fresh(1, 1)) EXCEPT !.log.on = TRUE, !.log.sizes = 1,
                                              !.log.settings = 1]
        /\ trail = <<router.engine>>
        /\ told = <<>>
        /\ player = Over(Fresh(router.log.sizes, router.log.settings))
        /\ replayed = <<>>
        /\ at = 0

(* What the host has told the router, and what it hears.                   *)
Idles == {i \in 2 .. Len(trail) : trail[i] = trail[i - 1]}
Call(r) ==
    /\ at = 0 /\ router.log.on
    /\ Len(trail) + Cardinality(Idles) + (IF r.engine = router.engine THEN 1 ELSE 0) <= MaxCalls
    /\ router' = [r EXCEPT !.answer = <<>>]
    /\ trail' = Append(trail, r.engine)
    /\ told' = told \o r.answer
    /\ UNCHANGED <<player, replayed, at>>

StartRouting == \E w \in StartAt, h \in Host \cup {NoHost} :
                  Call(Started(router, "line", w[1], h, w[2]))
StartPair == \E w \in StartAt, h \in Host : Call(Started(router, "pair", w[1], h, w[2]))
StartTuning == \E w \in StartAt, h \in Host, k \in Knob :
                 Call(Started(router, "tune", w[1], h, k))
StartDragging == \E w \in StartAt, h \in Host : Call(Started(router, "drag", w[1], h, 0))
MoveTo == \E p \in Place : Call(Moved(router, p, NoHost))
FixRoute == \E p \in Place, force \in BOOLEAN : Call(Fixed(router, p, NoHost, force))
Finish == Call(Finished(router))
ContinueFromEnd == Call(Continued(router))
UndoLastSegment == Call(Undone(router))
SwitchLayer == \E l \in Layer : Call(Switched(router, l))
TweakSession == \E w \in Tweak : Call(Tweaked(router, w))
SetSizes == \E k \in Knob : Call(Sized(router, k))
SetSettings == \E k \in Knob : Call(Configured(router, k))
StopRouting == Call(Stopped(router))
AbortRouting == Call(Aborted(router))
AssignHostIds == \E i \in 1 .. 2, h \in Host : Call(Assigned(router, i, h))

(* take_recording                                                          *)
Take == /\ router.log.on
        /\ router' = [router EXCEPT !.log.on = FALSE]
        /\ UNCHANGED <<trail, told, player, replayed, at>>

(* One event of the loop of replay_on.                                     *)
ReplayStep ==
    /\ ~router.log.on /\ at < Len(router.log.events)
    /\ LET r == Apply(player, router.log.events[at + 1])
       IN  /\ player' = [r EXCEPT !.answer = <<>>]
           /\ replayed' = replayed \o r.answer
    /\ at' = at + 1
    /\ UNCHANGED <<router, trail, told>>

Next == \/ StartRouting \/ StartPair \/ StartTuning \/ StartDragging
        \/ MoveTo \/ FixRoute \/ Finish \/ ContinueFromEnd
        \/ UndoLastSegment \/ SwitchLayer \/ TweakSession
        \/ SetSizes \/ SetSettings \/ StopRouting \/ AbortRouting
        \/ AssignHostIds \/ Take \/ ReplayStep

Spec == Init /\ [][Next]_vars
----------------------------------------------------------------------------
Recording == [sizes |-> router.log.sizes, settings |-> router.log.settings,
              events |-> router.log.events, results |-> router.log.results]

(* After every event the replaying router is where the recorded one was:   *)
(* one event per call of the host, none for a call the router makes of its *)
(* own methods, and nothing an event leaves out changes what comes next.   *)
ReplayFollows == /\ Len(trail) = Len(router.log.events) + 1
                 /\ player.engine = trail[at + 1]

(* assert_replay_matches: the replay answers the commits that were         *)
(* recorded, in their order, and they are those the host was told of.      *)
ReplayReproduces ==
    /\ router.log.results = told
    /\ ~router.log.on /\ at = Len(router.log.events) =>
         /\ replayed = router.log.results
         /\ player.engine = router.engine

(* A recording that was written out reads back as the recording, unless it *)
(* holds more blocks of one kind than can be read: the writer does not     *)
(* stop at the largest number the reader takes.                            *)
TextRoundTrip ==
    ~router.log.on /\ at = 0 =>
      /\ Readable(ToText(Recording))
           <=> \A kind \in {"sizes", "settings", "meander"} :
                 Len(Table(Recording, kind)) <= MaxBlock + 1
      /\ Readable(ToText(Recording)) => FromText(ToText(Recording)) = Recording

(* The inductive invariant behind ReplayFollows and ReplayReproduces       *)
(* (SessionLogProofs).  Between the calls of the host the recording is not *)
(* suspended and nothing is left to answer; every engine of the trail is   *)
(* what its event makes of the one before; the answers heard up to each    *)
(* event are those the events give one after the other.                    *)
IsSequence(s) == s \in Seq(ToSet(s))
IsRouter(r) == /\ r = [field \in {"engine", "log", "answer"} |-> r[field]]
               /\ r.log = [field \in {"on", "depth", "sizes", "settings", "events", "results"}
                             |-> r.log[field]]
               /\ IsSequence(r.log.events) /\ IsSequence(r.log.results)
               /\ IsSequence(r.answer)

AtRest == /\ IsRouter(router) /\ router.answer = <<>>
          /\ router.log.depth = 0 /\ router.log.on \in BOOLEAN
          /\ at \in 0 .. Len(router.log.events)
          /\ router.log.on => at = 0

TrailReplays ==
    /\ IsSequence(trail) /\ Len(trail) = Len(router.log.events) + 1
    /\ router.engine = Last(trail)
    /\ player = Over(trail[at + 1])
    /\ \A i \in 1 .. Len(router.log.events) :
         [Apply(Over(trail[i]), router.log.events[i]) EXCEPT !.answer = <<>>]
           = Over(trail[i + 1])

Answers(heard, engines, events) ==
    /\ heard[0] = <<>>
    /\ \A i \in 1 .. Len(events) :
         heard[i] = heard[i - 1] \o Apply(Over(engines[i]), events[i]).answer

HeardReplays ==
    /\ router.log.results = told
    /\ \E heard \in [0 .. Len(router.log.events) -> Prefixes(told)] :
         /\ Answers(heard, trail, router.log.events)
         /\ heard[Len(router.log.events)] = told /\ heard[at] = replayed

IInv == AtRest /\ TrailReplays /\ HeardReplays
=============================================================================
