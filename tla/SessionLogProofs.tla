--------------------------- MODULE SessionLogProofs ---------------------------
(***************************************************************************)
(* Why a replay follows what was recorded (SessionLog), for every board,   *)
(* every geometry and every sequence of calls.                             *)
(*                                                                         *)
(* A call is made twice over: by the host on a router that records, and by *)
(* the replay on one that does not.  The two are twins if they differ in   *)
(* nothing but the log.  Every method of the facade, and every step it is  *)
(* made of, turns twins into twins; at the outer level it notes its own    *)
(* event and nothing else, deeper down it notes nothing; and the results   *)
(* of the log grow by what the call answers.  Apply finds the method of    *)
(* the event back, so one event of the replay is one call of the host.     *)
(***************************************************************************)
EXTENDS SessionLog, TLAPS

(* The events with e of a call that is made while suspended k times.       *)
Noted(events, k, e) == IF k = 0 THEN Append(events, e) ELSE events

(* r records and has noted the events since results were the results, q    *)
(* does not record.  Both are suspended k times and have the same engine,  *)
(* and what they have answered is what r has added to the results.         *)
Twins(r, q, k, events, results) ==
    /\ IsRouter(r) /\ IsRouter(q)
    /\ r.engine = q.engine /\ r.answer = q.answer
    /\ r.log.on = TRUE /\ r.log.depth = k /\ r.log.events = events
    /\ r.log.results = results \o r.answer
    /\ q.log.on = FALSE /\ q.log.depth = k
    /\ q.log.sizes = 0 /\ q.log.settings = 0 /\ q.log.events = <<>> /\ q.log.results = <<>>
    /\ IsSequence(events) /\ IsSequence(results)
----------------------------------------------------------------------------
LEMMA EmptyIsSequence == IsSequence(<<>>)
BY DEF IsSequence, ToSet

LEMMA AppendIsSequence ==
    ASSUME NEW s, NEW x, IsSequence(s)
    PROVE  /\ IsSequence(Append(s, x))
           /\ Append(s, x) = s \o <<x>>
           /\ Len(Append(s, x)) = Len(s) + 1
           /\ Append(s, x)[Len(s) + 1] = x
           /\ \A i \in 1 .. Len(s) : Append(s, x)[i] = s[i]
<1> DEFINE S == ToSet(s) \cup {x}
<1>1. s \in Seq(S)  BY DEF IsSequence
<1>2. x \in S  OBVIOUS
<1>3. Append(s, x) \in Seq(S) /\ Len(Append(s, x)) = Len(s) + 1
      /\ Append(s, x) = s \o <<x>>
      /\ Append(s, x)[Len(s) + 1] = x
      /\ \A i \in 1 .. Len(s) : Append(s, x)[i] = s[i]
  BY <1>1, <1>2
<1>4. Append(s, x) \in Seq(ToSet(Append(s, x)))
  BY <1>3, <1>1 DEF ToSet
<1> QED  BY <1>3, <1>4 DEF IsSequence

LEMMA ConcatIsSequence ==
    ASSUME NEW s, NEW t, IsSequence(s), IsSequence(t)
    PROVE  /\ IsSequence(s \o t)
           /\ Len(s \o t) = Len(s) + Len(t)
           /\ \A i \in 1 .. Len(s) : (s \o t)[i] = s[i]
<1> DEFINE S == ToSet(s) \cup ToSet(t)
<1>1. s \in Seq(S) /\ t \in Seq(S)  BY DEF IsSequence
<1>2. s \o t \in Seq(S)  BY <1>1
<1>3. Len(s \o t) = Len(s) + Len(t) /\ \A i \in 1 .. Len(s) : (s \o t)[i] = s[i]
  BY <1>1
<1>4. \A u \in Seq(S) : u \in Seq({u[i] : i \in DOMAIN u})  OBVIOUS
<1> HIDE DEF S
<1>5. s \o t \in Seq(ToSet(s \o t))  BY <1>2, <1>4 DEF ToSet
<1> QED  BY <1>3, <1>5 DEF IsSequence

LEMMA ConcatAppend ==
    ASSUME NEW s, NEW t, NEW x, IsSequence(s), IsSequence(t)
    PROVE  Append(s \o t, x) = s \o Append(t, x)
<1> DEFINE S == ToSet(s) \cup ToSet(t) \cup {x}
<1>1. s \in Seq(S) /\ t \in Seq(S) /\ x \in S  BY DEF IsSequence
<1> HIDE DEF S
<1> QED  BY <1>1

LEMMA ConcatEmpty ==
    ASSUME NEW s, IsSequence(s)
    PROVE  s \o <<>> = s /\ <<>> \o s = s
<1>1. s \in Seq(ToSet(s))  BY DEF IsSequence
<1> QED  BY <1>1
----------------------------------------------------------------------------
(* What the steps of a call do to a router.                                *)
(* What the steps of a call do to twins.                                   *)
LEMMA TwinsRecorded ==
    ASSUME NEW r, NEW q, NEW k, NEW events, NEW results, NEW e,
           Twins(r, q, k, events, results)
    PROVE  /\ Twins(Recorded(r, e), Recorded(q, e), k, Noted(events, k, e), results)
           /\ Recorded(r, e).engine = r.engine /\ Recorded(q, e).engine = r.engine
<1>1. Recorded(q, e) = q  BY DEF Recorded, Twins
<1>2. CASE k # 0
  <2>1. Recorded(r, e) = r  BY <1>2 DEF Recorded, Twins
  <2> QED  BY <1>1, <1>2, <2>1 DEF Noted, Twins
<1>3. CASE k = 0
  <2>1. IsSequence(Append(events, e))
    BY AppendIsSequence DEF Twins
  <2>2. Recorded(r, e) = [r EXCEPT !.log.events = Append(events, e)]
    BY <1>3 DEF Recorded, Twins
  <2>3. PICK u : u = [r EXCEPT !.log.events = Append(events, e)]  OBVIOUS
  <2>4. IsRouter(u) /\ u.engine = r.engine /\ u.answer = r.answer
        /\ u.log.on = TRUE /\ u.log.depth = k /\ u.log.events = Append(events, e)
        /\ u.log.results = results \o u.answer
    BY <2>1, <2>3 DEF Twins, IsRouter
  <2> QED  BY <1>1, <1>3, <2>1, <2>2, <2>3, <2>4 DEF Noted, Twins
<1> QED  BY <1>2, <1>3

LEMMA TwinsEngine ==
    ASSUME NEW r, NEW q, NEW k, NEW events, NEW results, NEW g,
           Twins(r, q, k, events, results)
    PROVE  /\ Twins([r EXCEPT !.engine = g], [q EXCEPT !.engine = g], k, events, results)
           /\ [r EXCEPT !.engine = g].engine = g
           /\ [q EXCEPT !.engine = g].engine = g
BY DEF Twins, IsRouter

LEMMA TwinsSuspended ==
    ASSUME NEW r, NEW q, NEW k \in Nat, NEW events, NEW results,
           Twins(r, q, k, events, results)
    PROVE  /\ Twins(Suspended(r), Suspended(q), k + 1, events, results)
           /\ Suspended(r).engine = r.engine /\ Suspended(q).engine = r.engine
BY DEF Twins, IsRouter, Suspended

LEMMA TwinsResumed ==
    ASSUME NEW r, NEW q, NEW k \in Nat, NEW events, NEW results,
           Twins(r, q, k + 1, events, results)
    PROVE  Twins(Resumed(r), Resumed(q), k, events, results)
<1>1. r.log.depth = k + 1 /\ q.log.depth = k + 1  BY DEF Twins
<1>2. Resumed(r) = [r EXCEPT !.log.depth = k] /\ Resumed(q) = [q EXCEPT !.log.depth = k]
  BY <1>1 DEF Resumed
<1>3. PICK u, w : u = [r EXCEPT !.log.depth = k] /\ w = [q EXCEPT !.log.depth = k]
  OBVIOUS
<1>4. /\ IsRouter(u) /\ u.engine = r.engine /\ u.answer = r.answer
      /\ u.log.on = TRUE /\ u.log.depth = k /\ u.log.events = events
      /\ u.log.results = results \o u.answer
  BY <1>3 DEF Twins, IsRouter
<1>5. /\ IsRouter(w) /\ w.engine = q.engine /\ w.answer = q.answer
      /\ w.log.on = FALSE /\ w.log.depth = k
      /\ w.log.sizes = 0 /\ w.log.settings = 0 /\ w.log.events = <<>> /\ w.log.results = <<>>
  BY <1>3 DEF Twins, IsRouter
<1>6. Twins(u, w, k, events, results)  BY <1>4, <1>5 DEF Twins
<1> QED  BY <1>2, <1>3, <1>6

(* apply_commit_plan: the diff is answered and it is a result.             *)
LEMMA TwinsApplied ==
    ASSUME NEW r, NEW q, NEW k, NEW events, NEW results, NEW diff,
           Twins(r, q, k, events, results)
    PROVE  Twins(Applied(r, diff), Applied(q, diff), k, events, results)
<1> DEFINE h == q.engine
           n == Len(h.board)
           shapes == diff.added \o [i \in DOMAIN diff.updated |-> diff.updated[i][2]]
           engine == [h EXCEPT
            !.board = @ \o shapes,
            !.shows = [x \in Host |->
                         IF \E i \in DOMAIN diff.updated : diff.updated[i][1] = x
                         THEN n + Len(shapes) ELSE @[x]],
            !.committed = [i \in DOMAIN diff.added |-> n + i],
            !.session = NoSession, !.state = "Idle"]
           b == Append(q.answer, diff)
           rr == [r EXCEPT !.engine = engine, !.answer = b]
           qq == [q EXCEPT !.engine = engine, !.answer = b]
<1>2. r.engine = h /\ r.answer = q.answer  BY DEF Twins
<1>3. Applied(q, diff) = RecordedCommit(qq, diff)
  BY DEF Applied
<1>4. Applied(r, diff) = RecordedCommit(rr, diff)
  BY <1>2 DEF Applied
<1> HIDE DEF engine
<1>5. IsSequence(b) /\ Append(results \o q.answer, diff) = results \o b
      /\ IsSequence(results \o b)
  <2>1. IsSequence(q.answer) /\ IsSequence(results)  BY DEF Twins, IsRouter
  <2>2. IsSequence(b)  BY <2>1, AppendIsSequence
  <2> QED  BY <2>1, <2>2, ConcatAppend, ConcatIsSequence
<1> HIDE DEF b
<1>6. IsRouter(qq) /\ qq.engine = engine /\ qq.answer = b /\ qq.log = q.log
  BY <1>5 DEF Twins, IsRouter
<1>7. /\ rr = [field \in {"engine", "log", "answer"} |-> rr[field]]
      /\ rr.engine = engine /\ rr.answer = b /\ rr.log = r.log
  <2>1. r = [field \in {"engine", "log", "answer"} |-> r[field]]  BY DEF Twins, IsRouter
  <2> QED  BY <2>1
<1> HIDE DEF rr, qq
<1>8. Applied(q, diff) = qq
  BY <1>3, <1>6 DEF RecordedCommit, Twins
<1>9. Applied(r, diff) = [rr EXCEPT !.log.results = Append(results \o q.answer, diff)]
  <2>1. rr.log.on = TRUE /\ rr.log.results = results \o q.answer
    BY <1>2, <1>7 DEF Twins
  <2>2. RecordedCommit(rr, diff) = [rr EXCEPT !.log.results = Append(rr.log.results, diff)]
    BY <2>1 DEF RecordedCommit
  <2> QED  BY <1>4, <2>1, <2>2
<1>10. PICK u : u = [rr EXCEPT !.log.results = results \o b]  OBVIOUS
<1>11. IsRouter(u) /\ u.engine = engine /\ u.answer = b
       /\ u.log.on = TRUE /\ u.log.depth = k /\ u.log.events = events
       /\ u.log.results = results \o b
  BY <1>5, <1>7, <1>10 DEF Twins, IsRouter
<1>12. Applied(r, diff) = u  BY <1>5, <1>9, <1>10
<1> QED  BY <1>6, <1>8, <1>11, <1>12 DEF Twins
----------------------------------------------------------------------------
(* What the methods of the facade do to twins.                             *)
LEMMA TwinsStarted ==
    ASSUME NEW r, NEW q, NEW k, NEW events, NEW results,
           NEW kind, NEW place, NEW host, NEW value,
           Twins(r, q, k, events, results)
    PROVE  Twins(Started(r, kind, place, host, value), Started(q, kind, place, host, value), k,
                 Noted(events, k, Event(StartCall(kind), place, host, value)), results)
<1> DEFINE e == Event(StartCall(kind), place, host, value)
           session == [NoSession EXCEPT !.kind = kind, !.start = place, !.end = place,
                                        !.host = host, !.layer = value,
                                        !.sizes = r.engine.sizes]
           g == [r.engine EXCEPT !.session = session, !.state = StateOf(kind)]
           rr == Recorded(r, e)
           qq == Recorded(q, e)
<1>1. r.engine = q.engine  BY DEF Twins
<1>2. Twins(rr, qq, k, Noted(events, k, e), results) /\ rr.engine = r.engine /\ qq.engine = r.engine
  BY TwinsRecorded
<1>3. Started(r, kind, place, host, value) =
        IF Startable(r.engine, kind, place, host)
        THEN [rr EXCEPT !.engine.session = session, !.engine.state = StateOf(kind)] ELSE rr
  BY DEF Started
<1>4. Started(q, kind, place, host, value) =
        IF Startable(r.engine, kind, place, host)
        THEN [qq EXCEPT !.engine.session = session, !.engine.state = StateOf(kind)] ELSE qq
  BY <1>1 DEF Started
<1> HIDE DEF session, rr, qq, e
<1>5. Twins([rr EXCEPT !.engine = g], [qq EXCEPT !.engine = g], k, Noted(events, k, e), results)
  BY <1>2, TwinsEngine
<1>6. [rr EXCEPT !.engine.session = session, !.engine.state = StateOf(kind)] = [rr EXCEPT !.engine = g]
  BY <1>2 DEF Twins, IsRouter
<1> QED  BY <1>2, <1>3, <1>4, <1>5, <1>6 DEF e

LEMMA TwinsMoved ==
    ASSUME NEW r, NEW q, NEW k, NEW events, NEW results, NEW place, NEW host,
           Twins(r, q, k, events, results)
    PROVE  Twins(Moved(r, place, host), Moved(q, place, host), k,
                 Noted(events, k, Event("move_to", place, host, 0)), results)
<1> DEFINE e == Event("move_to", place, host, 0)
           g == [r.engine EXCEPT !.session.end = Step[<<@, place>>]]
           rr == Recorded(r, e)
           qq == Recorded(q, e)
<1>1. r.engine = q.engine  BY DEF Twins
<1>2. Twins(rr, qq, k, Noted(events, k, e), results) /\ rr.engine = r.engine /\ qq.engine = r.engine
  BY TwinsRecorded
<1>3. Moved(r, place, host) = IF r.engine.state = "Idle" THEN rr ELSE [rr EXCEPT !.engine = g]
  BY <1>2 DEF Moved
<1>4. Moved(q, place, host) = IF r.engine.state = "Idle" THEN qq ELSE [qq EXCEPT !.engine = g]
  BY <1>1, <1>2 DEF Moved
<1> HIDE DEF rr, qq, e, g
<1>5. Twins([rr EXCEPT !.engine = g], [qq EXCEPT !.engine = g], k, Noted(events, k, e), results)
  BY <1>2, TwinsEngine
<1> QED  BY <1>2, <1>3, <1>4, <1>5 DEF e

LEMMA TwinsStopped ==
    ASSUME NEW r, NEW q, NEW k, NEW events, NEW results,
           Twins(r, q, k, events, results)
    PROVE  Twins(Stopped(r), Stopped(q), k, Noted(events, k, Plain("stop_routing")), results)
<1> DEFINE e == Plain("stop_routing")
<1>1. r.engine = q.engine  BY DEF Twins
<1>2. Twins(Recorded(r, e), Recorded(q, e), k, Noted(events, k, e), results)
  BY TwinsRecorded
<1>3. Stopped(r) = Applied(Recorded(r, e), Plan(r.engine))
      /\ Stopped(q) = Applied(Recorded(q, e), Plan(r.engine))
  BY <1>1 DEF Stopped
<1> HIDE DEF e
<1> QED  BY <1>2, <1>3, TwinsApplied DEF e

LEMMA TwinsAborted ==
    ASSUME NEW r, NEW q, NEW k, NEW events, NEW results,
           Twins(r, q, k, events, results)
    PROVE  Twins(Aborted(r), Aborted(q), k, Noted(events, k, Plain("abort_routing")), results)
<1> DEFINE e == Plain("abort_routing")
           g == [r.engine EXCEPT !.session = NoSession, !.state = "Idle"]
           rr == Recorded(r, e)
           qq == Recorded(q, e)
<1>2. Twins(rr, qq, k, Noted(events, k, e), results) /\ rr.engine = r.engine /\ qq.engine = r.engine
  BY TwinsRecorded
<1>3. Aborted(r) = [rr EXCEPT !.engine.session = NoSession, !.engine.state = "Idle"]
      /\ Aborted(q) = [qq EXCEPT !.engine.session = NoSession, !.engine.state = "Idle"]
  BY DEF Aborted
<1> HIDE DEF rr, qq, e
<1>4. Aborted(r) = [rr EXCEPT !.engine = g]  BY <1>2, <1>3 DEF Twins, IsRouter
<1>5. Aborted(q) = [qq EXCEPT !.engine = g]  BY <1>2, <1>3 DEF Twins, IsRouter
<1> HIDE DEF g
<1> QED  BY <1>2, <1>4, <1>5, TwinsEngine DEF e

(* fix_placement: the stop within is one the router makes of its own.      *)
LEMMA TwinsFixedPlacement ==
    ASSUME NEW r, NEW q, NEW k \in Nat, NEW events, NEW results, NEW place, NEW force,
           Twins(r, q, k, events, results)
    PROVE  Twins(FixedPlacement(r, place, force), FixedPlacement(q, place, force), k,
                 events, results)
<1> DEFINE g == [r.engine EXCEPT !.session.legs = Append(@, Shape(r.engine)),
                                 !.session.start = r.engine.session.end]
           rr == [r EXCEPT !.engine = g]
           qq == [q EXCEPT !.engine = g]
           ends == r.engine.state = "TuneSingle" \/ place \in Target \/ force
<1>1. r.engine = q.engine  BY DEF Twins
<1>2. [r EXCEPT !.engine.session.legs = Append(@, Shape(r.engine)),
                !.engine.session.start = r.engine.session.end] = rr
  BY DEF Twins, IsRouter
<1>3. [q EXCEPT !.engine.session.legs = Append(@, Shape(q.engine)),
                !.engine.session.start = q.engine.session.end] = qq
  BY <1>1 DEF Twins, IsRouter
<1>4. FixedPlacement(r, place, force) =
        IF ~Placed(r.engine) THEN r
        ELSE IF ends THEN Resumed(Stopped(Suspended(rr))) ELSE rr
  BY <1>2 DEF FixedPlacement
<1>5. FixedPlacement(q, place, force) =
        IF ~Placed(r.engine) THEN q
        ELSE IF ends THEN Resumed(Stopped(Suspended(qq))) ELSE qq
  BY <1>1, <1>3 DEF FixedPlacement
<1> HIDE DEF g, ends
<1>6. Twins(rr, qq, k, events, results)  BY TwinsEngine
<1> HIDE DEF rr, qq
<1>7. Twins(Suspended(rr), Suspended(qq), k + 1, events, results)  BY <1>6, TwinsSuspended
<1>8. Twins(Stopped(Suspended(rr)), Stopped(Suspended(qq)), k + 1, events, results)
  BY <1>7, TwinsStopped DEF Noted
<1>9. Twins(Resumed(Stopped(Suspended(rr))), Resumed(Stopped(Suspended(qq))), k, events, results)
  BY <1>8, TwinsResumed
<1> QED  BY <1>4, <1>5, <1>6, <1>9

LEMMA TwinsFixedDrag ==
    ASSUME NEW r, NEW q, NEW k, NEW events, NEW results,
           Twins(r, q, k, events, results)
    PROVE  Twins(FixedDrag(r), FixedDrag(q), k, events, results)
<1>1. r.engine = q.engine  BY DEF Twins
<1> QED  BY <1>1, TwinsApplied DEF FixedDrag

LEMMA TwinsFixed ==
    ASSUME NEW r, NEW q, NEW k \in Nat, NEW events, NEW results,
           NEW place, NEW host, NEW force,
           Twins(r, q, k, events, results)
    PROVE  Twins(Fixed(r, place, host, force), Fixed(q, place, host, force), k,
                 Noted(events, k, Event("fix_route", place, host, IF force THEN 1 ELSE 0)),
                 results)
<1> DEFINE e == Event("fix_route", place, host, IF force THEN 1 ELSE 0)
           rr == Recorded(r, e)
           qq == Recorded(q, e)
<1>1. r.engine = q.engine  BY DEF Twins
<1>2. Twins(rr, qq, k, Noted(events, k, e), results)  BY TwinsRecorded
<1>3. Fixed(r, place, host, force) =
        CASE r.engine.state = "Idle" -> rr
          [] r.engine.state = "DragSegment" -> FixedDrag(rr)
          [] OTHER -> FixedPlacement(rr, place, force)
  BY DEF Fixed
<1>4. Fixed(q, place, host, force) =
        CASE r.engine.state = "Idle" -> qq
          [] r.engine.state = "DragSegment" -> FixedDrag(qq)
          [] OTHER -> FixedPlacement(qq, place, force)
  BY <1>1 DEF Fixed
<1> HIDE DEF rr, qq, e
<1>5. Twins(FixedDrag(rr), FixedDrag(qq), k, Noted(events, k, e), results)
  BY <1>2, TwinsFixedDrag
<1>6. Twins(FixedPlacement(rr, place, force), FixedPlacement(qq, place, force), k,
            Noted(events, k, e), results)
  BY <1>2, TwinsFixedPlacement
<1> QED  BY <1>2, <1>3, <1>4, <1>5, <1>6 DEF e

(* One try of finish, and all five: two that are alike go the same way.    *)
Alike(t, v, k, events, results) == /\ Twins(t.router, v.router, k, events, results)
                                   /\ t.settled = v.settled /\ t.done = v.done

LEMMA AlikeTry ==
    ASSUME NEW t, NEW v, NEW k \in Nat, NEW events, NEW results, NEW anchor,
           Alike(t, v, k + 1, events, results)
    PROVE  Alike(Try(t, anchor), Try(v, anchor), k + 1, events, results)
<1>1. Twins(t.router, v.router, k + 1, events, results) /\ t.done = v.done
      /\ t.router.engine = v.router.engine
  BY DEF Alike, Twins
<1> DEFINE rr == Moved(t.router, anchor, NoHost)
           qq == Moved(v.router, anchor, NoHost)
<1>2. Twins(rr, qq, k + 1, events, results)  BY <1>1, TwinsMoved DEF Noted
<1>3. rr.engine = qq.engine  BY <1>2 DEF Twins
<1>4. Try(t, anchor) = IF t.done THEN t
                       ELSE [router |-> rr, settled |-> t.router.engine.session.end,
                             done |-> rr.engine.session.end = t.router.engine.session.end]
  BY DEF Try
<1>5. Try(v, anchor) = IF t.done THEN v
                       ELSE [router |-> qq, settled |-> t.router.engine.session.end,
                             done |-> rr.engine.session.end = t.router.engine.session.end]
  BY <1>1, <1>3 DEF Try
<1> HIDE DEF rr, qq
<1>6. CASE t.done  BY <1>4, <1>5, <1>6
<1>7. CASE ~t.done
  <2> DEFINE done == rr.engine.session.end = t.router.engine.session.end
  <2> HIDE DEF done
  <2>1. Try(t, anchor) = [router |-> rr, settled |-> t.router.engine.session.end, done |-> done]
    BY <1>4, <1>7 DEF done
  <2>2. Try(v, anchor) = [router |-> qq, settled |-> t.router.engine.session.end, done |-> done]
    BY <1>5, <1>7 DEF done
  <2> QED  BY <1>2, <2>1, <2>2 DEF Alike
<1> QED  BY <1>6, <1>7

LEMMA AlikeTries ==
    ASSUME NEW r, NEW q, NEW k \in Nat, NEW events, NEW results, NEW anchor,
           Twins(r, q, k + 1, events, results)
    PROVE  Alike(Tries(r, anchor), Tries(q, anchor), k + 1, events, results)
<1> DEFINE t == [router |-> r, settled |-> r.engine.session.end, done |-> FALSE]
           v == [router |-> q, settled |-> r.engine.session.end, done |-> FALSE]
<1>1. r.engine = q.engine  BY DEF Twins
<1>2. Tries(r, anchor) = Try(Try(Try(Try(Try(t, anchor), anchor), anchor), anchor), anchor)
  BY DEF Tries
<1>3. Tries(q, anchor) = Try(Try(Try(Try(Try(v, anchor), anchor), anchor), anchor), anchor)
  BY <1>1 DEF Tries
<1>4. Alike(t, v, k + 1, events, results)  BY DEF Alike
<1> HIDE DEF t, v
<1>5. Alike(Try(t, anchor), Try(v, anchor), k + 1, events, results)  BY <1>4, AlikeTry
<1>6. Alike(Try(Try(t, anchor), anchor), Try(Try(v, anchor), anchor), k + 1, events, results)
  BY <1>5, AlikeTry
<1>7. Alike(Try(Try(Try(t, anchor), anchor), anchor), Try(Try(Try(v, anchor), anchor), anchor),
            k + 1, events, results)
  BY <1>6, AlikeTry
<1>8. Alike(Try(Try(Try(Try(t, anchor), anchor), anchor), anchor),
            Try(Try(Try(Try(v, anchor), anchor), anchor), anchor), k + 1, events, results)
  BY <1>7, AlikeTry
<1> QED  BY <1>2, <1>3, <1>8, AlikeTry

(* finish: whichever way it ends, its own event is all it notes.           *)
LEMMA TwinsFinished ==
    ASSUME NEW r, NEW q, NEW k \in Nat, NEW events, NEW results,
           Twins(r, q, k, events, results)
    PROVE  Twins(Finished(r), Finished(q), k, Noted(events, k, Plain("finish")), results)
<1> DEFINE e == Plain("finish")
           noted == Noted(events, k, e)
           anchor == AnchorOf(r.engine)
           rr == Recorded(r, e)
           qq == Recorded(q, e)
           t == Tries(Suspended(rr), anchor)
           v == Tries(Suspended(qq), anchor)
           short == t.settled # anchor \/ r.engine.session.layer \notin Reach[anchor]
<1>1. r.engine = q.engine  BY DEF Twins
<1>2. Twins(rr, qq, k, noted, results)  BY TwinsRecorded
<1>3. Finished(r) = IF anchor = NoPlace THEN rr
                    ELSE IF short THEN Resumed(t.router)
                    ELSE Resumed(Fixed(t.router, anchor, NoHost, FALSE))
  BY DEF Finished
<1>4. Finished(q) = IF anchor = NoPlace THEN qq
                    ELSE IF v.settled # anchor \/ r.engine.session.layer \notin Reach[anchor]
                    THEN Resumed(v.router)
                    ELSE Resumed(Fixed(v.router, anchor, NoHost, FALSE))
  BY <1>1 DEF Finished
<1> HIDE DEF rr, qq, e, noted, anchor
<1>5. Twins(Suspended(rr), Suspended(qq), k + 1, noted, results)  BY <1>2, TwinsSuspended
<1>6. Alike(t, v, k + 1, noted, results)  BY <1>5, AlikeTries
<1> HIDE DEF t, v
<1>7. Twins(t.router, v.router, k + 1, noted, results) /\ t.settled = v.settled
  BY <1>6 DEF Alike
<1>8. Twins(Resumed(t.router), Resumed(v.router), k, noted, results)
  BY <1>7, TwinsResumed
<1>9. Twins(Fixed(t.router, anchor, NoHost, FALSE), Fixed(v.router, anchor, NoHost, FALSE),
            k + 1, noted, results)
  <2>1. \A x : Noted(noted, k + 1, x) = noted  BY DEF Noted
  <2>2. \A force : Twins(Fixed(t.router, anchor, NoHost, force),
                         Fixed(v.router, anchor, NoHost, force), k + 1,
                         Noted(noted, k + 1, Event("fix_route", anchor, NoHost,
                                                   IF force THEN 1 ELSE 0)), results)
    BY <1>7, TwinsFixed
  <2> QED  BY <2>1, <2>2
<1>10. Twins(Resumed(Fixed(t.router, anchor, NoHost, FALSE)),
             Resumed(Fixed(v.router, anchor, NoHost, FALSE)), k, noted, results)
  BY <1>9, TwinsResumed
<1> QED  BY <1>2, <1>3, <1>4, <1>7, <1>8, <1>10 DEF noted, e

(* continue_from_end: the stop, the start and the move are its own.        *)
LEMMA TwinsContinued ==
    ASSUME NEW r, NEW q, NEW k \in Nat, NEW events, NEW results,
           Twins(r, q, k, events, results)
    PROVE  Twins(Continued(r), Continued(q), k,
                 Noted(events, k, Plain("continue_from_end")), results)
<1> DEFINE e == Plain("continue_from_end")
           noted == Noted(events, k, e)
           anchor == AnchorOf(r.engine)
           layer == IF r.engine.session.layer \in Reach[anchor] THEN r.engine.session.layer
                    ELSE Min(Reach[anchor])
           end == r.engine.session.end
           rr == Recorded(r, e)
           qq == Recorded(q, e)
           t == Started(Stopped(Suspended(rr)), "line", anchor, NoHost, layer)
           v == Started(Stopped(Suspended(qq)), "line", anchor, NoHost, layer)
<1>1. r.engine = q.engine  BY DEF Twins
<1>2. Twins(rr, qq, k, noted, results)  BY TwinsRecorded
<1>3. Continued(r) = IF anchor = NoPlace THEN rr
                     ELSE Resumed(IF t.engine.state = "Idle" THEN t ELSE Moved(t, end, NoHost))
  BY DEF Continued
<1>4. Continued(q) = IF anchor = NoPlace THEN qq
                     ELSE Resumed(IF v.engine.state = "Idle" THEN v ELSE Moved(v, end, NoHost))
  BY <1>1 DEF Continued
<1> HIDE DEF rr, qq, e, noted, anchor, layer, end
<1>5. Twins(Suspended(rr), Suspended(qq), k + 1, noted, results)  BY <1>2, TwinsSuspended
<1>6. Twins(Stopped(Suspended(rr)), Stopped(Suspended(qq)), k + 1, noted, results)
  BY <1>5, TwinsStopped DEF Noted
<1>7. Twins(t, v, k + 1, noted, results)  BY <1>6, TwinsStarted DEF Noted
<1> HIDE DEF t, v
<1>8. t.engine = v.engine  BY <1>7 DEF Twins
<1>9. Twins(Moved(t, end, NoHost), Moved(v, end, NoHost), k + 1, noted, results)
  BY <1>7, TwinsMoved DEF Noted
<1>10. Twins(Resumed(t), Resumed(v), k, noted, results)  BY <1>7, TwinsResumed
<1>11. Twins(Resumed(Moved(t, end, NoHost)), Resumed(Moved(v, end, NoHost)), k, noted, results)
  BY <1>9, TwinsResumed
<1> QED  BY <1>2, <1>3, <1>4, <1>8, <1>10, <1>11 DEF noted, e

(* What undo_last_segment does to a router, it does to the engine.         *)
LEMMA RewindsEngine ==
    ASSUME NEW x, x = [field \in {"engine", "log", "answer"} |-> x[field]]
    PROVE  [x EXCEPT !.engine.session.legs = Front(@),
                     !.engine.session.start = Last(x.engine.session.legs).from,
                     !.engine.session.end = Last(x.engine.session.legs).from]
             = [x EXCEPT !.engine =
                 [x.engine EXCEPT !.session.legs = Front(@),
                                  !.session.start = Last(x.engine.session.legs).from,
                                  !.session.end = Last(x.engine.session.legs).from]]
<1> DEFINE legs == Front(x.engine.session.legs)
           from == Last(x.engine.session.legs).from
<1> HIDE DEF legs, from
<1>1. PICK u1, u2, u3 : /\ u1 = [x EXCEPT !.engine.session.legs = legs]
                        /\ u2 = [u1 EXCEPT !.engine.session.start = from]
                        /\ u3 = [u2 EXCEPT !.engine.session.end = from]
  OBVIOUS
<1>2. PICK g1, g2, g3 : /\ g1 = [x.engine EXCEPT !.session.legs = legs]
                        /\ g2 = [g1 EXCEPT !.session.start = from]
                        /\ g3 = [g2 EXCEPT !.session.end = from]
  OBVIOUS
<1>3. u3 = [x EXCEPT !.engine.session.legs = Front(@),
                     !.engine.session.start = Last(x.engine.session.legs).from,
                     !.engine.session.end = Last(x.engine.session.legs).from]
  BY <1>1 DEF legs, from
<1>4. g3 = [x.engine EXCEPT !.session.legs = Front(@),
                            !.session.start = Last(x.engine.session.legs).from,
                            !.session.end = Last(x.engine.session.legs).from]
  BY <1>2 DEF legs, from
<1>5. u1 = [x EXCEPT !.engine = g1] /\ u1.engine = g1  BY <1>1, <1>2
<1>6. u2 = [u1 EXCEPT !.engine = g2] /\ u2.engine = g2  BY <1>1, <1>2, <1>5
<1>7. u3 = [u2 EXCEPT !.engine = g3]  BY <1>1, <1>2, <1>6
<1>8. u3 = [x EXCEPT !.engine = g3]  BY <1>5, <1>6, <1>7
<1> QED  BY <1>3, <1>4, <1>8

LEMMA TwinsUndone ==
    ASSUME NEW r, NEW q, NEW k, NEW events, NEW results,
           Twins(r, q, k, events, results)
    PROVE  Twins(Undone(r), Undone(q), k,
                 Noted(events, k, Plain("undo_last_segment")), results)
<1> DEFINE e == Plain("undo_last_segment")
           none == r.engine.state # "RouteTrack" \/ r.engine.session.legs = <<>>
           g == [r.engine EXCEPT !.session.legs = Front(@),
                                 !.session.start = Last(r.engine.session.legs).from,
                                 !.session.end = Last(r.engine.session.legs).from]
           rr == Recorded(r, e)
           qq == Recorded(q, e)
<1>1. r.engine = q.engine  BY DEF Twins
<1>2. Twins(rr, qq, k, Noted(events, k, e), results) /\ rr.engine = r.engine /\ qq.engine = r.engine
  BY TwinsRecorded
<1>3. Undone(r) = IF none THEN rr
                  ELSE [rr EXCEPT !.engine.session.legs = Front(@),
                                  !.engine.session.start = Last(rr.engine.session.legs).from,
                                  !.engine.session.end = Last(rr.engine.session.legs).from]
  BY <1>2 DEF Undone
<1>4. Undone(q) = IF none THEN qq
                  ELSE [qq EXCEPT !.engine.session.legs = Front(@),
                                  !.engine.session.start = Last(qq.engine.session.legs).from,
                                  !.engine.session.end = Last(qq.engine.session.legs).from]
  BY <1>1, <1>2 DEF Undone
<1> HIDE DEF rr, qq, e, none
<1>5. rr = [field \in {"engine", "log", "answer"} |-> rr[field]]
      /\ qq = [field \in {"engine", "log", "answer"} |-> qq[field]]
  BY <1>2 DEF Twins, IsRouter
<1>6. Undone(r) = IF none THEN rr ELSE [rr EXCEPT !.engine = g]
  BY <1>2, <1>3, <1>5, RewindsEngine
<1>7. Undone(q) = IF none THEN qq ELSE [qq EXCEPT !.engine = g]
  BY <1>2, <1>4, <1>5, RewindsEngine
<1> HIDE DEF g
<1>8. Twins([rr EXCEPT !.engine = g], [qq EXCEPT !.engine = g], k, Noted(events, k, e), results)
  BY <1>2, TwinsEngine
<1> QED  BY <1>2, <1>6, <1>7, <1>8 DEF e

LEMMA TwinsSwitched ==
    ASSUME NEW r, NEW q, NEW k, NEW events, NEW results, NEW layer,
           Twins(r, q, k, events, results)
    PROVE  Twins(Switched(r, layer), Switched(q, layer), k,
                 Noted(events, k, Event("switch_layer", NoPlace, NoHost, layer)), results)
<1> DEFINE e == Event("switch_layer", NoPlace, NoHost, layer)
           g == [r.engine EXCEPT !.session.layer = layer]
           rr == Recorded(r, e)
           qq == Recorded(q, e)
<1>1. r.engine = q.engine  BY DEF Twins
<1>2. Twins(rr, qq, k, Noted(events, k, e), results) /\ rr.engine = r.engine /\ qq.engine = r.engine
  BY TwinsRecorded
<1>3. Switched(r, layer) = IF r.engine.state # "RouteTrack" THEN rr ELSE [rr EXCEPT !.engine = g]
  BY <1>2 DEF Switched, Twins, IsRouter
<1>4. Switched(q, layer) = IF r.engine.state # "RouteTrack" THEN qq ELSE [qq EXCEPT !.engine = g]
  BY <1>1, <1>2 DEF Switched, Twins, IsRouter
<1> HIDE DEF rr, qq, e, g
<1>5. Twins([rr EXCEPT !.engine = g], [qq EXCEPT !.engine = g], k, Noted(events, k, e), results)
  BY <1>2, TwinsEngine
<1> QED  BY <1>2, <1>3, <1>4, <1>5 DEF e

LEMMA TwinsTweaked ==
    ASSUME NEW r, NEW q, NEW k, NEW events, NEW results, NEW tweak,
           Twins(r, q, k, events, results)
    PROVE  Twins(Tweaked(r, tweak), Tweaked(q, tweak), k,
                 Noted(events, k, Plain(tweak)), results)
<1> DEFINE e == Plain(tweak)
           g == [r.engine EXCEPT !.session.tweaks = Toggle(@, tweak)]
           rr == Recorded(r, e)
           qq == Recorded(q, e)
<1>1. r.engine = q.engine  BY DEF Twins
<1>2. Twins(rr, qq, k, Noted(events, k, e), results) /\ rr.engine = r.engine /\ qq.engine = r.engine
  BY TwinsRecorded
<1>3. Tweaked(r, tweak) = IF r.engine.state # (IF tweak = "flip_posture" THEN "RouteTrack" ELSE "TuneSingle") THEN rr ELSE [rr EXCEPT !.engine = g]
  BY <1>2 DEF Tweaked, Twins, IsRouter
<1>4. Tweaked(q, tweak) = IF r.engine.state # (IF tweak = "flip_posture" THEN "RouteTrack" ELSE "TuneSingle") THEN qq ELSE [qq EXCEPT !.engine = g]
  BY <1>1, <1>2 DEF Tweaked, Twins, IsRouter
<1> HIDE DEF rr, qq, e, g
<1>5. Twins([rr EXCEPT !.engine = g], [qq EXCEPT !.engine = g], k, Noted(events, k, e), results)
  BY <1>2, TwinsEngine
<1> QED  BY <1>2, <1>3, <1>4, <1>5 DEF e

LEMMA TwinsSized ==
    ASSUME NEW r, NEW q, NEW k, NEW events, NEW results, NEW sizes,
           Twins(r, q, k, events, results)
    PROVE  Twins(Sized(r, sizes), Sized(q, sizes), k,
                 Noted(events, k, Event("set_sizes", NoPlace, NoHost, sizes)), results)
<1> DEFINE e == Event("set_sizes", NoPlace, NoHost, sizes)
           g == [r.engine EXCEPT !.sizes = sizes,
                !.session.sizes = IF r.engine.session.kind = "pair" THEN sizes ELSE @]
           rr == Recorded(r, e)
           qq == Recorded(q, e)
<1>1. r.engine = q.engine  BY DEF Twins
<1>2. Twins(rr, qq, k, Noted(events, k, e), results) /\ rr.engine = r.engine /\ qq.engine = r.engine
  BY TwinsRecorded
<1>3. Sized(r, sizes) = [rr EXCEPT !.engine = g]
  <2>1. Sized(r, sizes)
          = [rr EXCEPT !.engine.sizes = sizes,
                       !.engine.session.sizes = IF r.engine.session.kind = "pair" THEN sizes ELSE @]
    BY <1>1 DEF Sized
  <2>2. rr.engine = r.engine /\ rr = [field \in {"engine", "log", "answer"} |-> rr[field]]
    BY <1>2 DEF Twins, IsRouter
  <2> HIDE DEF rr, qq, e
  <2>3. [rr EXCEPT !.engine.sizes = sizes,
                   !.engine.session.sizes = IF r.engine.session.kind = "pair" THEN sizes ELSE @]
          = [rr EXCEPT !.engine = g]
    BY <2>2
  <2> HIDE DEF g
  <2> QED  BY <2>1, <2>3
<1>4. Sized(q, sizes) = [qq EXCEPT !.engine = g]
  <2>1. Sized(q, sizes)
          = [qq EXCEPT !.engine.sizes = sizes,
                       !.engine.session.sizes = IF r.engine.session.kind = "pair" THEN sizes ELSE @]
    BY <1>1 DEF Sized
  <2>2. qq.engine = r.engine /\ qq = [field \in {"engine", "log", "answer"} |-> qq[field]]
    BY <1>2 DEF Twins, IsRouter
  <2> HIDE DEF rr, qq, e
  <2>3. [qq EXCEPT !.engine.sizes = sizes,
                   !.engine.session.sizes = IF r.engine.session.kind = "pair" THEN sizes ELSE @]
          = [qq EXCEPT !.engine = g]
    BY <2>2
  <2> HIDE DEF g
  <2> QED  BY <2>1, <2>3
<1> HIDE DEF rr, qq, e, g
<1>5. Twins([rr EXCEPT !.engine = g], [qq EXCEPT !.engine = g], k, Noted(events, k, e), results)
  BY <1>2, TwinsEngine
<1> QED  BY <1>2, <1>3, <1>4, <1>5 DEF e

LEMMA TwinsConfigured ==
    ASSUME NEW r, NEW q, NEW k, NEW events, NEW results, NEW settings,
           Twins(r, q, k, events, results)
    PROVE  Twins(Configured(r, settings), Configured(q, settings), k,
                 Noted(events, k, Event("set_settings", NoPlace, NoHost, settings)), results)
<1> DEFINE e == Event("set_settings", NoPlace, NoHost, settings)
           g == [r.engine EXCEPT !.settings = settings]
           rr == Recorded(r, e)
           qq == Recorded(q, e)
<1>1. r.engine = q.engine  BY DEF Twins
<1>2. Twins(rr, qq, k, Noted(events, k, e), results) /\ rr.engine = r.engine /\ qq.engine = r.engine
  BY TwinsRecorded
<1>3. Configured(r, settings) = [rr EXCEPT !.engine = g]
  BY <1>2 DEF Configured, Twins, IsRouter
<1>4. Configured(q, settings) = [qq EXCEPT !.engine = g]
  BY <1>1, <1>2 DEF Configured, Twins, IsRouter
<1> HIDE DEF rr, qq, e, g
<1>5. Twins([rr EXCEPT !.engine = g], [qq EXCEPT !.engine = g], k, Noted(events, k, e), results)
  BY <1>2, TwinsEngine
<1> QED  BY <1>2, <1>3, <1>4, <1>5 DEF e

LEMMA TwinsAssigned ==
    ASSUME NEW r, NEW q, NEW k, NEW events, NEW results, NEW index, NEW host,
           Twins(r, q, k, events, results)
    PROVE  Twins(Assigned(r, index, host), Assigned(q, index, host), k,
                 Noted(events, k, Event("assign_host_ids", NoPlace, host, index)), results)
<1> DEFINE e == Event("assign_host_ids", NoPlace, host, index)
           g == [r.engine EXCEPT !.shows[host] = r.engine.committed[index]]
           rr == Recorded(r, e)
           qq == Recorded(q, e)
<1>1. r.engine = q.engine  BY DEF Twins
<1>2. Twins(rr, qq, k, Noted(events, k, e), results) /\ rr.engine = r.engine /\ qq.engine = r.engine
  BY TwinsRecorded
<1>3. Assigned(r, index, host) = IF index \notin DOMAIN r.engine.committed THEN rr ELSE [rr EXCEPT !.engine = g]
  BY <1>2 DEF Assigned, Twins, IsRouter
<1>4. Assigned(q, index, host) = IF index \notin DOMAIN r.engine.committed THEN qq ELSE [qq EXCEPT !.engine = g]
  BY <1>1, <1>2 DEF Assigned, Twins, IsRouter
<1> HIDE DEF rr, qq, e, g
<1>5. Twins([rr EXCEPT !.engine = g], [qq EXCEPT !.engine = g], k, Noted(events, k, e), results)
  BY <1>2, TwinsEngine
<1> QED  BY <1>2, <1>3, <1>4, <1>5 DEF e
----------------------------------------------------------------------------
(* A router that has nothing to say is the router over its engine.         *)
LEMMA QuietIsOver ==
    ASSUME NEW q, NEW r, NEW events, NEW results, Twins(r, q, 0, events, results)
    PROVE  [q EXCEPT !.answer = <<>>] = Over(q.engine)
<1>1. q.log = NoLog
  <2>1. q.log = [field \in {"on", "depth", "sizes", "settings", "events", "results"}
                   |-> q.log[field]]
    BY DEF Twins, IsRouter
  <2>2. /\ q.log.on = FALSE /\ q.log.depth = 0
        /\ q.log.sizes = 0 /\ q.log.settings = 0 /\ q.log.events = <<>> /\ q.log.results = <<>>
    BY DEF Twins
  <2> QED  BY <2>1, <2>2 DEF NoLog
<1>2. q = [field \in {"engine", "log", "answer"} |-> q[field]]
  BY DEF Twins, IsRouter
<1> QED  BY <1>1, <1>2 DEF Over

(* Between its calls the recording router and the one over its engine are  *)
(* twins.                                                                  *)
LEMMA RestIsTwins ==
    ASSUME NEW r, IsRouter(r), r.answer = <<>>, r.log.depth = 0, r.log.on = TRUE
    PROVE  Twins(r, Over(r.engine), 0, r.log.events, r.log.results)
<1>1. r.log.results \o <<>> = r.log.results  BY ConcatEmpty DEF IsRouter
<1>2. IsRouter(Over(r.engine))  BY EmptyIsSequence DEF IsRouter, Over, NoLog
<1> QED  BY <1>1, <1>2 DEF Twins, IsRouter, Over, NoLog

(* The call u of the host is the event e.                                  *)
IsCall(u, e) == Twins(u, Apply(Over(router.engine), e), 0,
                      Append(router.log.events, e), router.log.results)
(* Every call of the host is one event, and Apply makes of the event the   *)
(* call it was noted for.                                                  *)
LEMMA HostCallIsCall ==
    ASSUME AtRest, router.log.on,
           \/ StartRouting
           \/ StartPair
           \/ StartTuning
           \/ StartDragging
           \/ MoveTo
           \/ FixRoute
           \/ Finish
           \/ ContinueFromEnd
           \/ UndoLastSegment
           \/ SwitchLayer
           \/ TweakSession
           \/ SetSizes
           \/ SetSettings
           \/ StopRouting
           \/ AbortRouting
           \/ AssignHostIds
    PROVE  \E u, e : Call(u) /\ IsCall(u, e)
<1> DEFINE q == Over(router.engine)
           evs == router.log.events
           res == router.log.results
<1>0. Twins(router, q, 0, evs, res) /\ \A e : Noted(evs, 0, e) = Append(evs, e)
  BY RestIsTwins DEF AtRest, Noted
<1> HIDE DEF q, evs, res
<1>1. CASE StartRouting
  <2>1. PICK w \in StartAt, x \in Host \cup {NoHost} : Call(Started(router, "line", w[1], x, w[2]))
    BY <1>1 DEF StartRouting
  <2>2. StartCall("line") = "start_routing"  BY DEF StartCall
  <2>3. Twins(Started(router, "line", w[1], x, w[2]), Started(q, "line", w[1], x, w[2]), 0,
              Append(evs, Event("start_routing", w[1], x, w[2])), res)
    BY <1>0, <2>2, TwinsStarted
  <2>4. Apply(q, Event("start_routing", w[1], x, w[2])) = Started(q, "line", w[1], x, w[2])
    BY DEF Apply, Event, Tweak
  <2> QED  BY <2>1, <2>3, <2>4 DEF IsCall, q, evs, res
<1>2. CASE StartPair
  <2>1. PICK w \in StartAt, x \in Host : Call(Started(router, "pair", w[1], x, w[2]))
    BY <1>2 DEF StartPair
  <2>2. StartCall("pair") = "start_routing_diff_pair"  BY DEF StartCall
  <2>3. Twins(Started(router, "pair", w[1], x, w[2]), Started(q, "pair", w[1], x, w[2]), 0,
              Append(evs, Event("start_routing_diff_pair", w[1], x, w[2])), res)
    BY <1>0, <2>2, TwinsStarted
  <2>4. Apply(q, Event("start_routing_diff_pair", w[1], x, w[2])) = Started(q, "pair", w[1], x, w[2])
    BY DEF Apply, Event, Tweak
  <2> QED  BY <2>1, <2>3, <2>4 DEF IsCall, q, evs, res
<1>3. CASE StartTuning
  <2>1. PICK w \in StartAt, x \in Host, y \in Knob : Call(Started(router, "tune", w[1], x, y))
    BY <1>3 DEF StartTuning
  <2>2. StartCall("tune") = "start_tuning"  BY DEF StartCall
  <2>3. Twins(Started(router, "tune", w[1], x, y), Started(q, "tune", w[1], x, y), 0,
              Append(evs, Event("start_tuning", w[1], x, y)), res)
    BY <1>0, <2>2, TwinsStarted
  <2>4. Apply(q, Event("start_tuning", w[1], x, y)) = Started(q, "tune", w[1], x, y)
    BY DEF Apply, Event, Tweak
  <2> QED  BY <2>1, <2>3, <2>4 DEF IsCall, q, evs, res
<1>4. CASE StartDragging
  <2>1. PICK w \in StartAt, x \in Host : Call(Started(router, "drag", w[1], x, 0))
    BY <1>4 DEF StartDragging
  <2>2. StartCall("drag") = "start_dragging"  BY DEF StartCall
  <2>3. Twins(Started(router, "drag", w[1], x, 0), Started(q, "drag", w[1], x, 0), 0,
              Append(evs, Event("start_dragging", w[1], x, 0)), res)
    BY <1>0, <2>2, TwinsStarted
  <2>4. Apply(q, Event("start_dragging", w[1], x, 0)) = Started(q, "drag", w[1], x, 0)
    BY DEF Apply, Event, Tweak
  <2> QED  BY <2>1, <2>3, <2>4 DEF IsCall, q, evs, res
<1>5. CASE MoveTo
  <2>1. PICK w \in Place : Call(Moved(router, w, NoHost))
    BY <1>5 DEF MoveTo
  <2>3. Twins(Moved(router, w, NoHost), Moved(q, w, NoHost), 0,
              Append(evs, Event("move_to", w, NoHost, 0)), res)
    BY <1>0, TwinsMoved
  <2>4. Apply(q, Event("move_to", w, NoHost, 0)) = Moved(q, w, NoHost)
    BY DEF Apply, Event, Tweak
  <2> QED  BY <2>1, <2>3, <2>4 DEF IsCall, q, evs, res
<1>6. CASE FixRoute
  <2>1. PICK w \in Place, x \in BOOLEAN : Call(Fixed(router, w, NoHost, x))
    BY <1>6 DEF FixRoute
  <2>3. Twins(Fixed(router, w, NoHost, x), Fixed(q, w, NoHost, x), 0,
              Append(evs, Event("fix_route", w, NoHost, IF x THEN 1 ELSE 0)), res)
    BY <1>0, TwinsFixed
  <2>4. Apply(q, Event("fix_route", w, NoHost, IF x THEN 1 ELSE 0)) = Fixed(q, w, NoHost, x)
    BY DEF Apply, Event, Tweak
  <2> QED  BY <2>1, <2>3, <2>4 DEF IsCall, q, evs, res
<1>7. CASE Finish
  <2>1. Call(Finished(router))  BY <1>7 DEF Finish
  <2>3. Twins(Finished(router), Finished(q), 0,
              Append(evs, Plain("finish")), res)
    BY <1>0, TwinsFinished
  <2>4. Apply(q, Plain("finish")) = Finished(q)
    BY DEF Apply, Event, Plain, Tweak
  <2> QED  BY <2>1, <2>3, <2>4 DEF IsCall, q, evs, res
<1>8. CASE ContinueFromEnd
  <2>1. Call(Continued(router))  BY <1>8 DEF ContinueFromEnd
  <2>3. Twins(Continued(router), Continued(q), 0,
              Append(evs, Plain("continue_from_end")), res)
    BY <1>0, TwinsContinued
  <2>4. Apply(q, Plain("continue_from_end")) = Continued(q)
    BY DEF Apply, Event, Plain, Tweak
  <2> QED  BY <2>1, <2>3, <2>4 DEF IsCall, q, evs, res
<1>9. CASE UndoLastSegment
  <2>1. Call(Undone(router))  BY <1>9 DEF UndoLastSegment
  <2>3. Twins(Undone(router), Undone(q), 0,
              Append(evs, Plain("undo_last_segment")), res)
    BY <1>0, TwinsUndone
  <2>4. Apply(q, Plain("undo_last_segment")) = Undone(q)
    BY DEF Apply, Event, Plain, Tweak
  <2> QED  BY <2>1, <2>3, <2>4 DEF IsCall, q, evs, res
<1>10. CASE SwitchLayer
  <2>1. PICK w \in Layer : Call(Switched(router, w))
    BY <1>10 DEF SwitchLayer
  <2>3. Twins(Switched(router, w), Switched(q, w), 0,
              Append(evs, Event("switch_layer", NoPlace, NoHost, w)), res)
    BY <1>0, TwinsSwitched
  <2>4. Apply(q, Event("switch_layer", NoPlace, NoHost, w)) = Switched(q, w)
    BY DEF Apply, Event, Tweak
  <2> QED  BY <2>1, <2>3, <2>4 DEF IsCall, q, evs, res
<1>11. CASE TweakSession
  <2>1. PICK w \in Tweak : Call(Tweaked(router, w))
    BY <1>11 DEF TweakSession
  <2>3. Twins(Tweaked(router, w), Tweaked(q, w), 0,
              Append(evs, Plain(w)), res)
    BY <1>0, TwinsTweaked
  <2>4. Apply(q, Plain(w)) = Tweaked(q, w)
    BY DEF Apply, Event, Plain, Tweak
  <2> QED  BY <2>1, <2>3, <2>4 DEF IsCall, q, evs, res
<1>12. CASE SetSizes
  <2>1. PICK w \in Knob : Call(Sized(router, w))
    BY <1>12 DEF SetSizes
  <2>3. Twins(Sized(router, w), Sized(q, w), 0,
              Append(evs, Event("set_sizes", NoPlace, NoHost, w)), res)
    BY <1>0, TwinsSized
  <2>4. Apply(q, Event("set_sizes", NoPlace, NoHost, w)) = Sized(q, w)
    BY DEF Apply, Event, Tweak
  <2> QED  BY <2>1, <2>3, <2>4 DEF IsCall, q, evs, res
<1>13. CASE SetSettings
  <2>1. PICK w \in Knob : Call(Configured(router, w))
    BY <1>13 DEF SetSettings
  <2>3. Twins(Configured(router, w), Configured(q, w), 0,
              Append(evs, Event("set_settings", NoPlace, NoHost, w)), res)
    BY <1>0, TwinsConfigured
  <2>4. Apply(q, Event("set_settings", NoPlace, NoHost, w)) = Configured(q, w)
    BY DEF Apply, Event, Tweak
  <2> QED  BY <2>1, <2>3, <2>4 DEF IsCall, q, evs, res
<1>14. CASE StopRouting
  <2>1. Call(Stopped(router))  BY <1>14 DEF StopRouting
  <2>3. Twins(Stopped(router), Stopped(q), 0,
              Append(evs, Plain("stop_routing")), res)
    BY <1>0, TwinsStopped
  <2>4. Apply(q, Plain("stop_routing")) = Stopped(q)
    BY DEF Apply, Event, Plain, Tweak
  <2> QED  BY <2>1, <2>3, <2>4 DEF IsCall, q, evs, res
<1>15. CASE AbortRouting
  <2>1. Call(Aborted(router))  BY <1>15 DEF AbortRouting
  <2>3. Twins(Aborted(router), Aborted(q), 0,
              Append(evs, Plain("abort_routing")), res)
    BY <1>0, TwinsAborted
  <2>4. Apply(q, Plain("abort_routing")) = Aborted(q)
    BY DEF Apply, Event, Plain, Tweak
  <2> QED  BY <2>1, <2>3, <2>4 DEF IsCall, q, evs, res
<1>16. CASE AssignHostIds
  <2>1. PICK w \in 1 .. 2, x \in Host : Call(Assigned(router, w, x))
    BY <1>16 DEF AssignHostIds
  <2>3. Twins(Assigned(router, w, x), Assigned(q, w, x), 0,
              Append(evs, Event("assign_host_ids", NoPlace, x, w)), res)
    BY <1>0, TwinsAssigned
  <2>4. Apply(q, Event("assign_host_ids", NoPlace, x, w)) = Assigned(q, w, x)
    BY DEF Apply, Event, Tweak
  <2> QED  BY <2>1, <2>3, <2>4 DEF IsCall, q, evs, res
<1> QED  BY <1>1, <1>2, <1>3, <1>4, <1>5, <1>6, <1>7, <1>8, <1>9, <1>10, <1>11, <1>12, <1>13, <1>14, <1>15, <1>16
----------------------------------------------------------------------------
LEMMA InitHolds ==
    ASSUME Init
    PROVE  IInv
<1> DEFINE g == Fresh(1, 1)
<1> HIDE DEF g
<1>1. router = [Over(g) EXCEPT !.log.on = TRUE, !.log.sizes = 1, !.log.settings = 1]
  BY DEF Init, g
<1>2. /\ IsRouter(router) /\ router.engine = g /\ router.answer = <<>>
      /\ router.log.on = TRUE /\ router.log.depth = 0
      /\ router.log.sizes = 1 /\ router.log.settings = 1
      /\ router.log.events = <<>> /\ router.log.results = <<>>
  BY <1>1, EmptyIsSequence DEF Over, NoLog, IsRouter
<1>3. /\ trail = <<g>> /\ told = <<>> /\ replayed = <<>> /\ at = 0
      /\ player = Over(Fresh(router.log.sizes, router.log.settings))
  BY <1>2 DEF Init
<1>4. player = Over(g)  BY <1>2, <1>3 DEF g
<1>5. AtRest
  <2>1. Len(<<>>) = 0  OBVIOUS
  <2>2. at \in 0 .. Len(router.log.events)  BY <1>2, <1>3, <2>1
  <2> QED  BY <1>2, <1>3, <2>2 DEF AtRest
<1>6. IsSequence(<<g>>) /\ Last(<<g>>) = g /\ <<g>>[1] = g /\ Len(<<g>>) = 1
  BY DEF IsSequence, ToSet, Last
<1>7. TrailReplays  BY <1>2, <1>3, <1>4, <1>6 DEF TrailReplays
<1>8. HeardReplays
  <2> DEFINE heard == [i \in 0 .. 0 |-> <<>>]
  <2>1. <<>> \in Prefixes(<<>>)  BY DEF Prefixes
  <2>2. heard \in [0 .. 0 -> Prefixes(<<>>)] /\ heard[0] = <<>>  BY <2>1
  <2>3. Answers(heard, trail, <<>>)  BY <2>2 DEF Answers
  <2> HIDE DEF heard
  <2> QED  BY <1>2, <1>3, <2>2, <2>3 DEF HeardReplays
<1> QED  BY <1>5, <1>7, <1>8 DEF IInv

LEMMA PrefixGrows ==
    ASSUME NEW s, NEW d, IsSequence(s), IsSequence(d)
    PROVE  /\ Prefixes(s) \subseteq Prefixes(s \o d)
           /\ s \o d \in Prefixes(s \o d)
           /\ IsSequence(s \o d)
<1> DEFINE S == ToSet(s) \cup ToSet(d)
<1>1. s \in Seq(S) /\ d \in Seq(S)  BY DEF IsSequence
<1>2. IsSequence(s \o d)  BY ConcatIsSequence
<1> HIDE DEF S
<1>3. \A l \in 0 .. Len(s) : SubSeq(s, 1, l) = SubSeq(s \o d, 1, l)  BY <1>1
<1>4. Len(s \o d) = Len(s) + Len(d) /\ Len(s) \in Nat /\ Len(d) \in Nat  BY <1>1
<1>5. SubSeq(s \o d, 1, Len(s \o d)) = s \o d  BY <1>1
<1> QED  BY <1>2, <1>3, <1>4, <1>5 DEF Prefixes

(* A call of the host: the trail and what was heard grow by one.           *)
LEMMA CallKeeps ==
    ASSUME IInv, NEW u, NEW e, Call(u), IsCall(u, e)
    PROVE  IInv'
<1> DEFINE evs == router.log.events
           n == Len(evs)
           p == Apply(Over(router.engine), e)
<1>0. IsRouter(router) /\ router.log.on = TRUE /\ at = 0 /\ IsSequence(evs) /\ n \in Nat
      /\ IsSequence(router.log.results) /\ router.log.results = told
  BY DEF IInv, AtRest, HeardReplays, Call, IsRouter, IsSequence
<1> HIDE DEF n, evs
<1>1. /\ router' = [u EXCEPT !.answer = <<>>] /\ trail' = Append(trail, u.engine)
      /\ told' = told \o u.answer /\ player' = player /\ replayed' = replayed /\ at' = at
  BY DEF Call
<1>2. Twins(u, p, 0, Append(evs, e), told)  BY <1>0 DEF IsCall, evs
<1>3. /\ IsRouter(u) /\ u.engine = p.engine /\ u.answer = p.answer
      /\ u.log.on = TRUE /\ u.log.depth = 0 /\ u.log.events = Append(evs, e)
      /\ u.log.results = told \o u.answer
  BY <1>2 DEF Twins
<1>4. [p EXCEPT !.answer = <<>>] = Over(u.engine)  BY <1>2, <1>3, QuietIsOver
<1>5. /\ IsSequence(Append(evs, e)) /\ Len(Append(evs, e)) = n + 1
      /\ Append(evs, e)[n + 1] = e /\ \A i \in 1 .. n : Append(evs, e)[i] = evs[i]
  BY <1>0, AppendIsSequence DEF n
<1>6. IsSequence(trail) /\ Len(trail) = n + 1 /\ router.engine = Last(trail)
      /\ player = Over(trail[at + 1])
      /\ \A i \in 1 .. n : [Apply(Over(trail[i]), evs[i]) EXCEPT !.answer = <<>>]
                             = Over(trail[i + 1])
  BY <1>0 DEF IInv, TrailReplays, n, evs
<1>7. /\ IsSequence(trail') /\ Len(trail') = n + 2 /\ trail'[n + 2] = u.engine
      /\ \A i \in 1 .. n + 1 : trail'[i] = trail[i]
  <2>0. IsSequence(trail)  BY <1>6
  <2>1. /\ IsSequence(Append(trail, u.engine)) /\ Len(Append(trail, u.engine)) = Len(trail) + 1
        /\ Append(trail, u.engine)[Len(trail) + 1] = u.engine
        /\ \A i \in 1 .. Len(trail) : Append(trail, u.engine)[i] = trail[i]
    BY <2>0, AppendIsSequence
  <2> QED  BY <1>0, <1>1, <1>6, <2>1
<1>8. trail[n + 1] = router.engine  BY <1>0, <1>6 DEF Last
<1>9. /\ IsRouter(router') /\ router'.engine = u.engine /\ router'.answer = <<>>
      /\ router'.log = u.log
  BY <1>1, <1>3, EmptyIsSequence DEF IsRouter
<1> HIDE DEF p
<1>10. AtRest'
  <2>1. at' \in 0 .. Len(router'.log.events)  BY <1>0, <1>1, <1>3, <1>5, <1>9
  <2> QED  BY <1>0, <1>1, <1>3, <1>9, <2>1 DEF AtRest
<1>11. Len(router'.log.events) = n + 1  BY <1>3, <1>5, <1>9
<1>12. TrailReplays'
  <2>1. Last(trail') = u.engine  BY <1>0, <1>7 DEF Last
  <2>2. ASSUME NEW i \in 1 .. n + 1
        PROVE  [Apply(Over(trail'[i]), router'.log.events[i]) EXCEPT !.answer = <<>>]
                 = Over(trail'[i + 1])
    <3>1. CASE i = n + 1
      <4>1. trail'[i] = router.engine /\ router'.log.events[i] = e /\ trail'[i + 1] = u.engine
        BY <1>0, <1>3, <1>5, <1>7, <1>8, <1>9, <3>1
      <4> QED  BY <1>4, <4>1 DEF p
    <3>2. CASE i \in 1 .. n
      <4>1. trail'[i] = trail[i] /\ router'.log.events[i] = evs[i] /\ trail'[i + 1] = trail[i + 1]
        <5>1. i \in 1 .. n + 1 /\ i + 1 \in 1 .. n + 1  BY <1>0, <3>2
        <5> QED  BY <1>3, <1>5, <1>7, <1>9, <3>2, <5>1
      <4> QED  BY <1>6, <4>1, <3>2
    <3> QED  BY <1>0, <3>1, <3>2
  <2>3. player' = Over(trail'[at' + 1])  BY <1>0, <1>1, <1>6, <1>7
  <2>4. Len(trail') = Len(router'.log.events) + 1  BY <1>0, <1>3, <1>5, <1>7, <1>9
  <2> QED  BY <1>7, <1>9, <1>11, <2>1, <2>2, <2>3, <2>4 DEF TrailReplays
<1>13. HeardReplays'
  <2>1. PICK heard \in [0 .. n -> Prefixes(told)] :
          Answers(heard, trail, evs) /\ heard[n] = told /\ heard[at] = replayed
    BY DEF IInv, HeardReplays, evs, n
  <2>2. IsSequence(told) /\ IsSequence(u.answer)  BY <1>0, <1>3 DEF IsRouter
  <2>3. Prefixes(told) \subseteq Prefixes(told') /\ told' \in Prefixes(told')
    BY <1>1, <2>2, PrefixGrows
  <2> DEFINE more == [i \in 0 .. n + 1 |-> IF i = n + 1 THEN told' ELSE heard[i]]
  <2>4. more \in [0 .. n + 1 -> Prefixes(told')]
    BY <1>0, <2>1, <2>3
  <2>5. more[0] = <<>> /\ more[n + 1] = told' /\ more[at'] = replayed'
    BY <1>0, <1>1, <2>1 DEF Answers
  <2>6. ASSUME NEW i \in 1 .. n + 1
        PROVE  more[i] = more[i - 1] \o Apply(Over(trail'[i]), router'.log.events[i]).answer
    <3>1. CASE i = n + 1
      <4>1. trail'[i] = router.engine /\ router'.log.events[i] = e
        BY <1>0, <1>3, <1>5, <1>7, <1>8, <1>9, <3>1
      <4>2. more[i] = told' /\ more[i - 1] = told  BY <1>0, <2>1, <3>1
      <4> HIDE DEF more
      <4> QED  BY <1>1, <1>3, <4>1, <4>2 DEF p
    <3>2. CASE i \in 1 .. n
      <4>1. trail'[i] = trail[i] /\ router'.log.events[i] = evs[i]
        BY <1>0, <1>3, <1>5, <1>7, <1>9, <3>2
      <4>2. more[i] = heard[i] /\ more[i - 1] = heard[i - 1]  BY <1>0, <3>2
      <4> HIDE DEF more
      <4> QED  BY <2>1, <4>1, <4>2, <3>2 DEF Answers, n
    <3> QED  BY <1>0, <3>1, <3>2
  <2> HIDE DEF more
  <2>7. Len(router'.log.events) = n + 1 /\ router'.log.results = told'
    BY <1>1, <1>3, <1>5, <1>9
  <2>8. Answers(more, trail', router'.log.events)  BY <2>5, <2>6, <2>7 DEF Answers
  <2> QED  BY <2>4, <2>5, <2>7, <2>8 DEF HeardReplays
<1> QED  BY <1>10, <1>12, <1>13 DEF IInv

(* take_recording leaves all but the log's switch.                         *)
LEMMA TakeKeeps ==
    ASSUME IInv, Take
    PROVE  IInv'
<1>1. router' = [router EXCEPT !.log.on = FALSE]
      /\ UNCHANGED <<trail, told, player, replayed, at>>
  BY DEF Take
<1>2. IsRouter(router) /\ router.answer = <<>> /\ router.log.depth = 0
  BY DEF IInv, AtRest
<1>3. /\ IsRouter(router') /\ router'.engine = router.engine /\ router'.answer = <<>>
      /\ router'.log.depth = 0 /\ router'.log.on = FALSE
      /\ router'.log.events = router.log.events /\ router'.log.results = router.log.results
  BY <1>1, <1>2 DEF IsRouter
<1>4. AtRest'  BY <1>1, <1>3 DEF IInv, AtRest
<1>5. TrailReplays'  BY <1>1, <1>3 DEF IInv, TrailReplays
<1>6. HeardReplays'  BY <1>1, <1>3 DEF IInv, HeardReplays
<1> QED  BY <1>4, <1>5, <1>6 DEF IInv

(* An event of the replay: the player moves on along the trail.            *)
LEMMA ReplayStepKeeps ==
    ASSUME IInv, ReplayStep
    PROVE  IInv'
<1> DEFINE evs == router.log.events
           n == Len(evs)
           r == Apply(player, evs[at + 1])
<1>1. /\ ~router.log.on /\ at < n /\ at' = at + 1
      /\ player' = [r EXCEPT !.answer = <<>>] /\ replayed' = replayed \o r.answer
      /\ UNCHANGED <<router, trail, told>>
  BY DEF ReplayStep
<1>2. at \in 0 .. n /\ n \in Nat /\ DOMAIN evs = 1 .. n
  BY DEF IInv, AtRest, IsRouter, IsSequence
<1>3. at + 1 \in 1 .. n /\ player = Over(trail[at + 1])
  BY <1>1, <1>2 DEF IInv, TrailReplays
<1>4. player' = Over(trail[at + 2])
  <2>1. [Apply(Over(trail[at + 1]), evs[at + 1]) EXCEPT !.answer = <<>>]
          = Over(trail[(at + 1) + 1])
    BY <1>2, <1>3 DEF IInv, TrailReplays
  <2>2. (at + 1) + 1 = at + 2  BY <1>2
  <2> QED  BY <1>1, <1>3, <2>1, <2>2
<1>5. AtRest'  BY <1>1, <1>2, <1>3 DEF IInv, AtRest
<1>6. TrailReplays'
  <2>1. trail'[at' + 1] = trail[at + 2]  BY <1>1, <1>2
  <2> QED  BY <1>1, <1>4, <2>1 DEF IInv, TrailReplays
<1>7. HeardReplays'
  <2>1. PICK heard \in [0 .. n -> Prefixes(told)] :
          Answers(heard, trail, evs) /\ heard[n] = told /\ heard[at] = replayed
    BY DEF IInv, HeardReplays
  <2>2. heard[at + 1] = heard[(at + 1) - 1] \o Apply(Over(trail[at + 1]), evs[at + 1]).answer
    BY <1>3, <2>1 DEF Answers
  <2>3. heard[at + 1] = replayed'
    <3>1. (at + 1) - 1 = at  BY <1>2
    <3> QED  BY <1>1, <1>3, <2>1, <2>2, <3>1
  <2> QED  BY <1>1, <1>2, <2>1, <2>3 DEF IInv, HeardReplays
<1> QED  BY <1>5, <1>6, <1>7 DEF IInv

(* What is replayed is what was recorded: IInv is an invariant.            *)
THEOREM AnyRecording == Spec => []IInv
<1>1. Init => IInv  BY InitHolds
<1>2. IInv /\ [Next]_vars => IInv'
  <2> SUFFICES ASSUME IInv, [Next]_vars PROVE IInv'
    OBVIOUS
  <2>1. CASE Take  BY <2>1, TakeKeeps
  <2>2. CASE ReplayStep  BY <2>2, ReplayStepKeeps
  <2>3. CASE UNCHANGED vars
    BY <2>3 DEF vars, IInv, AtRest, TrailReplays, HeardReplays
  <2>4. ASSUME StartRouting \/ StartPair \/ StartTuning \/ StartDragging
               \/ MoveTo \/ FixRoute \/ Finish \/ ContinueFromEnd
               \/ UndoLastSegment \/ SwitchLayer \/ TweakSession
               \/ SetSizes \/ SetSettings \/ StopRouting \/ AbortRouting
               \/ AssignHostIds
        PROVE  IInv'
    <3>1. router.log.on
      BY <2>4 DEF Call, StartRouting, StartPair, StartTuning, StartDragging, MoveTo, FixRoute,
         Finish, ContinueFromEnd, UndoLastSegment, SwitchLayer, TweakSession, SetSizes,
         SetSettings, StopRouting, AbortRouting, AssignHostIds
    <3>2. AtRest  BY DEF IInv
    <3>3. PICK u, e : Call(u) /\ IsCall(u, e)  BY <2>4, <3>1, <3>2, HostCallIsCall
    <3> QED  BY <3>3, CallKeeps
  <2> QED  BY <2>1, <2>2, <2>3, <2>4 DEF Next
<1> QED  BY <1>1, <1>2, PTL DEF Spec

(* ReplayFollows: after every event the replaying router has the engine    *)
(* the recorded one had after the call the event was noted for.            *)
THEOREM ReplayFollowsHolds == Spec => []ReplayFollows
<1>1. IInv => ReplayFollows
  BY DEF IInv, AtRest, TrailReplays, ReplayFollows, Over
<1> QED  BY <1>1, AnyRecording, PTL

(* ReplayReproduces: the replay of a whole recording answers the commits   *)
(* that were recorded, which are those the host was told, and ends with    *)
(* the engine the recording ended with.                                    *)
THEOREM ReplayReproducesHolds == Spec => []ReplayReproduces
<1>1. ASSUME IInv PROVE ReplayReproduces
  <2>1. router.log.results = told  BY <1>1 DEF IInv, HeardReplays
  <2>2. ASSUME ~router.log.on, at = Len(router.log.events)
        PROVE  replayed = router.log.results /\ player.engine = router.engine
    <3>1. replayed = told  BY <1>1, <2>2 DEF IInv, HeardReplays
    <3>2. player.engine = trail[Len(trail)]  BY <1>1, <2>2 DEF IInv, TrailReplays, Over
    <3> QED  BY <1>1, <2>1, <3>1, <3>2 DEF IInv, TrailReplays, Last
  <2> QED  BY <2>1, <2>2 DEF ReplayReproduces
<1> QED  BY <1>1, AnyRecording, PTL
=============================================================================
