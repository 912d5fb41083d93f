------------------------------ MODULE ShoveRun ------------------------------
(***************************************************************************)
(* One run of the push and shove (Shove::run, src/src/shove.rs) on its own *)
(* branch: the heads, the line stack, the ranks, the root line index, the  *)
(* optimizer's queue and the effects an iteration hands to the main loop.  *)
(*                                                                         *)
(* A track is the chain between two joints and stands for the one segment  *)
(* it is stored as; a track and every via keep their place in the topology *)
(* whatever is pushed, so the model knows them by number, and the items    *)
(* they are stored as by the number of the item.  Which obstacle is the    *)
(* nearest, which way a line gives way and whether it can are geometry and *)
(* left open: any item of another net may be hit, any handler may give up. *)
(***************************************************************************)
EXTENDS Integers, SequencesExt, FiniteSetsExt

CONSTANTS NHeads,     \* tracks 1..NHeads are the heads of the run, in order
          NTracks,    \* the others are on the board
          NVias,
          End,        \* the via each track's last point sits on, or NoVia
          Net,        \* of every track and via
          HeadVias,   \* vias the heads bring along
          DragVias,   \* vias that may be dragged in place of a head
          Locked,     \* tracks and vias the user locked
          ViaLines,   \* whether lines that end with a via give way themselves
          HeadRank, Promotion,  \* HEAD_RANK, WALKAROUND_RANK_PROMOTION to scale
          MaxIter     \* settings.shove_iteration_limit

HeadTrack == 1..NHeads
Track == 1..NTracks
Via == (NTracks + 1)..(NTracks + NVias)
NoVia == 0
Unranked == -1

(* The items the board starts with: each is stored under its own number.   *)
Board == (Track \ HeadTrack) \cup (Via \ HeadVias)

ASSUME AssumeSizes == /\ {NHeads, NTracks, MaxIter, HeadRank, Promotion} \subseteq Nat \ {0}
                      /\ NVias \in Nat /\ NHeads <= NTracks
                      /\ HeadRank > Promotion /\ Promotion > MaxIter
ASSUME AssumeTopology == /\ End \in [Track -> Via \cup {NoVia}]
                         /\ HeadVias \subseteq {End[h] : h \in HeadTrack} \cap Via
                         /\ DOMAIN Net = Track \cup Via
                         /\ \A t \in Track : End[t] # NoVia => Net[End[t]] = Net[t]
                         /\ \A g, h \in HeadTrack :  \* each head brings its own
                              End[g] = End[h] /\ End[g] \in HeadVias => g = h
                         /\ Locked \subseteq Board /\ DragVias \subseteq Via \ HeadVias
                         /\ ViaLines \in BOOLEAN

VARIABLES node,    \* the world as the run's branch shows it, and all the run keeps
          phase,   \* "heads", "loop", "done" or "failed"
          adding,  \* the head that comes next
          used     \* IterationBudget::used

vars == <<node, phase, adding, used>>

(* "newest" is the root line index: for each entry the item of the line it *)
(* now stands for (new_line); "root" names the entry of an item; "heads"   *)
(* the entries of the heads added so far.  "gone" and "relinked" are       *)
(* history: tracks dragged to nothing, a line stored that had links.       *)

(* A line on the stack.  "chain" is FALSE for a via alone; "via" is the    *)
(* LineVia::Linked item or 0, and it need not be among the links.          *)
NewLine(e) == [track |-> e, net |-> Net[e], chain |-> TRUE, via |-> NoVia,
               links |-> <<>>, rank |-> Unranked]
ViaAlone(v, item, rank) == [track |-> v, net |-> Net[v], chain |-> FALSE,
                            via |-> item, links |-> <<>>, rank |-> rank]

Init == /\ node = [items |-> [e \in Track \cup Via |-> {e} \cap Board],
                   rank |-> [i \in Track \cup Via |-> Unranked],
                   root |-> [i \in Track \cup Via |-> 0],
                   newest |-> <<>>, heads |-> <<>>,
                   stack |-> <<>>, queue |-> {},
                   gone |-> {}, relinked |-> FALSE]
        /\ phase = "heads" /\ adding = 1 /\ used = 0

Shown(s) == UNION {s.items[e] : e \in Track \cup Via}

(* The arena keeps the board's items, hidden in this branch or not; an item*)
(* of the branch's own is freed when it goes.                              *)
InArena(s, i) == i \in Board \cup Shown(s)
IsVia(s, i) == i \in Via \/ \E v \in Via : i \in s.items[v]
Links(l) == ToSet(l.links)

(* Line::rank.                                                             *)
RankOf(s, l) ==
    LET ranks == {s.rank[i] : i \in {k \in Links(l) : InArena(s, k)}}
    IN  IF l.links = <<>> THEN l.rank ELSE IF ranks = {} THEN Unranked ELSE Min(ranks)
----------------------------------------------------------------------------
(* RootLineIndex::find: the first link that is known decides.              *)
RootOf(s, l) ==
    LET known == {k \in DOMAIN l.links : InArena(s, l.links[k]) /\ s.root[l.links[k]] # 0}
    IN  IF known = {} THEN 0 ELSE s.root[l.links[Min(known)]]

(* The sequence f with x at every member of items.                         *)
Marked(f, items, x) ==
    SubSeq([i \in DOMAIN f |-> IF i \in items THEN x ELSE f[i]], 1, Len(f))

Bound(s, items, entry) ==
    [s EXCEPT !.root = Marked(@, {i \in items : InArena(s, i)}, entry)]

(* RootLineIndex::alloc, if the line has no entry yet.                     *)
Touched(s, l) ==
    IF RootOf(s, l) # 0 THEN s
    ELSE Bound([s EXCEPT !.newest = Append(@, 0)], Links(l), Len(s.newest) + 1)
KeyOf(s, l) == IF RootOf(s, l) # 0 THEN RootOf(s, l) ELSE Len(s.newest) + 1

(* Mutant of Pushed: the queue keeps the line's earlier shape.             *)
PushedTwice(s, l) ==
    [Touched(s, l) EXCEPT !.stack = Append(@, l),
                          !.queue = @ \cup {[key |-> KeyOf(s, l), line |-> l]}]

(* Shove::push_line_stack; its callers never push segments without links.  *)
Pushed(s, l) ==
    [Touched(s, l) EXCEPT
        !.stack = Append(@, l),
        !.queue = {q \in @ : q.key # KeyOf(s, l)} \cup {[key |-> KeyOf(s, l), line |-> l]}]

(* Shove::pop_line_stack.                                                  *)
Popped(s) ==
    IF s.stack = <<>> THEN s
    ELSE LET key == RootOf(s, Last(s.stack))
         IN  [s EXCEPT !.stack = Front(@),
                       !.queue = {q \in @ : key = 0 \/ q.key # key}]

(* The places of the vias among the links.                                 *)
LinkedVias(s, l) == {k \in DOMAIN l.links : InArena(s, l.links[k]) /\ IsVia(s, l.links[k])}

(* degrade_to_via_stub: a line whose via is not among its links is left    *)
(* as it is.                                                               *)
Degraded(s, l) ==
    LET vias == LinkedVias(s, l)
        via == l.links[Max(vias)]
    IN  IF vias = {} THEN l ELSE [l EXCEPT !.chain = FALSE, !.via = via, !.links = <<via>>]

(* Mutant of UnwoundLines: the topmost line alone is looked at.            *)
UnwoundTop(s, i) ==
    IF s.stack # <<>> /\ i \in Links(Last(s.stack)) THEN Front(s.stack) ELSE s.stack

(* unwind_action for line l, the next one up: a line that references the   *)
(* item goes, one that ends with a via is reduced to the via.              *)
Restacked(s, i, l, below) ==
    IF i \notin Links(l) THEN Append(below, l)
    ELSE IF l.via # NoVia /\ ~(InArena(s, i) /\ IsVia(s, i)) THEN Append(below, Degraded(s, l))
    ELSE below

(* LineStack::unwind                                                       *)
UnwoundLines(s, i) ==
    LET stays[k \in 0..Len(s.stack)] ==
            IF k = 0 THEN <<>> ELSE Restacked(s, i, s.stack[k], stays[k - 1])
    IN  stays[Len(s.stack)]

(* Shove::unwind_line_stack.  A via leaves the queue alone.                *)
Unwound(s, i) ==
    [s EXCEPT !.stack = UnwoundLines(s, i),
              !.queue = IF InArena(s, i) /\ IsVia(s, i) THEN @
                        ELSE {q \in @ : i \notin Links(q.line)}]

UnwoundAll(s, items) ==
    LET left[k \in 0..Len(items)] == IF k = 0 THEN s ELSE Unwound(left[k - 1], items[k])
    IN  left[Len(items)]
----------------------------------------------------------------------------
Without(s, items) == [s EXCEPT !.items = [e \in DOMAIN @ |-> @[e] \ items]]

(* World::add_line, World::add_via: a new item.                            *)
Stored(s, e, rank) == [s EXCEPT !.items[e] = @ \cup {Len(s.rank) + 1},
                                !.rank = Append(@, rank), !.root = Append(@, 0)]

(* Mutant of OldLinks: the via at the end goes with the line.              *)
OldLinksAll(s, old) == old.links

(* Shove::replace_line keeps the via at the end of the old line, if it is  *)
(* linked, in the node.                                                    *)
OldLinks(s, old) ==
    IF old.via = NoVia \/ LinkedVias(s, old) = {} THEN old.links
    ELSE RemoveAt(old.links, Min(LinkedVias(s, old)))

(* Mutant of RootedAs: always the first head's entry.                      *)
RootedAsFirst(s, old) == 1

(* The entry a replacement is entered under: the old line's.               *)
RootedAs(s, old) == KeyOf(s, old)

(* The tail of ShoveEffect::ReplaceLine: set_rank, then replace_line.  The *)
(* rank reaches the links a new line already has; add_line wants it to     *)
(* have none.                                                              *)
Replaced(s, old, new, rank) ==
    LET was == [old EXCEPT !.links = OldLinks(s, old)]
        entry == RootedAs(s, was)
        ranked == [s EXCEPT !.rank = Marked(@, {i \in Links(new) : InArena(s, i)}, rank)]
        stored == Stored(Without(Touched(ranked, was), Links(was)), new.track, rank)
    IN  [Bound(stored, Links(new) \cup {Len(stored.rank)}, entry)
            EXCEPT !.newest[entry] = Len(stored.rank),
                   !.relinked = @ \/ new.links # <<>>]

(* The new line as replace_line leaves it.                                 *)
Linked(s, new, rank) == [new EXCEPT !.links = Append(@, Len(s.rank) + 1), !.rank = rank]

ReplacedOnTop(s, old, new, rank) ==
    Pushed(Replaced(s, old, new, rank), Linked(s, new, rank))
----------------------------------------------------------------------------
(* World::assemble_line from item i of track t: no via is attached.        *)
Assembled(t, i) == [NewLine(t) EXCEPT !.links = <<i>>]

Attached(s, v) == {t \in Track : End[t] = v /\ s.items[t] # {}}

(* Mutant of Dragged: a track that follows its via is not stacked.         *)
DraggedOnly(s, t, item, rank, unwinds) ==
    Replaced(s, Assembled(t, Min(s.items[t])), NewLine(t), rank)

(* One track of Shove::apply_via_movement that follows its via: stored     *)
(* anew, tied to the via's new item and stacked.                           *)
Dragged(s, t, item, rank, unwinds) ==
    LET after == [Linked(s, NewLine(t), rank) EXCEPT !.via = item, !.links = Append(@, item)]
        swapped == Replaced(s, Assembled(t, Min(s.items[t])), NewLine(t), rank)
    IN  Pushed(IF unwinds THEN UnwoundAll(swapped, after.links) ELSE swapped, after)

(* A track of a moved via: one of zero length goes.                        *)
Followed(s, t, item, collapsed, rank, unwinds) ==
    LET free == IF unwinds THEN UnwoundAll(s, <<Min(s.items[t])>>) ELSE s
    IN  IF t \in collapsed THEN [free EXCEPT !.items[t] = {}, !.gone = @ \cup {t}]
        ELSE Dragged(free, t, item, rank, unwinds)

(* The tracks of Shove::apply_via_movement, after the via, one by one.  A  *)
(* via without tracks is stacked by itself.                                *)
ViaDragged(s, v, item, collapsed, rank, unwinds) ==
    LET drag[t \in 0..NTracks] ==
            IF t = 0 THEN s
            ELSE IF t \in Attached(s, v)
            THEN Followed(drag[t - 1], t, item, collapsed, rank, unwinds)
            ELSE drag[t - 1]
    IN  IF Attached(s, v) = {} THEN Pushed(s, ViaAlone(v, item, rank)) ELSE drag[NTracks]

(* ShoveEffect::MoveVia: unwind the via, replace it under its root entry,  *)
(* take the tracks along.                                                  *)
ViaMoved(s, v, old, collapsed, rank, unwinds) ==
    LET free == IF unwinds THEN Unwound(s, old) ELSE s
        held == [NewLine(v) EXCEPT !.links = <<old>>]
        moved == Stored(Without(Touched(free, held), {old}), v, rank)
        item == Len(moved.rank)
    IN  ViaDragged(Bound(moved, {item}, KeyOf(free, held)), v, item, collapsed, rank, unwinds)

(* Shove::push_or_shove_via goes through: neither the via nor a track that *)
(* would follow it is the user's.  A joint the run locked, or a new place  *)
(* taken by another joint, is among the reasons to give up.                *)
MayMove(s, v) == v \notin Locked /\ Attached(s, v) \cap Locked = {}

(* The outcomes of Shove::on_colliding_via on state s: the via is not in   *)
(* the way after all (a zero force), or it moves.                          *)
ViaPushes(s, v, rank) ==
    {s} \cup UNION {{ViaMoved(s, v, i, collapsed, rank, TRUE) : collapsed \in SUBSET Attached(s, v)} :
                       i \in {j \in s.items[v] : MayMove(s, v)}}
----------------------------------------------------------------------------
Current == Last(node.stack)

(* The tail of one pass of Shove::shove_main_loop whose handler answered Ok*)
(* and left s: the budget is looked at before the stack is.                *)
Iterated(s) ==
    /\ node' = s
    /\ used' = used + 1
    /\ phase' = IF used' >= MaxIter THEN "failed"
                ELSE IF s.stack = <<>> THEN "heads" ELSE "loop"
    /\ UNCHANGED adding

(* The via at the end of a line, if it is one the node shows.              *)
ViaAtEnd(l) == {v \in Via : l.via \in node.items[v]}

(* What a hit of rank r means: a higher rank turns the roles around.       *)
Reverses(r) == r >= 0 /\ r > RankOf(node, Current)

(* Nothing in the way: ShoveEffect::RetireLine.                            *)
Retire == /\ phase = "loop"
          /\ Iterated([node EXCEPT !.stack = Front(@)])

(* The walkaround of on_colliding_solid: the current line is replaced, and *)
(* only then taken off the stack.                                          *)
Walks(s, rank) ==
    LET walked == [Current EXCEPT !.links = <<>>]
    IN  Pushed(Popped(Replaced(s, Current, walked, rank)), Linked(s, walked, rank))

(* Shove::on_colliding_solid for an obstacle of rank r: the via at the end *)
(* of the current line is pushed off the solid, or the line walks around.  *)
Solid(s, r) ==
    \/ \E v \in ViaAtEnd(Current) : \E after \in ViaPushes(s, v, r - 1) : Iterated(after)
    \/ /\ Current.chain
       /\ Current.via = NoVia \/ (ViaLines /\ ViaAtEnd(Current) # {})
       /\ \E rank \in {RankOf(node, Current) + Promotion, RankOf(node, Current) - 1} :
            Iterated(Walks(s, rank))

HitSolid == phase = "loop" /\ Solid(node, Unranked)

(* Shove::on_colliding_segment.                                            *)
HitSegment(t, i) ==
    /\ phase = "loop" /\ i \in node.items[t]
    /\ Net[t] # Current.net /\ ~Reverses(node.rank[i])
    /\ IF t \in Locked THEN Solid(Unwound(node, i), node.rank[i])
       ELSE LET cleared == Unwound(Unwound(node, i), i)
            IN  Iterated(ReplacedOnTop(cleared, Assembled(t, i), NewLine(t),
                                       RankOf(node, Current) - 1))

(* Shove::on_colliding_via with a line as the pusher, and the walk around a*)
(* via that must stay.                                                     *)
HitVia(v, i) ==
    /\ phase = "loop" /\ i \in node.items[v]
    /\ Net[v] # Current.net /\ ~Reverses(node.rank[i])
    /\ \/ \E after \in ViaPushes(Unwound(node, i), v, RankOf(node, Current) - 1) :
            Iterated(after)
       \/ /\ ~MayMove(node, v)
          /\ Solid(Unwound(node, i), node.rank[i])

(* Shove::patch_tadpole_via, on the iteration's copy of the current line.  *)
PatchedLines ==
    LET v == IF Current.chain THEN End[Current.track] ELSE NoVia
    IN  {Current} \cup
        (IF ViaLines /\ Current.via = NoVia /\ v # NoVia
         THEN {[Current EXCEPT !.via = i, !.links = Append(@, i)] : i \in node.items[v]} ELSE {})

(* The line a shove makes of l: it has no links but the via that restore_  *)
(* via puts back, if it is a stored one.                                   *)
GaveWay(l) == [l EXCEPT !.links = IF l.via = NoVia THEN <<>> ELSE <<l.via>>]

(* Shove::reverse_collision with a track: the current line leaves the      *)
(* stack, gives way (or its via does) and the obstacle becomes a pusher.   *)
ReverseSegment(t, i) ==
    LET pusher == Assembled(t, i)
        cleared == Unwound(Popped(Unwound(node, i)), i)
    IN  /\ phase = "loop" /\ i \in node.items[t]
        /\ Net[t] # Current.net /\ Reverses(node.rank[i])
        /\ \E cur \in PatchedLines :
             \/ \E v \in ViaAtEnd(cur) :
                  \E after \in ViaPushes(cleared, v, node.rank[i] + 1) :
                     Iterated(Pushed(after, pusher))
             \/ /\ cur.chain /\ (cur.via = NoVia \/ ViaLines)
                /\ Iterated(Pushed(ReplacedOnTop(cleared, cur, GaveWay(cur), node.rank[i] + 1),
                                   pusher))

(* Shove::reverse_collision with a via: via against via, or Shove::on_     *)
(* reverse_colliding_via, where the current line gives way.                *)
ReverseVia(v, i) ==
    LET hit == Unwound(node, i)
    IN  /\ phase = "loop" /\ i \in node.items[v]
        /\ Net[v] # Current.net /\ Reverses(node.rank[i])
        /\ \E cur \in PatchedLines :
             \/ /\ ViaAtEnd(cur) # {}
                /\ \E rank \in {node.rank[i] + 1, RankOf(node, cur) - 1} :
                     \E after \in ViaPushes(hit, v, rank) : Iterated(after)
             \/ /\ cur.chain /\ (cur.via = NoVia \/ ViaLines)
                /\ Iterated(ReplacedOnTop(UnwoundAll(hit, cur.links \o cur.links),
                                          cur, GaveWay(cur), RankOf(node, cur)))

(* Any handler may find no way: the run fails and its branch is dropped.   *)
GiveUp == /\ phase = "loop"
          /\ phase' = "failed"
          /\ UNCHANGED <<node, adding, used>>
----------------------------------------------------------------------------
(* World::clear_ranks walks the branch's own items.                        *)
Unrank(s) == [s EXCEPT !.rank = Marked(@, Shown(s) \ Board, Unranked)]

(* Shove::add_head_to_node.                                                *)
AddHead ==
    LET h == adding
        v == IF End[h] \in HeadVias THEN End[h] ELSE NoVia
        laid == Stored(Unrank(node), h, HeadRank)
        full == IF v = NoVia THEN laid ELSE Stored(laid, v, HeadRank)
        line == [Linked(Unrank(node), NewLine(h), HeadRank) EXCEPT
                    !.via = IF v = NoVia THEN NoVia ELSE Len(full.rank),
                    !.links = IF v = NoVia THEN @ ELSE Append(@, Len(full.rank))]
        known == Touched(full, line)
    IN  /\ phase = "heads" /\ adding <= NHeads
        /\ node' = Pushed([known EXCEPT !.heads = Append(@, Len(known.newest))], line)
        /\ adding' = adding + 1
        /\ phase' = "loop"
        /\ UNCHANGED used

(* Shove::add_via_head_to_node: the via is pushed as if it were hit, but   *)
(* nothing is unwound.  Its entry is no head's.  A via is dragged alone.   *)
AddViaHead(v, i) ==
    LET bare == Unrank(node)
        known == Touched([bare EXCEPT !.heads = Append(@, 0)], [NewLine(v) EXCEPT !.links = <<i>>])
    IN  /\ phase = "heads" /\ adding = 1
        /\ i \in node.items[v]
        /\ node' \in {known} \cup {ViaMoved(known, v, i, collapsed, 0, FALSE) :
                        collapsed \in IF MayMove(bare, v) THEN SUBSET Attached(bare, v) ELSE {}}
        /\ adding' = NHeads + 1
        /\ phase' = IF node'.stack = <<>> THEN "heads" ELSE "loop"
        /\ UNCHANGED used

(* Shove::run_optimizer: any queued line but the heads may be improved.    *)
Improved(s, l) == Replaced(s, l, [l EXCEPT !.links = <<>>], RankOf(s, l))

Optimized(s, chosen) ==
    LET done[key \in 0..Len(s.newest)] ==
            IF key = 0 THEN s
            ELSE IF \E q \in chosen : q.key = key
            THEN Improved(done[key - 1], (CHOOSE q \in chosen : q.key = key).line)
            ELSE done[key - 1]
    IN  done[Len(s.newest)]

(* Mutant of HeadItems: every item of the branch that belongs to a line.   *)
HeadItemsAny(s) == {i \in Shown(s) \ Board : s.root[i] # 0}

(* Shove::remove_heads looks at the items of the branch alone.             *)
HeadItems(s) == {i \in Shown(s) \ Board : s.root[i] \in ToSet(s.heads) \ {0}}

Finish ==
    LET lines == {q \in node.queue : q.key \notin ToSet(node.heads) /\ q.line.chain}
    IN  /\ phase = "heads" /\ adding > NHeads
        /\ \E chosen \in SUBSET lines :
             LET done == Optimized(node, chosen)
             IN  node' = [Without(done, HeadItems(done)) EXCEPT !.queue = {}]
        /\ phase' = "done"
        /\ UNCHANGED <<adding, used>>

Next == \/ AddHead \/ \E v \in DragVias : \E i \in node.items[v] : AddViaHead(v, i)
        \/ Finish
        \/ Retire \/ HitSolid \/ GiveUp
        \/ \E t \in Track : \E i \in node.items[t] : HitSegment(t, i) \/ ReverseSegment(t, i)
        \/ \E v \in Via : \E i \in node.items[v] : HitVia(v, i) \/ ReverseVia(v, i)

Spec == Init /\ [][Next]_vars
----------------------------------------------------------------------------
Item == 1..Len(node.rank)

TypeOK ==
    /\ DOMAIN node.items = Track \cup Via
    /\ Shown(node) \subseteq Item
    /\ \A d, e \in Track \cup Via : d # e => node.items[d] \cap node.items[e] = {}
    /\ node.rank \in Seq(Int)
    /\ node.root \in [Item -> 0..Len(node.newest)]
    /\ ToSet(node.newest) \subseteq Item \cup {0}
    /\ ToSet(node.heads) \subseteq 0..Len(node.newest) /\ Len(node.heads) < adding
    /\ \A l \in ToSet(node.stack) : l.track \in Track \cup Via /\ Links(l) \cup {l.via} \subseteq Item \cup {0}
    /\ \A q \in node.queue : q.key \in 1..Len(node.newest)
    /\ \A p, q \in node.queue : p.key = q.key => p = q
    /\ phase \in {"heads", "loop", "done", "failed"}
    /\ phase = "loop" => node.stack # <<>>
    /\ adding \in 1..(NHeads + 1) /\ used \in 0..MaxIter

(* No line on the stack refers to an item that is gone from the branch:    *)
(* whoever replaces an item takes the lines that refer to it off.  Nor do  *)
(* two of them refer to one track: it would be pushed for both, the second *)
(* time from a shape it no longer has.  When the optimizer runs it finds   *)
(* every queued line in the branch, or it would bring back a replaced one. *)
StackStands ==
    /\ phase # "failed" =>
         \A k, m \in DOMAIN node.stack :
            /\ Links(node.stack[k]) \subseteq Shown(node)
            /\ k # m => Links(node.stack[k]) \cap Links(node.stack[m]) \subseteq
                            {i \in Item : IsVia(node, i)}
    /\ phase = "heads" => \A q \in node.queue : Links(q.line) \subseteq Shown(node)

(* A run loses nothing and doubles nothing: whatever was pushed how often, *)
(* each track and via is stored once, but for tracks dragged to nothing,   *)
(* and of the heads nothing stays behind.                                  *)
NothingLost ==
    phase = "done" =>
        \A e \in Track \cup Via :
            Cardinality(node.items[e]) =
                IF e \in HeadTrack \cup HeadVias \cup node.gone THEN 0 ELSE 1

(* The line the caller is handed back for a head is the head as the branch *)
(* has it, unless a push of its via left nothing of it: no other line was  *)
(* entered under the head's entry.                                         *)
HeadsReported ==
    phase \in {"heads", "loop"} =>
        \A h \in DOMAIN node.heads :
            node.heads[h] # 0 /\ h \notin node.gone =>
                \/ node.newest[node.heads[h]] = 0
                \/ node.newest[node.heads[h]] \in node.items[h]

(* add_line "needs a line that is not linked yet" (node.rs:2548).          *)
AddsUnlinked == ~node.relinked
=============================================================================
