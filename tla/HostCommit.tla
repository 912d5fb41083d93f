----------------------------- MODULE HostCommit -----------------------------
(***************************************************************************)
(* What a commit tells the host and what the engine remembers of it: the   *)
(* diff of src/src/router.rs, HostIndex of src/src/snapshot.rs and the ids *)
(* the host reports back.  A session is one step here, from the board to   *)
(* the delta its node holds (module LinePlacement has its insides).  The   *)
(* host's own board is kept as the items whose shape each of its objects   *)
(* has.  A list of the index is the set of its items.  Pads, which a       *)
(* component drag moves without the three lists, are left out, so every    *)
(* host object is one track, arc or via.                                   *)
(***************************************************************************)
EXTENDS Integers, FiniteSets

CONSTANTS MaxItem,  \* bound: items made over all sessions; an item is its uid
          Host,     \* ids of the host's objects
          NoHost,
          Prompt    \* does the host name all additions before it starts a session?

Item == 1..MaxItem

ASSUME AssumeHosts == MaxItem \in Nat /\ NoHost \notin Host /\ Prompt \in BOOLEAN

VARIABLES board,      \* the root's items
          source,     \* Item::source
          byItem,     \* HostIndex::by_item, NoHost where it has no entry
          byHost,     \* HostIndex::by_host
          committed,  \* the items of the last diff's additions
          made,       \* items made so far
          shown       \* the host's board: the item each object looks like

vars == <<board, source, byItem, byHost, committed, made, shown>>

HostOrNone == Host \cup {NoHost}

TypeOK == /\ made \in 0..MaxItem
          /\ board \subseteq 1..made
          /\ source \in [Item -> HostOrNone]
          /\ byItem \in [Item -> HostOrNone]
          /\ byHost \in [Host -> SUBSET (1..made)]
          /\ committed \subseteq board
          /\ shown \in [Host -> Item \cup {0}]

Objects == {h \in Host : shown[h] # 0}
Index == [byItem |-> byItem, byHost |-> byHost]

(* Mutants of Entered: the object is listed instead of the item, the item  *)
(* is not filed at all.                                                    *)
EnteredListed(index, items, of) ==
    [index EXCEPT !.byHost = [h \in Host |-> @[h] \cup {i \in items : of[i] = h}]]

(* HostIndex::insert of several items, each under an object of its own.    *)
Entered(index, items, of) ==
    [byItem |-> [i \in Item |-> IF i \in items THEN of[i] ELSE index.byItem[i]],
     byHost |-> [h \in Host |-> index.byHost[h] \cup {i \in items : of[i] = h}]]

(* HostIndex::remove_item of several items: an item goes from the list of  *)
(* the object it is filed under.                                           *)
Forgotten(index, items) ==
    [byItem |-> [i \in Item |-> IF i \in items THEN NoHost ELSE index.byItem[i]],
     byHost |-> [h \in Host |-> {i \in index.byHost[h] :
                                   ~(i \in items /\ index.byItem[i] = h)}]]

(* World::from_snapshot: every object becomes an item.                     *)
Init ==
    /\ made \in Item
    /\ \E of \in [1..made -> Host] :
         /\ \A i, j \in 1..made : of[i] = of[j] => i = j
         /\ source = [i \in Item |-> IF i \in 1..made THEN of[i] ELSE NoHost]
         /\ byHost = [h \in Host |-> {i \in 1..made : of[i] = h}]
         /\ shown = [h \in Host |-> IF \E i \in 1..made : of[i] = h
                                    THEN CHOOSE i \in 1..made : of[i] = h ELSE 0]
    /\ byItem = source
    /\ board = 1..made
    /\ committed = {}
----------------------------------------------------------------------------
(* How many of the items that descend from the same object come before i.  *)
Before(i, items, origin) == Cardinality({j \in items : j < i /\ origin[j] = origin[i]})

(* Mutant of Heir: the index is asked instead of the item.                 *)
HeirFiled(i, r, new, gone, origin) == byItem[r] # NoHost /\ byItem[i] = byItem[r]

(* Router::commit_plan_for takes the removed items in order, and for each  *)
(* the first addition left that descends from the same object: that one is *)
(* an update of it.                                                        *)
Heir(i, r, new, gone, origin) ==
    /\ origin[r] # NoHost /\ origin[i] = origin[r]
    /\ Before(i, new, origin) = Before(r, gone, origin)

(* The lists of the plan; what is neither is an addition.                  *)
Updated(new, gone, origin) == {i \in new : \E r \in gone : Heir(i, r, new, gone, origin)}
Removed(new, gone, origin) ==
    {r \in gone : byItem[r] # NoHost /\ ~\E i \in new : Heir(i, r, new, gone, origin)}

(* Router::stop_routing or Router::commit_drag, with what apply_commit_plan*)
(* does: the node's delta takes out some of the board and adds items that  *)
(* are new or descend from what went.                                      *)
Commit(gone, new, descent) ==
    LET origin == [i \in Item |-> IF i \in new THEN descent[i] ELSE source[i]]
        updated == Updated(new, gone, origin)
        removed == Removed(new, gone, origin)
        index == Entered(Forgotten(Index, removed), updated, origin)
    IN  /\ \A i \in new : descent[i] \in {source[r] : r \in gone} \cup {NoHost}
        /\ board' = (board \ gone) \cup new
        /\ made' = made + Cardinality(new)
        /\ source' = origin
        /\ byItem' = index.byItem /\ byHost' = index.byHost
        /\ committed' = new \ updated
        /\ shown' = [h \in Host |->
             IF \E i \in updated : origin[i] = h THEN CHOOSE i \in updated : origin[i] = h
             ELSE IF \E r \in removed : byItem[r] = h THEN 0
             ELSE shown[h]]

(* Router::assign_host_ids, of any additions of the last commit, in as     *)
(* many calls as the host likes.  The host gives each an id that none of   *)
(* its objects has; what it has named it may only name again.              *)
AssignHostIds(ids) ==
    LET named == DOMAIN ids
        index == Entered(Index, named, ids)
    IN  /\ \A i, j \in named : ids[i] = ids[j] => i = j
        /\ \A i \in named : \/ ids[i] = byItem[i]
                            \/ byItem[i] = NoHost /\ ids[i] \notin Objects
        /\ source' = [i \in Item |-> IF i \in named THEN ids[i] ELSE source[i]]
        /\ byItem' = index.byItem /\ byHost' = index.byHost
        /\ shown' = [h \in Host |-> IF \E i \in named : ids[i] = h
                                    THEN CHOOSE i \in named : ids[i] = h
                                    ELSE shown[h]]
        /\ UNCHANGED <<board, committed, made>>

(* The additions the host has not named.                                   *)
Unanswered == {i \in committed : byItem[i] = NoHost}

Next == \/ /\ Prompt => Unanswered = {}
           /\ \E gone \in SUBSET board, last \in made..MaxItem :
                \E descent \in [made + 1..last -> HostOrNone] :
                    Commit(gone, made + 1..last, descent)
        \/ \E named \in SUBSET committed : \E ids \in [named -> Host] : AssignHostIds(ids)

Spec == Init /\ [][Next]_vars
----------------------------------------------------------------------------
(* The host's board and the engine's are the same, whatever part of the    *)
(* last diff the host has answered: every object looks like the one item   *)
(* the engine has for it, an item that has an object descends from it, and *)
(* a host that is prompt has yet to name only additions of the last diff.  *)
(* The two maps of the index say the same.                                 *)
HostAgrees ==
    /\ \A i \in 1..made, h \in Host : byItem[i] = h <=> i \in byHost[h]
    /\ \A h \in Host : {i \in board : byItem[i] = h} = {shown[h]} \ {0}
    /\ \A i \in board : byItem[i] \in {source[i], NoHost}
    /\ Prompt => \A i \in board : byItem[i] = NoHost => i \in committed

(* What descends from an object keeps it: a commit removes an object from  *)
(* the host's board only when nothing that it added came of it.            *)
IdentityKept ==
    [][\A h \in Objects :
         shown'[h] = 0 => ~\E i \in board' \ board : source'[i] = h]_vars

(* No entry of the index is of an item that is gone.                       *)
NoDeadEntry == \A i \in 1..made : byItem[i] # NoHost => i \in board
----------------------------------------------------------------------------
(* The inductive invariant behind these properties (HostCommitProofs).     *)
(* Whatever the host answers, the two maps say the same and know nothing   *)
(* of items yet to be made, and an item is filed under what it descends    *)
(* from.                                                                   *)
MapsAgree == /\ \A i \in Item, h \in Host : byItem[i] = h <=> i \in byHost[h]
             /\ \A i \in Item : i > made => byItem[i] = NoHost /\ source[i] = NoHost
             /\ \A i \in board : byItem[i] \in {source[i], NoHost}

(* Of what the host has been told, every object looks like the one item    *)
(* the engine has for it.                                                  *)
Told == board \ Unanswered
ToldAgree == /\ \A i \in Told : byItem[i] # NoHost /\ source[i] = byItem[i]
             /\ \A h \in Host, i \in Told : byItem[i] = h <=> shown[h] = i
             /\ \A h \in Objects : shown[h] \in Told

MapInv == TypeOK /\ MapsAgree
IInv == MapInv /\ ToldAgree
=============================================================================
