-------------------------- MODULE HostCommitProofs --------------------------
(***************************************************************************)
(* The host's board is the engine's if the host names what a commit added  *)
(* before the next, and what descends from an object keeps it, for any     *)
(* number of items, objects and sessions.  The fold that pairs removed     *)
(* items with additions counts on no two items of the board descending     *)
(* from the same object, which ToldAgree says: it makes Heir the first     *)
(* descendant.                                                             *)
(***************************************************************************)
EXTENDS HostCommit, FiniteSetTheorems, WellFoundedInduction, TLAPS

(* A set of numbers that is not empty has a least element.                 *)
LEMMA LeastOf ==
  ASSUME NEW S \in SUBSET Nat, S # {}
  PROVE  \E x \in S : \A y \in S : x <= y
<1> DEFINE R == OpToRel(<, Nat)
<1>1. PICK x \in S : \A y \in S : ~(<<y, x>> \in R)
  BY NatLessThanWellFounded, WFMin
<1>2. ASSUME NEW y \in S PROVE x <= y
  <2>1. y < x => <<y, x>> \in R
    BY DEF OpToRel
  <2>2. <<y, x>> \notin R
    BY <1>1
  <2> HIDE DEF R
  <2> QED
    BY <2>1, <2>2
<1> QED
  BY <1>2

LEMMA ItemsAreNat == Item \subseteq Nat
  BY AssumeHosts DEF Item

(* Nothing descends from the same object before the first.                 *)
LEMMA BeforeFirst ==
  ASSUME NEW items \in SUBSET Item, NEW origin, NEW i \in items
  PROVE  /\ Before(i, items, origin) \in Nat
         /\ Before(i, items, origin) = 0
              <=> \A j \in items : origin[j] = origin[i] => i <= j
<1> DEFINE S == {j \in items : j < i /\ origin[j] = origin[i]}
<1>1. IsFiniteSet(Item)
  BY FS_Interval, AssumeHosts DEF Item
<1>2. S \in SUBSET Item
  OBVIOUS
<1>3. IsFiniteSet(S)
  BY <1>1, <1>2, FS_Subset
<1>4. Cardinality(S) \in Nat /\ (Cardinality(S) = 0 <=> S = {})
  BY <1>3, FS_CardinalityType, FS_EmptySet
<1>5. S = {} <=> \A j \in items : origin[j] = origin[i] => i <= j
  <2>1. \A j \in items : j \in Nat /\ i \in Nat
    BY ItemsAreNat
  <2> QED
    BY <2>1
<1> QED
  BY <1>4, <1>5 DEF Before

(* No two items the host has been told of are of the same object, so that  *)
(* the heir of a removed one is the first addition that descends from it.  *)
LEMMA HeirIsFirst ==
  ASSUME IInv, Unanswered = {}, NEW gone \in SUBSET board, NEW new \in SUBSET Item,
         NEW origin, \A i \in gone : origin[i] = source[i],
         NEW r \in gone, NEW i \in new
  PROVE  Heir(i, r, new, gone, origin)
           <=> /\ origin[i] = byItem[r]
               /\ \A j \in new : origin[j] = byItem[r] => i <= j
<1>1. gone \in SUBSET Told /\ gone \in SUBSET Item
  BY AssumeHosts DEF Told, IInv, MapInv, TypeOK, Item
<1>2. byItem[r] \in Host /\ source[r] = byItem[r]
  BY <1>1 DEF IInv, MapInv, ToldAgree, TypeOK, HostOrNone
<1>3. \A j \in gone : origin[j] = origin[r] => j = r
  <2> TAKE j \in gone
  <2>1. source[j] = byItem[j] /\ byItem[j] \in Host
    BY <1>1 DEF IInv, MapInv, ToldAgree, TypeOK, HostOrNone
  <2>2. byItem[j] = byItem[r] => shown[byItem[r]] = j /\ shown[byItem[r]] = r
    BY <1>1, <1>2 DEF IInv, ToldAgree
  <2> QED
    BY <1>2, <2>1, <2>2
<1>4. Before(r, gone, origin) = 0
  BY <1>1, <1>3, BeforeFirst, AssumeHosts DEF Item
<1>5. Before(i, new, origin) = 0
        <=> \A j \in new : origin[j] = origin[i] => i <= j
  BY BeforeFirst
<1>6. origin[r] = byItem[r] /\ origin[r] # NoHost
  BY <1>2, AssumeHosts
<1> QED
  BY <1>4, <1>5, <1>6 DEF Heir

(* What the lists of a plan have in them: one addition for each object     *)
(* that lost an item and has a descendant; the others are removed.         *)
ListsOf(updated, removed, new, gone, origin) ==
  /\ updated \subseteq new /\ removed \subseteq gone
  /\ \A i \in updated : \E r \in gone \ removed : origin[i] = byItem[r]
  /\ \A i, j \in updated : origin[i] = origin[j] => i = j
  /\ \A r \in gone \ removed : \E i \in updated : origin[i] = byItem[r]
  /\ \A r \in removed, i \in new : origin[i] # byItem[r]

LEMMA PlanLists ==
  ASSUME IInv, Unanswered = {}, NEW gone \in SUBSET board, NEW new \in SUBSET Item,
         NEW origin, \A i \in gone : origin[i] = source[i]
  PROVE  ListsOf(Updated(new, gone, origin), Removed(new, gone, origin), new, gone, origin)
<1> DEFINE updated == Updated(new, gone, origin)
           removed == Removed(new, gone, origin)
<1>1. updated \subseteq new /\ removed \subseteq gone
  BY DEF Updated, Removed
<1>2. \A i \in updated : \E r \in gone \ removed : origin[i] = byItem[r]
  <2> TAKE i \in updated
  <2>1. PICK r \in gone : i \in new /\ Heir(i, r, new, gone, origin)
    BY DEF Updated
  <2>2. r \notin removed
    BY <2>1 DEF Removed
  <2>3. origin[i] = byItem[r]
    BY <2>1, HeirIsFirst
  <2> QED
    BY <2>2, <2>3
<1>3. \A i, j \in updated : origin[i] = origin[j] => i = j
  <2> SUFFICES ASSUME NEW i \in updated, NEW j \in updated, origin[i] = origin[j]
               PROVE  i = j
    OBVIOUS
  <2>1. PICK r \in gone : Heir(i, r, new, gone, origin)
    BY DEF Updated
  <2>2. PICK q \in gone : Heir(j, q, new, gone, origin)
    BY DEF Updated
  <2>3. i <= j /\ j <= i
    BY <1>1, <2>1, <2>2, HeirIsFirst
  <2>4. i \in Nat /\ j \in Nat
    BY <1>1, ItemsAreNat
  <2> QED
    BY <2>3, <2>4
<1>4. \A r \in gone \ removed : \E i \in updated : origin[i] = byItem[r]
  <2> TAKE r \in gone \ removed
  <2>1. byItem[r] # NoHost
    BY DEF IInv, ToldAgree, Told
  <2>2. PICK i \in new : Heir(i, r, new, gone, origin)
    BY <2>1 DEF Removed
  <2>3. origin[i] = byItem[r]
    BY <2>2, HeirIsFirst
  <2> QED
    BY <2>2, <2>3 DEF Updated
<1>5. \A r \in removed, i \in new : origin[i] # byItem[r]
  <2> SUFFICES ASSUME NEW r \in removed, NEW i \in new, origin[i] = byItem[r]
               PROVE  FALSE
    OBVIOUS
  <2> DEFINE S == {j \in new : origin[j] = byItem[r]}
  <2>1. S \in SUBSET Nat /\ S # {}
    BY ItemsAreNat
  <2>2. PICK m \in S : \A j \in S : m <= j
    BY <2>1, LeastOf
  <2>3. Heir(m, r, new, gone, origin)
    BY <1>1, <2>2, HeirIsFirst
  <2> QED
    BY <2>2, <2>3 DEF Removed
<1> QED
  BY <1>1, <1>2, <1>3, <1>4, <1>5 DEF ListsOf

(* The host's board is read off the maps.                                  *)
LEMMA InvAgrees == IInv => HostAgrees
<1> SUFFICES ASSUME IInv PROVE HostAgrees
  OBVIOUS
<1>1. \A i \in 1..made : i \in Item
  BY AssumeHosts DEF IInv, MapInv, TypeOK, Item
<1>2. \A i \in 1..made, h \in Host : byItem[i] = h <=> i \in byHost[h]
  BY <1>1 DEF IInv, MapInv, MapsAgree
<1>3. \A i \in board : i \notin Told => byItem[i] = NoHost /\ i \in committed
  BY DEF Told, Unanswered
<1>4. ASSUME NEW h \in Host
      PROVE  {i \in board : byItem[i] = h} = {shown[h]} \ {0}
  <2>1. \A i \in board : i # 0
    BY DEF IInv, MapInv, TypeOK
  <2>2. \A i \in Told : byItem[i] = h <=> shown[h] = i
    BY <1>4 DEF IInv, ToldAgree
  <2>3. \A i \in board : byItem[i] = h => i \in Told
    BY <1>3, AssumeHosts
  <2>4. shown[h] # 0 => shown[h] \in Told
    BY <1>4 DEF IInv, ToldAgree, Objects
  <2>5. Told \subseteq board
    BY DEF Told
  <2> QED
    BY <2>1, <2>2, <2>3, <2>4, <2>5
<1>5. \A i \in board : byItem[i] = NoHost => i \in committed
  BY <1>3 DEF IInv, ToldAgree
<1> QED
  BY <1>2, <1>4, <1>5 DEF HostAgrees, IInv, MapInv, MapsAgree

(* A snapshot gives every object one item.                                 *)
LEMMA SnapshotAgrees == Init => IInv
<1> SUFFICES ASSUME Init PROVE IInv
  OBVIOUS
<1>1. PICK of \in [1..made -> Host] :
         /\ \A i, j \in 1..made : of[i] = of[j] => i = j
         /\ source = [i \in Item |-> IF i \in 1..made THEN of[i] ELSE NoHost]
         /\ byHost = [h \in Host |-> {i \in 1..made : of[i] = h}]
         /\ shown = [h \in Host |-> IF \E i \in 1..made : of[i] = h
                                    THEN CHOOSE i \in 1..made : of[i] = h ELSE 0]
  BY DEF Init
<1>2. made \in Item /\ byItem = source /\ board = 1..made /\ committed = {}
  BY DEF Init
<1>3. 1..made \subseteq Item /\ made \in 0..MaxItem
  BY <1>2, AssumeHosts DEF Item
<1>4. \A i \in 1..made : byItem[i] = of[i]
  BY <1>1, <1>2, <1>3
<1>5. \A h \in Host, i \in 1..made : of[i] = h => shown[h] = i
  BY <1>1
<1>6. \A h \in Host : shown[h] # 0 => shown[h] \in 1..made /\ of[shown[h]] = h
  BY <1>1
<1>7. TypeOK
  <2>1. source \in [Item -> HostOrNone]
    BY <1>1, <1>3 DEF HostOrNone
  <2>2. shown \in [Host -> Item \cup {0}]
    BY <1>1, <1>3, <1>6
  <2>3. byHost \in [Host -> SUBSET (1..made)]
    BY <1>1
  <2> QED
    BY <1>2, <1>3, <2>1, <2>2, <2>3 DEF TypeOK
<1>8. MapsAgree
  <2>1. \A i \in Item : i > made => i \notin 1..made
    BY AssumeHosts, <1>2 DEF Item
  <2> QED
    BY <1>1, <1>2, <1>3, <2>1, AssumeHosts DEF MapsAgree
<1>9. ToldAgree
  <2>1. Told = 1..made
    BY <1>2 DEF Told, Unanswered
  <2>2. \A h \in Host, i \in 1..made : shown[h] = i => of[i] = h
    BY <1>6
  <2> QED
    BY <1>2, <1>3, <1>4, <1>5, <1>6, <2>1, <2>2, AssumeHosts DEF ToldAgree, Objects
<1> QED
  BY <1>7, <1>8, <1>9 DEF IInv, MapInv

(* What a commit leaves in the maps, on the board and on the host's.       *)
CommitOf(updated, removed, new, gone, last, descent) ==
  /\ updated = Updated(new, gone, source') /\ removed = Removed(new, gone, source')
  /\ \A i \in updated : source'[i] \in Host
  /\ made' = last
  /\ board' = (board \ gone) \cup new
  /\ committed' = new \ updated
  /\ source' = [i \in Item |-> IF i \in new THEN descent[i] ELSE source[i]]
  /\ byItem' = [i \in Item |-> IF i \in updated THEN source'[i]
                               ELSE IF i \in removed THEN NoHost ELSE byItem[i]]
  /\ byHost' = [h \in Host |-> {i \in byHost[h] : ~(i \in removed /\ byItem[i] = h)}
                                 \cup {i \in updated : source'[i] = h}]
  /\ shown' = [h \in Host |->
       IF \E i \in updated : source'[i] = h THEN CHOOSE i \in updated : source'[i] = h
       ELSE IF \E r \in removed : byItem[r] = h THEN 0 ELSE shown[h]]

LEMMA CommitShape ==
  ASSUME MapInv, NEW gone \in SUBSET board, NEW last \in made..MaxItem,
         NEW descent \in [made + 1..last -> HostOrNone],
         Commit(gone, made + 1..last, descent)
  PROVE  \E updated \in SUBSET (made + 1..last), removed \in SUBSET gone :
           CommitOf(updated, removed, made + 1..last, gone, last, descent)
<1> DEFINE new == made + 1..last
           origin == [i \in Item |-> IF i \in new THEN descent[i] ELSE source[i]]
           updated == Updated(new, gone, origin)
           removed == Removed(new, gone, origin)
<1>1. made \in Nat /\ last \in Nat /\ made <= last /\ last <= MaxItem
  BY AssumeHosts DEF MapInv, TypeOK
<1>2. new \in SUBSET Item /\ gone \in SUBSET Item /\ gone \cap new = {}
  BY <1>1, AssumeHosts DEF MapInv, TypeOK, Item
<1>3. Cardinality(new) = last - made
  <2>1. made + 1 \in Int /\ last \in Int
    BY <1>1
  <2>2. Cardinality(new) = IF made + 1 > last THEN 0 ELSE last - (made + 1) + 1
    BY <2>1, FS_Interval
  <2> QED
    BY <1>1, <2>2
<1>4. \A i \in updated : origin[i] \in Host
  <2> TAKE i \in updated
  <2>1. PICK r \in gone : i \in new /\ origin[r] # NoHost /\ origin[i] = origin[r]
    BY DEF Updated, Heir
  <2>2. origin[i] \in HostOrNone
    BY <1>2, <2>1
  <2> QED
    BY <2>1, <2>2 DEF HostOrNone
<1>5. /\ source' = origin /\ made' = made + Cardinality(new)
      /\ board' = (board \ gone) \cup new
      /\ committed' = new \ updated
      /\ byItem' = Entered(Forgotten(Index, removed), updated, origin).byItem
      /\ byHost' = Entered(Forgotten(Index, removed), updated, origin).byHost
      /\ shown' = [h \in Host |->
             IF \E i \in updated : origin[i] = h THEN CHOOSE i \in updated : origin[i] = h
             ELSE IF \E r \in removed : byItem[r] = h THEN 0
             ELSE shown[h]]
  BY DEF Commit
<1>6. made' = last
  BY <1>1, <1>3, <1>5
<1>7. updated \in SUBSET new /\ removed \in SUBSET gone
  BY DEF Updated, Removed
<1> HIDE DEF origin, new
<1>8. byItem' = [i \in Item |-> IF i \in updated THEN origin[i]
                                ELSE IF i \in removed THEN NoHost ELSE byItem[i]]
  BY <1>5 DEF Entered, Forgotten, Index
<1>9. byHost' = [h \in Host |-> {i \in byHost[h] : ~(i \in removed /\ byItem[i] = h)}
                                  \cup {i \in updated : origin[i] = h}]
  BY <1>5 DEF Entered, Forgotten, Index
<1>10. updated = Updated(new, gone, source') /\ removed = Removed(new, gone, source')
  BY <1>5
<1> HIDE DEF updated, removed
<1>11. source' = [i \in Item |-> IF i \in new THEN descent[i] ELSE source[i]]
  BY <1>5 DEF origin
<1>12. CommitOf(updated, removed, new, gone, last, descent)
  BY <1>4, <1>5, <1>6, <1>8, <1>9, <1>10, <1>11 DEF CommitOf
<1> QED
  BY <1>7, <1>12 DEF new

(* What a commit adds was not there before.                                *)
FreshItems(new, last) ==
  /\ made \in Nat /\ last \in Nat /\ made <= last /\ last <= MaxItem
  /\ new = made + 1..last
  /\ new \subseteq Item /\ board \subseteq 1..made /\ board \subseteq Item
  /\ 1..made \subseteq 1..last /\ new \subseteq 1..last
  /\ \A i \in new : i > made /\ i \notin 1..made /\ i # 0 /\ byItem[i] = NoHost

LEMMA NewAreFresh ==
  ASSUME MapInv, NEW last \in made..MaxItem
  PROVE  FreshItems(made + 1..last, last)
<1> DEFINE new == made + 1..last
<1>1. made \in Nat /\ last \in Nat /\ made <= last /\ last <= MaxItem
  BY AssumeHosts DEF MapInv, TypeOK
<1>2. /\ new \subseteq Item /\ board \subseteq 1..made /\ board \subseteq Item
      /\ 1..made \subseteq 1..last /\ new \subseteq 1..last
  BY <1>1, AssumeHosts DEF MapInv, TypeOK, Item
<1>3. \A i \in new : i > made /\ i \notin 1..made /\ i # 0
  BY <1>1
<1>4. \A i \in new : byItem[i] = NoHost
  BY <1>2, <1>3 DEF MapInv, MapsAgree
<1> QED
  BY <1>1, <1>2, <1>3, <1>4 DEF FreshItems

(* A commit keeps the two maps in step, whatever the host has answered.    *)
LEMMA CommitMaps ==
  ASSUME MapInv, NEW gone \in SUBSET board, NEW last \in made..MaxItem,
         NEW descent \in [made + 1..last -> HostOrNone],
         Commit(gone, made + 1..last, descent)
  PROVE  MapInv'
<1> DEFINE new == made + 1..last
<1>1. PICK updated \in SUBSET new, removed \in SUBSET gone :
        CommitOf(updated, removed, new, gone, last, descent)
  BY CommitShape
<1>2. FreshItems(new, last)
  BY NewAreFresh
<1> HIDE DEF new
<1>3. \A i \in Item : byItem'[i] = IF i \in updated THEN source'[i]
                                   ELSE IF i \in removed THEN NoHost ELSE byItem[i]
  BY <1>1 DEF CommitOf
<1>4. TypeOK'
  <2>1. made' \in 0..MaxItem /\ board' \subseteq 1..made' /\ committed' \subseteq board'
    BY <1>1, <1>2 DEF CommitOf, FreshItems
  <2>2. source' \in [Item -> HostOrNone]
    BY <1>1 DEF CommitOf, MapInv, TypeOK, new
  <2>3. byItem' \in [Item -> HostOrNone]
    BY <1>1, <2>2 DEF CommitOf, MapInv, TypeOK, HostOrNone
  <2>4. byHost' \in [Host -> SUBSET (1..made')]
    <3>1. made' = last
      BY <1>1 DEF CommitOf
    <3>2. \A h \in Host : byHost[h] \subseteq 1..last
      BY <1>2 DEF MapInv, TypeOK, FreshItems
    <3>3. updated \subseteq 1..last
      BY <1>2 DEF FreshItems
    <3> QED
      BY <1>1, <3>1, <3>2, <3>3 DEF CommitOf
  <2>5. shown' \in [Host -> Item \cup {0}]
    <3>1. \A h \in Host : shown'[h] \in Item \cup {0}
      <4> TAKE h \in Host
      <4>1. CASE \E i \in updated : source'[i] = h
        <5>1. shown'[h] = CHOOSE i \in updated : source'[i] = h
          BY <1>1, <4>1 DEF CommitOf
        <5> QED
          BY <1>2, <4>1, <5>1 DEF FreshItems
      <4>2. CASE \A i \in updated : source'[i] # h
        BY <1>1, <4>2 DEF CommitOf, MapInv, TypeOK
      <4> QED
        BY <4>1, <4>2
    <3> QED
      BY <1>1, <3>1 DEF CommitOf
  <2> QED
    BY <2>1, <2>2, <2>3, <2>4, <2>5 DEF TypeOK
<1>5. \A i \in Item, h \in Host : byItem'[i] = h <=> i \in byHost'[h]
  <2> TAKE i \in Item, h \in Host
  <2>1. i \in byHost'[h] <=> \/ i \in byHost[h] /\ ~(i \in removed /\ byItem[i] = h)
                             \/ i \in updated /\ source'[i] = h
    BY <1>1 DEF CommitOf
  <2>2. byItem[i] = h <=> i \in byHost[h]
    BY DEF MapInv, MapsAgree
  <2>3. CASE i \in updated
    <3>1. byItem[i] = NoHost
      BY <1>2, <2>3 DEF FreshItems
    <3> QED
      BY <1>3, <2>1, <2>2, <2>3, <3>1, AssumeHosts
  <2>4. CASE i \notin updated
    BY <1>3, <2>1, <2>2, <2>4, AssumeHosts
  <2> QED
    BY <2>3, <2>4
<1>6. \A i \in Item : i > made' => byItem'[i] = NoHost /\ source'[i] = NoHost
  <2> TAKE i \in Item
  <2>1. HAVE i > made'
  <2>2. i > made /\ i \notin new /\ i \notin updated /\ i \notin removed
    <3>1. made' = last /\ i \in Nat
      BY <1>1, AssumeHosts DEF CommitOf, Item
    <3>2. \A r \in removed : r \in 1..made
      BY <1>2 DEF FreshItems
    <3> QED
      BY <1>2, <2>1, <3>1, <3>2 DEF FreshItems
  <2> QED
    BY <1>1, <1>3, <2>2 DEF CommitOf, MapInv, MapsAgree
<1>7. \A i \in board' : byItem'[i] \in {source'[i], NoHost}
  <2> TAKE i \in board'
  <2>1. i \in Item /\ (i \in new \/ i \in board \ gone)
    BY <1>1, <1>2 DEF CommitOf, FreshItems
  <2>2. CASE i \in new
    <3>1. i \notin removed /\ byItem[i] = NoHost
      BY <1>2, <2>2 DEF FreshItems
    <3> QED
      BY <1>3, <2>1, <3>1
  <2>3. CASE i \in board \ gone
    <3>1. i \notin new
      BY <1>2, <2>3 DEF FreshItems
    <3>2. source'[i] = source[i] /\ byItem'[i] = byItem[i]
      BY <1>1, <1>3, <2>1, <2>3, <3>1 DEF CommitOf
    <3> QED
      BY <2>3, <3>2 DEF MapInv, MapsAgree
  <2> QED
    BY <2>1, <2>2, <2>3
<1> QED
  BY <1>4, <1>5, <1>6, <1>7 DEF MapInv, MapsAgree

(* A commit after the host has answered leaves it with one object for      *)
(* every item it was told of.                                              *)
LEMMA CommitAgrees ==
  ASSUME IInv, Unanswered = {}, NEW gone \in SUBSET board, NEW last \in made..MaxItem,
         NEW descent \in [made + 1..last -> HostOrNone],
         Commit(gone, made + 1..last, descent)
  PROVE  IInv'
<1> DEFINE new == made + 1..last
<1>0. MapInv /\ ToldAgree
  BY DEF IInv
<1>1. PICK updated \in SUBSET new, removed \in SUBSET gone :
        CommitOf(updated, removed, new, gone, last, descent)
  BY <1>0, CommitShape
<1>2. FreshItems(new, last)
  BY <1>0, NewAreFresh
<1> HIDE DEF new
<1>3. ListsOf(updated, removed, new, gone, source')
  <2>1. \A i \in gone : source'[i] = source[i]
    BY <1>1, <1>2 DEF CommitOf, FreshItems
  <2>2. new \in SUBSET Item
    BY <1>2 DEF FreshItems
  <2>3. ListsOf(Updated(new, gone, source'), Removed(new, gone, source'), new, gone, source')
    BY <2>1, <2>2, PlanLists
  <2> QED
    BY <1>1, <2>3 DEF CommitOf
<1>4. MapInv'
  BY <1>0, CommitMaps DEF new
<1>5. Told = board
  BY DEF Told
<1>6. \A i \in Item : byItem'[i] = IF i \in updated THEN source'[i]
                                   ELSE IF i \in removed THEN NoHost ELSE byItem[i]
  BY <1>1 DEF CommitOf
<1>7. Told' = (board \ gone) \cup updated
  <2>1. \A i \in new \ updated : byItem'[i] = NoHost
    BY <1>2, <1>6 DEF FreshItems
  <2>2. \A i \in updated : byItem'[i] # NoHost
    BY <1>1, <1>2, <1>6, AssumeHosts DEF CommitOf, FreshItems
  <2>3. Unanswered' = new \ updated
    BY <1>1, <2>1 DEF CommitOf, Unanswered
  <2>4. new \cap board = {}
    BY <1>2 DEF FreshItems
  <2> QED
    BY <1>1, <2>3, <2>4 DEF Told, CommitOf
<1>8. \A i \in updated : source'[i] \in Host
  BY <1>1 DEF CommitOf
<1>9. \A h \in Host, i \in updated : source'[i] = h => shown'[h] = i
  <2> TAKE h \in Host, i \in updated
  <2>1. HAVE source'[i] = h
  <2>2. shown'[h] = CHOOSE j \in updated : source'[j] = h
    BY <1>1, <2>1 DEF CommitOf
  <2>3. \A j \in updated : source'[j] = h => j = i
    BY <1>3, <2>1 DEF ListsOf
  <2> QED
    BY <2>1, <2>2, <2>3
<1>10. \A h \in Host : (\A i \in updated : source'[i] # h) =>
          shown'[h] = IF \E r \in removed : byItem[r] = h THEN 0 ELSE shown[h]
  BY <1>1 DEF CommitOf
<1>11. \A i \in board \ gone : byItem'[i] = byItem[i] /\ source'[i] = source[i]
  <2>1. \A i \in board \ gone : i \in Item /\ i \notin new /\ i \notin updated /\ i \notin removed
    BY <1>2 DEF FreshItems
  <2> QED
    BY <1>1, <1>6, <2>1 DEF CommitOf
<1>12. \A i \in Told' : byItem'[i] # NoHost /\ source'[i] = byItem'[i]
  <2> TAKE i \in Told'
  <2>1. CASE i \in updated
    BY <1>2, <1>6, <1>8, <2>1, AssumeHosts DEF FreshItems
  <2>2. CASE i \in board \ gone
    BY <1>5, <1>11, <2>2 DEF IInv, ToldAgree
  <2> QED
    BY <1>7, <2>1, <2>2
<1>13. \A h \in Host : (\A i \in updated : source'[i] # h) =>
        /\ \A i \in board \ gone : byItem[i] = h => shown'[h] = i
        /\ shown'[h] # 0 => shown'[h] = shown[h] /\ shown[h] \in board \ gone
  <2> TAKE h \in Host
  <2>1. HAVE \A i \in updated : source'[i] # h
  <2>2. \A r \in gone : byItem[r] = h => r \in removed
    BY <1>3, <2>1 DEF ListsOf
  <2>3. \A i \in board : byItem[i] = h <=> shown[h] = i
    BY <1>5 DEF IInv, ToldAgree
  <2>4. shown[h] # 0 => shown[h] \in board
    BY <1>5 DEF IInv, ToldAgree, Objects
  <2> QED
    BY <1>10, <2>1, <2>2, <2>3, <2>4
<1>14. ASSUME NEW h \in Host, NEW i \in Told' PROVE byItem'[i] = h <=> shown'[h] = i
  <2>1. CASE \E u \in updated : source'[u] = h
    <3>1. PICK u \in updated : source'[u] = h
      BY <2>1
    <3>2. shown'[h] = u
      BY <1>9, <3>1
    <3>3. PICK r \in gone : byItem[r] = h
      BY <1>3, <3>1 DEF ListsOf
    <3>4. \A j \in board \ gone : byItem[j] # h
      <4>1. shown[h] = r
        BY <1>5, <3>3 DEF IInv, ToldAgree
      <4>2. \A j \in board : byItem[j] = h => shown[h] = j
        BY <1>5 DEF IInv, ToldAgree
      <4> QED
        BY <4>1, <4>2
    <3>5. \A j \in updated : source'[j] = h => j = u
      BY <1>3, <3>1 DEF ListsOf
    <3>6. \A j \in updated : byItem'[j] = source'[j]
      BY <1>2, <1>6 DEF FreshItems
    <3>7. u \notin board
      BY <1>2 DEF FreshItems
    <3> QED
      BY <1>7, <1>11, <3>1, <3>2, <3>4, <3>5, <3>6, <3>7
  <2>2. CASE \A u \in updated : source'[u] # h
    <3>1. CASE i \in updated
      <4>1. byItem'[i] = source'[i] /\ i \notin board /\ i # 0
        BY <1>2, <1>6, <3>1 DEF FreshItems
      <4>2. shown'[h] # i
        BY <1>13, <2>2, <4>1
      <4> QED
        BY <2>2, <3>1, <4>1, <4>2
    <3>2. CASE i \in board \ gone
      <4>1. i # 0
        BY <1>2, <3>2 DEF FreshItems
      <4>2. shown[h] = i => byItem[i] = h
        BY <1>5, <3>2 DEF IInv, ToldAgree
      <4> QED
        BY <1>11, <1>13, <2>2, <3>2, <4>1, <4>2
    <3> QED
      BY <1>7, <3>1, <3>2
  <2> QED
    BY <2>1, <2>2
<1>15. \A h \in Host : shown'[h] # 0 => shown'[h] \in Told'
  <2> TAKE h \in Host
  <2>1. CASE \E u \in updated : source'[u] = h
    BY <1>7, <1>9, <2>1
  <2>2. CASE \A u \in updated : source'[u] # h
    BY <1>7, <1>13, <2>2
  <2> QED
    BY <2>1, <2>2
<1> QED
  BY <1>4, <1>12, <1>14, <1>15 DEF IInv, ToldAgree, Objects

(* What an answer changes, in terms of the items it names.                 *)
AnswerOf(named, ids) ==
  /\ committed' = committed /\ board' = board /\ made' = made
  /\ \A i, j \in named : ids[i] = ids[j] => i = j
  /\ \A i \in named : \/ ids[i] = byItem[i]
                      \/ byItem[i] = NoHost /\ ids[i] \notin Objects
  /\ source' = [i \in Item |-> IF i \in named THEN ids[i] ELSE source[i]]
  /\ byItem' = [i \in Item |-> IF i \in named THEN ids[i] ELSE byItem[i]]
  /\ byHost' = [h \in Host |-> byHost[h] \cup {i \in named : ids[i] = h}]
  /\ shown' = [h \in Host |-> IF \E i \in named : ids[i] = h
                              THEN CHOOSE i \in named : ids[i] = h
                              ELSE shown[h]]
  /\ made \in Nat /\ made <= MaxItem
  /\ named \subseteq committed /\ committed \subseteq board
  /\ board \subseteq 1..made /\ board \subseteq Item

LEMMA AnswerShape ==
  ASSUME MapInv, NEW named \in SUBSET committed, NEW ids \in [named -> Host],
         AssignHostIds(ids)
  PROVE  AnswerOf(named, ids)
<1>1. DOMAIN ids = named
  OBVIOUS
<1>2. /\ made \in Nat /\ made <= MaxItem
      /\ named \subseteq committed /\ committed \subseteq board
      /\ board \subseteq 1..made /\ board \subseteq Item
  BY AssumeHosts DEF MapInv, TypeOK, Item
<1>3. byItem' = [i \in Item |-> IF i \in named THEN ids[i] ELSE byItem[i]]
  BY <1>1 DEF AssignHostIds, Entered, Index
<1>4. byHost' = [h \in Host |-> byHost[h] \cup {i \in named : ids[i] = h}]
  BY <1>1 DEF AssignHostIds, Entered, Index
<1>5. /\ committed' = committed /\ board' = board /\ made' = made
      /\ \A i, j \in named : ids[i] = ids[j] => i = j
      /\ \A i \in named : \/ ids[i] = byItem[i]
                          \/ byItem[i] = NoHost /\ ids[i] \notin Objects
      /\ source' = [i \in Item |-> IF i \in named THEN ids[i] ELSE source[i]]
      /\ shown' = [h \in Host |-> IF \E i \in named : ids[i] = h
                                  THEN CHOOSE i \in named : ids[i] = h
                                  ELSE shown[h]]
  BY <1>1 DEF AssignHostIds
<1> QED
  BY <1>2, <1>3, <1>4, <1>5 DEF AnswerOf

(* The ids a host reports back enter both maps.                            *)
LEMMA AssignMaps ==
  ASSUME MapInv, NEW named \in SUBSET committed, NEW ids \in [named -> Host],
         AssignHostIds(ids)
  PROVE  MapInv'
<1>1. AnswerOf(named, ids)
  BY AnswerShape
<1>2. \A i \in Item : byItem'[i] = IF i \in named THEN ids[i] ELSE byItem[i]
  BY <1>1 DEF AnswerOf
<1>3. \A i \in Item : source'[i] = IF i \in named THEN ids[i] ELSE source[i]
  BY <1>1 DEF AnswerOf
<1>4. TypeOK'
  <2>1. source' \in [Item -> HostOrNone] /\ byItem' \in [Item -> HostOrNone]
    BY <1>1 DEF AnswerOf, MapInv, TypeOK, HostOrNone
  <2>2. byHost' \in [Host -> SUBSET (1..made')]
    BY <1>1 DEF AnswerOf, MapInv, TypeOK
  <2>3. \A h \in Host : shown'[h] \in Item \cup {0}
    <3> TAKE h \in Host
    <3>1. CASE \E i \in named : ids[i] = h
      <4>1. shown'[h] = CHOOSE i \in named : ids[i] = h
        BY <1>1, <3>1 DEF AnswerOf
      <4> QED
        BY <1>1, <3>1, <4>1 DEF AnswerOf
    <3>2. CASE \A i \in named : ids[i] # h
      BY <1>1, <3>2 DEF AnswerOf, MapInv, TypeOK
    <3> QED
      BY <3>1, <3>2
  <2>4. shown' \in [Host -> Item \cup {0}]
    BY <1>1, <2>3 DEF AnswerOf
  <2>5. made' \in 0..MaxItem /\ board' \subseteq 1..made' /\ committed' \subseteq board'
    BY <1>1 DEF AnswerOf, MapInv, TypeOK
  <2> QED
    BY <2>1, <2>2, <2>4, <2>5 DEF TypeOK
<1>5. \A i \in Item, h \in Host : byItem'[i] = h <=> i \in byHost'[h]
  <2> TAKE i \in Item, h \in Host
  <2>1. i \in byHost'[h] <=> i \in byHost[h] \/ (i \in named /\ ids[i] = h)
    BY <1>1 DEF AnswerOf
  <2>2. byItem[i] = h <=> i \in byHost[h]
    BY DEF MapInv, MapsAgree
  <2>3. i \in named => byItem[i] \in {NoHost, ids[i]}
    BY <1>1 DEF AnswerOf
  <2>4. CASE i \in named
    BY <1>2, <2>1, <2>2, <2>3, <2>4, AssumeHosts
  <2>5. CASE i \notin named
    BY <1>2, <2>1, <2>2, <2>5
  <2> QED
    BY <2>4, <2>5
<1>6. \A i \in Item : i > made' => byItem'[i] = NoHost /\ source'[i] = NoHost
  <2> TAKE i \in Item
  <2>1. HAVE i > made'
  <2>2. i \in Nat /\ made' = made /\ made \in Nat /\ named \subseteq 1..made
    BY <1>1, ItemsAreNat DEF AnswerOf
  <2>3. i > made /\ i \notin named
    BY <2>1, <2>2
  <2> QED
    BY <1>2, <1>3, <2>3 DEF MapInv, MapsAgree
<1>7. \A i \in board' : byItem'[i] \in {source'[i], NoHost}
  BY <1>1, <1>2, <1>3 DEF AnswerOf, MapInv, MapsAgree
<1> QED
  BY <1>4, <1>5, <1>6, <1>7 DEF MapInv, MapsAgree

(* They file every addition under the object that looks like it.           *)
LEMMA AssignAgrees ==
  ASSUME IInv, NEW named \in SUBSET committed, NEW ids \in [named -> Host],
         AssignHostIds(ids)
  PROVE  IInv'
<1>0. MapInv /\ ToldAgree
  BY DEF IInv
<1>1. AnswerOf(named, ids)
  BY <1>0, AnswerShape
<1>2. MapInv'
  BY <1>0, AssignMaps
<1>3. \A i \in board : byItem'[i] = IF i \in named THEN ids[i] ELSE byItem[i]
  BY <1>1 DEF AnswerOf
<1>4. Told \subseteq board /\ Told' = Told \cup named
  <2>1. \A i \in named : ids[i] # NoHost
    BY AssumeHosts
  <2>2. Unanswered' = Unanswered \ named
    BY <1>1, <1>3, <2>1 DEF AnswerOf, Unanswered
  <2> QED
    BY <1>1, <2>2 DEF AnswerOf, Told
<1>5. \A i \in named : byItem[i] # NoHost => i \in Told
  BY <1>1 DEF AnswerOf, Told, Unanswered
<1>6. ASSUME NEW h \in Host, NEW i \in named, ids[i] = h
      PROVE  shown'[h] = i /\ shown[h] \in {0, i}
  <2>1. shown'[h] = CHOOSE j \in named : ids[j] = h
    BY <1>1, <1>6 DEF AnswerOf
  <2>2. \A j \in named : ids[j] = h => j = i
    BY <1>1, <1>6 DEF AnswerOf
  <2>3. CASE byItem[i] = NoHost /\ h \notin Objects
    BY <1>6, <2>1, <2>2, <2>3 DEF Objects
  <2>4. CASE byItem[i] = h
    <3>1. i \in Told
      BY <1>5, <1>6, <2>4, AssumeHosts
    <3>2. shown[h] = i
      BY <1>0, <2>4, <3>1 DEF ToldAgree
    <3> QED
      BY <1>6, <2>1, <2>2, <3>2
  <2> QED
    BY <1>1, <1>6, <2>3, <2>4 DEF AnswerOf
<1>7. \A h \in Host : (\A i \in named : ids[i] # h) => shown'[h] = shown[h]
  BY <1>1 DEF AnswerOf
<1>8. \A i \in Told' : byItem'[i] # NoHost /\ source'[i] = byItem'[i]
  <2>1. \A i \in named : ids[i] # NoHost
    BY AssumeHosts
  <2> QED
    BY <1>0, <1>1, <1>3, <1>4, <2>1 DEF AnswerOf, ToldAgree
<1>9. ASSUME NEW h \in Host, NEW i \in Told' PROVE byItem'[i] = h <=> shown'[h] = i
  <2>1. i \in board /\ i # 0
    BY <1>1, <1>4 DEF AnswerOf
  <2>2. CASE i \in named
    <3>1. byItem'[i] = ids[i]
      BY <1>3, <2>1, <2>2
    <3>2. CASE ids[i] = h
      BY <1>6, <2>2, <3>1, <3>2
    <3>3. CASE ids[i] # h
      <4>1. ASSUME NEW j \in named, ids[j] = h PROVE shown'[h] # i
        BY <1>6, <3>3, <4>1
      <4>2. ASSUME \A j \in named : ids[j] # h PROVE shown'[h] # i
        <5>1. shown'[h] = shown[h]
          BY <1>7, <4>2
        <5>2. shown[h] = i => i \in Told
          BY <1>0, <2>1 DEF ToldAgree, Objects
        <5>3. i \in Told => (byItem[i] = h <=> shown[h] = i)
          BY <1>0 DEF ToldAgree
        <5>4. i \in Told => byItem[i] = ids[i]
          BY <1>0, <1>1, <2>2 DEF ToldAgree, AnswerOf
        <5> QED
          BY <3>3, <5>1, <5>2, <5>3, <5>4
      <4> QED
        BY <3>1, <3>3, <4>1, <4>2
    <3> QED
      BY <3>2, <3>3
  <2>3. CASE i \notin named
    <3>1. byItem'[i] = byItem[i] /\ i \in Told
      BY <1>3, <1>4, <2>1, <2>3
    <3>2. byItem[i] = h <=> shown[h] = i
      BY <1>0, <3>1 DEF ToldAgree
    <3>3. CASE \E j \in named : ids[j] = h
      <4>1. PICK j \in named : ids[j] = h
        BY <3>3
      <4>2. shown'[h] = j /\ shown[h] \in {0, j} /\ j # i
        BY <1>6, <2>3, <4>1
      <4> QED
        BY <2>1, <3>1, <3>2, <4>2
    <3>4. CASE \A j \in named : ids[j] # h
      BY <1>7, <3>1, <3>2, <3>4
    <3> QED
      BY <3>3, <3>4
  <2> QED
    BY <2>2, <2>3
<1>10. \A h \in Host : shown'[h] # 0 => shown'[h] \in Told'
  <2> TAKE h \in Host
  <2>1. CASE \E j \in named : ids[j] = h
    BY <1>4, <1>6, <2>1
  <2>2. CASE \A j \in named : ids[j] # h
    BY <1>0, <1>4, <1>7, <2>2 DEF ToldAgree, Objects
  <2> QED
    BY <2>1, <2>2
<1> QED
  BY <1>2, <1>8, <1>9, <1>10 DEF IInv, ToldAgree, Objects

(* A commit takes from the host only objects nothing descends from: the    *)
(* first descendant is paired with the first item that goes.               *)
LEMMA CommitKeepsIdentity ==
  ASSUME MapInv, NEW gone \in SUBSET board, NEW last \in made..MaxItem,
         NEW descent \in [made + 1..last -> HostOrNone],
         Commit(gone, made + 1..last, descent),
         NEW h \in Objects, shown'[h] = 0, NEW i \in board' \ board
  PROVE  source'[i] # h
<1> DEFINE new == made + 1..last
<1>1. PICK updated \in SUBSET new, removed \in SUBSET gone :
        CommitOf(updated, removed, new, gone, last, descent)
  BY CommitShape
<1>2. FreshItems(new, last)
  BY NewAreFresh
<1> HIDE DEF new
<1>3. i \in new /\ h \in Host /\ shown[h] # 0
  BY <1>1 DEF CommitOf, Objects
<1>4. \A u \in updated : source'[u] # h
  <2> SUFFICES ASSUME \E u \in updated : source'[u] = h PROVE FALSE
    OBVIOUS
  <2>1. shown'[h] = CHOOSE u \in updated : source'[u] = h
    BY <1>1, <1>3 DEF CommitOf
  <2>2. shown'[h] \in updated
    BY <2>1
  <2> QED
    BY <1>2, <2>2 DEF FreshItems
<1>5. PICK r \in removed : byItem[r] = h
  BY <1>1, <1>3, <1>4 DEF CommitOf
<1>6. r \in gone /\ source'[r] = h
  <2>1. r \in board /\ r \in Item /\ r \notin new
    BY <1>2 DEF FreshItems
  <2>2. source[r] = h
    BY <1>3, <1>5, <2>1, AssumeHosts DEF MapInv, MapsAgree
  <2> QED
    BY <1>1, <2>1, <2>2 DEF CommitOf
<1>7. SUFFICES ASSUME source'[i] = h PROVE FALSE
  OBVIOUS
<1>8. new \in SUBSET Item /\ gone \in SUBSET Item
  BY <1>2 DEF FreshItems
<1>9. PICK m \in new : source'[m] = h /\ \A j \in new : source'[j] = h => m <= j
  <2> DEFINE S == {j \in new : source'[j] = h}
  <2>1. S \in SUBSET Nat /\ S # {}
    BY <1>3, <1>7, <1>8, ItemsAreNat
  <2>2. PICK m \in S : \A j \in S : m <= j
    BY <2>1, LeastOf
  <2> QED
    BY <2>2
<1>10. PICK g \in gone : source'[g] = h /\ \A j \in gone : source'[j] = h => g <= j
  <2> DEFINE S == {j \in gone : source'[j] = h}
  <2>1. S \in SUBSET Nat /\ S # {}
    BY <1>6, <1>8, ItemsAreNat
  <2>2. PICK g \in S : \A j \in S : g <= j
    BY <2>1, LeastOf
  <2> QED
    BY <2>2
<1>11. Before(m, new, source') = 0 /\ Before(g, gone, source') = 0
  BY <1>8, <1>9, <1>10, BeforeFirst
<1>12. Heir(m, g, new, gone, source')
  BY <1>3, <1>9, <1>10, <1>11, AssumeHosts DEF Heir
<1>13. m \in updated
  BY <1>1, <1>12 DEF CommitOf, Updated
<1> QED
  BY <1>4, <1>9, <1>13

(* The host answers with objects it shows.                                 *)
LEMMA AssignKeepsIdentity ==
  ASSUME NEW ids, AssignHostIds(ids)
  PROVE  board' \ board = {}
BY DEF AssignHostIds

(* Every step keeps the maps in step; and the whole invariant, if the host *)
(* answers before it goes on.                                              *)
LEMMA MapsStep == MapInv /\ [Next]_vars => MapInv'
<1> SUFFICES ASSUME MapInv, [Next]_vars PROVE MapInv'
  OBVIOUS
<1>1. ASSUME NEW gone \in SUBSET board, NEW last \in made..MaxItem,
             NEW descent \in [made + 1..last -> HostOrNone],
             Commit(gone, made + 1..last, descent)
      PROVE  MapInv'
  BY <1>1, CommitMaps
<1>2. ASSUME NEW named \in SUBSET committed, NEW ids \in [named -> Host], AssignHostIds(ids)
      PROVE  MapInv'
  BY <1>2, AssignMaps
<1>3. CASE UNCHANGED vars
  BY <1>3 DEF vars, MapInv, TypeOK, MapsAgree
<1> QED
  BY <1>1, <1>2, <1>3 DEF Next

LEMMA StepAgrees == Prompt /\ IInv /\ [Next]_vars => IInv'
<1> SUFFICES ASSUME Prompt, IInv, [Next]_vars PROVE IInv'
  OBVIOUS
<1>1. ASSUME Unanswered = {}, NEW gone \in SUBSET board, NEW last \in made..MaxItem,
             NEW descent \in [made + 1..last -> HostOrNone],
             Commit(gone, made + 1..last, descent)
      PROVE  IInv'
  BY <1>1, CommitAgrees
<1>2. ASSUME NEW named \in SUBSET committed, NEW ids \in [named -> Host], AssignHostIds(ids)
      PROVE  IInv'
  BY <1>2, AssignAgrees
<1>3. CASE UNCHANGED vars
  BY <1>3 DEF vars, IInv, MapInv, TypeOK, MapsAgree, ToldAgree, Told, Unanswered, Objects
<1> QED
  BY <1>1, <1>2, <1>3 DEF Next

(* The two maps of HostIndex say the same, and know an item by the object  *)
(* it descends from, whether the host has answered or not.                 *)
THEOREM IndexInvariant == Spec => []MapInv
<1>1. Init => MapInv
  BY SnapshotAgrees DEF IInv
<1>2. MapInv /\ [Next]_vars => MapInv'
  BY MapsStep
<1> QED
  BY <1>1, <1>2, PTL DEF Spec

(* The board and the host's, as far as it was told, stay in step           *)
(* (apply_commit_plan, assign_host_ids) when the host names the additions  *)
(* of a diff, in however many calls, before it starts another session.     *)
THEOREM PromptInvariant == Prompt => (Spec => []IInv)
<1> SUFFICES ASSUME Prompt PROVE Spec => []IInv
  OBVIOUS
<1>1. Init => IInv
  BY SnapshotAgrees
<1>2. IInv /\ [Next]_vars => IInv'
  BY StepAgrees
<1> QED
  BY <1>1, <1>2, PTL DEF Spec

(* Such a host's board is the engine's at any time.                        *)
THEOREM HostAgreesHolds == Prompt => (Spec => []HostAgrees)
<1>1. IInv => HostAgrees
  BY InvAgrees
<1> QED
  BY <1>1, PromptInvariant, PTL

(* What descends from an object of the host's keeps it (commit_plan_for),  *)
(* whether the host has answered or not.                                   *)
THEOREM IdentityKeptHolds == Spec => IdentityKept
<1> DEFINE Kept == \A h \in Objects :
                     shown'[h] = 0 => ~\E i \in board' \ board : source'[i] = h
<1>1. MapInv /\ [Next]_vars => [Kept]_vars
  <2> SUFFICES ASSUME MapInv, Next PROVE Kept
    OBVIOUS
  <2>1. ASSUME NEW gone \in SUBSET board, NEW last \in made..MaxItem,
               NEW descent \in [made + 1..last -> HostOrNone],
               Commit(gone, made + 1..last, descent)
        PROVE  Kept
    BY <2>1, CommitKeepsIdentity
  <2>2. ASSUME NEW named \in SUBSET committed, NEW ids \in [named -> Host],
               AssignHostIds(ids)
        PROVE  Kept
    BY <2>2, AssignKeepsIdentity
  <2> QED
    BY <2>1, <2>2 DEF Next
<1> QED
  BY <1>1, IndexInvariant, PTL DEF Spec, IdentityKept
=============================================================================
