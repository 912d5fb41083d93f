---------------------------- MODULE WorldProofs ----------------------------
(***************************************************************************)
(* Proofs about the branching world, for any number of nodes and items,    *)
(* and about its query for the nearest obstacle, for any cut into blocks.  *)
(***************************************************************************)
EXTENDS World, ParallelScan, TLAPS

(* What an item must do to be homed in a set of nodes.                     *)
LEMMA HomedInDef ==
  ASSUME NEW S, NEW x
  PROVE  x \in HomedIn(S) <=> \E n \in S : x \in home[n]
BY DEF HomedIn

LEMMA UnitType ==
  ASSUME NEW i \in Body
  PROVE  Unit(i) \subseteq Item /\ i \in Unit(i) /\ Drill[i] \subseteq Item \ Body
BY AssumeDrill DEF Unit

(* No two bodies share a hole, and no hole is a body.                      *)
LEMMA UnitsDisjoint ==
  ASSUME NEW i \in Body, NEW j \in Body, i # j
  PROVE  Unit(i) \cap Unit(j) = {}
BY AssumeDrill DEF Unit

(* Membership in a unit, of a body and of a hole.                          *)
LEMMA UnitMembers ==
  ASSUME NEW i \in Body, NEW k \in Body, NEW h \in Drill[k]
  PROVE  /\ k \in Unit(i) <=> k = i
         /\ h \in Unit(i) <=> k = i
BY AssumeDrill DEF Unit

(* Wherever a body is, its hole is, and where it is not, its hole is not.  *)
LEMMA UnitTogether ==
  ASSUME HolesTravel, NEW n \in live, NEW i \in Body
  PROVE  /\ i \in home[n] => Unit(i) \subseteq home[n]
         /\ i \notin home[n] => Unit(i) \cap home[n] = {}
         /\ i \in index[n] => Unit(i) \subseteq index[n]
         /\ i \notin index[n] => Unit(i) \cap index[n] = {}
         /\ i \in overrides[n] => Unit(i) \subseteq overrides[n]
         /\ i \notin overrides[n] => Unit(i) \cap overrides[n] = {}
BY UnitType DEF HolesTravel, Unit

LEMMA InitInv == Init => IInv
<1> SUFFICES ASSUME Init PROVE IInv
  OBVIOUS
<1> USE AssumeRoot DEF Init
<1>1. TypeOK
  BY DEF TypeOK
<1>2. ChainsSound
  BY DEF ChainsSound
<1>3. OneHome
  BY DEF OneHome, HomedIn
<1>4. OverridesHideRoot /\ IndexHomed /\ HolesTravel /\ DeadAreEmpty
  BY DEF OverridesHideRoot, IndexHomed, HolesTravel, DeadAreEmpty
<1> QED
  BY <1>1, <1>2, <1>3, <1>4 DEF IInv

LEMMA BranchInv ==
  ASSUME IInv, NEW n \in Node, NEW c \in Node, Branch(n, c)
  PROVE  IInv'
<1> USE AssumeRoot DEF IInv, Branch, CopyOf, IsRoot
<1>0. /\ n \in live /\ c \notin live /\ c # n /\ c # Root
      /\ live' = live \cup {c}
      /\ chain'[c] = chain[n] \cup {c}
      /\ \A m \in Node \ {c} : /\ chain'[m] = chain[m]
                               /\ index'[m] = index[m]
                               /\ overrides'[m] = overrides[m]
                               /\ home'[m] = home[m]
      /\ home'[c] = {} /\ home[c] = {}
      /\ index'[c] = IF n = Root THEN {} ELSE index[n]
      /\ overrides'[c] = IF n = Root THEN {} ELSE overrides[n]
      /\ stored' = stored /\ cached' = cached /\ issuedItems' = issuedItems
  BY DEF TypeOK, ChainsSound, DeadAreEmpty
<1>1. TypeOK'
  BY DEF TypeOK
<1>2. ChainsSound'
  BY <1>0, <1>1 DEF ChainsSound, TypeOK
<1>3. OneHome'
  BY <1>0, <1>1 DEF OneHome, HomedIn, TypeOK
<1>4. OverridesHideRoot'
  BY <1>0, <1>1 DEF OverridesHideRoot, TypeOK
<1>5. IndexHomed'
  <2> SUFFICES ASSUME NEW m \in live', m # Root, NEW x \in index'[m]
               PROVE  \E k \in chain'[m] \ {Root} : x \in home'[k]
    BY <1>0, HomedInDef DEF IndexHomed, HomedIn
  <2>1. CASE m # c
    BY <2>1, <1>0 DEF IndexHomed, HomedIn, TypeOK, ChainsSound
  <2>2. CASE m = c
    BY <2>2, <1>0 DEF IndexHomed, HomedIn, TypeOK, ChainsSound
  <2> QED BY <2>1, <2>2
<1>6. HolesTravel'
  <2> SUFFICES ASSUME NEW m \in live', NEW i \in Body, NEW h \in Item,
                      h \in Drill[i]
               PROVE  /\ i \in index'[m] <=> h \in index'[m]
                      /\ i \in overrides'[m] <=> h \in overrides'[m]
                      /\ i \in home'[m] <=> h \in home'[m]
    BY DEF HolesTravel
  <2> QED BY <1>0 DEF HolesTravel, TypeOK
<1>7. DeadAreEmpty'
  BY <1>0, <1>1 DEF DeadAreEmpty, TypeOK
<1> QED
  BY <1>1, <1>2, <1>3, <1>4, <1>5, <1>6, <1>7


LEMMA AddInv ==
  ASSUME IInv, NEW n \in Node, NEW i \in Body, Add(n, i)
  PROVE  IInv'
<1> USE AssumeRoot DEF IInv, IsRoot
<1>0. /\ n \in live /\ Leaf(n) /\ Unit(i) \cap issuedItems = {}
      /\ live' = live /\ chain' = chain /\ issuedNodes' = issuedNodes
      /\ overrides' = overrides /\ cached' = cached
      /\ stored' = stored \cup Unit(i)
      /\ issuedItems' = issuedItems \cup Unit(i)
      /\ index'[n] = index[n] \cup Unit(i)
      /\ home'[n] = home[n] \cup Unit(i)
      /\ \A m \in Node \ {n} : index'[m] = index[m] /\ home'[m] = home[m]
  BY DEF TypeOK, Add, Fresh, tree
<1>1. TypeOK'
  BY <1>0, UnitType DEF TypeOK, Add
<1>2. ChainsSound'
  BY <1>0 DEF ChainsSound
<1>u. \A m \in live : /\ Unit(i) \cap home[m] = {}
                      /\ Unit(i) \cap overrides[m] = {}
                      /\ home[m] \subseteq stored
  BY <1>0 DEF OneHome, HomedIn, OverridesHideRoot, ChainsSound
<1>3. OneHome'
  <2>1. stored' = HomedIn(live)'
    BY <1>0 DEF OneHome, HomedIn, TypeOK
  <2>2. \A m \in live : home'[m] \subseteq index'[m]
    BY <1>0 DEF OneHome, TypeOK
  <2>3. \A m, k \in live : m # k => home'[m] \cap home'[k] = {}
    BY <1>0, <1>u DEF OneHome, TypeOK
  <2> QED
    BY <2>1, <2>2, <2>3, <1>0 DEF OneHome
<1>4. OverridesHideRoot'
  BY <1>0, <1>u DEF OverridesHideRoot, TypeOK
<1>5. IndexHomed'
  <2>1. index'[Root] = home'[Root]
    BY <1>0 DEF IndexHomed
  <2> SUFFICES ASSUME NEW m \in live, m # Root, NEW x \in index'[m]
               PROVE  \E k \in chain[m] \ {Root} : x \in home'[k]
    BY <2>1, <1>0 DEF IndexHomed, HomedIn
  <2>2. m \in chain[m] /\ chain[m] \subseteq Node
    BY DEF ChainsSound, TypeOK
  <2>3. CASE x \in index[m]
    <3>1. PICK k \in chain[m] \ {Root} : x \in home[k]
      BY <2>3 DEF IndexHomed, HomedIn
    <3> QED BY <3>1, <2>2, <1>0
  <2>4. CASE x \notin index[m]
    BY <2>2, <2>4, <1>0
  <2> QED BY <2>3, <2>4
<1>6. HolesTravel'
  <2> SUFFICES ASSUME NEW m \in live', NEW k \in Body, NEW h \in Item,
                      h \in Drill[k]
               PROVE  /\ k \in index'[m] <=> h \in index'[m]
                      /\ k \in overrides'[m] <=> h \in overrides'[m]
                      /\ k \in home'[m] <=> h \in home'[m]
    BY DEF HolesTravel
  <2>1. /\ k \in Unit(i) <=> k = i
        /\ h \in Unit(i) <=> k = i
    BY UnitMembers
  <2>2. /\ k \in index[m] <=> h \in index[m]
        /\ k \in overrides[m] <=> h \in overrides[m]
        /\ k \in home[m] <=> h \in home[m]
    BY <1>0 DEF HolesTravel
  <2> QED
    BY <2>1, <2>2, <1>0 DEF ChainsSound, TypeOK
<1>7. DeadAreEmpty'
  BY <1>0 DEF DeadAreEmpty
<1>8. cached' \subseteq stored'
  BY <1>0
<1> QED
  BY <1>1, <1>2, <1>3, <1>4, <1>5, <1>6, <1>7, <1>8

LEMMA RemoveInv ==
  ASSUME IInv, NEW n \in Node, NEW i \in Body, Remove(n, i)
  PROVE  IInv'
<1> USE AssumeRoot DEF IInv, IsRoot
<1>0. /\ n \in live /\ Leaf(n) /\ i \in stored
      /\ live' = live /\ chain' = chain /\ issuedNodes' = issuedNodes
      /\ issuedItems' = issuedItems
      /\ stored' = stored \ Freed(n, i)
      /\ cached' = cached \ Freed(n, i)
      /\ index'[n] = index[n] \ Deindexed(n, i)
      /\ home'[n] = home[n] \ Freed(n, i)
      /\ overrides'[n] = overrides[n] \cup Hidden(n, i)
      /\ \A m \in Node \ {n} : /\ index'[m] = index[m]
                               /\ home'[m] = home[m]
                               /\ overrides'[m] = overrides[m]
  BY DEF TypeOK, Remove, tree
<1>1. TypeOK'
  BY <1>0, UnitType DEF TypeOK, Remove, Hidden, Deindexed, Freed
<1>2. ChainsSound'
  BY <1>0 DEF ChainsSound
<1>u. /\ i \in home[n] => Unit(i) \subseteq home[n]
      /\ i \notin home[n] => Unit(i) \cap home[n] = {}
      /\ i \in home[Root] => Unit(i) \subseteq home[Root]
      /\ i \notin home[Root] => Unit(i) \cap home[Root] = {}
      /\ Root \in live
  BY <1>0, UnitTogether DEF ChainsSound
<1>3. OneHome'
  <2>1. \A m \in live : home'[m] = home[m] \ Freed(n, i)
    BY <1>0, <1>u DEF OneHome, Freed, ChainsSound, TypeOK
  <2>2. home'[n] \subseteq index'[n]
    <3>1. CASE i \in home[Root] /\ n # Root
      BY <3>1, <1>0, <1>u DEF OneHome, Freed, Deindexed
    <3>2. CASE ~(i \in home[Root] /\ n # Root)
      BY <3>2, <1>0, <1>u DEF OneHome, Freed, Deindexed
    <3> QED BY <3>1, <3>2
  <2>3. \A m \in live : home'[m] \subseteq index'[m]
    BY <2>2, <1>0 DEF OneHome, TypeOK
  <2>4. stored' = HomedIn(live)'
    BY <2>1, <1>0 DEF OneHome, HomedIn
  <2> QED
    BY <2>1, <2>3, <2>4, <1>0 DEF OneHome
<1>4. OverridesHideRoot'
  <2>1. CASE i \in home[Root] /\ n # Root
    <3>1. Unit(i) \cap index[n] = {}
      BY <2>1, <1>0, <1>u DEF IndexHomed, HomedIn, OneHome, ChainsSound
    <3> QED
      BY <2>1, <3>1, <1>0, <1>u DEF OverridesHideRoot, Hidden, Deindexed, Freed,
                                    OneHome, TypeOK
  <2>2. CASE ~(i \in home[Root] /\ n # Root)
    <3>1. n # Root => home'[Root] = home[Root]
      BY <1>0
    <3>2. n = Root => \A m \in live : m = Root
      BY <1>0 DEF Leaf, Subtree, ChainsSound
    <3> QED
      BY <2>2, <3>1, <3>2, <1>0, <1>u DEF OverridesHideRoot, Hidden, TypeOK
  <2> QED BY <2>1, <2>2
<1>5. IndexHomed'
  <2>1. index'[Root] = home'[Root]
    <3>1. CASE n = Root
      BY <3>1, <1>0, <1>u DEF IndexHomed, Freed, Deindexed
    <3>2. CASE n # Root
      BY <3>2, <1>0 DEF IndexHomed
    <3> QED BY <3>1, <3>2
  <2> SUFFICES ASSUME NEW m \in live, m # Root, NEW x \in index'[m]
               PROVE  \E k \in chain[m] \ {Root} : x \in home'[k]
    BY <2>1, <1>0 DEF IndexHomed, HomedIn
  <2>2. PICK k \in chain[m] \ {Root} : x \in home[k]
    BY <1>0 DEF IndexHomed, HomedIn, TypeOK
  <2>3. k \in live /\ k \in Node /\ m \in Node
    BY <2>2 DEF ChainsSound, TypeOK
  <2>4. CASE k # n
    BY <2>2, <2>3, <2>4, <1>0
  <2>5. CASE k = n
    <3>1. m = n
      BY <2>2, <2>5 , <1>0 DEF Leaf, Subtree
    <3>2. CASE i \in home[n]
      BY <2>2, <2>5, <3>1, <3>2, <1>0, <1>u DEF Freed, Deindexed, OneHome
    <3>3. CASE i \notin home[n]
      BY <2>2, <2>5, <3>1, <3>3, <1>0 DEF Freed
    <3> QED BY <3>2, <3>3
  <2> QED BY <2>4, <2>5
<1>6. HolesTravel'
  <2> SUFFICES ASSUME NEW m \in live', NEW k \in Body, NEW h \in Item,
                      h \in Drill[k]
               PROVE  /\ k \in index'[m] <=> h \in index'[m]
                      /\ k \in overrides'[m] <=> h \in overrides'[m]
                      /\ k \in home'[m] <=> h \in home'[m]
    BY DEF HolesTravel
  <2>1. /\ Hidden(n, i) \in {{}, Unit(i)}
        /\ Deindexed(n, i) \in {{}, Unit(i)}
        /\ Freed(n, i) \in {{}, Unit(i)}
    BY DEF Hidden, Deindexed, Freed
  <2>2. /\ k \in Unit(i) <=> k = i
        /\ h \in Unit(i) <=> k = i
    BY UnitMembers
  <2>3. /\ k \in index[m] <=> h \in index[m]
        /\ k \in overrides[m] <=> h \in overrides[m]
        /\ k \in home[m] <=> h \in home[m]
    BY <1>0 DEF HolesTravel
  <2>4. CASE m = n
    BY <2>1, <2>2, <2>3, <2>4, <1>0
  <2>5. CASE m # n
    BY <2>3, <2>5, <1>0 DEF ChainsSound, TypeOK
  <2> QED BY <2>4, <2>5
<1>7. DeadAreEmpty'
  BY <1>0 DEF DeadAreEmpty
<1>8. cached' \subseteq stored'
  BY <1>0
<1> QED
  BY <1>1, <1>2, <1>3, <1>4, <1>5, <1>6, <1>7, <1>8
LEMMA ReplaceInv ==
  ASSUME IInv, NEW n \in Node, NEW i \in Body, NEW j \in Body,
         Replace(n, i, j)
  PROVE  IInv'
<1> USE AssumeRoot DEF IInv, IsRoot
<1>0. /\ n \in live /\ Leaf(n) /\ i \in stored
      /\ Unit(j) \cap issuedItems = {}
      /\ live' = live /\ chain' = chain /\ issuedNodes' = issuedNodes
      /\ issuedItems' = issuedItems \cup Unit(j)
      /\ stored' = (stored \ Freed(n, i)) \cup Unit(j)
      /\ cached' = cached \ Freed(n, i)
      /\ index'[n] = (index[n] \ Deindexed(n, i)) \cup Unit(j)
      /\ home'[n] = (home[n] \ Freed(n, i)) \cup Unit(j)
      /\ overrides'[n] = overrides[n] \cup Hidden(n, i)
      /\ \A m \in Node \ {n} : /\ index'[m] = index[m]
                               /\ home'[m] = home[m]
                               /\ overrides'[m] = overrides[m]
  BY DEF TypeOK, Replace, Fresh, tree
<1>1. TypeOK'
  BY <1>0, UnitType DEF TypeOK, Replace, Hidden, Deindexed, Freed
<1>2. ChainsSound'
  BY <1>0 DEF ChainsSound
<1>u. /\ i \in home[n] => Unit(i) \subseteq home[n]
      /\ i \notin home[n] => Unit(i) \cap home[n] = {}
      /\ i \in home[Root] => Unit(i) \subseteq home[Root]
      /\ i \notin home[Root] => Unit(i) \cap home[Root] = {}
      /\ Root \in live
  BY <1>0, UnitTogether DEF ChainsSound
<1>v. \A m \in live : /\ Unit(j) \cap home[m] = {}
                      /\ Unit(j) \cap overrides[m] = {}
                      /\ home[m] \subseteq stored
  BY <1>0 DEF OneHome, HomedIn, OverridesHideRoot, ChainsSound
<1>w. Unit(i) \cap Unit(j) = {}
  BY <1>0, UnitType, UnitsDisjoint DEF OneHome
<1>3. OneHome'
  <2>1. \A m \in live : home'[m] = (home[m] \ Freed(n, i))
                               \cup (IF m = n THEN Unit(j) ELSE {})
    BY <1>0, <1>u DEF OneHome, Freed, ChainsSound, TypeOK
  <2>2. home'[n] \subseteq index'[n]
    <3>1. CASE i \in home[Root] /\ n # Root
      BY <3>1, <1>0, <1>u DEF OneHome, Freed, Deindexed
    <3>2. CASE ~(i \in home[Root] /\ n # Root)
      BY <3>2, <1>0, <1>u DEF OneHome, Freed, Deindexed
    <3> QED BY <3>1, <3>2
  <2>3. \A m \in live : home'[m] \subseteq index'[m]
    BY <2>2, <1>0 DEF OneHome, TypeOK
  <2>4. stored' = HomedIn(live)'
    BY <2>1, <1>0 DEF OneHome, HomedIn
  <2> QED
    <3>1. \A m, k \in live : m # k => home'[m] \cap home'[k] = {}
      BY <2>1, <1>v DEF OneHome
    <3>2. stored' \subseteq issuedItems'
      BY <1>0 DEF OneHome
    <3> QED
      BY <3>1, <3>2, <2>3, <2>4, <1>0 DEF OneHome
<1>4. OverridesHideRoot'
  <2>1. CASE i \in home[Root] /\ n # Root
    <3>1. Unit(i) \cap index[n] = {}
      BY <2>1, <1>0, <1>u DEF IndexHomed, HomedIn, OneHome, ChainsSound
    <3> QED
      <4>1. /\ overrides'[n] = overrides[n] \cup Unit(i)
            /\ index'[n] = index[n] \cup Unit(j)
            /\ home'[Root] = home[Root]
        BY <2>1, <1>0 DEF Hidden, Deindexed
      <4>2. overrides'[n] \subseteq home[Root] /\ overrides'[n] \cap index'[n] = {}
        BY <4>1, <3>1, <2>1, <1>0, <1>u, <1>v, <1>w DEF OverridesHideRoot
      <4> QED
        BY <4>1, <4>2, <2>1, <1>0 DEF OverridesHideRoot, TypeOK
  <2>2. CASE ~(i \in home[Root] /\ n # Root)
    <3>1. n # Root => home'[Root] = home[Root]
      BY <1>0
    <3>2. n = Root => \A m \in live : m = Root
      BY <1>0 DEF Leaf, Subtree, ChainsSound
    <3> QED
      <4>1. \A m \in live : overrides'[m] = overrides[m]
        BY <2>2, <1>0 DEF Hidden, TypeOK
      <4>2. \A m \in live : overrides[m] \cap index'[m] = {}
        BY <1>0, <1>v DEF OverridesHideRoot, TypeOK
      <4> QED
        BY <4>1, <4>2, <3>1, <3>2, <1>0 DEF OverridesHideRoot, ChainsSound
  <2> QED BY <2>1, <2>2
<1>5. IndexHomed'
  <2>1. index'[Root] = home'[Root]
    <3>1. CASE n = Root
      BY <3>1, <1>0, <1>u DEF IndexHomed, Freed, Deindexed
    <3>2. CASE n # Root
      BY <3>2, <1>0 DEF IndexHomed
    <3> QED BY <3>1, <3>2
  <2> SUFFICES ASSUME NEW m \in live, m # Root, NEW x \in index'[m]
               PROVE  \E k \in chain[m] \ {Root} : x \in home'[k]
    BY <2>1, <1>0 DEF IndexHomed, HomedIn
  <2>a. CASE m = n /\ x \in Unit(j)
    BY <2>a, <1>0 DEF ChainsSound
  <2> SUFFICES ASSUME ~(m = n /\ x \in Unit(j))
               PROVE  \E k \in chain[m] \ {Root} : x \in home'[k]
    BY <2>a
  <2>2. PICK k \in chain[m] \ {Root} : x \in home[k]
    BY <1>0 DEF IndexHomed, HomedIn, TypeOK
  <2>3. k \in live /\ k \in Node /\ m \in Node
    BY <2>2 DEF ChainsSound, TypeOK
  <2>4. CASE k # n
    BY <2>2, <2>3, <2>4, <1>0
  <2>5. CASE k = n
    <3>1. m = n
      BY <2>2, <2>5 , <1>0 DEF Leaf, Subtree
    <3>2. CASE i \in home[n]
      BY <2>2, <2>5, <3>1, <3>2, <1>0, <1>u DEF Freed, Deindexed, OneHome
    <3>3. CASE i \notin home[n]
      BY <2>2, <2>5, <3>1, <3>3, <1>0 DEF Freed
    <3> QED BY <3>2, <3>3
  <2> QED BY <2>4, <2>5
<1>6. HolesTravel'
  <2> SUFFICES ASSUME NEW m \in live', NEW k \in Body, NEW h \in Item,
                      h \in Drill[k]
               PROVE  /\ k \in index'[m] <=> h \in index'[m]
                      /\ k \in overrides'[m] <=> h \in overrides'[m]
                      /\ k \in home'[m] <=> h \in home'[m]
    BY DEF HolesTravel
  <2>1. /\ Hidden(n, i) \in {{}, Unit(i)}
        /\ Deindexed(n, i) \in {{}, Unit(i)}
        /\ Freed(n, i) \in {{}, Unit(i)}
    BY DEF Hidden, Deindexed, Freed
  <2>2. /\ k \in Unit(i) <=> k = i
        /\ h \in Unit(i) <=> k = i
        /\ k \in Unit(j) <=> k = j
        /\ h \in Unit(j) <=> k = j
    BY UnitMembers
  <2>3. /\ k \in index[m] <=> h \in index[m]
        /\ k \in overrides[m] <=> h \in overrides[m]
        /\ k \in home[m] <=> h \in home[m]
    BY <1>0 DEF HolesTravel
  <2>4. CASE m = n
    <3>1. k \in index'[m] <=> h \in index'[m]
      BY <2>1, <2>2, <2>3, <2>4, <1>0
    <3>2. k \in overrides'[m] <=> h \in overrides'[m]
      BY <2>1, <2>2, <2>3, <2>4, <1>0
    <3>3. k \in home'[m] <=> h \in home'[m]
      BY <2>1, <2>2, <2>3, <2>4, <1>0
    <3> QED BY <3>1, <3>2, <3>3
  <2>5. CASE m # n
    BY <2>3, <2>5, <1>0 DEF ChainsSound, TypeOK
  <2> QED BY <2>4, <2>5
<1>7. DeadAreEmpty'
  BY <1>0 DEF DeadAreEmpty
<1>8. cached' \subseteq stored'
  BY <1>0
<1> QED
  BY <1>1, <1>2, <1>3, <1>4, <1>5, <1>6, <1>7, <1>8

LEMMA CacheInv ==
  ASSUME IInv, NEW i \in Item, Cache(i)
  PROVE  IInv'
BY DEF IInv, Cache, tree, TypeOK, ChainsSound, OneHome, HomedIn,
       OverridesHideRoot, IndexHomed, HolesTravel, DeadAreEmpty

(* Releasing nodes keeps the invariant whenever the released set is closed *)
(* under branching and spares the root.                                    *)
LEMMA ReleaseInv ==
  ASSUME IInv, NEW gone \in SUBSET live, Root \notin gone,
         \A n \in gone : Subtree(n) \subseteq gone,
         Release(gone)
  PROVE  IInv'
<1> USE AssumeRoot DEF IInv
<1>0. /\ live' = live \ gone
      /\ \A m \in live' : /\ chain'[m] = chain[m]
                          /\ index'[m] = index[m]
                          /\ overrides'[m] = overrides[m]
                          /\ home'[m] = home[m]
      /\ stored' = stored \ HomedIn(gone)
      /\ cached' = cached \ HomedIn(gone)
      /\ issuedNodes' = issuedNodes /\ issuedItems' = issuedItems
  BY DEF Release, TypeOK
<1>1. TypeOK'
  BY DEF Release, TypeOK
<1>2. \A m \in live' : chain[m] \subseteq live'
  BY <1>0 DEF ChainsSound, Subtree
<1>3. ChainsSound'
  BY <1>0, <1>2 DEF ChainsSound
<1>4. OneHome'
  <2>1. stored' = HomedIn(live)'
    BY <1>0 DEF OneHome, HomedIn
  <2> QED BY <2>1, <1>0 DEF OneHome
<1>5. OverridesHideRoot'
  BY <1>0 DEF OverridesHideRoot, ChainsSound
<1>6. IndexHomed'
  <2> SUFFICES ASSUME NEW m \in live', m # Root, NEW x \in index'[m]
               PROVE  \E k \in chain'[m] \ {Root} : x \in home'[k]
    BY <1>0 DEF IndexHomed, HomedIn, ChainsSound
  <2> QED BY <1>0, <1>2 DEF IndexHomed, HomedIn
<1>7. HolesTravel'
  <2> SUFFICES ASSUME NEW m \in live', NEW k \in Body, NEW h \in Item,
                      h \in Drill[k]
               PROVE  /\ k \in index'[m] <=> h \in index'[m]
                      /\ k \in overrides'[m] <=> h \in overrides'[m]
                      /\ k \in home'[m] <=> h \in home'[m]
    BY DEF HolesTravel
  <2> QED BY <1>0 DEF HolesTravel
<1>8. DeadAreEmpty'
  BY <1>0 DEF DeadAreEmpty, Release
<1> QED
  BY <1>0, <1>1, <1>3, <1>4, <1>5, <1>6, <1>7, <1>8

(* A subtree is closed under branching.                                    *)
LEMMA SubtreeClosed ==
  ASSUME ChainsSound, NEW n \in live, NEW m \in Subtree(n)
  PROVE  Subtree(m) \subseteq Subtree(n)
BY DEF ChainsSound, Subtree

LEMMA KillChildrenInv ==
  ASSUME IInv, NEW n \in Node, KillChildren(n)
  PROVE  IInv'
<1> DEFINE gone == Subtree(n) \ {n}
<1>1. n \in live /\ Release(gone) /\ ChainsSound
  BY DEF KillChildren, IInv
<1>2. gone \subseteq live /\ Root \notin gone
  BY <1>1 DEF Subtree, ChainsSound
<1>3. ASSUME NEW m \in gone PROVE Subtree(m) \subseteq gone
  <2>1. Subtree(m) \subseteq Subtree(n)
    BY <1>1, SubtreeClosed
  <2>2. n \notin Subtree(m)
    BY <1>1 DEF Subtree, ChainsSound
  <2> QED BY <2>1, <2>2
<1> QED
  BY <1>1, <1>2, <1>3, ReleaseInv

LEMMA DropNodeInv ==
  ASSUME IInv, NEW n \in Node, DropNode(n)
  PROVE  IInv'
<1>1. n \in live /\ n # Root /\ Release(Subtree(n)) /\ ChainsSound
  BY DEF DropNode, IsRoot, IInv
<1>2. Subtree(n) \subseteq live /\ Root \notin Subtree(n)
  BY <1>1 DEF Subtree, ChainsSound
<1> QED
  BY <1>1, <1>2, SubtreeClosed, ReleaseInv

LEMMA CommitInv ==
  ASSUME IInv, NEW n \in Node, Commit(n)
  PROVE  IInv'
<1> USE AssumeRoot DEF IInv, IsRoot
<1>0. /\ n \in live /\ n # Root
      /\ live' = {Root} /\ chain'[Root] = {Root}
      /\ index'[Root] = (index[Root] \ overrides[n]) \cup index[n]
      /\ home'[Root] = (home[Root] \ overrides[n]) \cup index[n]
      /\ overrides'[Root] = {}
      /\ stored' = stored \ (overrides[n] \cup (HomedIn(live \ {Root}) \ index[n]))
      /\ cached' = cached \ (overrides[n] \cup (HomedIn(live \ {Root}) \ index[n]))
      /\ issuedNodes' = issuedNodes /\ issuedItems' = issuedItems
  BY DEF Commit, TypeOK, ChainsSound, OverridesHideRoot
<1>1. TypeOK'
  BY DEF Commit, TypeOK
<1>2. ChainsSound'
  BY <1>0 DEF ChainsSound
<1>3. OneHome'
  <2>1. index[n] \subseteq HomedIn(live \ {Root})
    BY <1>0 DEF IndexHomed, HomedIn, ChainsSound
  <2>2. overrides[n] \subseteq home[Root]
    BY <1>0 DEF OverridesHideRoot
  <2>3. HomedIn(live) = home[Root] \cup HomedIn(live \ {Root})
    BY DEF HomedIn, ChainsSound
  <2>4. home[Root] \cap HomedIn(live \ {Root}) = {}
    BY DEF HomedIn, OneHome, ChainsSound
  <2>5. stored' = home'[Root]
    BY <1>0, <2>1, <2>2, <2>3, <2>4 DEF OneHome
  <2>6. HomedIn(live)' = home'[Root]
    BY <1>0 DEF HomedIn
  <2>7. home'[Root] \subseteq index'[Root]
    BY <1>0 DEF IndexHomed
  <2> QED BY <1>0, <2>5, <2>6, <2>7 DEF OneHome
<1>4. OverridesHideRoot'
  BY <1>0 DEF OverridesHideRoot
<1>5. IndexHomed'
  BY <1>0 DEF IndexHomed
<1>6. HolesTravel'
  <2> SUFFICES ASSUME NEW k \in Body, NEW h \in Item, h \in Drill[k]
               PROVE  /\ k \in index'[Root] <=> h \in index'[Root]
                      /\ k \in overrides'[Root] <=> h \in overrides'[Root]
                      /\ k \in home'[Root] <=> h \in home'[Root]
    BY <1>0 DEF HolesTravel
  <2>1. /\ k \in index[n] <=> h \in index[n]
        /\ k \in overrides[n] <=> h \in overrides[n]
        /\ k \in home[Root] <=> h \in home[Root]
        /\ k \in index[Root] <=> h \in index[Root]
    BY <1>0 DEF HolesTravel, ChainsSound
  <2> QED BY <2>1, <1>0
<1>7. DeadAreEmpty'
  BY <1>0 DEF DeadAreEmpty, Commit
<1>8. cached' \subseteq stored'
  BY <1>0
<1> QED
  BY <1>1, <1>2, <1>3, <1>4, <1>5, <1>6, <1>7, <1>8

LEMMA StepInv == IInv /\ [Next]_vars => IInv'
<1> SUFFICES ASSUME IInv, [Next]_vars PROVE IInv'
  OBVIOUS
<1>1. CASE \E n, c \in Node : Branch(n, c)
  BY <1>1, BranchInv
<1>2. CASE \E n \in Node, i \in Body : Add(n, i)
  BY <1>2, AddInv
<1>3. CASE \E n \in Node, i \in Body : Remove(n, i)
  BY <1>3, RemoveInv
<1>4. CASE \E n \in Node, i, j \in Body : Replace(n, i, j)
  BY <1>4, ReplaceInv
<1>5. CASE \E i \in Item : Cache(i)
  BY <1>5, CacheInv
<1>6. CASE \E n \in Node : KillChildren(n)
  BY <1>6, KillChildrenInv
<1>7. CASE \E n \in Node : DropNode(n)
  BY <1>7, DropNodeInv
<1>8. CASE \E n \in Node : Commit(n)
  BY <1>8, CommitInv
<1>9. CASE UNCHANGED vars
  BY <1>9 DEF vars, IInv, TypeOK, ChainsSound, OneHome, HomedIn,
              OverridesHideRoot, IndexHomed, HolesTravel, DeadAreEmpty
<1> QED
  BY <1>1, <1>2, <1>3, <1>4, <1>5, <1>6, <1>7, <1>8, <1>9 DEF Next

(* The overlay's invariant holds for every tree and every set of items:    *)
(* one owner per stored item, overrides that hide only what the root owns, *)
(* and indexes that hold only what the node's own chain keeps alive.       *)
THEOREM OverlayInvariant == Spec => []IInv
<1>1. Init => IInv
  BY InitInv
<1>2. IInv /\ [Next]_vars => IInv'
  BY StepInv
<1> QED
  BY <1>1, <1>2, PTL DEF Spec

(* Every reachable state of the overlay is well typed.                     *)
THEOREM TypeCorrect == Spec => []TypeOK
<1>1. IInv => TypeOK
  BY DEF IInv
<1> QED
  BY <1>1, OverlayInvariant, PTL

(* No live node ever shows an item that was freed, and no cache entry      *)
(* outlives its item.                                                      *)
THEOREM NeverStale == Spec => []NothingStale
<1>1. IInv => NothingStale
  BY AssumeRoot DEF IInv, NothingStale, View, IsRoot, OneHome, IndexHomed,
                    HomedIn, ChainsSound
<1> QED
  BY <1>1, OverlayInvariant, PTL

----------------------------------------------------------------------------
(* The overlay implements private copies.                                  *)
Board == [n \in Node |-> IF n \in live THEN View(n) ELSE {}]

(* Every stored item is owned by exactly one live node, which shows it in  *)
(* its own index: nothing leaks when a branch goes, nothing is freed twice.*)
THEOREM ItemsHaveOneHome == Spec => []OneHome
<1>1. IInv => OneHome
  BY DEF IInv
<1> QED
  BY <1>1, OverlayInvariant, PTL

(* A pad or via and its hole are shown, hidden and owned together in every *)
(* node.                                                                   *)
THEOREM HolesStayWithBodies == Spec => []HolesTravel
<1>1. IInv => HolesTravel
  BY DEF IInv
<1> QED
  BY <1>1, OverlayInvariant, PTL

(* What a write does to the boards: the written node's view loses "out"    *)
(* and gains "in", and every other view stays.                             *)
LEMMA WriteBoard ==
  ASSUME IInv, NEW n \in live, Leaf(n), NEW out, NEW in,
         live' = live,
         View(n)' = (View(n) \ out) \cup in,
         \A m \in Node \ {n} : index'[m] = index[m] /\ overrides'[m] = overrides[m]
  PROVE  Board' = [Board EXCEPT ![n] = (@ \ out) \cup in]
<1>1. n \in Node
  BY DEF IInv, TypeOK
<1>2. ASSUME NEW m \in live, m # n PROVE View(m)' = View(m)
  <2>1. n # Root
    BY <1>2 DEF Leaf, Subtree, IInv, ChainsSound
  <2> QED BY <2>1, <1>2, AssumeRoot DEF View, IsRoot, IInv, TypeOK
<1>3. \A m \in Node : Board'[m] = IF m = n THEN (Board[n] \ out) \cup in ELSE Board[m]
  BY <1>1, <1>2 DEF Board
<1> QED BY <1>1, <1>3 DEF Board

(* Removing takes exactly the item and its hole off the node's view.       *)
LEMMA RemovedView ==
  ASSUME IInv, NEW n \in live, NEW i \in Body
  PROVE  /\ n = Root => Deindexed(n, i) = Unit(i) /\ Hidden(n, i) = {}
         /\ n # Root => (index[n] \ Deindexed(n, i))
                           \cup (index[Root] \ (overrides[n] \cup Hidden(n, i)))
                         = View(n) \ Unit(i)
<1> USE AssumeRoot DEF IInv, IsRoot
<1>1. Root \in live
  BY DEF ChainsSound
<1>2. CASE n = Root
  BY <1>2 DEF Deindexed, Hidden
<1>3. CASE n # Root /\ i \in home[Root]
  <2>1. Unit(i) \subseteq home[Root]
    BY <1>1, <1>3, UnitTogether
  <2>2. Unit(i) \cap index[n] = {}
    BY <2>1, <1>1, <1>3 DEF IndexHomed, HomedIn, OneHome, ChainsSound
  <2> QED BY <1>3, <2>2 DEF View, Deindexed, Hidden
<1>4. CASE n # Root /\ i \notin home[Root]
  <2>1. Unit(i) \cap index[Root] = {}
    BY <1>1, <1>4, UnitTogether DEF IndexHomed
  <2> QED BY <1>4, <2>1 DEF View, Deindexed, Hidden
<1> QED BY <1>2, <1>3, <1>4

(* A fresh item is in no overrides, so adding it shows it.                 *)
LEMMA FreshUnhidden ==
  ASSUME IInv, NEW n \in live, NEW i \in Body, Fresh(i)
  PROVE  Unit(i) \cap overrides[n] = {} /\ Unit(i) \cap index[Root] = {}
BY DEF IInv, Fresh, OverridesHideRoot, OneHome, HomedIn, ChainsSound, IndexHomed

LEMMA AddSteps ==
  ASSUME IInv, NEW n \in Node, NEW i \in Body, Add(n, i)
  PROVE  Copies!Next
<1>1. n \in live /\ Leaf(n) /\ live' = live
  BY DEF Add, tree
<1>2. View(n)' = (View(n) \ {}) \cup Unit(i)
  BY <1>1, AssumeRoot DEF Add, View, IsRoot, IInv, TypeOK, tree
<1>3. Board' = [Board EXCEPT ![n] = (@ \ {}) \cup Unit(i)]
  BY <1>1, <1>2, WriteBoard DEF Add, IInv, TypeOK
<1>4. Copies!Add(n, Unit(i))
  BY <1>1, <1>3 DEF Add, Fresh, tree, Copies!Add, Copies!Write, Board
<1> QED BY <1>4 DEF Copies!Next

LEMMA RemoveSteps ==
  ASSUME IInv, NEW n \in Node, NEW i \in Body, Remove(n, i)
  PROVE  Copies!Next
<1>1. n \in live /\ Leaf(n) /\ live' = live
  BY DEF Remove, tree
<1>2. View(n)' = (View(n) \ Unit(i)) \cup {}
  <2>1. /\ index'[n] = index[n] \ Deindexed(n, i)
        /\ overrides'[n] = overrides[n] \cup Hidden(n, i)
        /\ n # Root => index'[Root] = index[Root]
    BY <1>1, AssumeRoot DEF Remove, IInv, TypeOK
  <2> QED BY <1>1, <2>1, RemovedView DEF View, IsRoot
<1>3. Board' = [Board EXCEPT ![n] = (@ \ Unit(i)) \cup {}]
  <2>1. \A m \in Node \ {n} : index'[m] = index[m] /\ overrides'[m] = overrides[m]
    BY DEF Remove, IInv, TypeOK
  <2> DEFINE out == Unit(i)
             in == {}
  <2>2. View(n)' = (View(n) \ out) \cup in
    BY <1>2
  <2> HIDE DEF out, in
  <2>3. Board' = [Board EXCEPT ![n] = (@ \ out) \cup in]
    BY <1>1, <2>1, <2>2, WriteBoard
  <2> QED BY <2>3 DEF out, in
<1>4. Copies!Remove(n, Unit(i))
  BY <1>1, <1>3 DEF Remove, tree, Copies!Remove, Copies!Write, Board
<1> QED BY <1>4 DEF Copies!Next

LEMMA ReplaceSteps ==
  ASSUME IInv, NEW n \in Node, NEW i \in Body, NEW j \in Body, Replace(n, i, j)
  PROVE  Copies!Next
<1>1. n \in live /\ Leaf(n) /\ live' = live /\ Fresh(j)
  BY DEF Replace, tree
<1>2. View(n)' = (View(n) \ Unit(i)) \cup Unit(j)
  <2>1. /\ index'[n] = (index[n] \ Deindexed(n, i)) \cup Unit(j)
        /\ overrides'[n] = overrides[n] \cup Hidden(n, i)
        /\ n # Root => index'[Root] = index[Root]
    BY <1>1, AssumeRoot DEF Replace, IInv, TypeOK
  <2> QED BY <1>1, <2>1, RemovedView DEF View, IsRoot
<1>3. Board' = [Board EXCEPT ![n] = (@ \ Unit(i)) \cup Unit(j)]
  <2>1. \A m \in Node \ {n} : index'[m] = index[m] /\ overrides'[m] = overrides[m]
    BY DEF Replace, IInv, TypeOK
  <2> QED BY <1>1, <1>2, <2>1, WriteBoard
<1>4. Copies!Replace(n, Unit(i), Unit(j))
  BY <1>1, <1>3 DEF Replace, Fresh, tree, Copies!Replace, Copies!Write, Board
<1> QED BY <1>4 DEF Copies!Next

LEMMA BranchSteps ==
  ASSUME IInv, NEW n \in Node, NEW c \in Node, Branch(n, c)
  PROVE  Copies!Branch(n, c)
<1> USE AssumeRoot DEF IInv, Branch, CopyOf, IsRoot
<1>1. n \in live /\ c \notin live /\ c # Root
  BY DEF ChainsSound
<1>2. View(c)' = View(n)
  BY <1>1 DEF View, TypeOK, OverridesHideRoot
<1>3. \A m \in live : View(m)' = View(m)
  BY <1>1 DEF View, TypeOK, ChainsSound
<1>4. Board' = [Board EXCEPT ![c] = Board[n]]
  BY <1>1, <1>2, <1>3 DEF Board
<1> QED BY <1>1, <1>4 DEF Copies!Branch, Board

LEMMA ReleaseSteps ==
  ASSUME IInv, NEW STATE gone, gone \in SUBSET live, Root \notin gone, Release(gone)
  PROVE  Copies!Forget(gone)
<1>1. Board' = [m \in Node |-> IF m \in gone THEN {} ELSE Board[m]]
  <2>1. \A m \in live \ gone : View(m)' = View(m)
    BY AssumeRoot DEF Release, View, IsRoot, IInv, TypeOK
  <2> QED BY <2>1 DEF Board, Release
<1> QED BY <1>1 DEF Copies!Forget, Release, Board

LEMMA KillSteps ==
  ASSUME IInv, NEW n \in Node, KillChildren(n)
  PROVE  Copies!KillChildren(n)
<1> DEFINE gone == Subtree(n) \ {n}
<1>1. n \in live /\ Release(gone)
  BY DEF KillChildren
<1>2. gone \in SUBSET live /\ Root \notin gone
  BY <1>1 DEF Subtree, IInv, ChainsSound
<1>3. Copies!Forget(gone)
  <2> HIDE DEF gone
  <2> QED BY <1>1, <1>2, ReleaseSteps
<1> QED BY <1>1, <1>3 DEF Copies!KillChildren, Copies!Subtree, Subtree

LEMMA DropSteps ==
  ASSUME IInv, NEW n \in Node, DropNode(n)
  PROVE  Copies!Drop(n)
<1> DEFINE gone == Subtree(n)
<1>1. n \in live \ {Root} /\ Release(gone)
  BY DEF DropNode, IsRoot
<1>2. gone \in SUBSET live /\ Root \notin gone
  BY <1>1 DEF Subtree, IInv, ChainsSound
<1>3. Copies!Forget(gone)
  <2> HIDE DEF gone
  <2> QED BY <1>1, <1>2, ReleaseSteps
<1> QED BY <1>1, <1>3 DEF Copies!Drop, Copies!Subtree, Subtree

LEMMA CommitSteps ==
  ASSUME IInv, NEW n \in Node, Commit(n)
  PROVE  Copies!Commit(n)
<1> USE AssumeRoot DEF IInv, IsRoot
<1>1. n \in live \ {Root} /\ live' = {Root}
  BY DEF Commit
<1>2. View(Root)' = View(n)
  BY <1>1 DEF Commit, View, TypeOK
<1>3. Board' = [m \in Node |-> IF m = Root THEN Board[n] ELSE {}]
  BY <1>1, <1>2 DEF Board
<1> QED BY <1>1, <1>3 DEF Copies!Commit, Commit, Board

(* Every node of the overlay behaves as a board of its own: a write in one *)
(* branch shows nowhere else, and a commit leaves the root showing exactly *)
(* what the committed branch showed.                                       *)
THEOREM OverlayIsCompleteWorld == Spec => RefinesWorldCopies
<1>1. Init => Copies!Init
  BY AssumeRoot DEF Init, Copies!Init, View, IsRoot
<1>2. ASSUME IInv, [Next]_vars PROVE [Copies!Next]_Copies!vars
  <2>1. CASE \E n, c \in Node : Branch(n, c)
    BY <1>2, <2>1, BranchSteps DEF Copies!Next
  <2>2. CASE \E n \in Node, i \in Body : Add(n, i) \/ Remove(n, i)
    BY <1>2, <2>2, AddSteps, RemoveSteps
  <2>3. CASE \E n \in Node, i, j \in Body : Replace(n, i, j)
    BY <1>2, <2>3, ReplaceSteps
  <2>4. CASE \E i \in Item : Cache(i)
    BY <2>4 DEF Cache, tree, Copies!vars, View, IsRoot
  <2>5. CASE \E n \in Node : KillChildren(n) \/ DropNode(n) \/ Commit(n)
    BY <1>2, <2>5, KillSteps, DropSteps, CommitSteps DEF Copies!Next
  <2>6. CASE UNCHANGED vars
    BY <2>6 DEF vars, Copies!vars, View, IsRoot
  <2> QED BY <1>2, <2>1, <2>2, <2>3, <2>4, <2>5, <2>6 DEF Next
<1> QED
  BY <1>1, <1>2, OverlayInvariant, PTL DEF Spec, RefinesWorldCopies, Copies!Spec
----------------------------------------------------------------------------
(* What \div is, in terms of the product.                                  *)
LEMMA Quotient ==
    ASSUME NEW a \in Nat, NEW s \in Nat \ {0}
    PROVE  /\ a \div s \in Nat
           /\ s * (a \div s) <= a
           /\ a < s * (a \div s) + s
OBVIOUS

(* A larger factor makes a product larger by a whole s at least.           *)
LEMMA ProductGrows ==
    ASSUME NEW s \in Nat \ {0}, NEW x \in Nat, NEW y \in Nat, x < y
    PROVE  s * x + s <= s * y
<1>1. PICK d \in Nat : y = x + 1 + d
  <2>1. y - x - 1 \in Nat  OBVIOUS
  <2> QED BY <2>1
<1>2. s * y = s * x + s + s * d  BY <1>1
<1>3. s * d >= 0  OBVIOUS
<1> QED BY <1>2, <1>3

(* Division keeps the order.                                               *)
LEMMA QuotientOrder ==
    ASSUME NEW a \in Nat, NEW b \in Nat, NEW s \in Nat \ {0}, a <= b
    PROVE  a \div s <= b \div s
<1> SUFFICES ASSUME b \div s < a \div s PROVE FALSE
  BY Quotient
<1>1. s * (b \div s) + s <= s * (a \div s)  BY Quotient, ProductGrows
<1>2. b < s * (b \div s) + s  BY Quotient
<1>3. s * (a \div s) <= a  BY Quotient
<1>4. s * (a \div s) \in Nat /\ s * (b \div s) \in Nat BY Quotient
<1> QED BY <1>1, <1>2, <1>3, <1>4

(* What is below s * q is below q when divided by s.                       *)
LEMMA QuotientBelow ==
    ASSUME NEW a \in Nat, NEW q \in Nat, NEW s \in Nat \ {0}, a < s * q
    PROVE  a \div s < q
<1> SUFFICES ASSUME q <= a \div s PROVE FALSE
  BY Quotient
<1>1. s * q <= s * (a \div s)
  <2>1. CASE q = a \div s BY <2>1, Quotient
  <2>2. CASE q < a \div s BY <2>2, Quotient, ProductGrows
  <2> QED BY <2>1, <2>2, Quotient
<1>2. s * q \in Nat /\ s * (a \div s) \in Nat BY Quotient
<1> QED BY <1>1, <1>2, Quotient
----------------------------------------------------------------------------
(* What a query's candidates are: a bounded sequence of crossings.         *)
LEMMA ScanCandidates ==
    ASSUME NEW c \in Candidates
    PROVE  /\ c \in Seq(Crossing)
           /\ Len(c) \in Nat /\ DOMAIN c = 1..Len(c)
           /\ c = <<>> <=> Len(c) = 0
           /\ \A i \in DOMAIN c : c[i] \in Crossing
<1>1. PICK n \in 0..MaxCandidates : c \in [1..n -> Crossing]
  BY DEF Candidates
<1>2. n \in Nat  BY AssumeSizes
<1>3. c \in Seq(Crossing)  BY <1>1, <1>2
<1> QED BY <1>1, <1>2, <1>3

(* The blocks are no more than the threads, none is empty of size, and     *)
(* they are large enough for all.                                          *)
LEMMA ScanSizes ==
    ASSUME ScanTypeOK, crossings # <<>>
    PROVE  /\ Total \in Nat \ {0}
           /\ Blocks \in Nat \ {0} /\ Blocks <= parallelism
           /\ BlockSize \in Nat \ {0}
           /\ Total <= BlockSize * Blocks
<1>1. Total \in Nat \ {0}  BY ScanCandidates DEF ScanTypeOK, Total
<1>2. parallelism \in Nat \ {0}  BY AssumeSizes DEF ScanTypeOK
<1>3. Total \div MinPerBlock \in Nat  BY <1>1, AssumeSizes, Quotient
<1>4. Blocks \in Nat \ {0} /\ Blocks <= parallelism
  BY <1>2, <1>3 DEF Blocks, Wanted
<1> DEFINE t == Total + Blocks - 1
<1>5. t \in Nat  BY <1>1, <1>4
<1> HIDE DEF t
<1>6. t \div Blocks \in Nat /\ t < Blocks * (t \div Blocks) + Blocks
  BY <1>4, <1>5, Quotient
<1>7. BlockSize = t \div Blocks  BY DEF BlockSize, t
<1>8. BlockSize \in Nat /\ t < Blocks * BlockSize + Blocks
  BY <1>6, <1>7
<1>9. Total <= Blocks * BlockSize  BY <1>1, <1>4, <1>8 DEF t
<1>10. BlockSize # 0  BY <1>1, <1>4, <1>9
<1>11. Blocks * BlockSize = BlockSize * Blocks  BY <1>4, <1>8
<1> QED BY <1>1, <1>4, <1>8, <1>9, <1>10, <1>11

(* Every candidate is in one of the blocks that are scanned.               *)
LEMMA ScanCover ==
    ASSUME ScanTypeOK, crossings # <<>>
    PROVE  /\ \A i \in DOMAIN crossings : BlockOf(i) \in 1..Chunks
           /\ Chunks \in Nat \ {0} /\ Chunks <= Blocks
<1> USE ScanSizes
<1>1. DOMAIN crossings = 1..Total  BY ScanCandidates DEF ScanTypeOK, Total
<1>2. Total - 1 \in Nat  OBVIOUS
<1>3. (Total - 1) \div BlockSize \in Nat  BY <1>2, Quotient
<1>4. Total - 1 < BlockSize * Blocks
  <2>1. BlockSize * Blocks \in Nat  OBVIOUS
  <2> QED BY <2>1
<1>5. (Total - 1) \div BlockSize < Blocks
  BY <1>2, <1>4, QuotientBelow
<1>6. Chunks = (Total - 1) \div BlockSize + 1  BY DEF Chunks, BlockOf
<1>7. ASSUME NEW i \in DOMAIN crossings PROVE BlockOf(i) \in 1..Chunks
  <2>1. i - 1 \in Nat /\ i - 1 <= Total - 1  BY <1>1
  <2>2. (i - 1) \div BlockSize \in Nat  BY <2>1, Quotient
  <2>3. (i - 1) \div BlockSize <= (Total - 1) \div BlockSize
    BY <1>2, <2>1, QuotientOrder
  <2> QED BY <1>3, <1>6, <2>2, <2>3 DEF BlockOf
<1> QED BY <1>3, <1>5, <1>6, <1>7
----------------------------------------------------------------------------
(* A new world, which has answered nothing, satisfies the invariant.       *)
LEMMA ScanInitInv == ScanInit => ScanInv
<1> SUFFICES ASSUME ScanInit PROVE ScanInv  OBVIOUS
<1>1. <<>> \in Candidates
  <2>1. <<>> \in [1..0 -> Crossing]  OBVIOUS
  <2>2. 0 \in 0..MaxCandidates  BY AssumeSizes
  <2> QED BY <2>1, <2>2 DEF Candidates
<1>2. ScanTypeOK  BY <1>1, AssumeSizes DEF ScanInit, ScanTypeOK, NoAnswer
<1> QED BY <1>2 DEF ScanInit, ScanInv, ScannedRight, BestSoFar

(* A query begins with no candidate looked at and no winner.               *)
LEMMA ScanQueryInv ==
    ASSUME ScanInv, NEW c \in Candidates, Query(c)
    PROVE  ScanInv'
<1> USE ScanCandidates DEF Query
<1>1. ScanTypeOK'
  <2>1. results' \in [DOMAIN c -> Crossing]  BY DEF Crossing, NoCrossing
  <2> QED BY <2>1 DEF ScanInv, ScanTypeOK, NoAnswer
<1>2. ScannedRight'  BY DEF ScannedRight
<1>3. BestSoFar'  BY DEF BestSoFar
<1> QED BY <1>1, <1>2, <1>3 DEF ScanInv

(* A thread that looks at one candidate writes that candidate's result.    *)
LEMMA ScanFillInv ==
    ASSUME ScanInv, NEW b \in 1..MaxThreads, Fill(b)
    PROVE  ScanInv'
<1> USE DEF Fill, ScanInv
<1>1. PICK i \in Block(b) \cap left :
         results' = [results EXCEPT ![i] = crossings[i]] /\ left' = left \ {i}
  BY DEF Advanced
<1>2. i \in DOMAIN crossings  BY DEF Block
<1>3. crossings[i] \in Crossing  BY <1>2, ScanCandidates DEF ScanTypeOK
<1>4. ScanTypeOK'  BY <1>1, <1>2, <1>3 DEF ScanTypeOK
<1>5. ScannedRight'  BY <1>1, <1>2 DEF ScannedRight, ScanTypeOK
<1>6. BestSoFar'  BY DEF BestSoFar
<1> QED BY <1>4, <1>5, <1>6

(* When the scope ends nothing is left, because the blocks cover all.      *)
LEMMA ScanJoinInv ==
    ASSUME ScanInv, Join
    PROVE  ScanInv'
<1> USE DEF Join, ScanInv
<1>1. left = {}
  <2> SUFFICES ASSUME NEW i \in left PROVE FALSE  OBVIOUS
  <2>1. i \in DOMAIN crossings  BY DEF ScanTypeOK
  <2>2. BlockOf(i) \in 1..Chunks  BY <2>1, ScanCover
  <2>3. i \in Block(BlockOf(i))  BY <2>1 DEF Block
  <2> QED BY <2>2, <2>3 DEF Joined
<1>2. ScanTypeOK'  BY DEF ScanTypeOK
<1>3. ScannedRight'  BY DEF ScannedRight
<1>4. BestSoFar'
  <2>1. \A j \in DOMAIN crossings : ~(j < 1)  BY ScanCandidates DEF ScanTypeOK
  <2> QED BY <1>1, <2>1 DEF BestSoFar
<1> QED BY <1>2, <1>3, <1>4

(* One step of the winner scan keeps the nearest of those before the       *)
(* cursor.                                                                 *)
LEMMA ScanPickInv ==
    ASSUME ScanInv, Pick
    PROVE  ScanInv'
<1> USE DEF Pick, ScanInv
<1>1. /\ cursor \in 1..Total /\ Total \in Nat /\ DOMAIN crossings = 1..Total
      /\ results[cursor] = crossings[cursor] /\ left = {}
  BY ScanCandidates DEF ScanTypeOK, ScannedRight, BestSoFar, Total
<1>2. \A i \in DOMAIN crossings : crossings[i] \in Crossing /\ results[i] = crossings[i]
  BY <1>1, ScanCandidates DEF ScanTypeOK, ScannedRight
<1>3. ScanTypeOK'
  <2>1. cursor' \in Nat /\ best' \in Nat  BY <1>1 DEF ScanTypeOK
  <2> QED BY <2>1 DEF ScanTypeOK
<1>4. ScannedRight'  BY DEF ScannedRight
<1>5. BestSoFar'
  <2>1. best # 0 => /\ best \in DOMAIN crossings /\ best < cursor
                    /\ crossings[best] # NoCrossing
    BY DEF BestSoFar
  <2>2. best' # 0 => /\ best' \in DOMAIN crossings /\ best' < cursor'
                     /\ crossings[best'] # NoCrossing
    BY <1>1, <2>1 DEF Wins
  <2>3. ASSUME NEW i \in DOMAIN crossings, i < cursor', crossings[i] # NoCrossing
        PROVE  /\ best' # 0
               /\ \/ crossings[best'] < crossings[i]
                  \/ crossings[best'] = crossings[i] /\ best' <= i
    <3>1. i < cursor => /\ best # 0
                        /\ \/ crossings[best] < crossings[i]
                           \/ crossings[best] = crossings[i] /\ best <= i
      BY <2>3 DEF BestSoFar
    <3>2. crossings[i] \in Nat /\ i \in Nat
      BY <1>1, <1>2, <2>3 DEF Crossing, NoCrossing
    <3>3. CASE Wins
      <4>1. best' = cursor /\ crossings[cursor] \in Nat
        BY <1>1, <1>2, <3>3 DEF Wins, Crossing, NoCrossing
      <4>2. best # 0 => crossings[cursor] < crossings[best]
        BY <1>1, <1>2, <2>1, <3>3 DEF Wins
      <4>3. CASE i < cursor
        <5>1. best \in DOMAIN crossings /\ crossings[best] \in Nat
          BY <1>2, <2>1, <3>1, <4>3 DEF Crossing, NoCrossing
        <5> QED BY <1>1, <3>1, <3>2, <4>1, <4>2, <4>3, <5>1
      <4>4. CASE i = cursor  BY <1>1, <3>2, <4>1, <4>4
      <4>5. CASE i > cursor
        <5>1. crossings[cursor] = 0  BY <1>1, <2>3, <3>2, <3>3, <4>5
        <5> QED BY <1>1, <3>2, <4>1, <4>5, <5>1
      <4> QED BY <1>1, <3>2, <4>3, <4>4, <4>5
    <3>4. CASE ~Wins
      <4>1. best' = best /\ cursor' = cursor + 1  BY <3>4
      <4>2. CASE i < cursor  BY <3>1, <4>1, <4>2
      <4>3. CASE i = cursor
        <5>1. best # 0 /\ ~(crossings[cursor] < crossings[best])
          BY <1>1, <1>2, <2>1, <2>3, <3>4, <4>3 DEF Wins
        <5>2. best \in 1..Total /\ best < cursor /\ crossings[best] \in Nat
          BY <1>1, <1>2, <2>1, <5>1 DEF Crossing, NoCrossing
        <5> QED BY <1>1, <3>2, <4>1, <4>3, <5>1, <5>2
      <4> QED BY <1>1, <2>3, <3>2, <4>1, <4>2, <4>3
    <3> QED BY <3>3, <3>4
  <2> QED BY <1>1, <2>2, <2>3 DEF BestSoFar
<1> QED BY <1>3, <1>4, <1>5

(* Every step of the query keeps its invariant.                            *)
LEMMA ScanStepInv == ScanInv /\ [ScanNext]_scanVars => ScanInv'
<1> SUFFICES ASSUME ScanInv, [ScanNext]_scanVars PROVE ScanInv'  OBVIOUS
<1>1. ASSUME NEW threads \in 0..MaxThreads, SetParallelism(threads) PROVE ScanInv'
  <2>1. parallelism' \in 1..MaxThreads  BY <1>1, AssumeSizes DEF SetParallelism
  <2> QED BY <1>1, <2>1 DEF SetParallelism, ScanInv, ScanTypeOK, ScannedRight, BestSoFar
<1>2. CASE Spawn
  BY <1>2 DEF Spawn, ScanInv, ScanTypeOK, ScannedRight, BestSoFar
<1>3. CASE Return
  <2>1. <<>> \in Candidates
    <3>1. <<>> \in [1..0 -> Crossing]  OBVIOUS
    <3> QED BY <3>1, AssumeSizes DEF Candidates
  <2>2. ScanTypeOK'  BY <1>3, <2>1 DEF Return, ScanInv, ScanTypeOK
  <2> QED BY <1>3, <2>2 DEF Return, ScanInv, ScannedRight, BestSoFar
<1>4. CASE UNCHANGED scanVars
  BY <1>4 DEF scanVars, ScanInv, ScanTypeOK, ScannedRight, BestSoFar
<1> QED BY <1>1, <1>2, <1>3, <1>4, ScanQueryInv, ScanFillInv, ScanJoinInv, ScanPickInv DEF ScanNext

(* The invariant of the scan, for every number of candidates and threads,  *)
(* block size and distance.                                                *)
THEOREM ScanInvariant == ScanSpec => []ScanInv
<1> QED BY ScanInitInv, ScanStepInv, PTL DEF ScanSpec

(* scan_candidates keeps within the threads set_parallelism allowed: the   *)
(* blocks chunks cuts are never more than were asked for, because div_ceil *)
(* rounds their size up.                                                   *)
THEOREM KeepsWithinParallelism == ScanSpec => []WithinParallelism
<1>1. ScanInv => WithinParallelism
  <2> SUFFICES ASSUME ScanInv, phase = "scan" PROVE Chunks <= parallelism
    BY DEF WithinParallelism
  <2>1. ScanTypeOK /\ crossings # <<>>  BY DEF ScanInv
  <2>2. parallelism \in Nat  BY <2>1, AssumeSizes DEF ScanTypeOK
  <2> QED BY <2>1, <2>2, ScanCover, ScanSizes
<1> QED BY <1>1, ScanInvariant, PTL
----------------------------------------------------------------------------
(* What the winner scan ends with is the nearest candidate of all.         *)
LEMMA ScanReturnAnswers ==
    ASSUME ScanInv, Return
    PROVE  Sequential!IsNearest(crossings, answer')
<1> USE DEF Return, ScanInv
<1>1. /\ Total \in Nat /\ DOMAIN crossings = 1..Total
      /\ crossings = <<>> <=> Total = 0
  BY ScanCandidates DEF ScanTypeOK, Total
<1>2. \A i \in DOMAIN crossings : i < cursor  BY <1>1 DEF ScanTypeOK
<1>3. \A i \in DOMAIN crossings : crossings[i] # NoCrossing =>
         /\ best # 0
         /\ crossings[best] < crossings[i] \/ (crossings[best] = crossings[i] /\ best <= i)
  BY <1>2 DEF BestSoFar
<1>4. best # 0 => best \in DOMAIN crossings /\ crossings[best] # NoCrossing
  BY DEF BestSoFar
<1> QED
  BY <1>1, <1>3, <1>4 DEF Sequential!IsNearest, Sequential!Crossed,
     Sequential!NoCrossing, NoCrossing

(* The module implements NearestObstacle: whatever the thread count, the   *)
(* cut into blocks and the turns the threads take, a query returns the     *)
(* nearest candidate, the smaller uid on a tie.                            *)
THEOREM ScanIsSequential == ScanSpec => RefinesNearestObstacle
<1>1. ScanInit => Sequential!Init
  BY DEF ScanInit, Sequential!Init, NoAnswer, Sequential!NoAnswer
<1>2. ScanInv /\ [ScanNext]_scanVars => [Sequential!Next]_Sequential!vars
  <2> SUFFICES ASSUME ScanInv, [ScanNext]_scanVars PROVE [Sequential!Next]_Sequential!vars
    OBVIOUS
  <2>1. ASSUME NEW threads \in 0..MaxThreads, SetParallelism(threads)
        PROVE  UNCHANGED Sequential!vars
    BY <2>1 DEF SetParallelism, Sequential!vars
  <2>2. ASSUME NEW c \in Candidates, Query(c) PROVE Sequential!Ask(c)
    BY <2>2 DEF Query, Sequential!Ask, NoAnswer, Sequential!NoAnswer
  <2>3. ASSUME NEW b \in 1..MaxThreads, Fill(b) PROVE UNCHANGED Sequential!vars
    BY <2>3 DEF Fill, Sequential!vars
  <2>4. CASE Spawn  BY <2>4 DEF Spawn, Sequential!vars
  <2>5. CASE Join  BY <2>5 DEF Join, Sequential!vars
  <2>6. CASE Pick  BY <2>6 DEF Pick, Sequential!vars
  <2>7. CASE Return
    <3>1. /\ answer' = [item |-> answer'.item, found |-> answer'.found]
          /\ answer'.item \in 0..Len(crossings) /\ answer'.found \in BOOLEAN
      <4>1. Len(crossings) \in Nat /\ DOMAIN crossings = 1..Len(crossings)
            /\ crossings = <<>> <=> Len(crossings) = 0
        BY ScanCandidates DEF ScanInv, ScanTypeOK
      <4>2. best # 0 => best \in DOMAIN crossings  BY <2>7 DEF ScanInv, BestSoFar, Return
      <4> QED BY <2>7, <4>1, <4>2 DEF Return
    <3>2. Sequential!Answer(answer')
      BY <2>7, ScanReturnAnswers DEF Return, Sequential!Answer
    <3> QED BY <3>1, <3>2 DEF Sequential!Next
  <2>8. CASE UNCHANGED scanVars  BY <2>8 DEF scanVars, Sequential!vars
  <2> QED BY <2>1, <2>2, <2>3, <2>4, <2>5, <2>6, <2>7, <2>8
          DEF ScanNext, Sequential!Next
<1> QED BY <1>1, <1>2, ScanInvariant, PTL DEF RefinesNearestObstacle, Sequential!Spec, ScanSpec
============================================================================
