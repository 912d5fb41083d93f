------------------------ MODULE PlacerSessionProofs ------------------------
(***************************************************************************)
(* Every step of a drag, a pair placement and a tuning keeps the inductive *)
(* invariant of PlacerSession, for any pieces, places and settings and any *)
(* number of nodes, springback frames, moves and legs; and what follows.   *)
(*                                                                         *)
(* First the lemmas about what a drag and its shove do to the tree of      *)
(* boards: what the operations of the tree keep and drop, what a shove run *)
(* leaves standing, and that each routing of a single item, of several     *)
(* lines and of a component leaves the drag as the invariant wants it.     *)
(***************************************************************************)
EXTENDS PlacerSession, TLAPS, FiniteSetTheorems, SequenceTheorems, WellFoundedInduction

LEMMA MinOfNat ==
  ASSUME NEW S \in SUBSET Nat, S # {}
  PROVE  Min(S) \in S /\ \A y \in S : Min(S) <= y
<1> DEFINE R == OpToRel(<, Nat)
<1>1. PICK x \in S : \A y \in S : ~(<<y, x>> \in R)
  BY NatLessThanWellFounded, WFMin
<1>2. ASSUME NEW y \in S PROVE x <= y
  <2>1. y < x => <<y, x>> \in R
    BY DEF OpToRel
  <2>2. <<y, x>> \notin R
    BY <1>1
  <2> HIDE DEF R
  <2> QED
    BY <2>1, <2>2
<1> QED
  BY <1>2 DEF Min

LEMMA NodeType == Root \in Node /\ NoNode \notin Node /\ Root # NoNode /\ Node \subseteq Nat
BY AssumeBounds DEF Root, Node, NoNode

(* The facts of the boards keep apart.                                     *)
LEMMA FactsApart ==
  /\ \A x, y : Old(x) = Old(y) => x = y
  /\ \A x, y, p, q, v, w : New(x, p, v) = New(y, q, w) => x = y /\ p = q /\ v = w
  /\ \A x, y, p, w : Old(x) # New(y, p, w) /\ Old(x) # Lock(y) /\ Old(x) # Push(p) /\ Old(x) # Stub
  /\ \A x, y, p, q, w : New(x, p, w) # Lock(y) /\ New(x, p, w) # Push(q) /\ New(x, p, w) # Stub
  /\ \A x, p : Lock(x) # Push(p) /\ Lock(x) # Stub /\ Push(p) # Stub
  /\ \A x, p, w : ~IsLeg(Old(x)) /\ ~IsLeg(New(x, p, w)) /\ ~IsLeg(Lock(x)) /\ ~IsLeg(Push(p))
  /\ ~IsLeg(Stub)
  /\ \A j, p, w : IsLeg(Leg(j, p, w)) /\ Leg(j, p, w)[2] = j /\ Leg(j, p, w)[3] = p
                    /\ Leg(j, p, w)[4] = w
BY DEF Old, New, Lock, Push, Stub, Leg, IsLeg

LEMMA VersionsApart ==
  /\ \A x, f : f \in Versions(x) <=> \/ f = Old(x)
                                     \/ \E p \in Place, way \in Ways : f = New(x, p, way)
  /\ \A x, y : x # y => Versions(x) \cap Versions(y) = {}
  /\ \A x : Stub \notin Versions(x)
  /\ \A x, y : Lock(y) \notin Versions(x)
  /\ \A x, p : Push(p) \notin Versions(x)
  /\ \A x, f : f \in Versions(x) => ~IsLeg(f)
<1>1. \A x, f : f \in Versions(x) <=> \/ f = Old(x)
                                      \/ \E p \in Place, way \in Ways : f = New(x, p, way)
  BY DEF Versions, Ways
<1> QED
  BY <1>1, FactsApart

LEMMA FactTypes ==
  /\ \A x \in Piece : Versions(x) \subseteq Fact /\ Old(x) \in Fact /\ Lock(x) \in Fact
  /\ \A x \in Piece, p \in Place, way \in Ways : New(x, p, way) \in Fact
  /\ \A p \in Place : Push(p) \in Fact
  /\ Stub \in Fact
BY DEF Fact, Versions, Ways
----------------------------------------------------------------------------
(* The operations of a tree of boards keep it a tree, and what they change.*)

(* u is t with some of its branches dropped.                               *)
Pruned(t, u) ==
    /\ u.live \subseteq t.live
    /\ \A m \in u.live : u.chain[m] = t.chain[m] /\ u.view[m] = t.view[m]

LEMMA NewTreeOK == TreeOK(NewTree) /\ NewTree.live = {Root}
<1>1. NewTree \in Tree(Fact)
  BY NodeType DEF NewTree, Tree
<1> QED
  BY <1>1, NodeType DEF NewTree, TreeOK

LEMMA BranchedOK ==
  ASSUME NEW t, TreeOK(t), NEW n \in t.live, NEW c \in Node \ t.live
  PROVE  LET u == Branched(t, n, c)
         IN  /\ TreeOK(u)
             /\ u.live = t.live \cup {c}
             /\ u.chain[c] = t.chain[n] \cup {c} /\ u.view[c] = t.view[n]
             /\ \A m \in t.live : u.chain[m] = t.chain[m] /\ u.view[m] = t.view[m]
<1> DEFINE u == Branched(t, n, c)
<1>1. /\ u.live = t.live \cup {c}
      /\ u.chain[c] = t.chain[n] \cup {c} /\ u.view[c] = t.view[n]
      /\ \A m \in Node \ {c} : u.chain[m] = t.chain[m] /\ u.view[m] = t.view[m]
      /\ t.live \subseteq Node /\ u \in Tree(Fact)
  BY DEF Branched, TreeOK, Tree
<1> HIDE DEF u
<1>2. TreeOK(u)
  BY <1>1 DEF TreeOK
<1> QED
  BY <1>1, <1>2 DEF u

LEMMA WrittenOK ==
  ASSUME NEW t, TreeOK(t), NEW n, NEW facts \in SUBSET Fact
  PROVE  LET u == Written(t, n, facts)
         IN  /\ TreeOK(u)
             /\ u.live = t.live /\ u.chain = t.chain
             /\ n \in Node => u.view[n] = t.view[n] \cup facts
             /\ \A m \in Node \ {n} : u.view[m] = t.view[m]
BY DEF Written, TreeOK, Tree

LEMMA WithoutOK ==
  ASSUME NEW t, TreeOK(t), NEW gone, Root \notin gone,
         \A n \in gone, m \in t.live : n \in t.chain[m] => m \in gone
  PROVE  /\ TreeOK(Without(t, gone)) /\ Pruned(t, Without(t, gone))
         /\ Without(t, gone).live = t.live \ gone
<1> DEFINE u == Without(t, gone)
<1>1. /\ u.live = t.live \ gone /\ u \in Tree(Fact) /\ t.live \subseteq Node
      /\ \A m \in Node \ gone : u.chain[m] = t.chain[m] /\ u.view[m] = t.view[m]
  BY DEF Without, TreeOK, Tree
<1> HIDE DEF u
<1>2. TreeOK(u)
  BY <1>1 DEF TreeOK
<1> QED
  BY <1>1, <1>2 DEF u, Pruned

LEMMA KilledOK ==
  ASSUME NEW t, TreeOK(t), NEW n
  PROVE  LET u == KilledChildren(t, n)
         IN  /\ TreeOK(u) /\ Pruned(t, u)
             /\ u.live = t.live \ (Subtree(t, n) \ {n})
<1> DEFINE gone == Subtree(t, n) \ {n}
<1>1. Root \notin gone
  BY DEF Subtree, TreeOK
<1>2. ASSUME NEW k \in gone, NEW m \in t.live, k \in t.chain[m]
      PROVE  m \in gone
  BY <1>2 DEF Subtree, TreeOK
<1> QED
  BY <1>1, <1>2, WithoutOK DEF KilledChildren

LEMMA DroppedOK ==
  ASSUME NEW t, TreeOK(t), NEW n
  PROVE  LET u == Dropped(t, n)
         IN  /\ TreeOK(u) /\ Pruned(t, u)
             /\ u.live = IF n = Root THEN t.live ELSE t.live \ Subtree(t, n)
<1>1. CASE n = Root
  BY <1>1 DEF Dropped, Pruned
<1>2. CASE n # Root
  <2>1. Root \notin Subtree(t, n)
    BY <1>2 DEF Subtree, TreeOK
  <2>2. ASSUME NEW k \in Subtree(t, n), NEW m \in t.live, k \in t.chain[m]
        PROVE  m \in Subtree(t, n)
    BY <2>2 DEF Subtree, TreeOK
  <2> QED
    BY <1>2, <2>1, <2>2, WithoutOK DEF Dropped
<1> QED
  BY <1>1, <1>2

(* No node descends from no node.                                          *)
LEMMA NoSubtree ==
  ASSUME NEW t, TreeOK(t)
  PROVE  Subtree(t, NoNode) = {}
BY NodeType DEF Subtree, TreeOK, Tree

(* Once a session is over there is the board, and no branch.               *)
LEMMA KilledRoot ==
  ASSUME NEW t, TreeOK(t)
  PROVE  LET u == KilledChildren(t, Root)
         IN  u.live = {Root} /\ u.view[Root] = t.view[Root]
BY KilledOK DEF TreeOK, Subtree, Pruned

LEMMA CommittedOK ==
  ASSUME NEW t, TreeOK(t), NEW n
  PROVE  LET u == KilledChildren(Committed(t, n), Root)
         IN  /\ TreeOK(u) /\ u.live = {Root}
             /\ u.view[Root] = IF n \in t.live \ {Root} THEN t.view[n] ELSE t.view[Root]
<1>1. CASE n \in t.live \ {Root}
  <2> DEFINE w == [t EXCEPT !.view[Root] = t.view[n]]
  <2>1. /\ TreeOK(w) /\ w.view[Root] = t.view[n]
    BY <1>1 DEF TreeOK, Tree
  <2> HIDE DEF w
  <2>2. /\ TreeOK(KilledChildren(w, Root)) /\ KilledChildren(w, Root).live = {Root}
        /\ KilledChildren(w, Root).view[Root] = t.view[n]
    BY <2>1, KilledOK, KilledRoot
  <2>3. /\ TreeOK(KilledChildren(KilledChildren(w, Root), Root))
        /\ KilledChildren(KilledChildren(w, Root), Root).live = {Root}
        /\ KilledChildren(KilledChildren(w, Root), Root).view[Root] = t.view[n]
    BY <2>2, KilledOK, KilledRoot
  <2> QED
    BY <1>1, <2>3 DEF Committed, w
<1>2. CASE n \notin t.live \ {Root}
  BY <1>2, KilledOK, KilledRoot DEF Committed
<1> QED
  BY <1>1, <1>2
----------------------------------------------------------------------------
(* What a handler works on: the world, the dragger and the shove, and the  *)
(* placer where there is one.                                              *)
DragState == [tree : Tree(Fact), drag : DragType, shove : ShoveType]
PairState == [tree : Tree(Fact), drag : DragType, shove : ShoveType, placer : PlacerType]
IsState(s) == s \in DragState \/ s \in PairState

(* The nodes that are alive or referred to, and room for n more.           *)
Used(s) == (s.tree.live \cup Held(s)) \ {NoNode}
Spare(s, n) == Cardinality(Node \ Used(s)) >= n

(* u is t with a new node c on n; and t with facts of a node replaced.     *)
Grown(t, u, n, c) ==
    /\ c \in Node \ t.live
    /\ u.live = t.live \cup {c}
    /\ u.chain[c] = t.chain[n] \cup {c} /\ u.view[c] = t.view[n]
    /\ \A m \in t.live : u.chain[m] = t.chain[m] /\ u.view[m] = t.view[m]
Repainted(t, u, n, gone, new) ==
    /\ u.live = t.live /\ u.chain = t.chain
    /\ u.view[n] = (t.view[n] \ gone) \cup new
    /\ \A m \in t.live \ {n} : u.view[m] = t.view[m]

LEMMA StateType ==
  ASSUME NEW s, IsState(s)
  PROVE  /\ s.tree \in Tree(Fact) /\ s.drag \in DragType /\ s.shove \in ShoveType
         /\ s.tree.live \subseteq Node
         /\ {s.drag.bed, s.drag.last, s.drag.walk, s.shove.root, s.shove.current}
              \subseteq NodeOrNone
         /\ s.shove.stack \in Seq(Node)
         /\ Len(s.shove.stack) \in Nat /\ DOMAIN s.shove.stack = 1..Len(s.shove.stack)
         /\ \A i \in 1..Len(s.shove.stack) : /\ s.shove.stack[i] \in Node
                                             /\ s.shove.stack[i] \in Frames(s)
         /\ \A n \in Frames(s) : \E i \in 1..Len(s.shove.stack) : n = s.shove.stack[i]
         /\ Frames(s) \subseteq Node
         /\ s.shove.stack = <<>> <=> Len(s.shove.stack) = 0
         /\ Last(s.shove.stack) = s.shove.stack[Len(s.shove.stack)]
         /\ Held(s) = {s.drag.bed, s.drag.last, s.drag.walk, s.shove.root, s.shove.current}
                         \cup Frames(s)
<1>1. s.tree \in Tree(Fact) /\ s.drag \in DragType /\ s.shove \in ShoveType
  BY DEF IsState, DragState, PairState
<1>2. s.shove.stack \in Seq(Node)
  BY <1>1 DEF ShoveType
<1>3. /\ Len(s.shove.stack) \in Nat /\ DOMAIN s.shove.stack = 1..Len(s.shove.stack)
      /\ \A i \in 1..Len(s.shove.stack) : s.shove.stack[i] \in Node
      /\ s.shove.stack = <<>> <=> Len(s.shove.stack) = 0
  BY <1>2, LenProperties, ElementOfSeq, EmptySeq
<1>4. /\ \A i \in 1..Len(s.shove.stack) : s.shove.stack[i] \in Frames(s)
      /\ \A n \in Frames(s) : \E i \in 1..Len(s.shove.stack) : n = s.shove.stack[i]
  BY <1>3 DEF Frames, ToSet
<1>5. Frames(s) \subseteq Node
  BY <1>3, <1>4
<1>6. s.tree.live \subseteq Node
  BY <1>1 DEF Tree
<1>7. {s.drag.bed, s.drag.last, s.drag.walk, s.shove.root, s.shove.current} \subseteq NodeOrNone
  BY <1>1 DEF DragType, ShoveType
<1>8. Last(s.shove.stack) = s.shove.stack[Len(s.shove.stack)]
  BY DEF Last
<1> QED
  BY <1>1, <1>2, <1>3, <1>4, <1>5, <1>6, <1>7, <1>8 DEF Held, Frames

LEMMA NewInFresh ==
  ASSUME NEW s, IsState(s), Spare(s, 1)
  PROVE  /\ NewIn(s) \in Node \ Used(s) /\ NewIn(s) # NoNode
         /\ NewIn(s) \notin s.tree.live /\ NewIn(s) \notin Held(s)
<1> DEFINE U == Node \ (s.tree.live \cup Held(s))
<1>1. U = Node \ Used(s)
  BY NodeType DEF Used
<1>2. U # {}
  BY <1>1, FS_EmptySet DEF Spare
<1>3. U \in SUBSET Nat
  BY NodeType
<1>4. Min(U) \in U
  BY <1>2, <1>3, MinOfNat
<1> QED
  BY <1>1, <1>4, NodeType DEF NewIn

LEMMA SpareMonotone ==
  ASSUME NEW s, NEW u, NEW n \in Nat, NEW m \in Nat, m <= n, Spare(s, n), Used(u) \subseteq Used(s)
  PROVE  Spare(u, m)
<1>1. IsFiniteSet(Node)
  BY AssumeBounds, FS_Interval DEF Node
<1>2. IsFiniteSet(Node \ Used(u)) /\ Node \ Used(s) \subseteq Node \ Used(u)
  BY <1>1, FS_Subset
<1>3. /\ Cardinality(Node \ Used(s)) <= Cardinality(Node \ Used(u))
      /\ Cardinality(Node \ Used(s)) \in Nat /\ Cardinality(Node \ Used(u)) \in Nat
  BY <1>2, FS_Subset, FS_CardinalityType
<1> QED
  BY <1>3 DEF Spare

LEMMA SpareAfter ==
  ASSUME NEW s, NEW u, NEW n \in Nat, NEW m \in Nat, m = n + 1, NEW c, Spare(s, m),
         Used(u) \subseteq Used(s) \cup {c}
  PROVE  Spare(u, n)
<1> DEFINE A == Node \ Used(s)
           B == Node \ Used(u)
<1>1. IsFiniteSet(Node)
  BY AssumeBounds, FS_Interval DEF Node
<1>2. IsFiniteSet(A) /\ IsFiniteSet(B) /\ A \ {c} \subseteq B
  BY <1>1, FS_Subset
<1>3. /\ Cardinality(A) \in Nat /\ Cardinality(B) \in Nat /\ IsFiniteSet(A \ {c})
      /\ Cardinality(A \ {c}) \in Nat
      /\ Cardinality(A \ {c}) = IF c \in A THEN Cardinality(A) - 1 ELSE Cardinality(A)
      /\ Cardinality(A \ {c}) <= Cardinality(B)
  <2> HIDE DEF A, B
  <2> QED
    BY <1>2, FS_Subset, FS_CardinalityType, FS_RemoveElement
<1>4. Cardinality(A) >= n + 1
  BY DEF Spare
<1>5. Cardinality(B) >= n
  <2> HIDE DEF A, B
  <2> QED
    BY <1>3, <1>4
<1> QED
  BY <1>5 DEF Spare
----------------------------------------------------------------------------
(* What nobody drags stays, and no legs come, as the tree grows and is     *)
(* pruned.                                                                 *)
Calm(t, pieces) == OthersStay(t, pieces) /\ NoLegs(t)

LEMMA CalmGrown ==
  ASSUME NEW t, NEW u, NEW n \in t.live, NEW c, Grown(t, u, n, c), NEW X
  PROVE  /\ OthersStay(t, X) => OthersStay(u, X)
         /\ NoLegs(t) => NoLegs(u)
BY DEF Grown, OthersStay, NoLegs, Shows, LegsIn

LEMMA CalmPruned ==
  ASSUME NEW t, NEW u, Pruned(t, u), NEW X
  PROVE  /\ OthersStay(t, X) => OthersStay(u, X)
         /\ NoLegs(t) => NoLegs(u)
BY DEF Pruned, OthersStay, NoLegs, Shows, LegsIn

(* Facts about the pieces X only, and no legs.                             *)
About(F, X) == /\ \A y \in Piece \ X : Versions(y) \cap F = {}
               /\ \A f \in F : ~IsLeg(f)

LEMMA CalmRepainted ==
  ASSUME NEW t, NEW u, NEW n \in t.live, NEW gone, NEW new, Repainted(t, u, n, gone, new), NEW X,
         About(gone, X), About(new, X)
  PROVE  /\ OthersStay(t, X) => OthersStay(u, X)
         /\ NoLegs(t) => NoLegs(u)
<1>1. ASSUME OthersStay(t, X), NEW m \in u.live, NEW y \in Piece \ X
      PROVE  Shows(u, m, y) = {Old(y)}
  <2>1. Shows(t, m, y) = {Old(y)}
    BY <1>1 DEF Repainted, OthersStay
  <2>2. Versions(y) \cap (gone \cup new) = {}
    BY <1>1 DEF About
  <2>3. u.view[m] = t.view[m] \/ u.view[m] = (t.view[m] \ gone) \cup new
    BY <1>1 DEF Repainted
  <2> QED
    BY <2>1, <2>2, <2>3 DEF Shows
<1>2. ASSUME NoLegs(t), NEW m \in u.live
      PROVE  LegsIn(u, m) = {}
  <2>1. LegsIn(t, m) = {}
    BY <1>2 DEF Repainted, NoLegs
  <2>2. u.view[m] = t.view[m] \/ u.view[m] = (t.view[m] \ gone) \cup new
    BY <1>2 DEF Repainted
  <2> QED
    BY <2>1, <2>2 DEF LegsIn, About
<1> QED
  BY <1>1, <1>2 DEF OthersStay, NoLegs
----------------------------------------------------------------------------
(* The steps the draggers are made of keep what they hold standing.        *)
LEMMA WithoutLastOK ==
  ASSUME NEW s, IsState(s), Standing(s)
  PROVE  LET u == WithoutLast(s)
         IN  /\ IsState(u) /\ Standing(u)
             /\ u.drag = [s.drag EXCEPT !.last = NoNode] /\ u.shove = s.shove
             /\ Pruned(s.tree, u.tree) /\ u.tree.live = s.tree.live \ {s.drag.last}
             /\ Used(u) \subseteq Used(s)
<1> DEFINE u == WithoutLast(s)
           l == s.drag.last
           v == Dropped(s.tree, l)
<1>1. TreeOK(s.tree) /\ l \in NodeOrNone /\ l # Root
  BY NodeType, StateType DEF Standing, HandlesHold, Held
<1>2. TreeOK(v) /\ Pruned(s.tree, v) /\ v.live = s.tree.live \ Subtree(s.tree, l)
  BY <1>1, DroppedOK
<1>3. Subtree(s.tree, l) \subseteq {l} /\ NoNode \notin s.tree.live
  BY <1>1, NoSubtree, NodeType, StateType DEF Standing, LastAlone
<1>4. v.live = s.tree.live \ {l}
  <2>1. l \in s.tree.live => l \in Subtree(s.tree, l)
    BY <1>1 DEF TreeOK, Subtree
  <2> QED
    BY <1>2, <1>3, <2>1
<1>5. /\ u.tree = v /\ u.drag = [s.drag EXCEPT !.last = NoNode] /\ u.shove = s.shove
      /\ IsState(u)
  <2>1. v \in Tree(Fact)
    BY <1>2 DEF TreeOK
  <2>2. [s.drag EXCEPT !.last = NoNode] \in DragType
    BY StateType DEF DragType, NodeOrNone
  <2>3. u = [[s EXCEPT !.tree = v] EXCEPT !.drag = [s.drag EXCEPT !.last = NoNode]]
    BY DEF WithoutLast, IsState, DragState, PairState
  <2> HIDE DEF v, u
  <2> QED
    BY <2>1, <2>2, <2>3 DEF IsState, DragState, PairState
<1> HIDE DEF u, v
<1>6. /\ u.drag.bed = s.drag.bed /\ u.drag.walk = s.drag.walk /\ u.drag.last = NoNode
  BY <1>5, StateType DEF DragType
<1>7. Held(u) \ {NoNode} \subseteq Held(s) \ {NoNode, l}
  BY <1>5, <1>6, StateType DEF Standing, LastAlone, Held, Frames, HandlesHold, NodeOrNone
<1>8. HandlesHold(u)
  BY <1>4, <1>5, <1>7 DEF Standing, HandlesHold
<1>9. LastAlone(u)
  BY <1>6 DEF LastAlone
<1>10. WalkAlone(u)
  BY <1>2, <1>4, <1>5, <1>6 DEF Standing, WalkAlone, Subtree, Pruned, Frames
<1>11. FramesOrdered(u)
  <2>1. \A n \in {s.drag.bed, s.drag.walk, s.shove.root} \ {NoNode} : n \in u.tree.live
    BY <1>5, <1>6, <1>8 DEF HandlesHold, Held
  <2>2. \A i \in DOMAIN s.shove.stack : s.shove.stack[i] \in u.tree.live
    <3>1. \A i \in DOMAIN s.shove.stack : s.shove.stack[i] \in Held(u) \ {NoNode}
      BY <1>5, StateType, NodeType DEF Held, Frames
    <3> QED
      BY <3>1, <1>8 DEF HandlesHold
  <2>3. \A n \in u.tree.live : u.tree.chain[n] = s.tree.chain[n]
    BY <1>2, <1>5 DEF Pruned
  <2>4. \A j \in DOMAIN s.shove.stack : \A i \in 1..(j - 1) : i \in DOMAIN s.shove.stack
    BY StateType
  <2> QED
    BY <1>5, <1>6, <2>1, <2>2, <2>3, <2>4 DEF Standing, FramesOrdered
<1>12. Used(u) \subseteq Used(s)
  BY <1>4, <1>5, <1>7 DEF Used
<1> QED
  BY <1>2, <1>4, <1>5, <1>8, <1>9, <1>10, <1>11, <1>12 DEF Standing, u

LastAs(s, n, c) == [s EXCEPT !.tree = Branched(@, n, c), !.drag.last = c]

LEMMA LastAsOK ==
  ASSUME NEW s, IsState(s), Standing(s), s.drag.last = NoNode, NEW c \in Node \ Used(s),
         NEW n \in s.tree.live
  PROVE  LET u == LastAs(s, n, c)
         IN  /\ IsState(u) /\ Standing(u)
             /\ u.drag = [s.drag EXCEPT !.last = c] /\ u.shove = s.shove
             /\ c \in Node \ {Root, NoNode} /\ c \notin Held(s)
             /\ Grown(s.tree, u.tree, n, c)
             /\ Used(u) \subseteq Used(s) \cup {c}
<1> DEFINE u == LastAs(s, n, c)
           v == Branched(s.tree, n, c)
<1>1. /\ c \in Node \ {Root, NoNode} /\ c \notin Held(s) /\ c \notin s.tree.live
      /\ TreeOK(s.tree)
  BY NodeType DEF Standing, TreeOK, Used
<1>2. TreeOK(v) /\ Grown(s.tree, v, n, c)
  BY <1>1, BranchedOK DEF Grown
<1>3. /\ u.tree = v /\ u.drag = [s.drag EXCEPT !.last = c] /\ u.shove = s.shove
      /\ IsState(u)
  <2>1. v \in Tree(Fact)
    BY <1>2 DEF TreeOK
  <2>2. [s.drag EXCEPT !.last = c] \in DragType
    BY <1>1, StateType DEF DragType, NodeOrNone
  <2>3. u = [[s EXCEPT !.tree = v] EXCEPT !.drag = [s.drag EXCEPT !.last = c]]
    BY DEF LastAs, IsState, DragState, PairState
  <2> HIDE DEF v, u
  <2> QED
    BY <2>1, <2>2, <2>3 DEF IsState, DragState, PairState
<1> HIDE DEF u, v
<1>4. /\ u.drag.bed = s.drag.bed /\ u.drag.walk = s.drag.walk /\ u.drag.last = c
  BY <1>3, StateType DEF DragType
<1>5. /\ Held(u) \subseteq Held(s) \cup {c}
      /\ u.tree.live = s.tree.live \cup {c}
      /\ \A m \in s.tree.live : u.tree.chain[m] = s.tree.chain[m]
      /\ u.tree.chain[c] = s.tree.chain[n] \cup {c}
  BY <1>2, <1>3, <1>4 DEF Held, Grown
<1>6. HandlesHold(u)
  BY <1>1, <1>3, <1>5 DEF Standing, HandlesHold
<1>7. \A m \in s.tree.live : c \notin s.tree.chain[m]
  BY <1>1 DEF TreeOK
<1>8. LastAlone(u)
  BY <1>1, <1>3, <1>4, <1>5, <1>7 DEF LastAlone, Subtree, Held, Frames
<1>9. WalkAlone(u)
  <2> SUFFICES ASSUME s.drag.walk # NoNode PROVE WalkAlone(u)
    BY <1>4 DEF WalkAlone
  <2>1. Subtree(s.tree, s.drag.walk) \subseteq {s.drag.walk, NoNode}
    BY DEF Standing, WalkAlone
  <2>2. Subtree(u.tree, s.drag.walk) \subseteq Subtree(s.tree, s.drag.walk) \cup {c}
    BY <1>5 DEF Subtree
  <2>3. NoNode \notin u.tree.live
    BY <1>1, <1>5, StateType, NodeType
  <2>4. Subtree(u.tree, s.drag.walk) \subseteq {s.drag.walk, c}
    BY <2>1, <2>2, <2>3 DEF Subtree
  <2> QED
    BY <1>3, <1>4, <2>4 DEF Standing, WalkAlone, Frames
<1>10. FramesOrdered(u)
  <2>1. \A m \in {s.drag.bed, s.drag.walk, s.shove.root} \ {NoNode} : m \in s.tree.live
    BY DEF Standing, HandlesHold, Held
  <2>2. \A i \in DOMAIN s.shove.stack : s.shove.stack[i] \in s.tree.live
    <3>1. \A i \in DOMAIN s.shove.stack : s.shove.stack[i] \in Held(s) \ {NoNode}
      BY StateType, NodeType
    <3> QED
      BY <3>1 DEF Standing, HandlesHold
  <2>3. \A j \in DOMAIN s.shove.stack : \A i \in 1..(j - 1) : i \in DOMAIN s.shove.stack
    BY StateType
  <2> QED
    BY <1>3, <1>4, <1>5, <2>1, <2>2, <2>3 DEF Standing, FramesOrdered
<1>11. Used(u) \subseteq Used(s) \cup {c}
  BY <1>5 DEF Used
<1> QED
  BY <1>1, <1>2, <1>3, <1>6, <1>8, <1>9, <1>10, <1>11 DEF Standing, u

(* The fields that Standing is about.                                      *)
SameHandles(s, u) ==
    /\ u.drag.bed = s.drag.bed /\ u.drag.last = s.drag.last /\ u.drag.walk = s.drag.walk
    /\ u.shove = s.shove

LEMMA SameStanding ==
  ASSUME NEW s, IsState(s), Standing(s), NEW u, IsState(u), SameHandles(s, u),
         TreeOK(u.tree), u.tree.live = s.tree.live, u.tree.chain = s.tree.chain
  PROVE  Standing(u) /\ Used(u) = Used(s)
<1>1. Held(u) = Held(s) /\ Frames(u) = Frames(s)
  BY DEF SameHandles, Held, Frames
<1>2. HandlesHold(u)
  BY <1>1 DEF Standing, HandlesHold, SameHandles
<1>3. LastAlone(u) /\ WalkAlone(u)
  BY <1>1 DEF Standing, LastAlone, WalkAlone, SameHandles, Subtree
<1>4. FramesOrdered(u)
  BY <1>1 DEF Standing, FramesOrdered, SameHandles
<1> QED
  BY <1>1, <1>2, <1>3, <1>4 DEF Standing, Used

LEMMA PutOK ==
  ASSUME NEW s, IsState(s), Standing(s), NEW n \in s.tree.live, NEW gone,
         NEW new \in SUBSET Fact
  PROVE  LET u == Put(s, n, gone, new)
         IN  /\ IsState(u) /\ Standing(u) /\ u.drag = s.drag /\ u.shove = s.shove
             /\ Repainted(s.tree, u.tree, n, gone, new)
             /\ Used(u) = Used(s)
             /\ (s \in PairState => u \in PairState /\ u.placer = s.placer)
             /\ (s \in DragState => u \in DragState)
<1> DEFINE u == Put(s, n, gone, new)
           v == [s.tree EXCEPT !.view[n] = (@ \ gone) \cup new]
<1>1. s.tree \in Tree(Fact) /\ n \in Node
  BY StateType
<1>2. v \in Tree(Fact) /\ Repainted(s.tree, v, n, gone, new)
  BY <1>1 DEF Tree, Repainted
<1>3. /\ u.tree = v /\ u.drag = s.drag /\ u.shove = s.shove /\ IsState(u)
      /\ (s \in PairState => u \in PairState /\ u.placer = s.placer)
      /\ (s \in DragState => u \in DragState)
  <2>1. u = [s EXCEPT !.tree = v]
    BY DEF Put, IsState, DragState, PairState
  <2> HIDE DEF v, u
  <2> QED
    BY <1>2, <2>1 DEF IsState, DragState, PairState
<1> HIDE DEF u, v
<1>4. TreeOK(u.tree) /\ u.tree.live = s.tree.live /\ u.tree.chain = s.tree.chain
  BY <1>2, <1>3 DEF Standing, TreeOK, Repainted
<1> QED
  BY <1>2, <1>3, <1>4, SameStanding DEF SameHandles, u
----------------------------------------------------------------------------
(* The shove: the springback is reduced to its first k frames, and a run   *)
(* puts a frame on the one it stands on.                                   *)
GroundAt(s, k) == IF k = 0 THEN s.shove.root ELSE s.shove.stack[k]
Popped(s, k) == ToSet(SubSeq(s.shove.stack, k + 1, Len(s.shove.stack)))
ReducedShove(s, k) == [s.shove EXCEPT !.stack = SubSeq(s.shove.stack, 1, k),
                                      !.current = GroundAt(s, k)]
Reduced(s, k) == [s EXCEPT !.tree = Without(@, UNION {Subtree(@, n) : n \in Popped(s, k)}),
                           !.shove = ReducedShove(s, k)]
RunOn(r, frame) == [r EXCEPT !.tree = Branched(@, r.shove.current, frame),
                             !.shove = [r.shove EXCEPT !.stack = Append(@, frame),
                                                       !.current = frame]]

LEMMA PoppedIs ==
  ASSUME NEW s, IsState(s), NEW k \in Nat, k <= Len(s.shove.stack)
  PROVE  Popped(s, k) = {s.shove.stack[j] : j \in (k + 1)..Len(s.shove.stack)}
<1> DEFINE q == s.shove.stack
           r == SubSeq(q, k + 1, Len(q))
<1>1. q \in Seq(Node) /\ Len(q) \in Nat /\ \A i \in 1..Len(q) : q[i] \in Node
  BY StateType
<1>2. /\ r \in Seq(Node) /\ Len(r) = Len(q) - k
      /\ \A i \in 1..(Len(q) - k) : r[i] = q[k + i]
  <2> HIDE DEF q
  <2>1. /\ r \in Seq(Node) /\ Len(r) = IF k + 1 <= Len(q) THEN Len(q) - (k + 1) + 1 ELSE 0
        /\ \A i \in 1..(Len(q) - (k + 1) + 1) : r[i] = q[(k + 1) + i - 1]
    BY <1>1, SubSeqProperties
  <2>2. k <= Len(q)
    BY DEF q
  <2> HIDE DEF r
  <2> QED
    BY <1>1, <2>1, <2>2
<1> HIDE DEF r, q
<1>3. DOMAIN r = 1..(Len(q) - k)
  BY <1>2, LenProperties
<1>4. ToSet(r) = {r[i] : i \in 1..(Len(q) - k)}
  BY <1>3 DEF ToSet
<1>5. \A j \in (k + 1)..Len(q) : j - k \in 1..(Len(q) - k) /\ q[j] = r[j - k]
  BY <1>1, <1>2
<1>6. \A i \in 1..(Len(q) - k) : k + i \in (k + 1)..Len(q)
  BY <1>1
<1>7. ToSet(r) = {q[j] : j \in (k + 1)..Len(q)}
  BY <1>2, <1>4, <1>5, <1>6
<1> QED
  BY <1>7 DEF Popped, q, r

LEMMA ReducedOK ==
  ASSUME NEW s, IsState(s), Standing(s), s.drag.last = NoNode, s.shove.root # NoNode,
         NEW k \in Kept(s)
  PROVE  LET u == Reduced(s, k)
         IN  /\ IsState(u) /\ Standing(u) /\ u.drag = s.drag
             /\ u.shove = ReducedShove(s, k)
             /\ u.shove.root = s.shove.root /\ u.shove.current \in u.tree.live
             /\ u.shove.current \in {s.shove.root} \cup Frames(u)
             /\ u.shove.current \in {s.shove.current} \cup Frames(s)
             /\ Frames(u) \subseteq Frames(s)
             /\ \A j \in DOMAIN u.shove.stack :
                   j \in DOMAIN s.shove.stack /\ u.shove.stack[j] = s.shove.stack[j]
             /\ Pruned(s.tree, u.tree)
             /\ \A n \in s.tree.live :
                  (\A j \in DOMAIN s.shove.stack : s.shove.stack[j] \notin s.tree.chain[n])
                     => n \in u.tree.live
             /\ Used(u) \subseteq Used(s)
             /\ (s \in PairState => u \in PairState /\ u.placer = s.placer)
             /\ (s \in DragState => u \in DragState)
<1> DEFINE q == s.shove.stack
           u == Reduced(s, k)
           gone == UNION {Subtree(s.tree, n) : n \in Popped(s, k)}
           v == Without(s.tree, gone)
           h == ReducedShove(s, k)
<1>1. /\ k \in Nat /\ k <= Len(q) /\ (k = 0 => q = <<>>) /\ Len(q) \in Nat
      /\ DOMAIN q = 1..Len(q) /\ q \in Seq(Node)
      /\ \A i \in 1..Len(q) : q[i] \in Node /\ q[i] \in Frames(s)
  BY StateType DEF Kept
<1>2. /\ SubSeq(q, 1, k) \in Seq(Node) /\ Len(SubSeq(q, 1, k)) = k
      /\ \A i \in 1..k : SubSeq(q, 1, k)[i] = q[i]
      /\ DOMAIN SubSeq(q, 1, k) = 1..k
  <2> HIDE DEF q
  <2>1. \A i \in 1..k : q[i] \in Node
    BY <1>1
  <2>2. /\ SubSeq(q, 1, k) \in Seq(Node) /\ Len(SubSeq(q, 1, k)) = k
        /\ \A i \in 1..k : SubSeq(q, 1, k)[i] = q[i + 1 - 1]
    BY <1>1, <2>1, SubSeqProperties
  <2> QED
    BY <2>2, LenProperties
<1>3. /\ TreeOK(s.tree) /\ \A i \in 1..Len(q) : q[i] \in s.tree.live \ {Root}
      /\ s.shove.root \in s.tree.live \ {Root}
  <2>1. Held(s) \ {NoNode} \subseteq s.tree.live \ {Root} /\ TreeOK(s.tree)
    BY DEF Standing, HandlesHold
  <2>2. \A i \in 1..Len(q) : q[i] \in Held(s) \ {NoNode}
    BY <1>1, NodeType, StateType
  <2>3. s.shove.root \in Held(s) \ {NoNode}
    BY DEF Held
  <2> QED
    BY <2>1, <2>2, <2>3
<1>4. GroundAt(s, k) \in Node
  BY <1>1, <1>3, StateType DEF GroundAt
<1>5. /\ h \in ShoveType /\ h.stack = SubSeq(q, 1, k) /\ h.current = GroundAt(s, k)
      /\ h.root = s.shove.root
  BY <1>2, <1>4, StateType DEF ReducedShove, ShoveType, NodeOrNone
<1>6. TreeOK(v) /\ Pruned(s.tree, v) /\ v.live = s.tree.live \ gone
  <2>1. Root \notin gone
    <3>1. \A n \in Popped(s, k) : n # Root
      BY <1>1, <1>3, PoppedIs
    <3> QED
      BY <1>3, <3>1 DEF Subtree, TreeOK
  <2>2. ASSUME NEW n \in gone, NEW m \in s.tree.live, n \in s.tree.chain[m] PROVE m \in gone
    <3>1. PICK f \in Popped(s, k) : n \in Subtree(s.tree, f)
      OBVIOUS
    <3>2. m \in Subtree(s.tree, f)
      BY <1>3, <2>2, <3>1 DEF Subtree, TreeOK
    <3> QED
      BY <3>1, <3>2
  <2> HIDE DEF gone
  <2> QED
    BY <1>3, <2>1, <2>2, WithoutOK
<1>7. /\ u.tree = v /\ u.shove = h /\ u.drag = s.drag /\ IsState(u)
      /\ (s \in PairState => u \in PairState /\ u.placer = s.placer)
      /\ (s \in DragState => u \in DragState)
  <2>1. v \in Tree(Fact)
    BY <1>6 DEF TreeOK
  <2>2. u = [[s EXCEPT !.tree = v] EXCEPT !.shove = h]
    BY DEF Reduced, IsState, DragState, PairState
  <2> HIDE DEF u, v, h
  <2> QED
    BY <1>5, <2>1, <2>2 DEF IsState, DragState, PairState
<1>8. ASSUME NEW n \in s.tree.live, \A j \in (k + 1)..Len(q) : q[j] \notin s.tree.chain[n]
      PROVE  n \in v.live
  <2>1. n \notin gone
    <3> SUFFICES ASSUME NEW f \in Popped(s, k), n \in Subtree(s.tree, f) PROVE FALSE
      OBVIOUS
    <3>1. PICK j \in (k + 1)..Len(q) : f = q[j]
      BY <1>1, PoppedIs
    <3> QED
      BY <1>8, <3>1 DEF Subtree
  <2> HIDE DEF gone, v
  <2> QED
    BY <1>6, <2>1
<1>9. \A n \in {s.drag.bed, s.drag.walk, s.shove.root} \ {NoNode} : n \in v.live
  <2> TAKE n \in {s.drag.bed, s.drag.walk, s.shove.root} \ {NoNode}
  <2>1. \A j \in (k + 1)..Len(q) : q[j] \notin s.tree.chain[n]
    BY <1>1 DEF Standing, FramesOrdered
  <2>2. n \in s.tree.live
    BY DEF Standing, HandlesHold, Held
  <2> HIDE DEF v, q
  <2> QED
    BY <2>1, <2>2, <1>8
<1>10. \A i \in 1..k : q[i] \in v.live
  <2> TAKE i \in 1..k
  <2>1. \A j \in (k + 1)..Len(q) : q[j] \notin s.tree.chain[q[i]]
    BY <1>1 DEF Standing, FramesOrdered
  <2>2. q[i] \in s.tree.live
    BY <1>1, <1>3
  <2> HIDE DEF v, q
  <2> QED
    BY <2>1, <2>2, <1>8
<1> HIDE DEF u, v, h
<1>10a. /\ u.drag.bed = s.drag.bed /\ u.drag.walk = s.drag.walk /\ u.drag.last = NoNode
        /\ u.shove.root = s.shove.root /\ u.shove.current = GroundAt(s, k)
        /\ u.shove.stack = SubSeq(q, 1, k) /\ IsState(u) /\ u.tree = v
  BY <1>5, <1>7
<1> HIDE DEF q
<1>11. /\ \A n \in Frames(u) : \E i \in 1..k : n = q[i]
       /\ Frames(u) \subseteq Frames(s)
       /\ \A i \in 1..k : q[i] \in Frames(u)
       /\ DOMAIN u.shove.stack = 1..k /\ \A i \in 1..k : u.shove.stack[i] = q[i]
  <2>1. DOMAIN u.shove.stack = 1..k /\ \A i \in 1..k : u.shove.stack[i] = q[i]
    BY <1>2, <1>10a
  <2>2. Frames(u) = {u.shove.stack[i] : i \in 1..k}
    BY <2>1 DEF Frames, ToSet
  <2>3. \A i \in 1..k : q[i] \in Frames(s)
    BY <1>1
  <2> QED
    BY <2>1, <2>2, <2>3
<1>12. GroundAt(s, k) = IF k = 0 THEN s.shove.root ELSE q[k]
  BY DEF GroundAt, q
<1>13. GroundAt(s, k) \in v.live /\ GroundAt(s, k) \in {s.shove.root} \cup Frames(u)
  <2>1. s.shove.root \in v.live
    BY <1>9
  <2> QED
    BY <1>1, <1>10, <1>11, <1>12, <2>1
<1>14. GroundAt(s, k) \in {s.shove.current} \cup Frames(s)
  <2>1. k = 0 => s.shove.current = s.shove.root
    BY <1>1 DEF Standing, HandlesHold, q
  <2> QED
    BY <1>1, <1>12, <2>1
<1>15. HandlesHold(u)
  <2>1. Held(u) = {s.drag.bed, NoNode, s.drag.walk, s.shove.root, GroundAt(s, k)} \cup Frames(u)
    BY <1>10a, StateType
  <2>2. \A n \in Held(u) \ {NoNode} : n \in v.live
    BY <2>1, <1>9, <1>10, <1>11, <1>13
  <2>3. \A n \in Held(u) \ {NoNode} : n # Root
    <3>1. Held(u) \ {NoNode} \subseteq Held(s) \ {NoNode}
      BY <2>1, <1>11, <1>14, StateType
    <3> QED
      BY <3>1 DEF Standing, HandlesHold
  <2>4. GroundAt(s, k) = IF u.shove.stack = <<>> THEN u.shove.root ELSE Last(u.shove.stack)
    <3>1. /\ u.shove.stack = <<>> <=> k = 0
          /\ Last(u.shove.stack) = u.shove.stack[k]
      <4>1. Len(u.shove.stack) = k
        BY <1>2, <1>10a
      <4> QED
        BY <4>1, <1>10a, StateType
    <3> QED
      BY <3>1, <1>1, <1>10a, <1>11, <1>12
  <2> QED
    BY <2>2, <2>3, <2>4, <1>10a DEF HandlesHold
<1>16. LastAlone(u)
  BY <1>10a DEF LastAlone
<1>17. WalkAlone(u)
  BY <1>6, <1>10a, <1>11 DEF Standing, WalkAlone, Subtree, Pruned
<1>18. FramesOrdered(u)
  <2>1. \A m \in v.live : v.chain[m] = s.tree.chain[m]
    BY <1>6 DEF Pruned
  <2>2. ASSUME NEW j \in 1..k PROVE
          /\ \A n \in {s.drag.bed, s.drag.walk, s.shove.root} \ {NoNode} : q[j] \notin v.chain[n]
          /\ \A i \in 1..(j - 1) : q[j] \notin v.chain[q[i]]
    <3>1. j \in 1..Len(q) /\ \A i \in 1..(j - 1) : i \in 1..k
      BY <1>1
    <3>2. /\ \A n \in {s.drag.bed, s.drag.walk, s.shove.root} \ {NoNode} : q[j] \notin s.tree.chain[n]
          /\ \A i \in 1..(j - 1) : q[j] \notin s.tree.chain[q[i]]
      BY <3>1, <1>1 DEF Standing, FramesOrdered, q
    <3> QED
      BY <2>1, <3>1, <3>2, <1>9, <1>10
  <2>3. \A j \in 1..k : \A i \in 1..(j - 1) : i \in 1..k
    BY <1>1
  <2> QED
    BY <2>2, <2>3, <1>10a, <1>11 DEF FramesOrdered
<1>19. Used(u) \subseteq Used(s)
  <2>1. Held(u) \ {NoNode} \subseteq Held(s) \ {NoNode}
    BY <1>10a, <1>11, <1>14, StateType
  <2> QED
    BY <2>1, <1>6, <1>10a DEF Used
<1>20. \A n \in s.tree.live :
         (\A j \in DOMAIN s.shove.stack : s.shove.stack[j] \notin s.tree.chain[n]) => n \in v.live
  BY <1>1, <1>8 DEF q
<1>21. Standing(u) /\ Pruned(s.tree, u.tree)
  BY <1>6, <1>10a, <1>15, <1>16, <1>17, <1>18 DEF Standing
<1>22. \A j \in DOMAIN u.shove.stack :
         j \in DOMAIN s.shove.stack /\ u.shove.stack[j] = s.shove.stack[j]
  BY <1>1, <1>11 DEF q
<1> QED
  BY <1>7, <1>10a, <1>11, <1>13, <1>14, <1>19, <1>20, <1>21, <1>22 DEF u, h

LEMMA RunOnOK ==
  ASSUME NEW r, IsState(r), Standing(r), r.drag.last = NoNode, r.shove.root # NoNode,
         r.shove.current \in r.tree.live, r.shove.current \in {r.shove.root} \cup Frames(r),
         NEW f \in Node \ Used(r), f # Root
  PROVE  LET u == RunOn(r, f)
         IN  /\ IsState(u) /\ Standing(u) /\ u.drag = r.drag
             /\ u.shove.root = r.shove.root /\ u.shove.current = f
             /\ u.shove.stack = Append(r.shove.stack, f)
             /\ Frames(u) = Frames(r) \cup {f}
             /\ \A j \in DOMAIN u.shove.stack :
                  \/ j \in DOMAIN r.shove.stack /\ u.shove.stack[j] = r.shove.stack[j]
                  \/ u.shove.stack[j] = f
             /\ Grown(r.tree, u.tree, r.shove.current, f)
             /\ Used(u) \subseteq Used(r) \cup {f}
             /\ (r \in PairState => u \in PairState /\ u.placer = r.placer)
             /\ (r \in DragState => u \in DragState)
<1> DEFINE q == r.shove.stack
           u == RunOn(r, f)
           n == r.shove.current
           v == Branched(r.tree, n, f)
           h == [r.shove EXCEPT !.stack = Append(@, f), !.current = f]
           m == Len(q)
<1>1. /\ TreeOK(r.tree) /\ f \notin r.tree.live /\ f \notin Held(r) /\ f # NoNode /\ f \in Node
  BY NodeType DEF Standing, Used
<1>2. TreeOK(v) /\ Grown(r.tree, v, n, f)
  BY <1>1, BranchedOK DEF Grown
<1>3. /\ q \in Seq(Node) /\ m \in Nat /\ DOMAIN q = 1..m
      /\ \A i \in 1..m : q[i] \in Node /\ q[i] \in Frames(r)
      /\ Append(q, f) \in Seq(Node) /\ Len(Append(q, f)) = m + 1
      /\ DOMAIN Append(q, f) = 1..(m + 1)
      /\ \A i \in 1..m : Append(q, f)[i] = q[i]
      /\ Append(q, f)[m + 1] = f /\ Append(q, f) # <<>>
  BY <1>1, StateType, AppendProperties, LenProperties
<1>4. /\ h \in ShoveType /\ h.stack = Append(q, f) /\ h.current = f /\ h.root = r.shove.root
  BY <1>1, <1>3, StateType, ZenonT(60) DEF ShoveType, NodeOrNone
<1>5. /\ u.tree = v /\ u.shove = h /\ u.drag = r.drag /\ IsState(u)
      /\ (r \in PairState => u \in PairState /\ u.placer = r.placer)
      /\ (r \in DragState => u \in DragState)
  <2>1. v \in Tree(Fact)
    BY <1>2 DEF TreeOK
  <2>2. u = [[r EXCEPT !.tree = v] EXCEPT !.shove = h]
    BY DEF RunOn, IsState, DragState, PairState
  <2> HIDE DEF u, v, h
  <2> QED
    BY <1>4, <2>1, <2>2 DEF IsState, DragState, PairState
<1> HIDE DEF u, v, h
<1>6. /\ u.drag.bed = r.drag.bed /\ u.drag.walk = r.drag.walk /\ u.drag.last = NoNode
      /\ u.shove.root = r.shove.root /\ u.shove.current = f
      /\ u.shove.stack = Append(q, f) /\ u.tree = v
  BY <1>4, <1>5
<1>6a. m \in Nat /\ n \in {r.shove.root} \cup Frames(r) /\ n \in r.tree.live
  BY <1>3
<1> HIDE DEF q, n, m
<1>7. /\ DOMAIN u.shove.stack = 1..(m + 1) /\ \A i \in 1..m : u.shove.stack[i] = q[i]
      /\ u.shove.stack[m + 1] = f /\ Len(u.shove.stack) = m + 1
  BY <1>3, <1>6
<1>8. Frames(u) = Frames(r) \cup {f}
  <2>1. Frames(u) = {u.shove.stack[i] : i \in 1..(m + 1)}
    BY <1>7 DEF Frames, ToSet
  <2>2. Frames(r) = {q[i] : i \in 1..m}
    BY <1>3 DEF Frames, ToSet, q
  <2>3. \A i \in 1..(m + 1) : i \in 1..m \/ i = m + 1
    BY <1>6a
  <2>4. \A i \in 1..m : i \in 1..(m + 1)
    BY <1>6a
  <2>5. m + 1 \in 1..(m + 1)
    BY <1>6a
  <2> QED
    BY <2>1, <2>2, <2>3, <2>4, <2>5, <1>7
<1>9. Held(u) \subseteq Held(r) \cup {f}
  BY <1>6, <1>8, StateType DEF Held, Frames
<1>10. /\ v.live = r.tree.live \cup {f} /\ v.chain[f] = r.tree.chain[n] \cup {f}
       /\ \A k \in r.tree.live : v.chain[k] = r.tree.chain[k] /\ f \notin r.tree.chain[k]
  BY <1>1, <1>2 DEF Grown, TreeOK
<1>11. HandlesHold(u)
  <2>1. Last(u.shove.stack) = f /\ u.shove.stack # <<>>
    BY <1>3, <1>6, <1>7 DEF Last
  <2> QED
    BY <2>1, <1>6, <1>9, <1>10 DEF Standing, HandlesHold
<1>12. LastAlone(u)
  BY <1>6 DEF LastAlone
<1>13. WalkAlone(u)
  <2> SUFFICES ASSUME r.drag.walk # NoNode PROVE WalkAlone(u)
    BY <1>6 DEF WalkAlone
  <2>1. /\ Subtree(r.tree, r.drag.walk) \subseteq {r.drag.walk, NoNode}
        /\ r.drag.walk \notin {r.drag.bed, r.shove.root} \cup Frames(r)
        /\ r.drag.walk # f
    BY <1>1 DEF Standing, WalkAlone, Held
  <2>2. r.drag.walk \notin r.tree.chain[n]
    BY <2>1, <1>1, <1>6a, StateType, NodeType DEF Subtree
  <2>3. Subtree(v, r.drag.walk) \subseteq Subtree(r.tree, r.drag.walk)
    BY <2>1, <2>2, <1>10 DEF Subtree
  <2> QED
    BY <2>1, <2>3, <1>6, <1>8 DEF WalkAlone
<1>14. FramesOrdered(u)
  <2>1. \A k \in {r.drag.bed, r.drag.walk, r.shove.root} \ {NoNode} : k \in r.tree.live
    BY DEF Standing, HandlesHold, Held
  <2>2. \A i \in 1..m : q[i] \in r.tree.live
    <3>1. \A i \in 1..m : q[i] \in Held(r) \ {NoNode}
      BY <1>3, StateType, NodeType
    <3> QED
      BY <3>1 DEF Standing, HandlesHold
  <2>3. ASSUME NEW j \in 1..m PROVE
          /\ \A k \in {r.drag.bed, r.drag.walk, r.shove.root} \ {NoNode} : q[j] \notin v.chain[k]
          /\ \A i \in 1..(j - 1) : i \in 1..m /\ q[j] \notin v.chain[q[i]]
    <3>1. \A i \in 1..(j - 1) : i \in 1..m
      BY <1>6a
    <3>2. /\ \A k \in {r.drag.bed, r.drag.walk, r.shove.root} \ {NoNode} : q[j] \notin r.tree.chain[k]
          /\ \A i \in 1..(j - 1) : q[j] \notin r.tree.chain[q[i]]
      BY <1>3 DEF Standing, FramesOrdered, q
    <3> QED
      BY <3>1, <3>2, <2>1, <2>2, <1>10
  <2>4. /\ \A k \in {r.drag.bed, r.drag.walk, r.shove.root} \ {NoNode} : f \notin v.chain[k]
        /\ \A i \in 1..m : f \notin v.chain[q[i]]
    BY <2>1, <2>2, <1>10
  <2>5. \A j \in 1..(m + 1) : j \in 1..m \/ j = m + 1
    BY <1>6a
  <2>6. \A i \in 1..((m + 1) - 1) : i \in 1..m
    BY <1>6a
  <2> SUFFICES ASSUME NEW j \in 1..(m + 1)
               PROVE /\ \A k \in {r.drag.bed, r.drag.walk, r.shove.root} \ {NoNode} :
                           u.shove.stack[j] \notin v.chain[k]
                     /\ \A i \in 1..(j - 1) : u.shove.stack[j] \notin v.chain[u.shove.stack[i]]
    BY <1>6, <1>7 DEF FramesOrdered
  <2>7. CASE j \in 1..m
    BY <2>3, <2>7, <1>7
  <2>8. CASE j = m + 1
    BY <2>4, <2>6, <2>8, <1>7
  <2> QED
    BY <2>5, <2>7, <2>8
<1>15. Used(u) \subseteq Used(r) \cup {f}
  BY <1>6, <1>9, <1>10 DEF Used
<1>16. Standing(u) /\ Grown(r.tree, u.tree, r.shove.current, f)
  BY <1>2, <1>6, <1>11, <1>12, <1>13, <1>14 DEF Standing, n
<1>17. \A j \in DOMAIN u.shove.stack :
         \/ j \in DOMAIN r.shove.stack /\ u.shove.stack[j] = r.shove.stack[j]
         \/ u.shove.stack[j] = f
  <2>1. \A j \in 1..(m + 1) : j \in 1..m \/ j = m + 1
    BY <1>6a
  <2> QED
    BY <2>1, <1>3, <1>7 DEF q
<1> QED
  BY <1>5, <1>6, <1>8, <1>15, <1>16, <1>17 DEF u, q

Pushed(p) == IF p \in Tight THEN {Push(p)} ELSE {}
ViaFacts(s) == UNION {Versions(x) : x \in s.drag.pieces}

LEMMA RanIs ==
  ASSUME NEW s, IsState(s), NEW p, NEW c
  PROVE  LET r == Reduced(s, c.k)
             f == NewIn(r)
         IN  Ran(s, p, c) =
               IF ~c.shoves THEN r
               ELSE IF s.drag.kind = "via"
               THEN Put(RunOn(r, f), f, ViaFacts(s), Pushed(p) \cup Moved(s, p, "straight"))
               ELSE Put(RunOn(r, f), f, {}, Pushed(p))
<1> DEFINE ground == GroundAt(s, c.k)
           frames == SubSeq(s.shove.stack, 1, c.k)
           reduced == [s EXCEPT !.tree = Without(@, UNION {Subtree(@, n) : n \in Popped(s, c.k)}),
                                !.shove.stack = frames, !.shove.current = ground]
           f == NewIn(reduced)
           run == [reduced EXCEPT !.tree = Branched(@, ground, f),
                                  !.shove.stack = Append(@, f), !.shove.current = f]
<1>1. Ran(s, p, c) = IF ~c.shoves THEN reduced
               ELSE IF s.drag.kind = "via"
               THEN Put(run, f, ViaFacts(s), Pushed(p) \cup Moved(s, p, "straight"))
               ELSE Put(run, f, {}, Pushed(p))
  BY ZenonT(60) DEF Ran, Popped, GroundAt, ViaFacts, Pushed
<1>2. reduced = Reduced(s, c.k)
  <2>1. s.shove \in ShoveType
    BY StateType
  <2> DEFINE v == Without(s.tree, UNION {Subtree(s.tree, n) : n \in Popped(s, c.k)})
  <2>2. reduced = [s EXCEPT !.tree = v, !.shove.stack = frames, !.shove.current = ground]
    OBVIOUS
  <2>3. Reduced(s, c.k) = [s EXCEPT !.tree = v,
                             !.shove = [s.shove EXCEPT !.stack = frames, !.current = ground]]
    BY DEF Reduced, ReducedShove
  <2> HIDE DEF v, frames, ground, reduced
  <2>4. [s EXCEPT !.tree = v, !.shove.stack = frames, !.shove.current = ground]
          = [s EXCEPT !.tree = v,
                      !.shove = [s.shove EXCEPT !.stack = frames, !.current = ground]]
    BY <2>1 DEF IsState, DragState, PairState, ShoveType
  <2> QED
    BY <2>2, <2>3, <2>4
<1>3. run = RunOn(reduced, f)
  <2> DEFINE h == reduced.shove
             w == [s EXCEPT !.tree = Without(@, UNION {Subtree(@, n) : n \in Popped(s, c.k)})]
  <2>1. h = [s.shove EXCEPT !.stack = frames, !.current = ground]
    BY <1>2, StateType DEF Reduced, ReducedShove, IsState, DragState, PairState
  <2>2. h.current = ground /\ h = [root |-> h.root, current |-> h.current, stack |-> h.stack]
    <3>1. s.shove \in ShoveType
      BY StateType
    <3> HIDE DEF h, frames, ground
    <3> QED
      BY <2>1, <3>1 DEF ShoveType
  <2>3. {"tree", "shove"} \subseteq DOMAIN reduced
    BY <1>2 DEF Reduced, IsState, DragState, PairState
  <2>4. run = [reduced EXCEPT !.tree = Branched(reduced.tree, ground, f),
                              !.shove.stack = Append(h.stack, f), !.shove.current = f]
    BY DEF run
  <2>5. RunOn(reduced, f) = [reduced EXCEPT !.tree = Branched(reduced.tree, ground, f),
                 !.shove = [h EXCEPT !.stack = Append(h.stack, f), !.current = f]]
    BY <2>2 DEF RunOn
  <2> HIDE DEF h
  <2>6. h = reduced.shove
    BY DEF h
  <2> HIDE DEF run, reduced, ground, f
  <2> QED
    BY <2>2, <2>3, <2>4, <2>5, <2>6
<1> HIDE DEF run, reduced, ground, frames
<1>4. Ran(s, p, c) = IF ~c.shoves THEN reduced
               ELSE IF s.drag.kind = "via"
               THEN Put(RunOn(reduced, f), f, ViaFacts(s), Pushed(p) \cup Moved(s, p, "straight"))
               ELSE Put(RunOn(reduced, f), f, {}, Pushed(p))
  BY <1>1, <1>3
<1> QED
  BY <1>2, <1>4

LEMMA RanOK ==
  ASSUME NEW s, IsState(s), Standing(s), s.drag.last = NoNode, s.shove.root # NoNode,
         NEW p, NEW c, c.k \in Kept(s), c.shoves \in BOOLEAN, Spare(s, 1),
         s.drag.kind = "via" => p \in Place
  PROVE  LET u == Ran(s, p, c)
             r == Reduced(s, c.k)
             f == NewIn(r)
             via == s.drag.kind = "via"
         IN  /\ IsState(u) /\ Standing(u) /\ u.drag = s.drag
             /\ u.shove.root = s.shove.root
             /\ u.shove.current \in u.tree.live \ {Root}
             /\ \A n \in s.tree.live :
                  (\A j \in DOMAIN s.shove.stack : s.shove.stack[j] \notin s.tree.chain[n])
                     => n \in u.tree.live
             /\ \A n \in u.tree.live :
                  \/ n \in s.tree.live /\ u.tree.chain[n] = s.tree.chain[n]
                                       /\ u.tree.view[n] = s.tree.view[n]
                  \/ c.shoves /\ n = f
             /\ Frames(u) \subseteq Frames(s) \cup {f}
             /\ \A j \in DOMAIN u.shove.stack :
                  \/ j \in DOMAIN s.shove.stack /\ u.shove.stack[j] = s.shove.stack[j]
                  \/ c.shoves /\ u.shove.stack[j] = f
             /\ r.shove.current \in {s.shove.current} \cup Frames(s)
             /\ r.shove.current \in s.tree.live
             /\ IF c.shoves
                THEN /\ u.shove.current = f /\ f \in Frames(u)
                     /\ f \in Node \ Used(r) /\ f # Root /\ f # NoNode
                     /\ f \notin {s.drag.bed, s.drag.walk, s.shove.root}
                     /\ \A n \in u.tree.live \ {f} : f \notin u.tree.chain[n]
                     /\ u.tree.view[f] = (s.tree.view[r.shove.current]
                                             \ (IF via THEN ViaFacts(s) ELSE {}))
                              \cup Pushed(p) \cup (IF via THEN Moved(s, p, "straight") ELSE {})
                ELSE u.shove.current = r.shove.current /\ Frames(u) \subseteq Frames(s)
             /\ Used(u) \subseteq Used(s) \cup {f}
             /\ (s \in PairState => u \in PairState /\ u.placer = s.placer)
             /\ (s \in DragState => u \in DragState)
<1> DEFINE u == Ran(s, p, c)
           r == Reduced(s, c.k)
           f == NewIn(r)
           n0 == r.shove.current
           w == RunOn(r, f)
           via == s.drag.kind = "via"
           gone == IF via THEN ViaFacts(s) ELSE {}
           new == Pushed(p) \cup (IF via THEN Moved(s, p, "straight") ELSE {})
<1>1. /\ IsState(r) /\ Standing(r) /\ r.drag = s.drag
      /\ r.shove.root = s.shove.root /\ n0 \in r.tree.live
      /\ n0 \in {s.shove.root} \cup Frames(r)
      /\ n0 \in {s.shove.current} \cup Frames(s)
      /\ Frames(r) \subseteq Frames(s)
      /\ \A j \in DOMAIN r.shove.stack :
            j \in DOMAIN s.shove.stack /\ r.shove.stack[j] = s.shove.stack[j]
      /\ Pruned(s.tree, r.tree)
      /\ \A n \in s.tree.live :
           (\A j \in DOMAIN s.shove.stack : s.shove.stack[j] \notin s.tree.chain[n])
              => n \in r.tree.live
      /\ Used(r) \subseteq Used(s)
      /\ (s \in PairState => r \in PairState /\ r.placer = s.placer)
      /\ (s \in DragState => r \in DragState)
  BY ReducedOK
<1>2. Spare(r, 1)
  BY <1>1, SpareMonotone
<1>3. f \in Node \ Used(r) /\ f # Root /\ f # NoNode /\ f \notin r.tree.live /\ f \notin Held(r)
  <2>1. f \in Node \ Used(r) /\ f # NoNode /\ f \notin r.tree.live /\ f \notin Held(r)
    BY <1>1, <1>2, NewInFresh
  <2>2. Root \in r.tree.live
    BY <1>1 DEF Standing, TreeOK
  <2> QED
    BY <2>1, <2>2
<1> HIDE DEF r, f
<1>4. /\ IsState(w) /\ Standing(w) /\ w.drag = s.drag
      /\ w.shove.root = s.shove.root /\ w.shove.current = f
      /\ Frames(w) = Frames(r) \cup {f}
      /\ \A j \in DOMAIN w.shove.stack :
           \/ j \in DOMAIN r.shove.stack /\ w.shove.stack[j] = r.shove.stack[j]
           \/ w.shove.stack[j] = f
      /\ Grown(r.tree, w.tree, n0, f)
      /\ Used(w) \subseteq Used(r) \cup {f}
      /\ (r \in PairState => w \in PairState /\ w.placer = r.placer)
      /\ (r \in DragState => w \in DragState)
  BY <1>1, <1>3, RunOnOK
<1> HIDE DEF w
<1>5. new \subseteq Fact
  <2>1. Pushed(p) \subseteq Fact
    BY AssumePlaces, FactTypes DEF Pushed
  <2>2. via => Moved(s, p, "straight") \subseteq Fact
    BY FactTypes, StateType DEF Moved, DragType, Ways
  <2> QED
    BY <2>1, <2>2
<1>6. u = IF c.shoves THEN Put(w, f, gone, new) ELSE r
  BY RanIs DEF r, f, w
<1>7. f \in w.tree.live
  BY <1>4 DEF Grown
<1>8. Root \in r.tree.live
  BY <1>1 DEF Standing, TreeOK
<1>9. n0 # Root
  <2>1. Held(r) \ {NoNode} \subseteq r.tree.live \ {Root}
    BY <1>1 DEF Standing, HandlesHold
  <2>2. n0 \in Held(r)
    BY DEF Held
  <2>3. n0 # NoNode
    BY <1>1, StateType, NodeType
  <2> QED
    BY <2>1, <2>2, <2>3
<1>9a. n0 \in s.tree.live /\ n0 \in {s.shove.current} \cup Frames(s)
  BY <1>1 DEF Pruned
<1>10. CASE ~c.shoves
  <2>1. u = r
    BY <1>6, <1>10
  <2> QED
    BY <2>1, <1>1, <1>8, <1>9, <1>9a, <1>10 DEF Pruned, r, f
<1>11. CASE c.shoves
  <2> HIDE DEF new, gone, n0
  <2>1. u = Put(w, f, gone, new)
    BY <1>6, <1>11
  <2>2. /\ IsState(u) /\ Standing(u) /\ u.drag = w.drag /\ u.shove = w.shove
        /\ Repainted(w.tree, u.tree, f, gone, new)
        /\ Used(u) = Used(w)
        /\ (w \in PairState => u \in PairState /\ u.placer = w.placer)
        /\ (w \in DragState => u \in DragState)
    BY <2>1, <1>4, <1>5, <1>7, PutOK
  <2> HIDE DEF u
  <2>3. /\ u.tree.live = r.tree.live \cup {f} /\ u.tree.chain = w.tree.chain
        /\ \A n \in r.tree.live : u.tree.view[n] = r.tree.view[n]
                                  /\ u.tree.chain[n] = r.tree.chain[n]
        /\ u.tree.view[f] = (r.tree.view[n0] \ gone) \cup new
    BY <2>2, <1>3, <1>4 DEF Repainted, Grown
  <2>4. \A n \in r.tree.live : f \notin r.tree.chain[n]
    BY <1>1, <1>3 DEF Standing, TreeOK
  <2>5. f \notin {s.drag.bed, s.drag.walk, s.shove.root}
    BY <1>1, <1>3 DEF Held
  <2>6. \A n \in s.tree.live :
             (\A j \in DOMAIN s.shove.stack : s.shove.stack[j] \notin s.tree.chain[n])
                => n \in u.tree.live
    BY <2>3, <1>1
  <2>7. \A n \in u.tree.live :
             \/ n \in s.tree.live /\ u.tree.chain[n] = s.tree.chain[n]
                                  /\ u.tree.view[n] = s.tree.view[n]
             \/ c.shoves /\ n = f
    BY <2>3, <1>1, <1>11 DEF Pruned
  <2>8. Frames(u) = Frames(r) \cup {f}
    BY <2>2, <1>4 DEF Frames
  <2>9. \A j \in DOMAIN u.shove.stack :
             \/ j \in DOMAIN s.shove.stack /\ u.shove.stack[j] = s.shove.stack[j]
             \/ c.shoves /\ u.shove.stack[j] = f
    BY <2>2, <1>1, <1>4, <1>11
  <2>10. u.tree.view[f] = (s.tree.view[n0] \ gone) \cup new
    BY <2>3, <1>1 DEF Pruned
  <2>11. \A n \in u.tree.live \ {f} : f \notin u.tree.chain[n]
    BY <2>3, <2>4
  <2>12. Used(u) \subseteq Used(s) \cup {f}
    BY <2>2, <1>1, <1>4
  <2>13. /\ (s \in PairState => u \in PairState /\ u.placer = s.placer)
         /\ (s \in DragState => u \in DragState)
    BY <2>2, <1>1, <1>4
  <2>14. u.drag = s.drag /\ u.shove.root = s.shove.root /\ u.shove.current = f
    BY <2>2, <1>4
  <2>15. u.tree.view[f] = (s.tree.view[r.shove.current]
                                             \ (IF via THEN ViaFacts(s) ELSE {}))
                              \cup Pushed(p) \cup (IF via THEN Moved(s, p, "straight") ELSE {})
    BY <2>10 DEF gone, new, n0
  <2> QED
    BY <2>2, <2>3, <2>5, <2>6, <2>7, <2>8, <2>9, <2>11, <2>12, <2>13, <2>14, <2>15,
       <1>1, <1>3, <1>9a, <1>11 DEF u, r, f, n0
<1> QED
  BY <1>10, <1>11
----------------------------------------------------------------------------
(* What holds of a drag in the midst of a handler.                         *)
Safe(s) == /\ s \in DragState /\ Standing(s)
           /\ OthersStay(s.tree, s.drag.pieces) /\ NoLegs(s.tree)

SameDrag(s, u) == /\ u.drag.kind = s.drag.kind /\ u.drag.pieces = s.drag.pieces
                  /\ u.drag.free = s.drag.free /\ u.drag.mode = s.drag.mode

LEMMA FactsAbout ==
  /\ \A X \in SUBSET Piece, p \in Place, way \in Ways :
       About(Of(X, p, way), X) /\ Of(X, p, way) \subseteq Fact
  /\ \A X \in SUBSET Piece : About(Olds(X), X) /\ Olds(X) \subseteq Fact
  /\ \A X : About({}, X) /\ About({Stub}, X)
  /\ \A X, p : About(Pushed(p), X)
  /\ \A X, F, G : About(F, X) /\ About(G, X) => About(F \cup G, X)
  /\ \A s : IsState(s) => /\ About(Gone(s), s.drag.pieces)
                          /\ About(ViaFacts(s), s.drag.pieces)
                          /\ \A p \in Place, way \in Ways :
                               /\ About(Moved(s, p, way), s.drag.pieces)
                               /\ Moved(s, p, way) \subseteq Fact
<1>1. \A X \in SUBSET Piece, p \in Place, way \in Ways :
        About(Of(X, p, way), X) /\ Of(X, p, way) \subseteq Fact
  BY FactsApart, VersionsApart, FactTypes DEF About, Of
<1>2. \A X \in SUBSET Piece : About(Olds(X), X) /\ Olds(X) \subseteq Fact
  BY FactsApart, VersionsApart, FactTypes DEF About, Olds
<1>3. \A X : About({}, X) /\ About({Stub}, X)
  BY FactsApart, VersionsApart DEF About
<1>4. \A X, p : About(Pushed(p), X)
  BY FactsApart, VersionsApart DEF About, Pushed
<1>5. \A X, F, G : About(F, X) /\ About(G, X) => About(F \cup G, X)
  BY DEF About
<1>6. ASSUME NEW s, IsState(s)
      PROVE  /\ About(Gone(s), s.drag.pieces)
             /\ About(ViaFacts(s), s.drag.pieces)
             /\ \A p \in Place, way \in Ways :
                  /\ About(Moved(s, p, way), s.drag.pieces)
                  /\ Moved(s, p, way) \subseteq Fact
  <2>1. s.drag.pieces \in SUBSET Piece
    BY <1>6, StateType DEF DragType
  <2>2. Gone(s) = Olds(s.drag.pieces) \cup {Stub}
    BY DEF Gone, Olds
  <2>3. \A p, way : Moved(s, p, way) = Of(s.drag.pieces, p, way)
    BY DEF Moved, Of
  <2>4. About(Gone(s), s.drag.pieces)
    BY <2>1, <2>2, <1>2, <1>3, <1>5
  <2>5. About(ViaFacts(s), s.drag.pieces)
    BY VersionsApart DEF About, ViaFacts
  <2> QED
    BY <2>1, <2>3, <2>4, <2>5, <1>1
<1> QED
  BY <1>1, <1>2, <1>3, <1>4, <1>5, <1>6

LEMMA SafeType ==
  ASSUME NEW s, Safe(s)
  PROVE  /\ IsState(s) /\ Standing(s) /\ TreeOK(s.tree) /\ s.drag \in DragType
         /\ s.shove \in ShoveType /\ s.drag.pieces \in SUBSET Piece
         /\ Root \in s.tree.live /\ s.tree.live \subseteq Node
         /\ Held(s) \ {NoNode} \subseteq s.tree.live \ {Root}
         /\ {s.drag.bed, s.drag.last, s.drag.walk, s.shove.root, s.shove.current} \subseteq Held(s)
         /\ Frames(s) \subseteq Held(s) \ {NoNode}
<1>1. IsState(s) /\ Standing(s)
  BY DEF Safe, IsState
<1>2. s.drag \in DragType /\ s.shove \in ShoveType /\ s.tree.live \subseteq Node
      /\ Frames(s) \subseteq Node
  BY <1>1, StateType
<1>3. TreeOK(s.tree) /\ Held(s) \ {NoNode} \subseteq s.tree.live \ {Root}
  BY <1>1 DEF Standing, HandlesHold
<1> QED
  BY <1>1, <1>2, <1>3, NodeType DEF DragType, TreeOK, Held, Frames

LEMMA SafeFields ==
  ASSUME NEW s, Safe(s), NEW d \in DragType, d.pieces = s.drag.pieces, d.bed = s.drag.bed,
         d.last = s.drag.last, d.walk = s.drag.walk
  PROVE  LET u == [s EXCEPT !.drag = d]
         IN  /\ Safe(u) /\ u.tree = s.tree /\ u.drag = d /\ u.shove = s.shove
             /\ Used(u) = Used(s)
<1> DEFINE u == [s EXCEPT !.drag = d]
<1>1. u \in DragState /\ u.tree = s.tree /\ u.drag = d /\ u.shove = s.shove
  BY DEF Safe, DragState
<1>2. IsState(u) /\ SameHandles(s, u)
  BY <1>1 DEF IsState, SameHandles
<1> HIDE DEF u
<1>3. Standing(u) /\ Used(u) = Used(s)
  BY <1>1, <1>2, SafeType, SameStanding
<1>4. Safe(u)
  BY <1>1, <1>3 DEF Safe
<1> QED
  BY <1>1, <1>3, <1>4 DEF u

LEMMA SafeWithoutLast ==
  ASSUME NEW s, Safe(s)
  PROVE  LET v == WithoutLast(s)
         IN  /\ Safe(v) /\ v.drag = [s.drag EXCEPT !.last = NoNode] /\ v.shove = s.shove
             /\ SameDrag(s, v) /\ v.drag.last = NoNode
             /\ v.drag.bed = s.drag.bed /\ v.drag.walk = s.drag.walk
             /\ Pruned(s.tree, v.tree) /\ v.tree.live = s.tree.live \ {s.drag.last}
             /\ Used(v) \subseteq Used(s)
<1> DEFINE v == WithoutLast(s)
<1>1. IsState(s) /\ Standing(s) /\ s.drag \in DragType
  BY SafeType
<1>2. /\ IsState(v) /\ Standing(v)
      /\ v.drag = [s.drag EXCEPT !.last = NoNode] /\ v.shove = s.shove
      /\ Pruned(s.tree, v.tree) /\ v.tree.live = s.tree.live \ {s.drag.last}
      /\ Used(v) \subseteq Used(s)
  BY <1>1, WithoutLastOK
<1>3. v \in DragState
  <2>1. v = [[s EXCEPT !.tree = v.tree] EXCEPT !.drag = v.drag]
    BY DEF WithoutLast, Safe, DragState
  <2>2. v.tree \in Tree(Fact) /\ v.drag \in DragType /\ s \in DragState
    BY <1>2, StateType DEF Safe
  <2> HIDE DEF v
  <2> QED
    BY <2>1, <2>2 DEF DragState
<1> HIDE DEF v
<1>4. /\ SameDrag(s, v) /\ v.drag.last = NoNode /\ v.drag.pieces = s.drag.pieces
      /\ v.drag.bed = s.drag.bed /\ v.drag.walk = s.drag.walk
  BY <1>1, <1>2 DEF DragType, SameDrag
<1>5. OthersStay(v.tree, s.drag.pieces) /\ NoLegs(v.tree)
  BY <1>2, CalmPruned DEF Safe
<1> QED
  BY <1>2, <1>3, <1>4, <1>5 DEF Safe, v

LEMMA SafeLastAs ==
  ASSUME NEW v, Safe(v), v.drag.last = NoNode, NEW c \in Node \ Used(v), NEW n \in v.tree.live
  PROVE  LET b == LastAs(v, n, c)
         IN  /\ Safe(b) /\ b.drag = [v.drag EXCEPT !.last = c] /\ b.shove = v.shove
             /\ SameDrag(v, b)
             /\ b.drag.last = c /\ c \in b.tree.live \ {Root, NoNode}
             /\ c \notin Held(v)
             /\ Grown(v.tree, b.tree, n, c)
             /\ Used(b) \subseteq Used(v) \cup {c}
<1> DEFINE b == LastAs(v, n, c)
<1>1. IsState(v) /\ Standing(v) /\ v.drag \in DragType
  BY SafeType
<1>2. /\ IsState(b) /\ Standing(b)
      /\ b.drag = [v.drag EXCEPT !.last = c] /\ b.shove = v.shove
      /\ c \in Node \ {Root, NoNode} /\ c \notin Held(v)
      /\ Grown(v.tree, b.tree, n, c)
      /\ Used(b) \subseteq Used(v) \cup {c}
  BY <1>1, LastAsOK
<1>3. b \in DragState
  <2>1. b = [[v EXCEPT !.tree = b.tree] EXCEPT !.drag = b.drag]
    BY DEF LastAs, DragState, Safe
  <2>2. b.tree \in Tree(Fact) /\ b.drag \in DragType /\ v \in DragState
    BY <1>2, StateType DEF Safe
  <2> HIDE DEF b
  <2> QED
    BY <2>1, <2>2 DEF DragState
<1> HIDE DEF b
<1>4. SameDrag(v, b) /\ b.drag.last = c /\ b.drag.pieces = v.drag.pieces
  BY <1>1, <1>2 DEF DragType, SameDrag
<1>5. OthersStay(b.tree, v.drag.pieces) /\ NoLegs(b.tree)
  <2>1. Grown(v.tree, b.tree, n, c) /\ OthersStay(v.tree, v.drag.pieces) /\ NoLegs(v.tree)
    BY <1>2 DEF Safe
  <2>2. /\ OthersStay(v.tree, v.drag.pieces) => OthersStay(b.tree, v.drag.pieces)
        /\ NoLegs(v.tree) => NoLegs(b.tree)
    BY <2>1, CalmGrown, ZenonT(60)
  <2> QED
    BY <2>1, <2>2
<1>6. Safe(b) /\ c \in b.tree.live
  BY <1>2, <1>3, <1>4, <1>5 DEF Safe, Grown
<1> QED
  BY <1>2, <1>4, <1>6 DEF b

LEMMA SafeLastOn ==
  ASSUME NEW v, Safe(v), v.drag.last = NoNode, Spare(v, 1), NEW n \in v.tree.live
  PROVE  LET b == LastOn(v, n)
             c == NewIn(v)
         IN  /\ Safe(b) /\ b.drag = [v.drag EXCEPT !.last = c] /\ b.shove = v.shove
             /\ SameDrag(v, b)
             /\ b.drag.last = c /\ c \in b.tree.live \ {Root, NoNode}
             /\ c \notin Held(v)
             /\ Grown(v.tree, b.tree, n, c)
             /\ Used(b) \subseteq Used(v) \cup {c}
<1> DEFINE c == NewIn(v)
<1>1. c \in Node \ Used(v) /\ LastOn(v, n) = LastAs(v, n, c)
  BY SafeType, NewInFresh DEF LastOn, LastAs
<1> HIDE DEF c
<1> QED
  BY <1>1, SafeLastAs DEF c

(* A fresh branch of n for the drag in place of the last one.              *)
LEMMA FreshLast ==
  ASSUME NEW s, Safe(s), Spare(s, 1), NEW n \in s.tree.live, n # s.drag.last
  PROVE  LET v == WithoutLast(s)
             b == LastOn(v, n)
             c == NewIn(v)
         IN  /\ Safe(b) /\ b.drag = [s.drag EXCEPT !.last = c] /\ b.shove = s.shove
             /\ SameDrag(s, b)
             /\ b.drag.last = c /\ c \in b.tree.live \ {Root, NoNode}
             /\ c \notin {s.drag.bed, s.drag.walk, s.shove.root} \cup Frames(s)
             /\ b.tree.view[c] = s.tree.view[n]
             /\ n \in b.tree.live /\ b.tree.chain[c] = b.tree.chain[n] \cup {c}
             /\ \A m \in s.tree.live \ {s.drag.last} :
                  m \in b.tree.live \ {c} /\ b.tree.view[m] = s.tree.view[m]
             /\ Used(b) \subseteq Used(s) \cup {c}
<1> DEFINE v == WithoutLast(s)
           c == NewIn(v)
           b == LastOn(v, n)
<1>1. /\ Safe(v) /\ v.drag = [s.drag EXCEPT !.last = NoNode] /\ v.shove = s.shove
      /\ SameDrag(s, v) /\ v.drag.last = NoNode
      /\ v.drag.bed = s.drag.bed /\ v.drag.walk = s.drag.walk
      /\ Pruned(s.tree, v.tree) /\ v.tree.live = s.tree.live \ {s.drag.last}
      /\ Used(v) \subseteq Used(s) /\ s.drag \in DragType
  BY SafeType, SafeWithoutLast
<1>2. Spare(v, 1) /\ n \in v.tree.live
  BY <1>1, SpareMonotone
<1> HIDE DEF v
<1>3. /\ Safe(b) /\ b.drag = [v.drag EXCEPT !.last = c] /\ b.shove = v.shove
      /\ SameDrag(v, b)
      /\ b.drag.last = c /\ c \in b.tree.live \ {Root, NoNode}
      /\ c \notin Held(v)
      /\ Grown(v.tree, b.tree, n, c)
      /\ Used(b) \subseteq Used(v) \cup {c}
  BY <1>1, <1>2, SafeLastOn
<1> HIDE DEF b, c
<1>4. b.drag = [s.drag EXCEPT !.last = c] /\ SameDrag(s, b)
  <2>1. s.drag \in DragType
    BY <1>1
  <2>2. b.drag = [s.drag EXCEPT !.last = c]
    BY <2>1, <1>1, <1>3 DEF DragType
  <2>3. SameDrag(s, b)
    BY <1>1, <1>3 DEF SameDrag
  <2> QED
    BY <2>2, <2>3
<1>5. c \notin {s.drag.bed, s.drag.walk, s.shove.root} \cup Frames(s)
  BY <1>1, <1>3 DEF Held, Frames
<1>6. /\ b.tree.view[c] = s.tree.view[n]
      /\ n \in b.tree.live /\ b.tree.chain[c] = b.tree.chain[n] \cup {c}
      /\ \A m \in s.tree.live \ {s.drag.last} : /\ m \in b.tree.live \ {c}
                                                /\ b.tree.view[m] = s.tree.view[m]
  BY <1>1, <1>2, <1>3 DEF Grown, Pruned
<1> QED
  BY <1>1, <1>3, <1>4, <1>5, <1>6 DEF v, b, c

LEMMA SafePut ==
  ASSUME NEW s, Safe(s), NEW n \in s.tree.live, NEW gone, NEW new \in SUBSET Fact,
         About(gone, s.drag.pieces), About(new, s.drag.pieces)
  PROVE  LET u == Put(s, n, gone, new)
         IN  /\ Safe(u) /\ u.drag = s.drag /\ u.shove = s.shove
             /\ Repainted(s.tree, u.tree, n, gone, new)
             /\ Used(u) = Used(s)
<1> DEFINE u == Put(s, n, gone, new)
<1>1. /\ IsState(u) /\ Standing(u) /\ u.drag = s.drag /\ u.shove = s.shove
      /\ Repainted(s.tree, u.tree, n, gone, new)
      /\ Used(u) = Used(s)
  BY SafeType, PutOK
<1>2. u \in DragState
  <2>1. u = [s EXCEPT !.tree = u.tree]
    BY DEF Put, Safe, DragState
  <2>2. u.tree \in Tree(Fact)
    BY <1>1, StateType
  <2> HIDE DEF u
  <2> QED
    BY <2>1, <2>2 DEF Safe, DragState
<1> HIDE DEF u
<1>3. OthersStay(u.tree, s.drag.pieces) /\ NoLegs(u.tree)
  <2>1. Repainted(s.tree, u.tree, n, gone, new)
    BY <1>1
  <2> DEFINE X == s.drag.pieces
             t == s.tree
             w == u.tree
  <2>a. n \in t.live /\ About(gone, X) /\ About(new, X) /\ Repainted(t, w, n, gone, new)
    BY <2>1
  <2> HIDE DEF X, t, w
  <2>2. /\ OthersStay(t, X) => OthersStay(w, X)
        /\ NoLegs(t) => NoLegs(w)
    BY <2>a, CalmRepainted
  <2> QED
    BY <2>2 DEF Safe, X, t, w
<1> QED
  BY <1>1, <1>2, <1>3 DEF Safe, u
----------------------------------------------------------------------------
(* The drags of a single item.                                             *)
LEMMA Painted ==
  ASSUME NEW view, NEW gone, NEW new, NEW x,
         Versions(x) \cap view \subseteq gone, Stub \in view => Stub \in gone, Stub \notin new
  PROVE  LET w == (view \ gone) \cup new
         IN  Versions(x) \cap w = Versions(x) \cap new /\ Stub \notin w
OBVIOUS

LEMMA OnePiece ==
  ASSUME NEW s, NEW x \in Piece, s.drag.pieces = {x}
  PROVE  /\ Gone(s) = {Old(x), Stub} /\ ViaFacts(s) = Versions(x)
         /\ \A p, way : Moved(s, p, way) = {New(x, p, way)}
         /\ \A p \in Place, way \in Ways : Versions(x) \cap {New(x, p, way)} = {New(x, p, way)}
         /\ \A p, way : Stub \notin {New(x, p, way)}
<1>1. /\ Gone(s) = {Old(x), Stub} /\ ViaFacts(s) = Versions(x)
      /\ \A p, way : Moved(s, p, way) = {New(x, p, way)}
  BY DEF Gone, ViaFacts, Moved
<1> QED
  BY <1>1, VersionsApart, FactsApart

LEMMA GroundKept ==
  ASSUME NEW s, NEW u, NEW x, SingleGround(s, x), SameDrag(s, u),
         u.drag.bed = s.drag.bed, u.drag.walk = s.drag.walk, u.shove.root = s.shove.root,
         u.tree.view[s.drag.bed] \subseteq s.tree.view[s.drag.bed],
         \A m \in Frames(u) : m \in Frames(s) /\ u.tree.view[m] \subseteq s.tree.view[m]
  PROVE  SingleGround(u, x)
BY DEF SingleGround, SameDrag, Shows

(* The bed is a live node of its own.                                      *)
LEMMA BedLive ==
  ASSUME NEW s, Safe(s), NEW x, SingleGround(s, x)
  PROVE  /\ s.drag.bed \in s.tree.live \ {Root} /\ s.drag.bed # s.drag.last
         /\ s.drag.last \notin Frames(s) \cup {Root}
         /\ Frames(s) \subseteq s.tree.live \ {Root}
<1>1. s.drag.bed # NoNode
  BY DEF SingleGround
<1>2. s.drag.last # NoNode => s.drag.last \notin {s.drag.bed, s.drag.walk, s.shove.root} \cup Frames(s)
  BY SafeType DEF Standing, LastAlone
<1>3. Frames(s) \subseteq Node
  BY SafeType, StateType
<1> QED
  BY <1>1, <1>2, <1>3, SafeType, NodeType

(* What one try of a single drag leaves as it was.                         *)
Keeps(s, u) ==
    /\ SameDrag(s, u) /\ u.drag.bed = s.drag.bed /\ u.drag.walk = s.drag.walk
    /\ u.drag.forced = s.drag.forced /\ u.drag.at = s.drag.at /\ u.drag.lost = s.drag.lost
    /\ u.shove.root = s.shove.root
    /\ \/ u.drag.solution = s.drag.solution
       \/ \E p \in Place : u.drag.solution = Moved(s, p, "straight")

(* The drag's own branch is a child of a live node.                        *)
HasParent(s) == \E n \in s.tree.live \ {s.drag.last} :
                   s.tree.chain[s.drag.last] = s.tree.chain[n] \cup {s.drag.last}

(* The drag's own branch is painted, and fields of the dragger are set.    *)
PaintedAs(b, gone, new, d) == [Put(b, b.drag.last, gone, new) EXCEPT !.drag = d]

LEMMA LastPainted ==
  ASSUME NEW b, Safe(b), b.drag.last # NoNode, NEW gone, NEW new \in SUBSET Fact,
         About(gone, b.drag.pieces), About(new, b.drag.pieces),
         NEW d \in DragType, d.pieces = b.drag.pieces, d.bed = b.drag.bed,
         d.last = b.drag.last, d.walk = b.drag.walk
  PROVE  LET u == PaintedAs(b, gone, new, d)
         IN  /\ Safe(u) /\ u.drag = d /\ u.shove = b.shove
             /\ Repainted(b.tree, u.tree, b.drag.last, gone, new)
             /\ Used(u) = Used(b)
<1> DEFINE w == Put(b, b.drag.last, gone, new)
           u == [w EXCEPT !.drag = d]
<1>1. b.drag.last \in b.tree.live
  BY SafeType
<1>2. /\ Safe(w) /\ w.drag = b.drag /\ w.shove = b.shove
      /\ Repainted(b.tree, w.tree, b.drag.last, gone, new)
      /\ Used(w) = Used(b)
  BY <1>1, SafePut
<1> HIDE DEF w
<1>4. /\ d.pieces = w.drag.pieces /\ d.bed = w.drag.bed
      /\ d.last = w.drag.last /\ d.walk = w.drag.walk
  BY <1>2
<1>5. /\ Safe(u) /\ u.tree = w.tree /\ u.drag = d /\ u.shove = w.shove
      /\ Used(u) = Used(w)
  BY <1>2, <1>4, SafeFields
<1> HIDE DEF u
<1> QED
  BY <1>2, <1>5 DEF u, w, PaintedAs

(* What a drag that marks obstacles comes to.                              *)
Marked(s, u, x, p, c) ==
    /\ Safe(u) /\ SingleGround(u, x) /\ SameDrag(s, u)
    /\ u.drag.forced = s.drag.forced /\ u.drag.at = s.drag.at
    /\ u.drag.solution = s.drag.solution
    /\ u.drag.status <=> AllowDrc \/ p \notin Tight \/ c.collapses
    /\ u.drag.lost = IF c.collapses THEN {x} ELSE {}
    /\ u.drag.last # NoNode /\ Stub \notin u.tree.view[u.drag.last]
    /\ Shows(u.tree, u.drag.last, x) = IF c.collapses THEN {} ELSE {New(x, p, "straight")}
    /\ u.tree.view[Root] = s.tree.view[Root]

LEMMA MarkDragOK ==
  ASSUME NEW s, Safe(s), NEW x \in Piece, SingleGround(s, x), Spare(s, 1),
         NEW p \in Place, NEW c, c.collapses \in BOOLEAN
  PROVE  Marked(s, MarkDrag(s, p, c), x, p, c)
<1> DEFINE n == s.drag.bed
           l == NewIn(WithoutLast(s))
           b == LastOn(WithoutLast(s), n)
           moved == IF c.collapses THEN {} ELSE Moved(s, p, "straight")
           w == Put(b, l, Gone(s), moved)
           lost == IF c.collapses THEN s.drag.pieces ELSE {}
           d == [w.drag EXCEPT !.status = AllowDrc \/ p \notin Tight \/ c.collapses,
                               !.lost = lost]
           u == MarkDrag(s, p, c)
<1>1. /\ n \in s.tree.live \ {Root} /\ n # s.drag.last
      /\ s.drag.last \notin Frames(s) \cup {Root}
      /\ Frames(s) \subseteq s.tree.live \ {Root}
  BY BedLive
<1>2. /\ Safe(b) /\ b.drag = [s.drag EXCEPT !.last = l] /\ b.shove = s.shove
      /\ SameDrag(s, b)
      /\ b.drag.last = l /\ l \in b.tree.live \ {Root, NoNode}
      /\ l \notin {s.drag.bed, s.drag.walk, s.shove.root} \cup Frames(s)
      /\ b.tree.view[l] = s.tree.view[n]
      /\ \A m \in s.tree.live \ {s.drag.last} :
           m \in b.tree.live \ {l} /\ b.tree.view[m] = s.tree.view[m]
  BY <1>1, FreshLast
<1>3. IsState(s) /\ s.drag.pieces \in SUBSET Piece /\ s.drag \in DragType /\ Root \in s.tree.live
  BY SafeType
<1>4. /\ moved \in SUBSET Fact /\ About(moved, s.drag.pieces) /\ About(Gone(s), s.drag.pieces)
  BY <1>3, FactsAbout DEF Ways
<1>5. u = [w EXCEPT !.drag.status = AllowDrc \/ p \notin Tight \/ c.collapses, !.drag.lost = lost]
  BY <1>2 DEF MarkDrag
<1>5a. lost = (IF c.collapses THEN {x} ELSE {}) /\ lost \in SUBSET Piece
  BY DEF SingleGround
<1> HIDE DEF b, l, n, moved, lost
<1>6. /\ Safe(w) /\ w.drag = b.drag /\ w.shove = b.shove
      /\ Repainted(b.tree, w.tree, l, Gone(s), moved)
  <2>1. b.drag.pieces = s.drag.pieces
    BY <1>2 DEF SameDrag
  <2>2. /\ Safe(b) /\ l \in b.tree.live /\ moved \in SUBSET Fact
        /\ About(moved, b.drag.pieces) /\ About(Gone(s), b.drag.pieces)
    BY <1>2, <1>4, <2>1
  <2> QED
    BY <2>2, SafePut
<1> HIDE DEF w
<1>7. u = [w EXCEPT !.drag = d]
  BY <1>5
<1>8. /\ d \in DragType /\ d.pieces = w.drag.pieces /\ d.bed = w.drag.bed
      /\ d.last = w.drag.last /\ d.walk = w.drag.walk
      /\ d.kind = w.drag.kind /\ d.free = w.drag.free /\ d.mode = w.drag.mode
      /\ d.status = (AllowDrc \/ p \notin Tight \/ c.collapses)
      /\ d.forced = w.drag.forced /\ d.at = w.drag.at /\ d.solution = w.drag.solution
      /\ d.lost = lost
  <2>1. w.drag \in DragType
    BY <1>6, SafeType
  <2> QED
    BY <1>5a, <2>1 DEF DragType, SameDrag
<1> HIDE DEF d
<1>9. Safe(u) /\ u.tree = w.tree /\ u.drag = d /\ u.shove = s.shove
  <2>1. Safe(w) /\ d \in DragType /\ d.pieces = w.drag.pieces /\ d.bed = w.drag.bed
        /\ d.last = w.drag.last /\ d.walk = w.drag.walk
    BY <1>6, <1>8
  <2>2. /\ Safe(u) /\ u.tree = w.tree /\ u.drag = d /\ u.shove = w.shove
    BY <2>1, <1>7, SafeFields
  <2> QED
    BY <2>2, <1>2, <1>6
<1> HIDE DEF u
<1>10. /\ u.drag.last = l /\ u.drag.bed = s.drag.bed /\ u.drag.walk = s.drag.walk
       /\ SameDrag(s, u) /\ u.drag.forced = s.drag.forced /\ u.drag.at = s.drag.at
       /\ u.drag.solution = s.drag.solution
       /\ u.drag.status = (AllowDrc \/ p \notin Tight \/ c.collapses)
       /\ u.drag.lost = IF c.collapses THEN {x} ELSE {}
  <2>1. /\ b.drag.bed = s.drag.bed /\ b.drag.walk = s.drag.walk
        /\ b.drag.forced = s.drag.forced /\ b.drag.at = s.drag.at
        /\ b.drag.solution = s.drag.solution
    BY <1>2, <1>3 DEF DragType
  <2> QED
    BY <2>1, <1>2, <1>5a, <1>6, <1>8, <1>9 DEF SameDrag
<1>11. \A m \in s.tree.live \ {s.drag.last} : u.tree.view[m] = s.tree.view[m]
  BY <1>2, <1>6, <1>9 DEF Repainted
<1>12. SingleGround(u, x)
  <2>1. Frames(u) = Frames(s)
    BY <1>9 DEF Frames
  <2>2. u.tree.view[s.drag.bed] = s.tree.view[s.drag.bed]
    BY <1>1, <1>11 DEF n
  <2>3. \A m \in Frames(u) : u.tree.view[m] = s.tree.view[m]
    BY <1>1, <1>11, <2>1
  <2> QED
    BY <1>9, <1>10, <2>1, <2>2, <2>3, GroundKept
<1>13. /\ Stub \notin u.tree.view[l]
       /\ Shows(u.tree, l, x) = IF c.collapses THEN {} ELSE {New(x, p, "straight")}
  <2>1. u.tree.view[l] = (s.tree.view[n] \ Gone(s)) \cup moved
    BY <1>2, <1>6, <1>9 DEF Repainted
  <2>2. s.drag.pieces = {x} /\ Versions(x) \cap s.tree.view[n] \subseteq {Old(x)}
    BY DEF SingleGround, Shows, n
  <2>3. /\ Gone(s) = {Old(x), Stub}
        /\ moved = IF c.collapses THEN {} ELSE {New(x, p, "straight")}
        /\ Versions(x) \cap {New(x, p, "straight")} = {New(x, p, "straight")}
        /\ Stub \notin {New(x, p, "straight")}
    <3>1. /\ Gone(s) = {Old(x), Stub} /\ Moved(s, p, "straight") = {New(x, p, "straight")}
          /\ Versions(x) \cap {New(x, p, "straight")} = {New(x, p, "straight")}
          /\ Stub \notin {New(x, p, "straight")}
      BY <2>2, OnePiece DEF Ways
    <3> QED
      BY <3>1 DEF moved
  <2>4. Versions(x) \cap u.tree.view[l] = Versions(x) \cap moved /\ Stub \notin u.tree.view[l]
    <3>1. Versions(x) \cap s.tree.view[n] \subseteq Gone(s) /\ Stub \in Gone(s) /\ Stub \notin moved
      BY <2>2, <2>3
    <3> QED
      BY <2>1, <3>1, Painted
  <2> QED
    BY <2>3, <2>4 DEF Shows
<1>14. u.tree.view[Root] = s.tree.view[Root]
  BY <1>1, <1>3, <1>11
<1>15. l # NoNode
  BY <1>2
<1> QED
  BY <1>9, <1>10, <1>12, <1>13, <1>14, <1>15 DEF u, Marked

LEMMA WalkDragOK ==
  ASSUME NEW s, Safe(s), NEW x \in Piece, SingleGround(s, x), Spare(s, 4),
         NEW p \in Place, NEW c, c.collapses \in BOOLEAN, c.walks \in BOOLEAN
  PROVE  LET u == WalkDrag(s, p, c)
         IN  /\ Safe(u) /\ SingleGround(u, x) /\ Keeps(s, u) /\ HasParent(u)
             /\ u.drag.last # NoNode /\ Spare(u, 2)
             /\ u.drag.status =>
                  /\ Stub \notin u.tree.view[u.drag.last]
                  /\ Shows(u.tree, u.drag.last, x) = {New(x, p, Way(p))}
             /\ u.tree.view[Root] = s.tree.view[Root]
<1> DEFINE n == s.drag.bed
           l == NewIn(WithoutLast(s))
           b == LastOn(WithoutLast(s), n)
           ok == (p \notin Tight \/ c.walks) /\ ~c.collapses
           via == s.drag.kind = "via"
           gone == IF via THEN ViaFacts(s) ELSE IF ok THEN Gone(s) ELSE {}
           new == IF ok THEN Moved(s, p, Way(p)) ELSE {}
           d == [b.drag EXCEPT !.status = ok]
           w == Put(b, l, gone, new)
           u == WalkDrag(s, p, c)
<1>1. /\ n \in s.tree.live \ {Root} /\ n # s.drag.last
      /\ s.drag.last \notin Frames(s) \cup {Root}
      /\ Frames(s) \subseteq s.tree.live \ {Root}
  BY BedLive
<1>1a. Spare(s, 1)
  BY SpareMonotone
<1>2. /\ Safe(b) /\ b.drag = [s.drag EXCEPT !.last = l] /\ b.shove = s.shove
      /\ SameDrag(s, b)
      /\ b.drag.last = l /\ l \in b.tree.live \ {Root, NoNode}
      /\ l \notin {s.drag.bed, s.drag.walk, s.shove.root} \cup Frames(s)
      /\ b.tree.view[l] = s.tree.view[n]
      /\ n \in b.tree.live /\ b.tree.chain[l] = b.tree.chain[n] \cup {l}
      /\ \A m \in s.tree.live \ {s.drag.last} :
           m \in b.tree.live \ {l} /\ b.tree.view[m] = s.tree.view[m]
      /\ Used(b) \subseteq Used(s) \cup {l}
  BY <1>1, <1>1a, FreshLast
<1>3. IsState(s) /\ s.drag.pieces \in SUBSET Piece /\ s.drag \in DragType /\ Root \in s.tree.live
  BY SafeType
<1>4. /\ new \in SUBSET Fact /\ About(new, s.drag.pieces) /\ About(gone, s.drag.pieces)
  BY <1>3, FactsAbout DEF Ways, Way
<1>5. u = [w EXCEPT !.drag = d]
  <2>1. b \in DragState
    BY <1>2 DEF Safe
  <2>2. Put(b, l, {}, {}) = b
    BY <2>1 DEF Put, DragState, Tree
  <2>3. CASE via
    <3>1. u = ViaWalk(b, p, ok) /\ b.drag.pieces = s.drag.pieces /\ b.drag.last = l
      BY <2>3, <1>2 DEF WalkDrag, SameDrag
    <3>2. gone = ViaFacts(b) /\ new = IF ok THEN Moved(b, p, Way(p)) ELSE {}
      BY <2>3, <3>1 DEF ViaFacts, Moved
    <3> HIDE DEF b, l, new, gone, ok, u
    <3>3. u = Put([b EXCEPT !.drag.status = ok], l, gone, new)
      BY <3>1, <3>2 DEF ViaWalk, ViaFacts, DragState
    <3> QED
      BY <2>1, <3>3 DEF Put, DragState
  <2>4. CASE ~via /\ ok
    <3>1. u = [Put(b, b.drag.last, Gone(s), Moved(s, p, Way(p))) EXCEPT !.drag.status = TRUE]
      BY <2>4 DEF WalkDrag
    <3>2. gone = Gone(s) /\ new = Moved(s, p, Way(p))
      BY <2>4
    <3>3. Put(b, b.drag.last, gone, new).drag = b.drag
      BY <2>1 DEF Put, DragState
    <3> HIDE DEF b, l, new, gone, u
    <3> QED
      BY <1>2, <2>4, <3>1, <3>2, <3>3
  <2>5. CASE ~via /\ ~ok
    <3>1. u = [b EXCEPT !.drag.status = FALSE]
      BY <2>5 DEF WalkDrag
    <3>2. gone = {} /\ new = {}
      BY <2>5
    <3> HIDE DEF b, l, new, gone, u
    <3> QED
      BY <2>2, <2>5, <3>1, <3>2
  <2> QED
    BY <2>3, <2>4, <2>5
<1>6. ok \in BOOLEAN
  OBVIOUS
<1> HIDE DEF b, l, n, new, gone, ok
<1>7. /\ d \in DragType /\ d.pieces = b.drag.pieces /\ d.bed = b.drag.bed
      /\ d.last = b.drag.last /\ d.walk = b.drag.walk
      /\ d.kind = b.drag.kind /\ d.free = b.drag.free /\ d.mode = b.drag.mode
      /\ d.status = ok /\ d.forced = b.drag.forced /\ d.at = b.drag.at
      /\ d.solution = b.drag.solution /\ d.lost = b.drag.lost
  <2>1. b.drag \in DragType
    BY <1>2, SafeType
  <2> QED
    BY <1>6, <2>1 DEF DragType
<1> HIDE DEF d
<1>8. /\ Safe(u) /\ u.drag = d /\ u.shove = b.shove
      /\ Repainted(b.tree, u.tree, l, gone, new) /\ Used(u) = Used(b)
  <2>1. /\ Safe(b) /\ b.drag.last # NoNode /\ new \in SUBSET Fact
        /\ About(gone, b.drag.pieces) /\ About(new, b.drag.pieces)
    BY <1>2, <1>4 DEF SameDrag
  <2>2. LET v == PaintedAs(b, gone, new, d)
        IN  /\ Safe(v) /\ v.drag = d /\ v.shove = b.shove
            /\ Repainted(b.tree, v.tree, b.drag.last, gone, new)
            /\ Used(v) = Used(b)
    BY <1>7, <2>1, LastPainted
  <2> HIDE DEF u
  <2> QED
    BY <1>2, <1>5, <2>2 DEF w, PaintedAs
<1> HIDE DEF u, w
<1>10. u.drag.last = l /\ Keeps(s, u) /\ u.drag.status = ok
  <2>1. /\ b.drag.bed = s.drag.bed /\ b.drag.walk = s.drag.walk
        /\ b.drag.forced = s.drag.forced /\ b.drag.at = s.drag.at
        /\ b.drag.solution = s.drag.solution /\ b.drag.lost = s.drag.lost
    BY <1>2, <1>3 DEF DragType
  <2> QED
    BY <2>1, <1>2, <1>7, <1>8 DEF SameDrag, Keeps
<1>11. \A m \in s.tree.live \ {s.drag.last} : u.tree.view[m] = s.tree.view[m]
  BY <1>2, <1>8 DEF Repainted
<1>12. SingleGround(u, x)
  <2>1. Frames(u) = Frames(s)
    BY <1>2, <1>8 DEF Frames
  <2>2. u.tree.view[s.drag.bed] = s.tree.view[s.drag.bed]
    BY <1>1, <1>11 DEF n
  <2>3. \A m \in Frames(u) : u.tree.view[m] = s.tree.view[m]
    BY <1>1, <1>11, <2>1
  <2> QED
    BY <1>10, <2>1, <2>2, <2>3, GroundKept DEF Keeps
<1>13. ASSUME ok PROVE /\ Stub \notin u.tree.view[l]
                       /\ Shows(u.tree, l, x) = {New(x, p, Way(p))}
  <2>1. u.tree.view[l] = (s.tree.view[n] \ gone) \cup new
    BY <1>2, <1>8 DEF Repainted
  <2>2. /\ s.drag.pieces = {x} /\ Versions(x) \cap s.tree.view[n] \subseteq {Old(x)}
        /\ s.drag.kind # "arc" => Stub \notin s.tree.view[n]
    BY DEF SingleGround, Shows, n
  <2>3. /\ Gone(s) = {Old(x), Stub} /\ ViaFacts(s) = Versions(x)
        /\ Moved(s, p, Way(p)) = {New(x, p, Way(p))}
        /\ Versions(x) \cap {New(x, p, Way(p))} = {New(x, p, Way(p))}
        /\ Stub \notin {New(x, p, Way(p))}
    <3>1. Way(p) \in Ways
      BY DEF Way, Ways
    <3> QED
      BY <2>2, <3>1, OnePiece
  <2>4. /\ Versions(x) \cap s.tree.view[n] \subseteq gone
        /\ Stub \in s.tree.view[n] => Stub \in gone
        /\ new = {New(x, p, Way(p))} /\ Stub \notin new
    BY <1>13, <2>2, <2>3 DEF gone, new
  <2>5. Versions(x) \cap u.tree.view[l] = Versions(x) \cap new /\ Stub \notin u.tree.view[l]
    BY <2>1, <2>4, Painted
  <2> QED
    BY <2>3, <2>4, <2>5 DEF Shows
<1>14. u.tree.view[Root] = s.tree.view[Root]
  BY <1>1, <1>3, <1>11
<1>15. HasParent(u)
  <2>1. n \in u.tree.live \ {l} /\ u.tree.chain[l] = u.tree.chain[n] \cup {l}
    BY <1>1, <1>2, <1>8 DEF Repainted
  <2>2. u.drag.last = l
    BY <1>10
  <2> HIDE DEF u
  <2> QED
    BY <2>1, <2>2 DEF HasParent
<1>16. Spare(u, 2)
  <2>a. Used(u) \subseteq Used(s) \cup {l} /\ 4 = 3 + 1
    BY <1>2, <1>8
  <2>1. Spare(u, 3)
    BY <2>a, SpareAfter
  <2> QED
    BY <2>1, SpareMonotone
<1>17. u.drag.last # NoNode
  BY <1>2, <1>10
<1>18. u.drag.status =>
           /\ Stub \notin u.tree.view[u.drag.last]
           /\ Shows(u.tree, u.drag.last, x) = {New(x, p, Way(p))}
  BY <1>10, <1>13
<1> QED
  BY <1>8, <1>10, <1>12, <1>14, <1>15, <1>16, <1>17, <1>18 DEF u

(* u has nodes of t, and nodes painted over nodes of t.                    *)
LEMMA CalmPatched ==
  ASSUME NEW t, NEW u, NEW X, NEW gone, NEW new, About(gone, X), About(new, X),
         \A n \in u.live : \/ n \in t.live /\ u.view[n] = t.view[n]
                           \/ \E m \in t.live : u.view[n] = (t.view[m] \ gone) \cup new
  PROVE  /\ OthersStay(t, X) => OthersStay(u, X)
         /\ NoLegs(t) => NoLegs(u)
<1>1. ASSUME OthersStay(t, X), NEW n \in u.live, NEW y \in Piece \ X
      PROVE  Shows(u, n, y) = {Old(y)}
  <2>1. PICK m \in t.live : u.view[n] = t.view[m] \/ u.view[n] = (t.view[m] \ gone) \cup new
    OBVIOUS
  <2>2. Shows(t, m, y) = {Old(y)}
    BY <1>1 DEF OthersStay
  <2>3. Versions(y) \cap (gone \cup new) = {}
    BY <1>1 DEF About
  <2> QED
    BY <2>1, <2>2, <2>3 DEF Shows
<1>2. ASSUME NoLegs(t), NEW n \in u.live
      PROVE  LegsIn(u, n) = {}
  <2>1. PICK m \in t.live : u.view[n] = t.view[m] \/ u.view[n] = (t.view[m] \ gone) \cup new
    OBVIOUS
  <2>2. LegsIn(t, m) = {}
    BY <1>2 DEF NoLegs
  <2> QED
    BY <2>1, <2>2 DEF LegsIn, About
<1> QED
  BY <1>1, <1>2 DEF OthersStay, NoLegs

(* A run of the shove in a drag.                                           *)
LEMMA RanSafe ==
  ASSUME NEW s, Safe(s), s.drag.last = NoNode, s.shove.root # NoNode, NEW p \in Place,
         NEW c, c.k \in Kept(s), c.shoves \in BOOLEAN, Spare(s, 1)
  PROVE  LET u == Ran(s, p, c)
             f == NewIn(Reduced(s, c.k))
             n == Reduced(s, c.k).shove.current
             via == s.drag.kind = "via"
         IN  /\ Safe(u) /\ u.drag = s.drag /\ u.shove.root = s.shove.root
             /\ n \in s.tree.live /\ n \in {s.shove.current} \cup Frames(s)
             /\ u.shove.current \in u.tree.live \ {Root}
             /\ \A m \in {Root, s.drag.bed, s.drag.walk, s.shove.root} \ {NoNode} :
                   m \in u.tree.live /\ u.tree.view[m] = s.tree.view[m]
             /\ \A m \in Frames(u) : \/ m \in Frames(s) /\ u.tree.view[m] = s.tree.view[m]
                                     \/ c.shoves /\ m = u.shove.current
             /\ Used(u) \subseteq Used(s) \cup {f}
             /\ IF c.shoves
                THEN u.tree.view[u.shove.current] =
                        (s.tree.view[n] \ (IF via THEN ViaFacts(s) ELSE {}))
                           \cup Pushed(p) \cup (IF via THEN Moved(s, p, "straight") ELSE {})
                ELSE u.shove.current = n /\ u.tree.view[n] = s.tree.view[n]
<1> DEFINE u == Ran(s, p, c)
           r == Reduced(s, c.k)
           f == NewIn(r)
           n == r.shove.current
           via == s.drag.kind = "via"
           gone == IF via THEN ViaFacts(s) ELSE {}
           new == Pushed(p) \cup (IF via THEN Moved(s, p, "straight") ELSE {})
<1>1. IsState(s) /\ Standing(s) /\ s \in DragState
  BY SafeType DEF Safe
<1>2. /\ IsState(u) /\ Standing(u) /\ u.drag = s.drag
      /\ u.shove.root = s.shove.root
      /\ u.shove.current \in u.tree.live \ {Root}
      /\ \A m \in s.tree.live :
           (\A j \in DOMAIN s.shove.stack : s.shove.stack[j] \notin s.tree.chain[m])
              => m \in u.tree.live
      /\ \A m \in u.tree.live :
           \/ m \in s.tree.live /\ u.tree.chain[m] = s.tree.chain[m]
                                /\ u.tree.view[m] = s.tree.view[m]
           \/ c.shoves /\ m = f
      /\ Frames(u) \subseteq Frames(s) \cup {f}
      /\ n \in {s.shove.current} \cup Frames(s)
      /\ n \in s.tree.live
      /\ IF c.shoves
         THEN /\ u.shove.current = f /\ f \in Frames(u)
              /\ f \in Node \ Used(r) /\ f # Root /\ f # NoNode
              /\ f \notin {s.drag.bed, s.drag.walk, s.shove.root}
              /\ u.tree.view[f] = (s.tree.view[n]
                                      \ (IF via THEN ViaFacts(s) ELSE {}))
                       \cup Pushed(p) \cup (IF via THEN Moved(s, p, "straight") ELSE {})
         ELSE u.shove.current = n /\ Frames(u) \subseteq Frames(s)
      /\ Used(u) \subseteq Used(s) \cup {f}
      /\ (s \in DragState => u \in DragState)
  BY <1>1, RanOK, SMTT(60)
<1>3. About(gone, s.drag.pieces) /\ About(new, s.drag.pieces)
  BY <1>1, FactsAbout DEF Ways
<1>4. c.shoves => u.tree.view[f] = (s.tree.view[n] \ gone) \cup new
  BY <1>2
<1> HIDE DEF u, r, f, n, gone, new
<1>5. OthersStay(u.tree, s.drag.pieces) /\ NoLegs(u.tree)
  <2> DEFINE t == s.tree
             w == u.tree
             X == s.drag.pieces
  <2>1. \A m \in w.live : \/ m \in t.live /\ w.view[m] = t.view[m]
                          \/ \E k \in t.live : w.view[m] = (t.view[k] \ gone) \cup new
    BY <1>2, <1>4
  <2>2. About(gone, X) /\ About(new, X)
    BY <1>3
  <2>3. OthersStay(t, X) /\ NoLegs(t)
    BY DEF Safe
  <2> HIDE DEF t, w, X
  <2>4. OthersStay(w, X) /\ NoLegs(w)
    BY <2>1, <2>2, <2>3, CalmPatched
  <2> QED
    BY <2>4 DEF w, X
<1>6. Safe(u)
  BY <1>1, <1>2, <1>5 DEF Safe
<1>7. ASSUME NEW m \in {Root, s.drag.bed, s.drag.walk, s.shove.root} \ {NoNode}
      PROVE  m \in u.tree.live /\ u.tree.view[m] = s.tree.view[m]
  <2>1. m \in s.tree.live /\ TreeOK(s.tree)
    BY SafeType
  <2>2. \A j \in DOMAIN s.shove.stack : s.shove.stack[j] \notin s.tree.chain[m]
    <3>1. \A j \in DOMAIN s.shove.stack : s.shove.stack[j] # Root
      BY <1>1, StateType, SafeType
    <3> QED
      BY <1>1, <2>1, <3>1 DEF Standing, FramesOrdered, TreeOK
  <2>3. m # f \/ ~c.shoves
    BY <1>2
  <2> QED
    BY <1>2, <2>1, <2>2, <2>3
<1>8. \A m \in Frames(u) : \/ m \in Frames(s) /\ u.tree.view[m] = s.tree.view[m]
                           \/ c.shoves /\ m = u.shove.current
  <2>1. Frames(u) \subseteq u.tree.live
    BY <1>6, SafeType
  <2> QED
    BY <1>2, <2>1
<1>9. ~c.shoves => u.shove.current = n /\ u.tree.view[n] = s.tree.view[n]
  BY <1>2
<1> QED
  BY <1>2, <1>6, <1>7, <1>8, <1>9 DEF u, r, f, n

(* Where the shove stands.                                                 *)
LEMMA ShoveStands ==
  ASSUME NEW s, Safe(s), s.shove.root # NoNode
  PROVE  /\ s.shove.current \in s.tree.live \ {Root}
         /\ s.shove.current \in {s.shove.root} \cup Frames(s)
<1>1. IsState(s) /\ HandlesHold(s)
  BY SafeType DEF Standing
<1>2. s.shove.current \in {s.shove.root} \cup Frames(s)
  <2>1. CASE s.shove.stack = <<>>
    BY <1>1, <2>1 DEF HandlesHold
  <2>2. CASE s.shove.stack # <<>>
    <3>1. Len(s.shove.stack) \in 1..Len(s.shove.stack)
      BY <1>1, <2>2, StateType
    <3> QED
      BY <1>1, <2>2, <3>1, StateType DEF HandlesHold
  <2> QED
    BY <2>1, <2>2
<1> QED
  BY <1>2, SafeType

(* Dragger::drag_shove before it branches for the drag.                    *)
Inert(s, c) == s.drag.kind = "arc" /\ c.collapses
ShoveBare(s, c) == LET clear == WithoutLast(s)
                   IN  IF s.drag.kind = "via" \/ Inert(s, c) THEN clear
                       ELSE Put(clear, clear.shove.current, Gone(s), {})
ShoveRan(s, p, c) == IF Inert(s, c) THEN WithoutLast(s) ELSE Ran(ShoveBare(s, c), p, Run(c))

LEMMA ShoveBareOK ==
  ASSUME NEW s, Safe(s), NEW x \in Piece, SingleGround(s, x), s.shove.root # NoNode,
         s.shove.root = s.drag.bed, NEW c, c.collapses \in BOOLEAN
  PROVE  LET u == ShoveBare(s, c)
             l == u.shove.current
         IN  /\ Safe(u) /\ u.drag = [s.drag EXCEPT !.last = NoNode] /\ u.shove = s.shove
             /\ SingleGround(u, x)
             /\ l \in u.tree.live \ {Root}
             /\ u.tree.view[Root] = s.tree.view[Root]
             /\ s.drag.kind = "via" => Stub \notin u.tree.view[l]
             /\ s.drag.kind # "via" /\ ~Inert(s, c) => Bare(u.tree, l, x)
             /\ Used(u) \subseteq Used(s)
<1> DEFINE v == WithoutLast(s)
           u == ShoveBare(s, c)
           l == s.shove.current
<1>1. /\ Safe(v) /\ v.drag = [s.drag EXCEPT !.last = NoNode] /\ v.shove = s.shove
      /\ SameDrag(s, v) /\ v.drag.last = NoNode
      /\ v.drag.bed = s.drag.bed /\ v.drag.walk = s.drag.walk
      /\ Pruned(s.tree, v.tree) /\ v.tree.live = s.tree.live \ {s.drag.last}
      /\ Used(v) \subseteq Used(s)
  BY SafeWithoutLast
<1>2. /\ s.drag.bed \in s.tree.live \ {Root} /\ s.drag.bed # s.drag.last
      /\ s.drag.last \notin Frames(s) \cup {Root}
      /\ Frames(s) \subseteq s.tree.live \ {Root}
  BY BedLive
<1>3. u = IF s.drag.kind = "via" \/ Inert(s, c) THEN v ELSE Put(v, l, Gone(s), {})
  BY <1>1 DEF ShoveBare
<1> HIDE DEF v, u
<1>4. \A m \in Frames(s) \cup {Root, s.drag.bed} : v.tree.view[m] = s.tree.view[m] /\ m \in v.tree.live
  BY <1>1, <1>2, SafeType DEF Pruned
<1>5. Frames(v) = Frames(s)
  BY <1>1 DEF Frames
<1>6. l \in v.tree.live \ {Root} /\ l \in {s.drag.bed} \cup Frames(s)
  BY <1>1, <1>5, ShoveStands
<1>7. SingleGround(v, x)
  BY <1>1, <1>4, <1>5, GroundKept
<1>8. CASE s.drag.kind = "via" \/ Inert(s, c)
  <2>1. u = v
    BY <1>3, <1>8
  <2>2. s.drag.kind = "via" => Stub \notin v.tree.view[l]
    BY <1>1, <1>5, <1>6, <1>7 DEF SingleGround, SameDrag
  <2>3. v.shove.current = l /\ v.tree.view[Root] = s.tree.view[Root]
    BY <1>1, <1>4
  <2> HIDE DEF l
  <2> QED
    BY <1>1, <1>6, <1>7, <1>8, <2>1, <2>2, <2>3 DEF u
<1>9. CASE s.drag.kind # "via" /\ ~Inert(s, c)
  <2>1. IsState(s) /\ s.drag.pieces = {x}
    BY SafeType DEF SingleGround
  <2>2. Gone(s) = {Old(x), Stub} /\ About(Gone(s), v.drag.pieces) /\ About({}, v.drag.pieces)
    BY <2>1, <1>1, OnePiece, FactsAbout DEF SameDrag
  <2>3. u = Put(v, l, Gone(s), {})
    BY <1>3, <1>9
  <2>4. /\ Safe(u) /\ u.drag = v.drag /\ u.shove = v.shove
        /\ Repainted(v.tree, u.tree, l, Gone(s), {})
        /\ Used(u) = Used(v)
    <3> HIDE DEF l
    <3>1. /\ Safe(v) /\ l \in v.tree.live /\ {} \in SUBSET Fact
          /\ About(Gone(s), v.drag.pieces) /\ About({}, v.drag.pieces)
      BY <2>2, <1>1, <1>6
    <3>2. /\ Safe(Put(v, l, Gone(s), {})) /\ Put(v, l, Gone(s), {}).drag = v.drag
          /\ Put(v, l, Gone(s), {}).shove = v.shove
          /\ Repainted(v.tree, Put(v, l, Gone(s), {}).tree, l, Gone(s), {})
          /\ Used(Put(v, l, Gone(s), {})) = Used(v)
      BY <3>1, SafePut
    <3> QED
      BY <2>3, <3>2
  <2> HIDE DEF l
  <2>5. \A m \in v.tree.live : u.tree.view[m] \subseteq v.tree.view[m]
    BY <2>4, <1>6 DEF Repainted
  <2>6. SingleGround(u, x)
    <3>1. Frames(u) = Frames(v)
      BY <2>4 DEF Frames
    <3>2. SameDrag(v, u)
      BY <2>4 DEF SameDrag
    <3>3. v.drag.bed = s.drag.bed /\ u.drag.bed = s.drag.bed /\ u.drag.walk = v.drag.walk
      BY <1>1, <2>4
    <3> QED
      BY <1>4, <1>5, <1>7, <2>4, <2>5, <3>1, <3>2, <3>3, GroundKept
  <2>7. Bare(u.tree, l, x)
    <3>1. u.tree.view[l] = v.tree.view[l] \ {Old(x), Stub}
      BY <2>2, <2>4 DEF Repainted
    <3>2. Versions(x) \cap v.tree.view[l] \subseteq {Old(x)}
      BY <1>1, <1>5, <1>6, <1>7, <1>9 DEF SingleGround, Shows, SameDrag
    <3> QED
      BY <3>1, <3>2 DEF Bare, Shows
  <2>8. u.tree.view[Root] = s.tree.view[Root]
    BY <1>4, <1>6, <2>4 DEF Repainted
  <2>9. u.shove.current = l /\ l \in u.tree.live \ {Root}
    BY <2>4, <1>1, <1>6 DEF Repainted, l
  <2> QED
    BY <1>1, <1>9, <2>4, <2>6, <2>7, <2>8, <2>9 DEF u
<1> QED
  BY <1>8, <1>9

LEMMA ShoveRanOK ==
  ASSUME NEW s, Safe(s), NEW x \in Piece, SingleGround(s, x), s.shove.root # NoNode,
         s.shove.root = s.drag.bed, NEW p \in Place,
         NEW c, c.k \in Kept(s), c.shoves \in BOOLEAN, c.collapses \in BOOLEAN, Spare(s, 4)
  PROVE  LET r == ShoveRan(s, p, c)
             l == r.shove.current
             via == s.drag.kind = "via"
         IN  /\ Safe(r) /\ r.drag = [s.drag EXCEPT !.last = NoNode]
             /\ r.shove.root = s.shove.root
             /\ SingleGround(r, x)
             /\ l \in r.tree.live \ {Root}
             /\ r.tree.view[Root] = s.tree.view[Root]
             /\ ~Inert(s, c) =>
                  /\ via => Stub \notin r.tree.view[l]
                  /\ c.shoves /\ ~c.collapses => Pushed(p) \subseteq r.tree.view[l]
                  /\ via /\ c.shoves /\ ~c.collapses => Shows(r.tree, l, x) = {New(x, p, "straight")}
                  /\ ~via => Bare(r.tree, l, x)
             /\ Spare(r, 3)
<1> DEFINE b == ShoveBare(s, c)
           r == ShoveRan(s, p, c)
           l == r.shove.current
           via == s.drag.kind = "via"
<1>1. /\ Safe(b) /\ b.drag = [s.drag EXCEPT !.last = NoNode] /\ b.shove = s.shove
      /\ SingleGround(b, x)
      /\ b.shove.current \in b.tree.live \ {Root}
      /\ b.tree.view[Root] = s.tree.view[Root]
      /\ s.drag.kind = "via" => Stub \notin b.tree.view[b.shove.current]
      /\ s.drag.kind # "via" /\ ~Inert(s, c) => Bare(b.tree, b.shove.current, x)
      /\ Used(b) \subseteq Used(s)
  BY ShoveBareOK
<1>2. r = IF Inert(s, c) THEN b ELSE Ran(b, p, Run(c))
  BY DEF ShoveRan, ShoveBare
<1> HIDE DEF b, r
<1>2a. PICK o : /\ o = Run(c) /\ o.k = c.k /\ o.k \in Kept(s) /\ o.shoves \in BOOLEAN
                /\ o.shoves = (c.shoves /\ ~c.collapses)
  <2>1. /\ Run(c).k = c.k
        /\ Run(c).shoves = (c.shoves /\ ~c.collapses)
    BY DEF Run
  <2>2. PICK o : o = Run(c)
    OBVIOUS
  <2> QED
    BY <2>1, <2>2
<1>3. CASE Inert(s, c)
  <2>1. r = b
    BY <1>2, <1>3
  <2>2. Spare(b, 3)
    BY <1>1, SpareMonotone
  <2> QED
    BY <1>1, <1>3, <2>1, <2>2 DEF r
<1>4. CASE ~Inert(s, c)
  <2> DEFINE f == NewIn(Reduced(b, o.k))
             n == Reduced(b, o.k).shove.current
  <2>1. /\ o.k \in Kept(b) /\ Spare(b, 1) /\ b.drag.last = NoNode /\ b.shove.root # NoNode
    <3>1. s.drag \in DragType
      BY SafeType
    <3>2. Spare(b, 1)
      BY <1>1, SpareMonotone
    <3>3. b.drag.last = NoNode
      BY <1>1, <3>1 DEF DragType
    <3> QED
      BY <1>1, <1>2a, <3>2, <3>3 DEF Kept
  <2>2. /\ b.drag.kind = s.drag.kind /\ b.drag.bed = s.drag.bed /\ b.drag.walk = s.drag.walk
        /\ b.drag.pieces = {x} /\ b.drag.bed # NoNode
    <3>1. s.drag \in DragType
      BY SafeType
    <3> QED
      BY <1>1, <3>1 DEF DragType, SingleGround
  <2>3. r = Ran(b, p, o)
    BY <1>2, <1>2a, <1>4
  <2>4. /\ Safe(r) /\ r.drag = b.drag /\ r.shove.root = b.shove.root
        /\ n \in b.tree.live /\ n \in {b.shove.current} \cup Frames(b)
        /\ r.shove.current \in r.tree.live \ {Root}
        /\ \A m \in {Root, b.drag.bed, b.drag.walk, b.shove.root} \ {NoNode} :
              m \in r.tree.live /\ r.tree.view[m] = b.tree.view[m]
        /\ \A m \in Frames(r) : \/ m \in Frames(b) /\ r.tree.view[m] = b.tree.view[m]
                                \/ o.shoves /\ m = r.shove.current
        /\ Used(r) \subseteq Used(b) \cup {f}
        /\ IF o.shoves
           THEN r.tree.view[r.shove.current] =
                   (b.tree.view[n] \ (IF b.drag.kind = "via" THEN ViaFacts(b) ELSE {}))
                      \cup Pushed(p)
                      \cup (IF b.drag.kind = "via" THEN Moved(b, p, "straight") ELSE {})
           ELSE r.shove.current = n /\ r.tree.view[n] = b.tree.view[n]
    <3> HIDE DEF f, n
    <3>1. /\ Safe(b) /\ b.drag.last = NoNode /\ b.shove.root # NoNode
          /\ o.k \in Kept(b) /\ o.shoves \in BOOLEAN /\ Spare(b, 1)
      BY <1>1, <1>2a, <2>1
    <3>2. LET u == Ran(b, p, o)
              g == NewIn(Reduced(b, o.k))
              m0 == Reduced(b, o.k).shove.current
              by == b.drag.kind = "via"
          IN  /\ Safe(u) /\ u.drag = b.drag /\ u.shove.root = b.shove.root
              /\ m0 \in b.tree.live /\ m0 \in {b.shove.current} \cup Frames(b)
              /\ u.shove.current \in u.tree.live \ {Root}
              /\ \A m \in {Root, b.drag.bed, b.drag.walk, b.shove.root} \ {NoNode} :
                    m \in u.tree.live /\ u.tree.view[m] = b.tree.view[m]
              /\ \A m \in Frames(u) : \/ m \in Frames(b) /\ u.tree.view[m] = b.tree.view[m]
                                      \/ o.shoves /\ m = u.shove.current
              /\ Used(u) \subseteq Used(b) \cup {g}
              /\ IF o.shoves
                 THEN u.tree.view[u.shove.current] =
                         (b.tree.view[m0] \ (IF by THEN ViaFacts(b) ELSE {}))
                            \cup Pushed(p) \cup (IF by THEN Moved(b, p, "straight") ELSE {})
                 ELSE u.shove.current = m0 /\ u.tree.view[m0] = b.tree.view[m0]
      BY <3>1, RanSafe, SMTT(60)
    <3> QED
      BY <2>3, <3>2 DEF f, n
  <2> HIDE DEF f, n
  <2>5. /\ via => Stub \notin b.tree.view[n]
        /\ ~via => Bare(b.tree, n, x)
    BY <1>1, <1>4, <2>2, <2>4 DEF SingleGround, Bare
  <2>6. /\ ViaFacts(b) = Versions(x) /\ Moved(b, p, "straight") = {New(x, p, "straight")}
        /\ Versions(x) \cap {New(x, p, "straight")} = {New(x, p, "straight")}
        /\ Stub \notin {New(x, p, "straight")}
        /\ Versions(x) \cap Pushed(p) = {} /\ Stub \notin Pushed(p)
    <3>1. Versions(x) \cap Pushed(p) = {} /\ Stub \notin Pushed(p)
      BY VersionsApart, FactsApart DEF Pushed
    <3>2. /\ ViaFacts(b) = Versions(x) /\ Moved(b, p, "straight") = {New(x, p, "straight")}
          /\ Versions(x) \cap {New(x, p, "straight")} = {New(x, p, "straight")}
          /\ Stub \notin {New(x, p, "straight")}
      BY <2>2, OnePiece DEF Ways
    <3> QED
      BY <3>1, <3>2
  <2>7. /\ via => Stub \notin r.tree.view[l]
        /\ o.shoves => Pushed(p) \subseteq r.tree.view[l]
        /\ via /\ o.shoves => Shows(r.tree, l, x) = {New(x, p, "straight")}
        /\ ~via => Bare(r.tree, l, x)
    BY <2>2, <2>4, <2>5, <2>6 DEF Bare, Shows
  <2>8. SingleGround(r, x)
    <3>1. \A m \in Frames(r) : /\ Stub \notin r.tree.view[m]
                               /\ r.drag.kind # "via" => Shows(r.tree, m, x) = {}
      BY <1>1, <2>2, <2>4, <2>7, ZenonT(60) DEF SingleGround, Bare, Shows
    <3>2. r.tree.view[r.drag.bed] = b.tree.view[b.drag.bed]
      BY <2>2, <2>4
    <3> QED
      BY <1>1, <2>4, <3>1, <3>2 DEF SingleGround, Shows
  <2>9. r.tree.view[Root] = s.tree.view[Root]
    BY <1>1, <2>4, NodeType
  <2>10. Spare(r, 3)
    <3>1. Spare(b, 4) /\ 4 = 3 + 1
      BY <1>1, SpareMonotone
    <3> QED
      BY <2>4, <3>1, SpareAfter
  <2>11. r.shove.root = s.shove.root
    BY <1>1, <2>4
  <2> QED
    BY <1>1, <1>2a, <2>4, <2>7, <2>8, <2>9, <2>10, <2>11 DEF r
<1> QED
  BY <1>3, <1>4

(* What a drag on the walkaround or on the shove comes to.                 *)
Tried(s, u, x, p) ==
    /\ Safe(u) /\ SingleGround(u, x) /\ Keeps(s, u) /\ HasParent(u)
    /\ u.drag.last # NoNode /\ Spare(u, 2)
    /\ u.drag.status =>
         /\ Stub \notin u.tree.view[u.drag.last]
         /\ \E way \in Ways : Shows(u.tree, u.drag.last, x) = {New(x, p, way)}
         /\ p \in Tight /\ New(x, p, "straight") \in u.tree.view[u.drag.last]
              => Push(p) \in u.tree.view[u.drag.last]
    /\ u.tree.view[Root] = s.tree.view[Root]

LEMMA WayLegal ==
  ASSUME NEW view, NEW x, NEW p \in Place, Versions(x) \cap view = {New(x, p, Way(p))},
         p \in Tight, New(x, p, "straight") \in view
  PROVE  FALSE
BY VersionsApart, FactsApart DEF Way, Ways

LEMMA WalkTried ==
  ASSUME NEW s, Safe(s), NEW x \in Piece, SingleGround(s, x), Spare(s, 4),
         NEW p \in Place, NEW c, c.collapses \in BOOLEAN, c.walks \in BOOLEAN
  PROVE  Tried(s, WalkDrag(s, p, c), x, p)
<1> DEFINE u == WalkDrag(s, p, c)
<1>1. /\ Safe(u) /\ SingleGround(u, x) /\ Keeps(s, u) /\ HasParent(u)
      /\ u.drag.last # NoNode /\ Spare(u, 2)
      /\ u.drag.status => /\ Stub \notin u.tree.view[u.drag.last]
                          /\ Shows(u.tree, u.drag.last, x) = {New(x, p, Way(p))}
      /\ u.tree.view[Root] = s.tree.view[Root]
  BY WalkDragOK
<1> HIDE DEF u
<1>2. Way(p) \in Ways
  BY DEF Way, Ways
<1>3. ASSUME u.drag.status, p \in Tight, New(x, p, "straight") \in u.tree.view[u.drag.last]
      PROVE  FALSE
  BY <1>1, <1>3, WayLegal DEF Shows
<1> QED
  BY <1>1, <1>2, <1>3 DEF Tried, u

LEMMA ShoveTried ==
  ASSUME NEW s, Safe(s), NEW x \in Piece, SingleGround(s, x), s.shove.root # NoNode,
         s.shove.root = s.drag.bed, NEW p \in Place,
         NEW c, c.k \in Kept(s), c.shoves \in BOOLEAN, c.walks \in BOOLEAN,
         c.collapses \in BOOLEAN, c.collapses => s.drag.kind # "via", Spare(s, 4)
  PROVE  Tried(s, ShoveDrag(s, p, c), x, p)
<1> DEFINE r == ShoveRan(s, p, c)
           n == r.shove.current
           l == NewIn(r)
           b == LastOn(r, n)
           via == s.drag.kind = "via"
           fails == c.collapses \/ ~c.shoves
           ok == IF ~via THEN ~fails ELSE c.shoves \/ p \notin Tight \/ c.walks
           gone == IF via /\ ~c.shoves THEN ViaFacts(s) ELSE {}
           new == IF via THEN IF ~c.shoves /\ ok THEN Moved(s, p, Way(p)) ELSE {}
                  ELSE IF fails THEN {} ELSE Moved(s, p, "straight")
           d == [b.drag EXCEPT !.status = ok,
                               !.solution = IF via \/ fails THEN @ ELSE Moved(s, p, "straight")]
           u == ShoveDrag(s, p, c)
<1>1. /\ Safe(r) /\ r.drag = [s.drag EXCEPT !.last = NoNode]
      /\ r.shove.root = s.shove.root
      /\ SingleGround(r, x)
      /\ n \in r.tree.live \ {Root}
      /\ r.tree.view[Root] = s.tree.view[Root]
      /\ ~Inert(s, c) =>
           /\ via => Stub \notin r.tree.view[n]
           /\ c.shoves /\ ~c.collapses => Pushed(p) \subseteq r.tree.view[n]
           /\ via /\ c.shoves /\ ~c.collapses => Shows(r.tree, n, x) = {New(x, p, "straight")}
           /\ ~via => Bare(r.tree, n, x)
      /\ Spare(r, 3)
  BY ShoveRanOK
<1>1a. via \/ ~c.collapses => ~Inert(s, c) /\ (via => ~c.collapses)
  BY DEF Inert
<1>2. /\ IsState(s) /\ s.drag.pieces = {x} /\ s.drag \in DragType
  BY SafeType DEF SingleGround
<1>3. /\ r.drag.last = NoNode /\ r.drag.bed = s.drag.bed /\ r.drag.walk = s.drag.walk
      /\ r.drag.kind = s.drag.kind /\ r.drag.pieces = s.drag.pieces
      /\ r.drag.free = s.drag.free /\ r.drag.mode = s.drag.mode
      /\ r.drag.forced = s.drag.forced /\ r.drag.at = s.drag.at
      /\ r.drag.solution = s.drag.solution /\ r.drag.lost = s.drag.lost
      /\ Spare(r, 1)
  <2>1. Spare(r, 1)
    BY <1>1, SpareMonotone
  <2>2. r.drag = [s.drag EXCEPT !.last = NoNode]
    BY <1>1
  <2> HIDE DEF r
  <2> QED
    BY <1>2, <2>1, <2>2 DEF DragType
<1>4. /\ Safe(b) /\ b.drag = [r.drag EXCEPT !.last = l] /\ b.shove = r.shove
      /\ SameDrag(r, b)
      /\ b.drag.last = l /\ l \in b.tree.live \ {Root, NoNode}
      /\ l \notin Held(r)
      /\ Grown(r.tree, b.tree, n, l)
      /\ Used(b) \subseteq Used(r) \cup {l}
  <2> HIDE DEF r
  <2> QED
    BY <1>1, <1>3, SafeLastOn
<1>5. /\ Gone(s) = {Old(x), Stub} /\ ViaFacts(s) = Versions(x)
      /\ Moved(s, p, Way(p)) = {New(x, p, Way(p))}
      /\ Moved(s, p, "straight") = {New(x, p, "straight")}
      /\ Versions(x) \cap {New(x, p, Way(p))} = {New(x, p, Way(p))}
      /\ Versions(x) \cap {New(x, p, "straight")} = {New(x, p, "straight")}
      /\ Stub \notin {New(x, p, Way(p))} /\ Stub \notin {New(x, p, "straight")}
      /\ Way(p) \in Ways
  <2>1. Way(p) \in Ways /\ "straight" \in Ways
    BY DEF Way, Ways
  <2> QED
    BY <1>2, <2>1, OnePiece
<1>6. /\ new \in SUBSET Fact /\ About(new, s.drag.pieces) /\ About(gone, s.drag.pieces)
      /\ Moved(s, p, "straight") \in SUBSET Fact
  <2>1. /\ About(Moved(s, p, Way(p)), s.drag.pieces) /\ Moved(s, p, Way(p)) \subseteq Fact
        /\ About(Moved(s, p, "straight"), s.drag.pieces) /\ Moved(s, p, "straight") \subseteq Fact
        /\ About(ViaFacts(s), s.drag.pieces) /\ About({}, s.drag.pieces)
    BY <1>2, FactsAbout DEF Ways, Way
  <2> QED
    BY <2>1
<1>7. b \in DragState /\ s \in DragState
  BY <1>4 DEF Safe
<1>8. ok \in BOOLEAN
  OBVIOUS
<1>9. u = IF via
          THEN IF c.shoves THEN [b EXCEPT !.drag.status = TRUE]
               ELSE ViaWalk(b, p, p \notin Tight \/ c.walks)
          ELSE IF c.collapses \/ ~c.shoves THEN [b EXCEPT !.drag.status = FALSE]
          ELSE [Put(b, b.drag.last, {}, Moved(s, p, "straight"))
                  EXCEPT !.drag.status = TRUE, !.drag.solution = Moved(s, p, "straight")]
  BY DEF ShoveDrag, ShoveRan, ShoveBare, Inert
<1> HIDE DEF b, l, n, r, u
<1>10. u = PaintedAs(b, gone, new, d)
  <2>1. Put(b, l, {}, {}) = b
    BY <1>7 DEF Put, DragState, Tree
  <2>2. CASE via /\ c.shoves
    <3>1. /\ gone = {} /\ new = {} /\ u = [b EXCEPT !.drag.status = TRUE]
          /\ d = [b.drag EXCEPT !.status = TRUE]
      <4>1. b.drag \in DragType
        BY <1>7 DEF DragState
      <4> QED
        BY <1>9, <2>2, <4>1 DEF DragType
    <3> HIDE DEF gone, new, d
    <3> QED
      BY <1>4, <2>1, <3>1 DEF PaintedAs
  <2>3. CASE via /\ ~c.shoves
    <3>1. u = ViaWalk(b, p, ok) /\ b.drag.pieces = s.drag.pieces
      BY <2>3, <1>3, <1>4, <1>9 DEF SameDrag
    <3>2. gone = ViaFacts(b) /\ new = IF ok THEN Moved(b, p, Way(p)) ELSE {}
      BY <2>3, <3>1 DEF ViaFacts, Moved
    <3>3. d = [b.drag EXCEPT !.status = ok]
      <4>1. b.drag \in DragType
        BY <1>7 DEF DragState
      <4> QED
        BY <2>3, <4>1 DEF DragType
    <3> HIDE DEF new, gone, ok, d
    <3>4. u = Put([b EXCEPT !.drag.status = ok], l, gone, new)
      BY <1>4, <1>7, <3>1, <3>2 DEF ViaWalk, ViaFacts, DragState
    <3> QED
      BY <1>4, <1>7, <3>3, <3>4 DEF Put, DragState, PaintedAs
  <2>4. CASE ~via /\ fails
    <3>1. /\ gone = {} /\ new = {} /\ u = [b EXCEPT !.drag.status = FALSE]
          /\ d = [b.drag EXCEPT !.status = FALSE]
      <4>1. b.drag \in DragType
        BY <1>7 DEF DragState
      <4> QED
        BY <1>9, <2>4, <4>1 DEF DragType
    <3> HIDE DEF gone, new, d
    <3> QED
      BY <1>4, <2>1, <3>1 DEF PaintedAs
  <2>5. CASE ~via /\ ~fails
    <3> DEFINE m == Moved(s, p, "straight")
               w == Put(b, b.drag.last, {}, m)
    <3>1. /\ gone = {} /\ new = m
          /\ u = [w EXCEPT !.drag.status = TRUE, !.drag.solution = m]
      BY <1>9, <2>5
    <3>2. w.drag = b.drag
      BY <1>7 DEF Put, DragState
    <3>3. d = [b.drag EXCEPT !.status = TRUE, !.solution = m]
      BY <2>5
    <3> HIDE DEF gone, new, d, m
    <3>4. u = [w EXCEPT !.drag = d]
      <4> HIDE DEF w
      <4> QED
        BY <3>1, <3>2, <3>3
    <3> QED
      BY <3>1, <3>4 DEF PaintedAs
  <2> QED
    BY <2>2, <2>3, <2>4, <2>5
<1> HIDE DEF gone, new, ok, fails
<1>11. /\ d \in DragType /\ d.pieces = b.drag.pieces /\ d.bed = b.drag.bed
       /\ d.last = b.drag.last /\ d.walk = b.drag.walk
       /\ d.kind = b.drag.kind /\ d.free = b.drag.free /\ d.mode = b.drag.mode
       /\ d.status = ok /\ d.forced = b.drag.forced /\ d.at = b.drag.at
       /\ d.lost = b.drag.lost
       /\ d.solution \in {b.drag.solution, Moved(s, p, "straight")}
  <2>1. b.drag \in DragType
    BY <1>4, SafeType
  <2> QED
    BY <1>6, <1>8, <2>1 DEF DragType
<1> HIDE DEF d
<1>12. /\ Safe(u) /\ u.drag = d /\ u.shove = b.shove
       /\ Repainted(b.tree, u.tree, l, gone, new) /\ Used(u) = Used(b)
  <2>1. /\ Safe(b) /\ b.drag.last # NoNode /\ new \in SUBSET Fact
        /\ About(gone, b.drag.pieces) /\ About(new, b.drag.pieces)
    BY <1>3, <1>4, <1>6 DEF SameDrag
  <2>2. LET v == PaintedAs(b, gone, new, d)
        IN  /\ Safe(v) /\ v.drag = d /\ v.shove = b.shove
            /\ Repainted(b.tree, v.tree, b.drag.last, gone, new)
            /\ Used(v) = Used(b)
    BY <1>11, <2>1, LastPainted
  <2> QED
    BY <1>4, <1>10, <2>2
<1>13. u.drag.last = l /\ l # NoNode /\ Keeps(s, u) /\ u.drag.status = ok
  <2>1. r.drag \in DragType
    BY <1>1, SafeType
  <2>2. /\ b.drag.bed = r.drag.bed /\ b.drag.walk = r.drag.walk
        /\ b.drag.forced = r.drag.forced /\ b.drag.at = r.drag.at
        /\ b.drag.solution = r.drag.solution /\ b.drag.lost = r.drag.lost
    BY <1>4, <2>1 DEF DragType
  <2> QED
    BY <2>2, <1>1, <1>3, <1>4, <1>11, <1>12 DEF SameDrag, Keeps
<1>14. /\ \A m \in r.tree.live : u.tree.view[m] = r.tree.view[m]
       /\ u.tree.view[l] = (r.tree.view[n] \ gone) \cup new
  BY <1>4, <1>12 DEF Repainted, Grown
<1>15. SingleGround(u, x)
  <2>1. Frames(u) = Frames(r)
    BY <1>4, <1>12 DEF Frames
  <2>2. r.drag.bed \in r.tree.live /\ Frames(r) \subseteq r.tree.live
    BY <1>1, BedLive
  <2>3. u.tree.view[r.drag.bed] = r.tree.view[r.drag.bed]
    BY <1>14, <2>2
  <2>4. \A m \in Frames(u) : m \in Frames(r) /\ u.tree.view[m] = r.tree.view[m]
    BY <1>14, <2>1, <2>2
  <2>5. SameDrag(r, u) /\ u.drag.bed = r.drag.bed /\ u.drag.walk = r.drag.walk
        /\ u.shove.root = r.shove.root
    BY <1>1, <1>3, <1>13 DEF Keeps, SameDrag
  <2> QED
    BY <1>1, <2>3, <2>4, <2>5, GroundKept
<1>16. u.tree.view[Root] = s.tree.view[Root]
  BY <1>1, <1>14, SafeType
<1>17. HasParent(u)
  <2>1. n \in u.tree.live \ {l} /\ u.tree.chain[l] = u.tree.chain[n] \cup {l}
    BY <1>1, <1>4, <1>12 DEF Repainted, Grown
  <2> QED
    BY <2>1, <1>13 DEF HasParent
<1>18. Spare(u, 2)
  <2>a. Used(u) \subseteq Used(r) \cup {l} /\ 3 = 2 + 1 /\ Spare(r, 3)
    BY <1>1, <1>4, <1>12
  <2> QED
    BY <2>a, SpareAfter
<1>19. ASSUME ok
       PROVE  /\ Stub \notin u.tree.view[l]
              /\ \E way \in Ways : Shows(u.tree, l, x) = {New(x, p, way)}
              /\ p \in Tight /\ New(x, p, "straight") \in u.tree.view[l]
                   => Push(p) \in u.tree.view[l]
  <2>0. p \in Tight => Pushed(p) = {Push(p)}
    BY DEF Pushed
  <2>1. CASE via /\ c.shoves
    <3>1. gone = {} /\ new = {} /\ ~c.collapses
      BY <1>1a, <2>1 DEF gone, new
    <3> QED
      BY <1>1, <1>1a, <1>14, <2>0, <2>1, <3>1 DEF Shows, Ways
  <2>2. CASE via /\ ~c.shoves
    <3>1. gone = Versions(x) /\ new = {New(x, p, Way(p))} /\ ~c.collapses
      BY <1>1a, <1>5, <1>19, <2>2 DEF gone, new
    <3>2. Stub \notin u.tree.view[l] /\ Shows(u.tree, l, x) = {New(x, p, Way(p))}
      BY <1>1, <1>1a, <1>5, <1>14, <2>2, <3>1 DEF Shows
    <3> QED
      BY <1>5, <3>2, WayLegal DEF Shows
  <2>3. CASE ~via
    <3>1. gone = {} /\ new = {New(x, p, "straight")} /\ ~c.collapses /\ c.shoves
      BY <1>5, <1>19, <2>3 DEF gone, new, ok, fails
    <3>2. Stub \notin u.tree.view[l] /\ Shows(u.tree, l, x) = {New(x, p, "straight")}
      BY <1>1, <1>1a, <1>5, <1>14, <2>3, <3>1 DEF Shows, Bare
    <3>3. ~Inert(s, c)
      BY <3>1 DEF Inert
    <3>4. p \in Tight => Push(p) \in u.tree.view[l]
      BY <1>1, <1>14, <2>0, <3>1, <3>3
    <3>5. \E way \in Ways : Shows(u.tree, l, x) = {New(x, p, way)}
      <4>1. "straight" \in Ways
        BY DEF Ways
      <4> QED
        BY <3>2, <4>1
    <3> QED
      BY <3>2, <3>4, <3>5
  <2> QED
    BY <2>1, <2>2, <2>3
<1> QED
  BY <1>12, <1>13, <1>15, <1>16, <1>17, <1>18, <1>19 DEF Tried, u

(* A leaf that goes after another node was branched off its parent.        *)
LEMMA DroppedBranched ==
  ASSUME NEW t, TreeOK(t), NEW l \in t.live \ {Root}, Subtree(t, l) = {l},
         NEW n \in t.live \ {l}, NEW c \in Node \ t.live
  PROVE  Dropped(Branched(t, n, c), l) = Branched(Dropped(t, l), n, c)
<1>1. l \notin t.chain[n] /\ t \in Tree(Fact) /\ l # c /\ n # c /\ t.live \subseteq Node
  BY DEF Subtree, TreeOK, Tree
<1>2. Dropped(t, l) = Without(t, {l})
  BY DEF Dropped
<1> DEFINE b == Branched(t, n, c)
<1>3. /\ b = [live |-> t.live \cup {c},
              chain |-> [t.chain EXCEPT ![c] = t.chain[n] \cup {c}],
              view |-> [t.view EXCEPT ![c] = t.view[n]]]
  BY DEF Branched
<1>4. Subtree(b, l) = {l}
  <2>1. \A m \in t.live : b.chain[m] = t.chain[m]
    BY <1>1, <1>3 DEF Tree
  <2>2. b.chain[c] = t.chain[n] \cup {c} /\ b.live = t.live \cup {c}
    BY <1>1, <1>3 DEF Tree
  <2>3. Subtree(t, l) = {l}
    OBVIOUS
  <2> HIDE DEF b
  <2> QED
    BY <1>1, <2>1, <2>2, <2>3 DEF Subtree
<1>5. Dropped(b, l) = Without(b, {l})
  BY <1>4 DEF Dropped
<1>6. Without(b, {l}).live = Branched(Without(t, {l}), n, c).live
  BY <1>1, <1>3 DEF Without, Branched
<1>7. Without(b, {l}).chain = Branched(Without(t, {l}), n, c).chain
  BY <1>1, <1>3 DEF Without, Branched, Tree
<1>8. Without(b, {l}).view = Branched(Without(t, {l}), n, c).view
  BY <1>1, <1>3 DEF Without, Branched, Tree
<1> QED
  BY <1>2, <1>5, <1>6, <1>7, <1>8 DEF Without, Branched

LEMMA RestoredOK ==
  ASSUME NEW s, Safe(s), NEW x \in Piece, SingleGround(s, x), s.drag.last # NoNode, HasParent(s),
         Spare(s, 1), s.drag.solution \subseteq Versions(x)
  PROVE  LET u == Restored(s)
         IN  /\ Safe(u) /\ SingleGround(u, x) /\ SameDrag(s, u)
             /\ u.drag.forced = s.drag.forced /\ u.drag.at = s.drag.at
             /\ u.drag.status = s.drag.status /\ u.drag.solution = s.drag.solution
             /\ u.drag.lost = s.drag.lost
             /\ u.tree.view[Root] = s.tree.view[Root]
<1> DEFINE l == s.drag.last
           n == Parent(s.tree, l)
           c == NewIn(s)
           v == WithoutLast(s)
           b == LastAs(v, n, c)
           F == s.drag.solution
           u == Restored(s)
<1>1. /\ IsState(s) /\ TreeOK(s.tree) /\ s.drag \in DragType /\ l \in s.tree.live \ {Root}
      /\ Subtree(s.tree, l) = {l} /\ s \in DragState /\ s.drag.pieces = {x}
  BY SafeType DEF Standing, LastAlone, Safe, SingleGround
<1>2. n \in s.tree.live \ {l}
  <2>1. PICK m \in s.tree.live \ {l} : s.tree.chain[l] = s.tree.chain[m] \cup {l}
    BY DEF HasParent
  <2>2. l \notin s.tree.chain[m] /\ m \in s.tree.chain[m]
    BY <1>1 DEF Subtree, TreeOK
  <2>3. m \in s.tree.chain[l] \ {l} /\ s.tree.chain[m] = s.tree.chain[l] \ {l}
    BY <2>1, <2>2
  <2>4. n \in s.tree.chain[l] \ {l}
    BY <2>3 DEF Parent
  <2> QED
    BY <1>1, <2>4 DEF TreeOK
<1>3. c \in Node \ Used(s) /\ c \notin s.tree.live /\ c # NoNode
  BY <1>1, NewInFresh
<1>4. /\ Safe(v) /\ v.drag = [s.drag EXCEPT !.last = NoNode] /\ v.shove = s.shove
      /\ SameDrag(s, v) /\ v.drag.last = NoNode
      /\ v.drag.bed = s.drag.bed /\ v.drag.walk = s.drag.walk
      /\ Pruned(s.tree, v.tree) /\ v.tree.live = s.tree.live \ {l}
      /\ Used(v) \subseteq Used(s)
  BY SafeWithoutLast
<1>5. u = Put(b, c, {}, F)
  <2> DEFINE w == [s EXCEPT !.tree = Dropped(Branched(@, n, c), l), !.drag.last = c]
  <2>1. u = Put([LastOn(s, n) EXCEPT !.tree = Dropped(@, l)], LastOn(s, n).drag.last, {}, F)
    BY DEF Restored
  <2>2. [LastOn(s, n) EXCEPT !.tree = Dropped(@, l)] = w /\ LastOn(s, n).drag.last = c
    <3> HIDE DEF n, c, l
    <3> QED
      BY <1>1 DEF LastOn, DragState, DragType, c
  <2>3. w = [s EXCEPT !.tree = Branched(Dropped(@, l), n, c), !.drag.last = c]
    <3>1. Dropped(Branched(s.tree, n, c), l) = Branched(Dropped(s.tree, l), n, c)
      <4> HIDE DEF n, c, l
      <4> QED
        BY <1>1, <1>2, <1>3, DroppedBranched
    <3> HIDE DEF n, c, l
    <3> QED
      BY <3>1
  <2>4. b = [s EXCEPT !.tree = Branched(Dropped(@, l), n, c), !.drag.last = c]
    <3>1. v = [s EXCEPT !.tree = Dropped(@, l), !.drag.last = NoNode]
      BY DEF WithoutLast
    <3> HIDE DEF n, c, v, l
    <3> QED
      BY <1>1, <3>1, ZenonT(60) DEF LastAs, DragState, DragType
  <2> HIDE DEF w, b, u, n, c, l
  <2> QED
    BY <2>1, <2>2, <2>3, <2>4
<1> HIDE DEF u, n, c, v, l
<1>6. /\ Safe(b) /\ b.drag = [v.drag EXCEPT !.last = c] /\ b.shove = v.shove
      /\ SameDrag(v, b)
      /\ b.drag.last = c /\ c \in b.tree.live \ {Root, NoNode}
      /\ c \notin Held(v)
      /\ Grown(v.tree, b.tree, n, c)
  <2>1. c \in Node \ Used(v) /\ n \in v.tree.live
    BY <1>2, <1>3, <1>4
  <2>2. Safe(v) /\ v.drag.last = NoNode
    BY <1>4
  <2> QED
    BY <2>1, <2>2, SafeLastAs
<1> HIDE DEF b
<1>7. F \in SUBSET Fact /\ About(F, {x}) /\ About({}, {x})
  <2>1. F \subseteq Fact
    BY <1>1 DEF DragType
  <2>2. \A f \in Versions(x) : ~IsLeg(f)
    BY VersionsApart, FactsApart
  <2> HIDE DEF F
  <2>3. F \subseteq Versions(x)
    BY DEF F
  <2> QED
    BY <2>1, <2>2, <2>3, VersionsApart DEF About
<1>8. /\ Safe(u) /\ u.drag = b.drag /\ u.shove = b.shove
      /\ Repainted(b.tree, u.tree, c, {}, F)
  <2>1. b.drag.pieces = {x}
    BY <1>1, <1>4, <1>6 DEF SameDrag
  <2> HIDE DEF F
  <2>2. /\ Safe(b) /\ c \in b.tree.live /\ F \in SUBSET Fact
        /\ About({}, b.drag.pieces) /\ About(F, b.drag.pieces)
    BY <2>1, <1>6, <1>7
  <2>3. LET w == Put(b, c, {}, F)
        IN  /\ Safe(w) /\ w.drag = b.drag /\ w.shove = b.shove
            /\ Repainted(b.tree, w.tree, c, {}, F)
    BY <2>2, SafePut
  <2> QED
    BY <2>3, <1>5
<1>9. /\ u.drag.bed = s.drag.bed /\ u.drag.walk = s.drag.walk
      /\ u.drag.forced = s.drag.forced /\ u.drag.at = s.drag.at
      /\ u.drag.status = s.drag.status /\ u.drag.solution = s.drag.solution
      /\ u.drag.lost = s.drag.lost
  <2>1. v.drag \in DragType
    BY <1>4, SafeType
  <2>2. u.drag = [[s.drag EXCEPT !.last = NoNode] EXCEPT !.last = c]
    BY <1>4, <1>6, <1>8
  <2> QED
    BY <1>1, <2>2 DEF DragType
<1>10. SameDrag(s, u)
  BY <1>4, <1>6, <1>8 DEF SameDrag
<1>11. \A m \in s.tree.live \ {l} : u.tree.view[m] = s.tree.view[m]
  BY <1>4, <1>6, <1>8 DEF Repainted, Grown, Pruned
<1>12. /\ s.drag.bed \in s.tree.live \ {Root} /\ s.drag.bed # l
       /\ l \notin Frames(s) \cup {Root}
       /\ Frames(s) \subseteq s.tree.live \ {Root}
  BY BedLive DEF l
<1>13. SingleGround(u, x)
  <2>1. Frames(u) = Frames(s) /\ u.shove.root = s.shove.root
    BY <1>4, <1>6, <1>8 DEF Frames
  <2>2. u.tree.view[s.drag.bed] = s.tree.view[s.drag.bed]
    BY <1>11, <1>12
  <2>3. \A m \in Frames(u) : m \in Frames(s) /\ u.tree.view[m] = s.tree.view[m]
    BY <1>11, <1>12, <2>1
  <2> QED
    BY <1>9, <1>10, <2>1, <2>2, <2>3, GroundKept
<1>14. u.tree.view[Root] = s.tree.view[Root]
  BY <1>1, <1>11, <1>12 DEF TreeOK
<1> QED
  BY <1>8, <1>9, <1>10, <1>13, <1>14 DEF u

(* How a single drag may come out, and where it gets to.                   *)
SingleOutcome(s, c) ==
    /\ s.drag.mode = "shove" => c.k \in Kept(s)
    /\ c.shoves \in BOOLEAN /\ c.walks \in BOOLEAN /\ c.collapses \in BOOLEAN
    /\ c.collapses => s.drag.kind # "via"
Landed(s, u, x, p) ==
    /\ Safe(u) /\ SingleGround(u, x) /\ SameDrag(s, u)
    /\ Marks(u) \/ u.drag.lost = {}
    /\ u.drag.solution \subseteq Versions(x)
    /\ u.drag.status \/ u.drag.forced => ShowsOnce(u, x)
    /\ SingleLegal(u)
    /\ u.drag.at = IF Worked(u.drag) THEN p ELSE s.drag.at
    /\ u.tree.view[Root] = s.tree.view[Root]

LEMMA AtOK ==
  ASSUME NEW s, Safe(s), NEW x \in Piece, SingleGround(s, x), NEW p \in Place
  PROVE  LET u == [s EXCEPT !.drag.at = p]
         IN  /\ Safe(u) /\ SingleGround(u, x) /\ SameDrag(s, u) /\ u.tree = s.tree
             /\ u.drag.at = p /\ u.drag.last = s.drag.last
             /\ u.drag.status = s.drag.status /\ u.drag.forced = s.drag.forced
             /\ u.drag.solution = s.drag.solution /\ u.drag.lost = s.drag.lost
<1> DEFINE d == [s.drag EXCEPT !.at = p]
           u == [s EXCEPT !.drag.at = p]
<1>1. s.drag \in DragType /\ u = [s EXCEPT !.drag = d]
  BY SafeType
<1>2. /\ d \in DragType /\ d.pieces = s.drag.pieces /\ d.bed = s.drag.bed
      /\ d.last = s.drag.last /\ d.walk = s.drag.walk /\ d.kind = s.drag.kind
      /\ d.free = s.drag.free /\ d.mode = s.drag.mode
      /\ d.at = p /\ d.status = s.drag.status /\ d.forced = s.drag.forced
      /\ d.solution = s.drag.solution /\ d.lost = s.drag.lost
  BY <1>1 DEF DragType
<1> HIDE DEF d, u
<1>3. /\ Safe(u) /\ u.tree = s.tree /\ u.drag = d /\ u.shove = s.shove
  BY <1>1, <1>2, SafeFields
<1>4. SingleGround(u, x)
  BY <1>2, <1>3, GroundKept DEF SameDrag, Frames
<1> QED
  BY <1>2, <1>3, <1>4 DEF SameDrag, u

(* Legal where it stands: the others have not moved.                       *)
LEMMA LegalAt ==
  ASSUME NEW u, Safe(u), NEW x \in Piece, SingleGround(u, x),
         u.drag.status => u.drag.last # NoNode,
         u.drag.status /\ ~AllowDrc /\ u.drag.at \in Tight
           /\ New(x, u.drag.at, "straight") \in u.tree.view[u.drag.last]
             => Push(u.drag.at) \in u.tree.view[u.drag.last]
  PROVE  SingleLegal(u)
<1>1. SUFFICES ASSUME u.drag.status, ~AllowDrc, u.drag.at \in Tight, NEW y \in Piece,
                      New(y, u.drag.at, "straight") \in u.tree.view[u.drag.last]
               PROVE  Push(u.drag.at) \in u.tree.view[u.drag.last]
  BY DEF SingleLegal
<1>2. y = x
  <2> SUFFICES ASSUME y # x PROVE FALSE
    OBVIOUS
  <2>1. u.drag.last \in u.tree.live /\ u.drag.pieces = {x} /\ u.drag.at \in Place
    BY <1>1, SafeType DEF SingleGround, DragType
  <2>2. Shows(u.tree, u.drag.last, y) = {Old(y)}
    BY <2>1 DEF Safe, OthersStay
  <2>3. New(y, u.drag.at, "straight") \in Versions(y)
    BY <2>1, VersionsApart DEF Ways
  <2> QED
    BY <1>1, <2>2, <2>3, FactsApart DEF Shows
<1> QED
  BY <1>1, <1>2

LEMMA MarkLanded ==
  ASSUME NEW s, Safe(s), NEW x \in Piece, SingleGround(s, x), Spare(s, 1),
         s.drag.solution \subseteq Versions(x),
         NEW p \in Place, NEW c, c.collapses \in BOOLEAN
  PROVE  LET u == [MarkDrag(s, p, c) EXCEPT !.drag.at = p]
         IN  /\ Safe(u) /\ SingleGround(u, x) /\ SameDrag(s, u)
             /\ u.drag.solution \subseteq Versions(x)
             /\ u.drag.forced = s.drag.forced /\ u.drag.at = p
             /\ ShowsOnce(u, x) /\ SingleLegal(u)
             /\ u.tree.view[Root] = s.tree.view[Root]
<1> DEFINE m == MarkDrag(s, p, c)
           u == [m EXCEPT !.drag.at = p]
<1>1. /\ Safe(m) /\ SingleGround(m, x) /\ SameDrag(s, m)
      /\ m.drag.forced = s.drag.forced /\ m.drag.at = s.drag.at
      /\ m.drag.solution = s.drag.solution
      /\ m.drag.status <=> AllowDrc \/ p \notin Tight \/ c.collapses
      /\ m.drag.lost = IF c.collapses THEN {x} ELSE {}
      /\ m.drag.last # NoNode /\ Stub \notin m.tree.view[m.drag.last]
      /\ Shows(m.tree, m.drag.last, x) = IF c.collapses THEN {} ELSE {New(x, p, "straight")}
      /\ m.tree.view[Root] = s.tree.view[Root]
  <2>1. Marked(s, m, x, p, c)
    BY MarkDragOK
  <2> HIDE DEF m
  <2> QED
    BY <2>1 DEF Marked
<1> HIDE DEF m
<1>2. /\ Safe(u) /\ SingleGround(u, x) /\ SameDrag(m, u) /\ u.tree = m.tree
      /\ u.drag.at = p /\ u.drag.last = m.drag.last
      /\ u.drag.status = m.drag.status /\ u.drag.forced = m.drag.forced
      /\ u.drag.solution = m.drag.solution /\ u.drag.lost = m.drag.lost
  BY <1>1, AtOK
<1> HIDE DEF u
<1>3. SameDrag(s, u)
  BY <1>1, <1>2 DEF SameDrag
<1>4. ShowsOnce(u, x)
  BY <1>1, <1>2, <1>3 DEF ShowsOnce, Ways, SameDrag
<1>5. SingleLegal(u)
  <2>1. ASSUME u.drag.status, ~AllowDrc, p \in Tight, New(x, p, "straight") \in u.tree.view[u.drag.last]
        PROVE  FALSE
    <3>1. Shows(u.tree, u.drag.last, x) = {}
      BY <1>1, <1>2, <2>1
    <3>2. New(x, p, "straight") \in Versions(x)
      BY VersionsApart DEF Ways
    <3> QED
      BY <2>1, <3>1, <3>2 DEF Shows
  <2>2. u.drag.status /\ ~AllowDrc /\ u.drag.at \in Tight
           /\ New(x, u.drag.at, "straight") \in u.tree.view[u.drag.last]
             => Push(u.drag.at) \in u.tree.view[u.drag.last]
    BY <1>2, <2>1
  <2>3. u.drag.last # NoNode
    BY <1>1, <1>2
  <2> QED
    BY <1>2, <2>2, <2>3, LegalAt
<1> QED
  BY <1>1, <1>2, <1>3, <1>4, <1>5 DEF u, m

LEMMA SingleDragOK ==
  ASSUME NEW s, Safe(s), NEW x \in Piece, SingleGround(s, x), Spare(s, 4),
         Marks(s) \/ s.drag.lost = {},
         s.drag.solution \subseteq Versions(x), s.drag.kind \in Single,
         NEW p \in Place, NEW c, SingleOutcome(s, c)
  PROVE  Landed(s, SingleDrag(s, p, c), x, p)
<1> DEFINE marks == s.drag.free \/ s.drag.forced \/ s.drag.mode = "mark"
           tried == IF s.drag.mode = "shove" THEN ShoveDrag(s, p, c) ELSE WalkDrag(s, p, c)
           again == [tried EXCEPT !.drag.forced = TRUE]
           u == SingleDrag(s, p, c)
<1>0. s.drag \in DragType
  BY SafeType
<1>1. /\ marks => u = [MarkDrag(s, p, c) EXCEPT !.drag.at = p]
      /\ ~marks /\ tried.drag.status => u = [tried EXCEPT !.drag.at = p]
      /\ ~marks /\ ~tried.drag.status /\ s.drag.last = NoNode =>
           u = [MarkDrag(again, p, c) EXCEPT !.drag.at = p]
      /\ ~marks /\ ~tried.drag.status /\ s.drag.last # NoNode => u = Restored(tried)
  <2>1. marks => u = [MarkDrag(s, p, c) EXCEPT !.drag.at = p]
    BY DEF SingleDrag
  <2>2. ~marks => u = IF tried.drag.status THEN [tried EXCEPT !.drag.at = p]
                      ELSE IF s.drag.last = NoNode
                      THEN [MarkDrag(again, p, c) EXCEPT !.drag.at = p]
                      ELSE Restored(tried)
    BY DEF SingleDrag
  <2> HIDE DEF u, tried, again, marks
  <2> QED
    BY <2>1, <2>2
<1>2. Spare(s, 1)
  BY SpareMonotone
<1> HIDE DEF u
<1>3. CASE marks
  <2>1. LET v == [MarkDrag(s, p, c) EXCEPT !.drag.at = p]
        IN  /\ Safe(v) /\ SingleGround(v, x) /\ SameDrag(s, v)
            /\ v.drag.solution \subseteq Versions(x)
            /\ v.drag.forced = s.drag.forced /\ v.drag.at = p
            /\ ShowsOnce(v, x) /\ SingleLegal(v)
            /\ v.tree.view[Root] = s.tree.view[Root]
    BY <1>2, MarkLanded DEF SingleOutcome
  <2>2. /\ Safe(u) /\ SingleGround(u, x) /\ SameDrag(s, u)
        /\ u.drag.solution \subseteq Versions(x)
        /\ u.drag.forced = s.drag.forced /\ u.drag.at = p
        /\ ShowsOnce(u, x) /\ SingleLegal(u)
        /\ u.tree.view[Root] = s.tree.view[Root]
    BY <1>1, <1>3, <2>1
  <2>3. Worked(u.drag) /\ Marks(u)
    BY <1>3, <2>2 DEF Worked, Marks, SameDrag
  <2> QED
    BY <2>2, <2>3 DEF Landed, u
<1>4. CASE ~marks
  <2>1. Tried(s, tried, x, p)
    <3>1. CASE s.drag.mode = "shove"
      <4>1. s.shove.root = s.drag.bed /\ s.shove.root # NoNode
        BY <1>4, <3>1 DEF SingleGround
      <4>2. Tried(s, ShoveDrag(s, p, c), x, p)
        BY <3>1, <4>1, ShoveTried DEF SingleOutcome
      <4> QED
        BY <3>1, <4>2
    <3>2. CASE s.drag.mode # "shove"
      <4>1. Tried(s, WalkDrag(s, p, c), x, p)
        BY WalkTried DEF SingleOutcome
      <4> QED
        BY <3>2, <4>1
    <3> QED
      BY <3>1, <3>2
  <2> HIDE DEF tried
  <2>2. /\ Safe(tried) /\ SingleGround(tried, x) /\ SameDrag(s, tried) /\ HasParent(tried)
        /\ tried.drag.last # NoNode /\ Spare(tried, 2)
        /\ tried.drag.forced = FALSE /\ tried.drag.at = s.drag.at
        /\ tried.drag.solution \subseteq Versions(x) /\ tried.drag.lost = {}
        /\ tried.tree.view[Root] = s.tree.view[Root]
    <3>1. \A q \in Place : Moved(s, q, "straight") \subseteq Versions(x)
      BY VersionsApart DEF Moved, SingleGround, Ways
    <3>2. s.drag.forced = FALSE /\ s.drag.lost = {}
      BY <1>0, <1>4 DEF DragType, Marks
    <3> QED
      BY <2>1, <3>1, <3>2 DEF Tried, Keeps
  <2>3. CASE tried.drag.status
    <3>1. /\ Safe(u) /\ SingleGround(u, x) /\ SameDrag(tried, u) /\ u.tree = tried.tree
          /\ u.drag.at = p /\ u.drag.last = tried.drag.last
          /\ u.drag.status = tried.drag.status /\ u.drag.forced = tried.drag.forced
          /\ u.drag.solution = tried.drag.solution /\ u.drag.lost = tried.drag.lost
      <4>1. LET v == [tried EXCEPT !.drag.at = p]
            IN  /\ Safe(v) /\ SingleGround(v, x) /\ SameDrag(tried, v) /\ v.tree = tried.tree
                /\ v.drag.at = p /\ v.drag.last = tried.drag.last
                /\ v.drag.status = tried.drag.status /\ v.drag.forced = tried.drag.forced
                /\ v.drag.solution = tried.drag.solution /\ v.drag.lost = tried.drag.lost
        BY <2>2, AtOK
      <4> QED
        BY <1>1, <1>4, <2>3, <4>1
    <3>2. /\ Stub \notin u.tree.view[u.drag.last]
          /\ \E way \in Ways : Shows(u.tree, u.drag.last, x) = {New(x, p, way)}
          /\ p \in Tight /\ New(x, p, "straight") \in u.tree.view[u.drag.last]
               => Push(p) \in u.tree.view[u.drag.last]
      BY <2>1, <2>3, <3>1 DEF Tried
    <3>3. SingleLegal(u)
      BY <2>2, <3>1, <3>2, LegalAt
    <3>4. ShowsOnce(u, x)
      BY <2>2, <3>1, <3>2 DEF ShowsOnce
    <3>5. Worked(u.drag)
      BY <2>3, <3>1 DEF Worked
    <3>6. SameDrag(s, u)
      BY <2>2, <3>1 DEF SameDrag
    <3> QED
      BY <2>2, <3>1, <3>3, <3>4, <3>5, <3>6 DEF Landed, u
  <2>4. CASE ~tried.drag.status /\ s.drag.last = NoNode
    <3>1. /\ Safe(again) /\ SingleGround(again, x) /\ SameDrag(tried, again)
          /\ again.drag.forced = TRUE /\ again.tree = tried.tree
          /\ again.drag.solution = tried.drag.solution /\ Spare(again, 1)
      <4> DEFINE d == [tried.drag EXCEPT !.forced = TRUE]
      <4>1. tried.drag \in DragType /\ again = [tried EXCEPT !.drag = d]
        BY <2>2, SafeType
      <4>2. /\ d \in DragType /\ d.pieces = tried.drag.pieces /\ d.bed = tried.drag.bed
            /\ d.last = tried.drag.last /\ d.walk = tried.drag.walk
            /\ d.kind = tried.drag.kind /\ d.free = tried.drag.free /\ d.mode = tried.drag.mode
            /\ d.forced = TRUE /\ d.solution = tried.drag.solution
        BY <4>1 DEF DragType
      <4> HIDE DEF d, again
      <4>3. /\ Safe(again) /\ again.tree = tried.tree /\ again.drag = d
            /\ again.shove = tried.shove /\ Used(again) = Used(tried)
        BY <2>2, <4>1, <4>2, SafeFields
      <4>4. SameDrag(tried, again)
        BY <4>2, <4>3 DEF SameDrag
      <4>5. SingleGround(again, x)
        BY <2>2, <4>2, <4>3, <4>4, GroundKept DEF Frames
      <4>6. Spare(again, 1)
        BY <2>2, <4>3, SpareMonotone
      <4> QED
        BY <4>2, <4>3, <4>4, <4>5, <4>6
    <3> HIDE DEF again
    <3>2. again.drag.solution \subseteq Versions(x) /\ again.drag.kind = s.drag.kind
      BY <2>2, <3>1 DEF SameDrag
    <3>3. LET v == [MarkDrag(again, p, c) EXCEPT !.drag.at = p]
          IN  /\ Safe(v) /\ SingleGround(v, x) /\ SameDrag(again, v)
              /\ v.drag.solution \subseteq Versions(x)
              /\ v.drag.forced = again.drag.forced /\ v.drag.at = p
              /\ ShowsOnce(v, x) /\ SingleLegal(v)
              /\ v.tree.view[Root] = again.tree.view[Root]
      BY <3>1, <3>2, MarkLanded DEF SingleOutcome
    <3>4. /\ Safe(u) /\ SingleGround(u, x) /\ SameDrag(again, u)
          /\ u.drag.solution \subseteq Versions(x)
          /\ u.drag.forced = TRUE /\ u.drag.at = p
          /\ ShowsOnce(u, x) /\ SingleLegal(u)
          /\ u.tree.view[Root] = again.tree.view[Root]
      BY <1>1, <1>4, <2>4, <3>1, <3>3
    <3>5. Worked(u.drag) /\ SameDrag(s, u) /\ Marks(u)
      BY <2>2, <3>1, <3>4 DEF Worked, Marks, SameDrag
    <3> QED
      BY <2>2, <3>1, <3>4, <3>5 DEF Landed, u
  <2>5. CASE ~tried.drag.status /\ s.drag.last # NoNode
    <3>0. Spare(tried, 1)
      BY <2>2, SpareMonotone
    <3>1. LET v == Restored(tried)
          IN  /\ Safe(v) /\ SingleGround(v, x) /\ SameDrag(tried, v)
              /\ v.drag.forced = tried.drag.forced /\ v.drag.at = tried.drag.at
              /\ v.drag.status = tried.drag.status /\ v.drag.solution = tried.drag.solution
              /\ v.drag.lost = tried.drag.lost
              /\ v.tree.view[Root] = tried.tree.view[Root]
      BY <2>2, <3>0, RestoredOK
    <3>2. /\ Safe(u) /\ SingleGround(u, x) /\ SameDrag(tried, u)
          /\ u.drag.forced = FALSE /\ u.drag.at = s.drag.at
          /\ ~u.drag.status /\ u.drag.solution \subseteq Versions(x) /\ u.drag.lost = {}
          /\ u.tree.view[Root] = s.tree.view[Root]
      BY <1>1, <1>4, <2>2, <2>5, <3>1
    <3>3. SameDrag(s, u) /\ ~Worked(u.drag)
      BY <1>4, <2>2, <3>2 DEF SameDrag, Worked
    <3>4. SingleLegal(u)
      BY <3>2 DEF SingleLegal
    <3> QED
      BY <3>2, <3>3, <3>4 DEF Landed, u
  <2> QED
    BY <2>3, <2>4, <2>5
<1> QED
  BY <1>3, <1>4 DEF u
----------------------------------------------------------------------------
(* The drags of several lines and of components.                           *)
LEMMA PartsShown ==
  ASSUME NEW X \in SUBSET Piece, NEW p \in Place, NEW way \in Ways
  PROVE  /\ \A x \in Piece : Versions(x) \cap Olds(X) = IF x \in X THEN {Old(x)} ELSE {}
         /\ \A x \in Piece : Versions(x) \cap Of(X, p, way) = IF x \in X THEN {New(x, p, way)} ELSE {}
         /\ Stub \notin Olds(X) /\ Stub \notin Of(X, p, way)
         /\ \A x \in Piece : Old(x) \in Versions(x) /\ New(x, p, way) \in Versions(x)
         /\ \A x \in Piece : \A q : Versions(x) \cap Pushed(q) = {} /\ Stub \notin Pushed(q)
<1>1. \A x \in Piece : Versions(x) \cap Olds(X) = IF x \in X THEN {Old(x)} ELSE {}
  BY VersionsApart, FactsApart DEF Olds
<1>2. \A x \in Piece : Versions(x) \cap Of(X, p, way) = IF x \in X THEN {New(x, p, way)} ELSE {}
  BY VersionsApart, FactsApart DEF Of
<1>3. Stub \notin Olds(X) /\ Stub \notin Of(X, p, way)
  BY FactsApart DEF Olds, Of
<1>4. \A x \in Piece : Old(x) \in Versions(x) /\ New(x, p, way) \in Versions(x)
  BY VersionsApart
<1>5. \A x \in Piece : \A q : Versions(x) \cap Pushed(q) = {} /\ Stub \notin Pushed(q)
  BY VersionsApart, FactsApart DEF Pushed
<1> QED
  BY <1>1, <1>2, <1>3, <1>4, <1>5

(* The root in front of a session.                                         *)
Waits(s) == s.tree.view[Root] \ Locks = Olds(Piece)

LEMMA RootWhole ==
  ASSUME NEW s, Waits(s)
  PROVE  /\ \A x \in Piece : Versions(x) \cap s.tree.view[Root] = {Old(x)}
         /\ Stub \notin s.tree.view[Root]
<1>1. \A x \in Piece : Versions(x) \cap Locks = {} /\ Stub \notin Locks
  BY VersionsApart, FactsApart DEF Locks
<1>2. \A x \in Piece : Versions(x) \cap Olds(Piece) = {Old(x)} /\ Stub \notin Olds(Piece)
  BY VersionsApart, FactsApart DEF Olds
<1> DEFINE V == s.tree.view[Root]
<1>3. V \ Locks = Olds(Piece)
  BY DEF Waits
<1> HIDE DEF V
<1>4. \A x \in Piece : Versions(x) \cap V = Versions(x) \cap (V \ Locks)
  BY <1>1
<1>5. Stub \in V => Piece = {} \/ Stub \in V \ Locks
  BY <1>1
<1> QED
  BY <1>2, <1>3, <1>4, <1>5, AssumePlaces DEF V

(* Several lines in hand: the nodes of the shove show none of them.        *)
MultiGround(s) ==
    /\ s.drag.kind = "multi" /\ s.drag.pieces = Piece
    /\ s.shove.root # NoNode =>
         \A n \in {s.shove.root} \cup Frames(s), x \in Piece : Bare(s.tree, n, x)
MultiMoved(s, u, ok, lost) ==
    /\ Safe(u) /\ MultiGround(u) /\ Waits(u)
    /\ u.drag.status <=> ok
    /\ u.drag.status => WholeAt(u.tree, Current(u), lost)
    /\ u.drag.at = s.drag.at

LEMMA BareKept ==
  ASSUME NEW s, NEW u, MultiGround(s), u.drag.kind = "multi", u.drag.pieces = Piece,
         u.shove.root = s.shove.root, Frames(u) = Frames(s),
         \A n \in ({s.shove.root} \ {NoNode}) \cup Frames(s) : u.tree.view[n] = s.tree.view[n]
  PROVE  MultiGround(u)
BY DEF MultiGround, Bare, Shows

(* A view with every piece in it once but for those that are lost.         *)
ShowsWhole(view, lost) ==
    /\ Stub \notin view
    /\ \A x \in Piece : IF x \in lost THEN Versions(x) \cap view = {}
                        ELSE \E v \in Versions(x) : Versions(x) \cap view = {v}

(* A branch of the drag's own that is painted whole.                       *)
LEMMA MultiPainted ==
  ASSUME NEW b, Safe(b), MultiGround(b), Waits(b), b.drag.last # NoNode, NEW gone,
         NEW new \in SUBSET Fact, About(gone, Piece), About(new, Piece),
         NEW ok \in BOOLEAN, NEW lost,
         ok => ShowsWhole((b.tree.view[b.drag.last] \ gone) \cup new, lost)
  PROVE  MultiMoved(b, [Put(b, b.drag.last, gone, new) EXCEPT !.drag.status = ok], ok, lost)
<1> DEFINE l == b.drag.last
           d == [b.drag EXCEPT !.status = ok]
           w == Put(b, l, gone, new)
           u == [w EXCEPT !.drag.status = ok]
<1>1. b \in DragState /\ b.drag \in DragType /\ b.drag.pieces = Piece /\ b.drag.kind = "multi"
  BY SafeType DEF MultiGround, Safe
<1>2. u = PaintedAs(b, gone, new, d)
  <2>1. w.drag = b.drag
    BY <1>1 DEF Put, DragState
  <2> HIDE DEF w
  <2>2. u = [w EXCEPT !.drag = d]
    BY <2>1
  <2> QED
    BY <2>2 DEF PaintedAs, w
<1>3. /\ d \in DragType /\ d.pieces = b.drag.pieces /\ d.bed = b.drag.bed
      /\ d.last = l /\ d.walk = b.drag.walk /\ d.kind = b.drag.kind
      /\ d.status = ok /\ d.at = b.drag.at
  BY <1>1 DEF DragType
<1> HIDE DEF d
<1>4. /\ Safe(u) /\ u.drag = d /\ u.shove = b.shove
      /\ Repainted(b.tree, u.tree, l, gone, new)
  <2>1. LET v == PaintedAs(b, gone, new, d)
        IN  /\ Safe(v) /\ v.drag = d /\ v.shove = b.shove
            /\ Repainted(b.tree, v.tree, b.drag.last, gone, new)
    BY <1>1, <1>3, LastPainted
  <2> HIDE DEF u
  <2> QED
    BY <1>2, <2>1
<1> HIDE DEF u, w
<1>5. /\ l \in b.tree.live /\ l # Root
      /\ l \notin {b.shove.root} \cup Frames(b)
      /\ {b.shove.root} \ {NoNode} \subseteq b.tree.live /\ Frames(b) \subseteq b.tree.live
      /\ Root \in b.tree.live
  BY SafeType DEF Standing, LastAlone
<1>6. MultiGround(u)
  <2>1. Frames(u) = Frames(b)
    BY <1>4 DEF Frames
  <2>2. \A n \in ({b.shove.root} \ {NoNode}) \cup Frames(b) : u.tree.view[n] = b.tree.view[n]
    BY <1>4, <1>5 DEF Repainted
  <2> QED
    BY <1>1, <1>3, <1>4, <2>1, <2>2, BareKept
<1>7. Waits(u)
  BY <1>4, <1>5 DEF Waits, Repainted
<1>8. u.drag.status => WholeAt(u.tree, Current(u), lost)
  <2>1. Current(u) = l
    BY <1>3, <1>4 DEF Current
  <2>2. u.tree.view[l] = (b.tree.view[l] \ gone) \cup new
    BY <1>4 DEF Repainted
  <2> QED
    BY <1>3, <1>4, <2>1, <2>2 DEF WholeAt, Shows, ShowsWhole
<1> QED
  BY <1>3, <1>4, <1>6, <1>7, <1>8 DEF MultiMoved, u, w

LEMMA MultiMarkOK ==
  ASSUME NEW s, Safe(s), MultiGround(s), Waits(s), Spare(s, 4),
         NEW p \in Place, NEW c, c.done \in SUBSET Piece, c.lost \in SUBSET c.done
  PROVE  MultiMoved(s, MultiMark(s, p, c), TRUE, c.lost)
<1> DEFINE l == NewIn(WithoutLast(s))
           b == LastOn(WithoutLast(s), Root)
           gone == Olds(c.done)
           left == c.done \ c.lost
           new == Of(left, p, "straight")
           u == MultiMark(s, p, c)
<1>1. Spare(s, 1) /\ Root # s.drag.last /\ Root \in s.tree.live /\ s.drag \in DragType
  BY SpareMonotone, SafeType, NodeType
<1>2. /\ Safe(b) /\ b.drag = [s.drag EXCEPT !.last = l] /\ b.shove = s.shove
      /\ SameDrag(s, b)
      /\ b.drag.last = l /\ l \in b.tree.live \ {Root, NoNode}
      /\ b.tree.view[l] = s.tree.view[Root]
      /\ \A m \in s.tree.live \ {s.drag.last} :
           m \in b.tree.live \ {l} /\ b.tree.view[m] = s.tree.view[m]
  BY <1>1, FreshLast
<1>3. u = [Put(b, b.drag.last, gone, new) EXCEPT !.drag.status = TRUE]
  BY DEF MultiMark
<1> HIDE DEF b, l, u
<1>4. b.drag.at = s.drag.at
  BY <1>1, <1>2 DEF DragType
<1>5. MultiGround(b)
  <2>1. /\ Frames(s) \subseteq s.tree.live \ {s.drag.last}
        /\ {s.shove.root} \ {NoNode} \subseteq s.tree.live \ {s.drag.last}
    BY SafeType, NodeType DEF Standing, LastAlone
  <2>2. Frames(b) = Frames(s) /\ b.shove.root = s.shove.root
    BY <1>2 DEF Frames
  <2>3. b.drag.kind = "multi" /\ b.drag.pieces = Piece
    BY <1>2 DEF SameDrag, MultiGround
  <2> QED
    BY <1>2, <2>1, <2>2, <2>3, BareKept
<1>6. Waits(b)
  BY <1>1, <1>2 DEF Waits
<1>7. new \in SUBSET Fact /\ About(gone, Piece) /\ About(new, Piece)
  <2>1. About(gone, c.done) /\ About(new, left) /\ new \subseteq Fact
    <3>1. left \in SUBSET Piece /\ "straight" \in Ways
      BY DEF Ways
    <3> HIDE DEF left
    <3> QED
      BY <3>1, FactsAbout
  <2> HIDE DEF gone, new
  <2> QED
    BY <2>1 DEF About
<1>8. ShowsWhole((b.tree.view[b.drag.last] \ gone) \cup new, c.lost)
  <2> DEFINE w == (s.tree.view[Root] \ gone) \cup new
  <2>1. /\ \A x \in Piece : Versions(x) \cap gone = IF x \in c.done THEN {Old(x)} ELSE {}
        /\ \A x \in Piece : Versions(x) \cap new = IF x \in left THEN {New(x, p, "straight")} ELSE {}
        /\ Stub \notin new
        /\ \A x \in Piece : Old(x) \in Versions(x) /\ New(x, p, "straight") \in Versions(x)
    <3>1. left \in SUBSET Piece /\ "straight" \in Ways
      BY DEF Ways
    <3> HIDE DEF left
    <3>2. \A x \in Piece : Versions(x) \cap gone = IF x \in c.done THEN {Old(x)} ELSE {}
      BY <3>1, PartsShown
    <3>3. \A x \in Piece : Versions(x) \cap new = IF x \in left THEN {New(x, p, "straight")} ELSE {}
      BY <3>1, PartsShown
    <3>4. Stub \notin new
      BY <3>1, PartsShown
    <3>5. \A x \in Piece : Old(x) \in Versions(x) /\ New(x, p, "straight") \in Versions(x)
      BY <3>1, PartsShown
    <3> QED
      BY <3>2, <3>3, <3>4, <3>5
  <2>2. /\ \A x \in Piece : Versions(x) \cap s.tree.view[Root] = {Old(x)}
        /\ Stub \notin s.tree.view[Root]
    BY RootWhole
  <2> HIDE DEF gone, new
  <2>3. ASSUME NEW x \in Piece
        PROVE  Versions(x) \cap w = IF x \in c.lost THEN {}
                                    ELSE IF x \in c.done THEN {New(x, p, "straight")} ELSE {Old(x)}
    BY <2>1, <2>2
  <2>4. Stub \notin w
    BY <2>1, <2>2
  <2> HIDE DEF w
  <2>5. \A x \in Piece : IF x \in c.lost THEN Versions(x) \cap w = {}
                         ELSE \E v \in Versions(x) : Versions(x) \cap w = {v}
    BY <2>1, <2>3
  <2> QED
    BY <1>2, <2>4, <2>5 DEF w, ShowsWhole
<1> HIDE DEF gone, new
<1>9. MultiMoved(b, u, TRUE, c.lost)
  BY <1>2, <1>3, <1>5, <1>6, <1>7, <1>8, MultiPainted
<1> QED
  BY <1>4, <1>9 DEF MultiMoved, u

WithoutWalk(s) == [s EXCEPT !.tree = Dropped(@, s.drag.walk), !.drag.walk = NoNode, !.drag.last = NoNode]
WalkOn(s, w) == [s EXCEPT !.tree = Branched(@, Root, w), !.drag.walk = w]

LEMMA SafeWithoutWalk ==
  ASSUME NEW s, Safe(s), s.drag.walk # NoNode
  PROVE  LET v == WithoutWalk(s)
         IN  /\ Safe(v) /\ v.drag = [s.drag EXCEPT !.walk = NoNode, !.last = NoNode]
             /\ v.shove = s.shove
             /\ Pruned(s.tree, v.tree) /\ v.tree.live \subseteq s.tree.live
             /\ Used(v) \subseteq Used(s)
<1> DEFINE v == WithoutWalk(s)
           k == s.drag.walk
           d == [s.drag EXCEPT !.walk = NoNode, !.last = NoNode]
           t == Dropped(s.tree, k)
<1>1. /\ IsState(s) /\ Standing(s) /\ TreeOK(s.tree) /\ s.drag \in DragType /\ s \in DragState
      /\ k \in s.tree.live \ {Root}
  BY SafeType DEF Safe
<1>2. TreeOK(t) /\ Pruned(s.tree, t) /\ t.live = s.tree.live \ Subtree(s.tree, k)
  BY <1>1, DroppedOK
<1>3. /\ d \in DragType /\ d.last = NoNode /\ d.walk = NoNode /\ d.bed = s.drag.bed
      /\ d.pieces = s.drag.pieces
  BY <1>1 DEF DragType, NodeOrNone
<1>4. v = [[s EXCEPT !.tree = t] EXCEPT !.drag = d]
  BY <1>1 DEF WithoutWalk, DragState, DragType
<1> HIDE DEF v, t, d
<1>5. v.tree = t /\ v.drag = d /\ v.shove = s.shove /\ v \in DragState /\ IsState(v)
  BY <1>1, <1>2, <1>3, <1>4 DEF DragState, IsState, TreeOK
<1>6. /\ Subtree(s.tree, k) \subseteq {k, s.drag.last}
      /\ k \notin {s.drag.bed, s.shove.root} \cup Frames(s)
      /\ s.drag.last # NoNode => s.drag.last \notin {s.drag.bed, s.shove.root} \cup Frames(s)
  BY <1>1 DEF Standing, WalkAlone, LastAlone
<1>7. s.shove.current \in {s.shove.root} \cup Frames(s)
  <2>1. CASE s.shove.root # NoNode
    BY <2>1, ShoveStands
  <2>2. CASE s.shove.root = NoNode
    BY <1>1, <2>2 DEF Standing, HandlesHold
  <2> QED
    BY <2>1, <2>2
<1>8. Held(v) = {s.drag.bed, NoNode, s.shove.root, s.shove.current} \cup Frames(s)
  BY <1>3, <1>5 DEF Held, Frames
<1>9. Held(v) \ {NoNode} \subseteq t.live \ {Root} /\ Held(v) \ {NoNode} \subseteq Held(s) \ {NoNode}
  <2>1. Held(v) \ {NoNode} \subseteq Held(s) \ {NoNode}
    BY <1>8 DEF Held, Frames
  <2>2. Held(v) \ {NoNode} \subseteq s.tree.live \ {Root}
    BY <2>1, SafeType
  <2>3. Frames(s) \subseteq s.tree.live /\ NoNode \notin s.tree.live
    BY SafeType, NodeType
  <2> QED
    BY <2>1, <2>2, <2>3, <1>2, <1>6, <1>7, <1>8
<1>10. HandlesHold(v)
  BY <1>1, <1>5, <1>9 DEF Standing, HandlesHold
<1>11. LastAlone(v) /\ WalkAlone(v)
  BY <1>3, <1>5 DEF LastAlone, WalkAlone
<1>12. FramesOrdered(v)
  <2>1. \A n \in {s.drag.bed, s.shove.root} \ {NoNode} : n \in t.live
    BY <1>8, <1>9
  <2>2. \A i \in DOMAIN s.shove.stack : s.shove.stack[i] \in t.live
    <3>1. \A i \in DOMAIN s.shove.stack : s.shove.stack[i] \in Frames(s) /\ s.shove.stack[i] # NoNode
      BY <1>1, StateType, NodeType
    <3> QED
      BY <3>1, <1>8, <1>9
  <2>3. \A n \in t.live : t.chain[n] = s.tree.chain[n]
    BY <1>2 DEF Pruned
  <2>4. \A j \in DOMAIN s.shove.stack : \A i \in 1..(j - 1) : i \in DOMAIN s.shove.stack
    BY <1>1, StateType
  <2> QED
    BY <1>1, <1>3, <1>5, <2>1, <2>2, <2>3, <2>4 DEF Standing, FramesOrdered
<1>13. OthersStay(t, s.drag.pieces) /\ NoLegs(t)
  BY <1>2, CalmPruned DEF Safe
<1>14. Safe(v)
  BY <1>2, <1>3, <1>5, <1>10, <1>11, <1>12, <1>13 DEF Safe, Standing
<1>15. Used(v) \subseteq Used(s)
  BY <1>2, <1>5, <1>9 DEF Used
<1> QED
  BY <1>2, <1>5, <1>14, <1>15 DEF v, d

LEMMA SafeWalkOn ==
  ASSUME NEW v, Safe(v), v.drag.last = NoNode, v.drag.walk = NoNode, Spare(v, 1)
  PROVE  LET w == NewIn(v)
             u == WalkOn(v, w)
         IN  /\ Safe(u) /\ u.drag = [v.drag EXCEPT !.walk = w] /\ u.shove = v.shove
             /\ w \in u.tree.live \ {Root, NoNode} /\ w \notin Held(v)
             /\ Grown(v.tree, u.tree, Root, w)
             /\ Used(u) \subseteq Used(v) \cup {w}
<1> DEFINE w == NewIn(v)
           u == WalkOn(v, w)
           d == [v.drag EXCEPT !.walk = w]
           t == Branched(v.tree, Root, w)
<1>1. /\ IsState(v) /\ Standing(v) /\ TreeOK(v.tree) /\ v.drag \in DragType /\ v \in DragState
      /\ Root \in v.tree.live
  BY SafeType DEF Safe
<1>2. w \in Node \ {Root, NoNode} /\ w \notin Held(v) /\ w \notin v.tree.live
  BY <1>1, NewInFresh, NodeType DEF Used
<1> HIDE DEF w
<1>3. TreeOK(t) /\ Grown(v.tree, t, Root, w)
  BY <1>1, <1>2, BranchedOK DEF Grown
<1>4. /\ d \in DragType /\ d.last = NoNode /\ d.walk = w /\ d.bed = v.drag.bed
      /\ d.pieces = v.drag.pieces
  BY <1>1, <1>2 DEF DragType, NodeOrNone
<1>5. u = [[v EXCEPT !.tree = t] EXCEPT !.drag = d]
  BY <1>1 DEF WalkOn, DragState, DragType
<1> HIDE DEF u, t, d
<1>6. u.tree = t /\ u.drag = d /\ u.shove = v.shove /\ u \in DragState /\ IsState(u)
  BY <1>1, <1>3, <1>4, <1>5 DEF DragState, IsState, TreeOK
<1>7. Held(u) = Held(v) \cup {w}
  BY <1>4, <1>6 DEF Held
<1>8. HandlesHold(u)
  BY <1>1, <1>2, <1>3, <1>6, <1>7 DEF Standing, HandlesHold, Grown
<1>9. LastAlone(u)
  BY <1>4, <1>6 DEF LastAlone
<1>10. \A m \in v.tree.live : w \notin v.tree.chain[m]
  BY <1>1, <1>2 DEF TreeOK
<1>11. WalkAlone(u)
  <2>1. Subtree(t, w) \subseteq {w}
    BY <1>3, <1>10 DEF Grown, Subtree
  <2>2. w \notin {v.drag.bed, v.shove.root} \cup Frames(v)
    BY <1>2 DEF Held, Frames
  <2> QED
    BY <1>4, <1>6, <2>1, <2>2 DEF WalkAlone, Frames
<1>12. FramesOrdered(u)
  <2>1. \A n \in {v.drag.bed, v.shove.root} \ {NoNode} : n \in v.tree.live
    BY SafeType
  <2>2. \A i \in DOMAIN v.shove.stack : /\ v.shove.stack[i] \in v.tree.live
                                        /\ v.shove.stack[i] # Root /\ v.shove.stack[i] # w
    <3>1. \A i \in DOMAIN v.shove.stack : v.shove.stack[i] \in Frames(v)
      BY <1>1, StateType
    <3>2. Frames(v) \subseteq Held(v) \ {NoNode} /\ Held(v) \ {NoNode} \subseteq v.tree.live \ {Root}
      BY SafeType
    <3> QED
      BY <3>1, <3>2, <1>2
  <2>3. t.chain[w] = {Root, w} /\ \A n \in v.tree.live : t.chain[n] = v.tree.chain[n]
    BY <1>1, <1>3 DEF Grown, TreeOK
  <2>4. \A j \in DOMAIN v.shove.stack : \A i \in 1..(j - 1) : i \in DOMAIN v.shove.stack
    BY <1>1, StateType
  <2> QED
    BY <1>1, <1>4, <1>6, <2>1, <2>2, <2>3, <2>4 DEF Standing, FramesOrdered
<1>13. OthersStay(t, v.drag.pieces) /\ NoLegs(t)
  <2>1. OthersStay(v.tree, v.drag.pieces) /\ NoLegs(v.tree)
    BY DEF Safe
  <2> DEFINE o == v.tree
             X == v.drag.pieces
  <2>2. Grown(o, t, Root, w) /\ Root \in o.live
    BY <1>1, <1>3
  <2> HIDE DEF o, X
  <2>3. (OthersStay(o, X) => OthersStay(t, X)) /\ (NoLegs(o) => NoLegs(t))
    BY <2>2, CalmGrown
  <2> QED
    BY <2>1, <2>3 DEF o, X
<1>14. Safe(u)
  BY <1>3, <1>4, <1>6, <1>8, <1>9, <1>11, <1>12, <1>13 DEF Safe, Standing
<1>15. Used(u) \subseteq Used(v) \cup {w}
  BY <1>3, <1>6, <1>7 DEF Used, Grown
<1>16. w \in u.tree.live
  BY <1>3, <1>6 DEF Grown
<1> QED
  BY <1>2, <1>3, <1>6, <1>14, <1>15, <1>16 DEF u, w, d

(* MultiDragger::multidrag_walkaround up to its own branch: the lines are  *)
(* out of the walk's.                                                      *)
WalkFresh(s) == IF s.drag.walk = NoNode THEN WithoutLast(s) ELSE WithoutWalk(s)
WalkBare(s, c) == LET fresh == WalkFresh(s)
                      walk == NewIn(fresh)
                  IN  Put(WalkOn(fresh, walk), walk, Olds(c.done), {})

LEMMA WalkBareOK ==
  ASSUME NEW s, Safe(s), MultiGround(s), Waits(s), Spare(s, 4), NEW c, c.done \in SUBSET Piece
  PROVE  LET u == WalkBare(s, c)
         IN  /\ Safe(u) /\ MultiGround(u) /\ Waits(u) /\ Spare(u, 1)
             /\ u.drag.last = NoNode /\ u.drag.at = s.drag.at
             /\ u.drag.walk = NewIn(WalkFresh(s)) /\ u.drag.walk \in u.tree.live
             /\ u.tree.view[u.drag.walk] = s.tree.view[Root] \ Olds(c.done)
<1> DEFINE v == WalkFresh(s)
           w == NewIn(v)
           b == WalkOn(v, w)
           u == Put(b, w, Olds(c.done), {})
<1>1. /\ s.drag \in DragType /\ Root \in s.tree.live /\ s.drag.last # Root
      /\ s.drag.kind = "multi" /\ s.drag.pieces = Piece
  BY SafeType, NodeType DEF MultiGround
<1>2. /\ Safe(v) /\ v.shove = s.shove /\ Pruned(s.tree, v.tree) /\ Used(v) \subseteq Used(s)
      /\ v.drag.last = NoNode /\ v.drag.walk = NoNode /\ v.drag.at = s.drag.at
      /\ v.drag.kind = "multi" /\ v.drag.pieces = Piece
  <2>1. CASE s.drag.walk = NoNode
    <3>1. LET z == WithoutLast(s)
          IN  /\ Safe(z) /\ z.drag = [s.drag EXCEPT !.last = NoNode] /\ z.shove = s.shove
              /\ Pruned(s.tree, z.tree) /\ Used(z) \subseteq Used(s)
      BY SafeWithoutLast
    <3>2. v = WithoutLast(s)
      BY <2>1 DEF WalkFresh
    <3> HIDE DEF v
    <3>3. v.drag = [s.drag EXCEPT !.last = NoNode]
      BY <3>1, <3>2
    <3> QED
      BY <1>1, <2>1, <3>1, <3>2, <3>3 DEF DragType
  <2>2. CASE s.drag.walk # NoNode
    <3>1. LET z == WithoutWalk(s)
          IN  /\ Safe(z) /\ z.drag = [s.drag EXCEPT !.walk = NoNode, !.last = NoNode]
              /\ z.shove = s.shove /\ Pruned(s.tree, z.tree) /\ Used(z) \subseteq Used(s)
      BY <2>2, SafeWithoutWalk
    <3>2. v = WithoutWalk(s)
      BY <2>2 DEF WalkFresh
    <3> HIDE DEF v
    <3>3. v.drag = [s.drag EXCEPT !.walk = NoNode, !.last = NoNode]
      BY <3>1, <3>2
    <3> QED
      BY <1>1, <2>2, <3>1, <3>2, <3>3 DEF DragType
  <2> QED
    BY <2>1, <2>2
<1>3. Spare(v, 4) /\ Spare(v, 1)
  BY <1>2, SpareMonotone
<1> HIDE DEF v
<1>4. /\ Safe(b) /\ b.drag = [v.drag EXCEPT !.walk = w] /\ b.shove = v.shove
      /\ w \in b.tree.live \ {Root, NoNode} /\ w \notin Held(v)
      /\ Grown(v.tree, b.tree, Root, w)
      /\ Used(b) \subseteq Used(v) \cup {w}
  BY <1>2, <1>3, SafeWalkOn
<1> HIDE DEF b, w
<1>5. /\ b.drag.last = NoNode /\ b.drag.walk = w /\ b.drag.at = s.drag.at
      /\ b.drag.kind = "multi" /\ b.drag.pieces = Piece
  <2>1. v.drag \in DragType
    BY <1>2, SafeType
  <2> QED
    BY <2>1, <1>2, <1>4 DEF DragType
<1>6. About(Olds(c.done), Piece) /\ About({}, Piece)
  BY FactsAbout DEF About
<1>7. /\ Safe(u) /\ u.drag = b.drag /\ u.shove = b.shove
      /\ Repainted(b.tree, u.tree, w, Olds(c.done), {})
      /\ Used(u) = Used(b)
  <2>1. /\ w \in b.tree.live /\ {} \in SUBSET Fact
        /\ About(Olds(c.done), b.drag.pieces) /\ About({}, b.drag.pieces)
    BY <1>4, <1>5, <1>6
  <2> QED
    BY <2>1, <1>4, SafePut, ZenonT(60)
<1> HIDE DEF u
<1>8. Root \in v.tree.live /\ v.tree.view[Root] = s.tree.view[Root]
  BY <1>2, SafeType DEF Pruned
<1>9. /\ u.tree.view[w] = s.tree.view[Root] \ Olds(c.done)
      /\ \A m \in v.tree.live : u.tree.view[m] = s.tree.view[m]
  BY <1>2, <1>4, <1>7, <1>8 DEF Repainted, Grown, Pruned
<1>10. Waits(u)
  BY <1>8, <1>9 DEF Waits
<1>11. MultiGround(u)
  <2>1. Frames(u) = Frames(s) /\ u.shove = s.shove /\ Frames(s) = Frames(v)
    BY <1>2, <1>4, <1>7 DEF Frames
  <2>2. \A n \in ({s.shove.root} \ {NoNode}) \cup Frames(s) : n \in v.tree.live
    BY <1>2, <2>1, SafeType
  <2> QED
    BY <1>5, <1>7, <1>9, <2>1, <2>2, BareKept
<1>12. Spare(u, 1)
  <2>1. Used(u) \subseteq Used(v) \cup {w} /\ 4 = 3 + 1
    BY <1>4, <1>7
  <2>2. Spare(u, 3)
    BY <2>1, <1>3, SpareAfter
  <2> QED
    BY <2>2, SpareMonotone
<1>13. w \in u.tree.live
  BY <1>4, <1>7 DEF Repainted
<1>14. WalkBare(s, c) = u /\ NewIn(WalkFresh(s)) = w
  BY DEF WalkBare, u, b, w, v
<1> QED
  BY <1>5, <1>7, <1>9, <1>10, <1>11, <1>12, <1>13, <1>14

(* The branch on the walk's one, and on the one the shove stands on.       *)
LEMMA MultiLastOn ==
  ASSUME NEW v, Safe(v), MultiGround(v), Waits(v), v.drag.last = NoNode, Spare(v, 1),
         NEW n \in v.tree.live
  PROVE  LET b == LastOn(v, n)
         IN  /\ Safe(b) /\ MultiGround(b) /\ Waits(b) /\ b.drag.at = v.drag.at
             /\ b.drag.last # NoNode /\ b.tree.view[b.drag.last] = v.tree.view[n]
<1> DEFINE b == LastOn(v, n)
           l == NewIn(v)
<1>1. /\ Safe(b) /\ b.drag = [v.drag EXCEPT !.last = l] /\ b.shove = v.shove
      /\ SameDrag(v, b)
      /\ b.drag.last = l /\ l \in b.tree.live \ {Root, NoNode}
      /\ l \notin Held(v)
      /\ Grown(v.tree, b.tree, n, l)
  BY SafeLastOn
<1> HIDE DEF b, l
<1>2. /\ Root \in v.tree.live /\ v.drag \in DragType
      /\ \A m \in ({v.shove.root} \ {NoNode}) \cup Frames(v) : m \in v.tree.live
  BY SafeType
<1>3. Waits(b)
  BY <1>1, <1>2 DEF Waits, Grown
<1>4. MultiGround(b)
  <2>1. Frames(b) = Frames(v) /\ b.drag.kind = "multi" /\ b.drag.pieces = Piece
    BY <1>1 DEF Frames, SameDrag, MultiGround
  <2>2. \A m \in ({v.shove.root} \ {NoNode}) \cup Frames(v) : b.tree.view[m] = v.tree.view[m]
    BY <1>1, <1>2 DEF Grown
  <2> QED
    BY <1>1, <2>1, <2>2, BareKept
<1>5. b.drag.at = v.drag.at
  BY <1>1, <1>2 DEF DragType
<1> QED
  BY <1>1, <1>3, <1>4, <1>5 DEF b, Grown

(* A drag that fails leaves what it has.                                   *)
LEMMA MultiFailed ==
  ASSUME NEW v, Safe(v), MultiGround(v), Waits(v)
  PROVE  MultiMoved(v, [v EXCEPT !.drag.status = FALSE], FALSE, {})
<1> DEFINE d == [v.drag EXCEPT !.status = FALSE]
           u == [v EXCEPT !.drag.status = FALSE]
<1>1. v.drag \in DragType /\ u = [v EXCEPT !.drag = d]
  BY SafeType
<1>2. /\ d \in DragType /\ d.pieces = v.drag.pieces /\ d.bed = v.drag.bed
      /\ d.last = v.drag.last /\ d.walk = v.drag.walk /\ d.kind = v.drag.kind
      /\ d.status = FALSE /\ d.at = v.drag.at
  BY <1>1 DEF DragType
<1> HIDE DEF d, u
<1>3. Safe(u) /\ u.tree = v.tree /\ u.drag = d /\ u.shove = v.shove
  BY <1>1, <1>2, SafeFields
<1>4. MultiGround(u)
  BY <1>2, <1>3 DEF MultiGround, Bare, Shows, Frames
<1> QED
  BY <1>2, <1>3, <1>4 DEF MultiMoved, Waits, u

LEMMA MultiWalkOK ==
  ASSUME NEW s, Safe(s), MultiGround(s), Waits(s), Spare(s, 4),
         NEW p \in Place, NEW c, c.done \in SUBSET Piece, c.walks \in BOOLEAN
  PROVE  MultiMoved(s, MultiWalk(s, p, c), p \notin Tight \/ c.walks, {})
<1> DEFINE v == WalkBare(s, c)
           w == NewIn(WalkFresh(s))
           b == LastOn(v, w)
           new == Of(c.done, p, Way(p))
           u == MultiWalk(s, p, c)
<1>1. /\ Safe(v) /\ MultiGround(v) /\ Waits(v) /\ Spare(v, 1)
      /\ v.drag.last = NoNode /\ v.drag.at = s.drag.at
      /\ v.drag.walk = w /\ w \in v.tree.live
      /\ v.tree.view[w] = s.tree.view[Root] \ Olds(c.done)
  BY WalkBareOK, ZenonT(60)
<1>2. u = IF p \in Tight /\ ~c.walks THEN [v EXCEPT !.drag.status = FALSE]
          ELSE [Put(b, b.drag.last, {}, new) EXCEPT !.drag.status = TRUE]
  BY DEF MultiWalk, WalkBare, WalkFresh, WithoutWalk, WalkOn
<1> HIDE DEF v, w, u
<1>3. CASE p \in Tight /\ ~c.walks
  <2>1. MultiMoved(v, [v EXCEPT !.drag.status = FALSE], FALSE, {})
    BY <1>1, MultiFailed
  <2> QED
    BY <1>1, <1>2, <1>3, <2>1 DEF MultiMoved, u
<1>4. CASE ~(p \in Tight /\ ~c.walks)
  <2>1. /\ Safe(b) /\ MultiGround(b) /\ Waits(b) /\ b.drag.at = v.drag.at
        /\ b.drag.last # NoNode /\ b.tree.view[b.drag.last] = v.tree.view[w]
    BY <1>1, MultiLastOn
  <2> HIDE DEF b
  <2>2. Way(p) \in Ways
    BY DEF Way, Ways
  <2>3. new \in SUBSET Fact /\ About({}, Piece) /\ About(new, Piece)
    <3>1. About(new, c.done) /\ new \subseteq Fact /\ About({}, Piece)
      BY <2>2, FactsAbout
    <3> HIDE DEF new
    <3> QED
      BY <3>1 DEF About
  <2>4. ShowsWhole((b.tree.view[b.drag.last] \ {}) \cup new, {})
    <3> DEFINE R == s.tree.view[Root]
               gone == Olds(c.done)
               z == (R \ gone) \cup new
    <3>1. /\ \A x \in Piece : Versions(x) \cap gone = IF x \in c.done THEN {Old(x)} ELSE {}
          /\ \A x \in Piece : Versions(x) \cap new = IF x \in c.done THEN {New(x, p, Way(p))} ELSE {}
          /\ Stub \notin new
          /\ \A x \in Piece : Old(x) \in Versions(x) /\ New(x, p, Way(p)) \in Versions(x)
      BY <2>2, PartsShown
    <3>2. /\ \A x \in Piece : Versions(x) \cap R = {Old(x)}
          /\ Stub \notin R
      BY RootWhole
    <3>a. (b.tree.view[b.drag.last] \ {}) \cup new = z
      BY <1>1, <2>1
    <3> HIDE DEF gone, new, R
    <3>3. ASSUME NEW x \in Piece
          PROVE  Versions(x) \cap z = IF x \in c.done THEN {New(x, p, Way(p))} ELSE {Old(x)}
      BY <3>1, <3>2
    <3>4. Stub \notin z
      BY <3>1, <3>2
    <3> HIDE DEF z
    <3>5. \A x \in Piece : \E f \in Versions(x) : Versions(x) \cap z = {f}
      BY <3>1, <3>3
    <3> QED
      BY <3>a, <3>4, <3>5 DEF ShowsWhole
  <2> HIDE DEF new
  <2>5. u = [Put(b, b.drag.last, {}, new) EXCEPT !.drag.status = TRUE]
    BY <1>2, <1>4
  <2>6. MultiMoved(b, u, TRUE, {})
    BY <2>1, <2>3, <2>4, <2>5, MultiPainted
  <2> QED
    BY <1>1, <1>4, <2>1, <2>6 DEF MultiMoved, u
<1> QED
  BY <1>3, <1>4

(* MultiDragger::multidrag_shove up to its own branch.                     *)
LEMMA MultiRanOK ==
  ASSUME NEW s, Safe(s), MultiGround(s), Waits(s), Spare(s, 4), s.shove.root # NoNode,
         NEW p \in Place, NEW c, c.k \in Kept(s), c.shoves \in BOOLEAN
  PROVE  LET u == Ran(WithoutLast(s), p, c)
         IN  /\ Safe(u) /\ MultiGround(u) /\ Waits(u) /\ Spare(u, 1)
             /\ u.drag.last = NoNode /\ u.drag.at = s.drag.at
             /\ u.shove.current \in u.tree.live
             /\ \A x \in Piece : Bare(u.tree, u.shove.current, x)
<1> DEFINE v == WithoutLast(s)
           f == NewIn(Reduced(v, c.k))
           n == Reduced(v, c.k).shove.current
           u == Ran(v, p, c)
<1>1. /\ Safe(v) /\ v.drag = [s.drag EXCEPT !.last = NoNode] /\ v.shove = s.shove
      /\ SameDrag(s, v) /\ v.drag.last = NoNode
      /\ v.drag.bed = s.drag.bed /\ v.drag.walk = s.drag.walk
      /\ Pruned(s.tree, v.tree) /\ v.tree.live = s.tree.live \ {s.drag.last}
      /\ Used(v) \subseteq Used(s)
  BY SafeWithoutLast
<1> HIDE DEF v
<1>2. /\ Spare(v, 4) /\ Spare(v, 1) /\ c.k \in Kept(v) /\ v.shove.root # NoNode
      /\ v.drag.kind = "multi" /\ v.drag.pieces = Piece /\ v.drag.at = s.drag.at
      /\ s.drag \in DragType
  <2>1. Spare(v, 4) /\ Spare(v, 1)
    BY <1>1, SpareMonotone
  <2>2. c.k \in Kept(v)
    BY <1>1 DEF Kept
  <2>3. s.drag \in DragType
    BY SafeType
  <2>4. v.drag.at = s.drag.at
    BY <1>1, <2>3 DEF DragType
  <2> QED
    BY <1>1, <2>1, <2>2, <2>3, <2>4 DEF SameDrag, MultiGround
<1>3. MultiGround(v) /\ Waits(v)
  <2>1. \A m \in ({s.shove.root} \ {NoNode}) \cup Frames(s) \cup {Root} : m \in v.tree.live
    <3>1. \A m \in ({v.shove.root} \ {NoNode}) \cup Frames(v) \cup {Root} : m \in v.tree.live
      BY <1>1, SafeType
    <3> QED
      BY <1>1, <3>1 DEF Frames
  <2>2. \A m \in ({s.shove.root} \ {NoNode}) \cup Frames(s) \cup {Root} : v.tree.view[m] = s.tree.view[m]
    BY <1>1, <2>1 DEF Pruned
  <2>3. Frames(v) = Frames(s)
    BY <1>1 DEF Frames
  <2> QED
    BY <1>1, <1>2, <2>2, <2>3, BareKept DEF Waits
<1>4. /\ Safe(u) /\ u.drag = v.drag /\ u.shove.root = v.shove.root
      /\ n \in v.tree.live /\ n \in {v.shove.current} \cup Frames(v)
      /\ u.shove.current \in u.tree.live \ {Root}
      /\ \A m \in {Root, v.drag.bed, v.drag.walk, v.shove.root} \ {NoNode} :
            m \in u.tree.live /\ u.tree.view[m] = v.tree.view[m]
      /\ \A m \in Frames(u) : \/ m \in Frames(v) /\ u.tree.view[m] = v.tree.view[m]
                              \/ c.shoves /\ m = u.shove.current
      /\ Used(u) \subseteq Used(v) \cup {f}
      /\ IF c.shoves
         THEN u.tree.view[u.shove.current] = (v.tree.view[n] \ {}) \cup Pushed(p) \cup {}
         ELSE u.shove.current = n /\ u.tree.view[n] = v.tree.view[n]
  <2>0. /\ Safe(v) /\ v.drag.last = NoNode /\ v.shove.root # NoNode /\ p \in Place
        /\ c.k \in Kept(v) /\ c.shoves \in BOOLEAN /\ Spare(v, 1)
    BY <1>1, <1>2
  <2> HIDE DEF u, f, n
  <2>1. LET z == Ran(v, p, c)
            g == NewIn(Reduced(v, c.k))
            m0 == Reduced(v, c.k).shove.current
            by == v.drag.kind = "via"
        IN  /\ Safe(z) /\ z.drag = v.drag /\ z.shove.root = v.shove.root
            /\ m0 \in v.tree.live /\ m0 \in {v.shove.current} \cup Frames(v)
            /\ z.shove.current \in z.tree.live \ {Root}
            /\ \A m \in {Root, v.drag.bed, v.drag.walk, v.shove.root} \ {NoNode} :
                  m \in z.tree.live /\ z.tree.view[m] = v.tree.view[m]
            /\ \A m \in Frames(z) : \/ m \in Frames(v) /\ z.tree.view[m] = v.tree.view[m]
                                    \/ c.shoves /\ m = z.shove.current
            /\ Used(z) \subseteq Used(v) \cup {g}
            /\ IF c.shoves
               THEN z.tree.view[z.shove.current] =
                       (v.tree.view[m0] \ (IF by THEN ViaFacts(v) ELSE {}))
                          \cup Pushed(p) \cup (IF by THEN Moved(v, p, "straight") ELSE {})
               ELSE z.shove.current = m0 /\ z.tree.view[m0] = v.tree.view[m0]
    BY <2>0, RanSafe, SMTT(60)
  <2> QED
    BY <1>2, <2>1 DEF u, f, n
<1> HIDE DEF u, f, n
<1>5. \A x \in Piece : Bare(v.tree, n, x)
  <2>1. v.shove.current \in {v.shove.root} \cup Frames(v)
    BY <1>1, <1>2, ShoveStands
  <2> QED
    BY <1>2, <1>3, <1>4, <2>1 DEF MultiGround
<1>6. \A x \in Piece : Bare(u.tree, u.shove.current, x)
  <2>1. \A x \in Piece : \A q : Versions(x) \cap Pushed(q) = {} /\ Stub \notin Pushed(q)
    BY VersionsApart, FactsApart DEF Pushed
  <2> QED
    BY <1>4, <1>5, <2>1 DEF Bare, Shows
<1>7. MultiGround(u)
  BY <1>2, <1>3, <1>4, <1>6 DEF MultiGround, Bare, Shows
<1>8. Waits(u)
  BY <1>3, <1>4, NodeType DEF Waits
<1>9. Spare(u, 1)
  <2>1. Used(u) \subseteq Used(v) \cup {f} /\ 4 = 3 + 1 /\ Spare(v, 4)
    BY <1>2, <1>4
  <2>2. Spare(u, 3)
    BY <2>1, SpareAfter, SMTT(40)
  <2> QED
    BY <2>2, SpareMonotone
<1> QED
  BY <1>1, <1>2, <1>4, <1>6, <1>7, <1>8, <1>9 DEF u, v
----------------------------------------------------------------------------
(* The handlers, put together.                                             *)
LEMMA MultiClear ==
  ASSUME NEW s, Safe(s), MultiGround(s), Waits(s)
  PROVE  LET v == WithoutLast(s)
         IN  /\ Safe(v) /\ MultiGround(v) /\ Waits(v) /\ v.drag.at = s.drag.at
             /\ v.drag.last = NoNode /\ v.shove = s.shove /\ Used(v) \subseteq Used(s)
<1> DEFINE v == WithoutLast(s)
<1>1. /\ Safe(v) /\ v.drag = [s.drag EXCEPT !.last = NoNode] /\ v.shove = s.shove
      /\ SameDrag(s, v) /\ v.drag.last = NoNode
      /\ Pruned(s.tree, v.tree) /\ v.tree.live = s.tree.live \ {s.drag.last}
      /\ Used(v) \subseteq Used(s)
  BY SafeWithoutLast
<1> HIDE DEF v
<1>2. v.drag.kind = "multi" /\ v.drag.pieces = Piece /\ v.drag.at = s.drag.at
  <2>1. s.drag \in DragType
    BY SafeType
  <2>2. v.drag.at = s.drag.at
    BY <1>1, <2>1 DEF DragType
  <2> QED
    BY <1>1, <2>2 DEF SameDrag, MultiGround
<1>3. MultiGround(v) /\ Waits(v)
  <2>1. \A m \in ({s.shove.root} \ {NoNode}) \cup Frames(s) \cup {Root} : m \in v.tree.live
    <3>1. \A m \in ({v.shove.root} \ {NoNode}) \cup Frames(v) \cup {Root} : m \in v.tree.live
      BY <1>1, SafeType
    <3> QED
      BY <1>1, <3>1 DEF Frames
  <2>2. \A m \in ({s.shove.root} \ {NoNode}) \cup Frames(s) \cup {Root} : v.tree.view[m] = s.tree.view[m]
    BY <1>1, <2>1 DEF Pruned
  <2>3. Frames(v) = Frames(s)
    BY <1>1 DEF Frames
  <2> QED
    BY <1>1, <1>2, <2>2, <2>3, BareKept DEF Waits
<1> QED
  BY <1>1, <1>2, <1>3 DEF v

LEMMA MultiShoveOK ==
  ASSUME NEW s, Safe(s), MultiGround(s), Waits(s), Spare(s, 4),
         NEW p \in Place, NEW c, c.done \in SUBSET Piece, c.shoves \in BOOLEAN,
         c.k \in Kept(s)
  PROVE  MultiMoved(s, MultiShove(s, p, c), s.shove.root # NoNode /\ c.shoves, {})
<1> DEFINE v == WithoutLast(s)
           r == Ran(v, p, c)
           b == LastOn(r, r.shove.current)
           new == Olds(s.drag.pieces \ c.done) \cup (IF c.shoves THEN Of(c.done, p, "straight") ELSE {})
           u == MultiShove(s, p, c)
<1>1. u = IF s.shove.root = NoNode THEN [v EXCEPT !.drag.status = FALSE]
          ELSE [Put(b, b.drag.last, {}, new) EXCEPT !.drag.status = c.shoves]
  BY DEF MultiShove
<1>2. CASE s.shove.root = NoNode
  <2> HIDE DEF u, v
  <2>1. Safe(v) /\ MultiGround(v) /\ Waits(v) /\ v.drag.at = s.drag.at
    BY MultiClear DEF v
  <2>2. MultiMoved(v, [v EXCEPT !.drag.status = FALSE], FALSE, {})
    BY <2>1, MultiFailed
  <2> QED
    BY <1>1, <1>2, <2>1, <2>2 DEF MultiMoved, u
<1>3. CASE s.shove.root # NoNode
  <2>1. /\ Safe(r) /\ MultiGround(r) /\ Waits(r) /\ Spare(r, 1)
        /\ r.drag.last = NoNode /\ r.drag.at = s.drag.at
        /\ r.shove.current \in r.tree.live
        /\ \A x \in Piece : Bare(r.tree, r.shove.current, x)
    BY <1>3, MultiRanOK
  <2> HIDE DEF u, v, r
  <2>2. /\ Safe(b) /\ MultiGround(b) /\ Waits(b) /\ b.drag.at = r.drag.at
        /\ b.drag.last # NoNode /\ b.tree.view[b.drag.last] = r.tree.view[r.shove.current]
    BY <2>1, MultiLastOn
  <2> HIDE DEF b
  <2>3. new \in SUBSET Fact /\ About({}, Piece) /\ About(new, Piece)
    <3>1. /\ Olds(s.drag.pieces \ c.done) \subseteq Fact /\ About(Olds(s.drag.pieces \ c.done), Piece)
          /\ About({}, Piece)
      <4>1. Piece \ c.done \in SUBSET Piece /\ s.drag.pieces = Piece
        BY DEF MultiGround
      <4>2. Olds(Piece \ c.done) \subseteq Fact /\ About(Olds(Piece \ c.done), Piece \ c.done) /\ About({}, Piece)
        BY <4>1, FactsAbout
      <4> QED
        BY <4>1, <4>2 DEF About
    <3>2. Of(c.done, p, "straight") \subseteq Fact /\ About(Of(c.done, p, "straight"), Piece)
      <4>1. Of(c.done, p, "straight") \subseteq Fact /\ About(Of(c.done, p, "straight"), c.done)
        BY FactsAbout DEF Ways
      <4> QED
        BY <4>1 DEF About
    <3> QED
      BY <3>1, <3>2, FactsAbout
  <2>4. c.shoves => ShowsWhole((b.tree.view[b.drag.last] \ {}) \cup new, {})
    <3> DEFINE R == r.tree.view[r.shove.current]
               olds == Olds(Piece \ c.done)
               moved == Of(c.done, p, "straight")
               z == R \cup olds \cup moved
    <3>1. /\ \A x \in Piece : Versions(x) \cap olds = IF x \in Piece \ c.done THEN {Old(x)} ELSE {}
          /\ \A x \in Piece : Versions(x) \cap moved = IF x \in c.done THEN {New(x, p, "straight")} ELSE {}
          /\ Stub \notin olds /\ Stub \notin moved
          /\ \A x \in Piece : Old(x) \in Versions(x) /\ New(x, p, "straight") \in Versions(x)
      <4>1. Piece \ c.done \in SUBSET Piece /\ "straight" \in Ways
        BY DEF Ways
      <4> HIDE DEF olds, moved
      <4> QED
        BY <4>1, PartsShown DEF olds, moved
    <3>2. \A x \in Piece : Versions(x) \cap R = {} /\ Stub \notin R
      BY <2>1 DEF Bare, Shows
    <3>a. c.shoves => (b.tree.view[b.drag.last] \ {}) \cup new = z
      BY <2>2 DEF MultiGround
    <3> HIDE DEF olds, moved, R, new
    <3>3. ASSUME NEW x \in Piece
          PROVE  Versions(x) \cap z = IF x \in c.done THEN {New(x, p, "straight")} ELSE {Old(x)}
      BY <3>1, <3>2
    <3>4. Stub \notin z
      <4>1. Piece # {}
        BY AssumePlaces
      <4> QED
        BY <3>1, <3>2, <4>1
    <3> HIDE DEF z
    <3>5. \A x \in Piece : \E f \in Versions(x) : Versions(x) \cap z = {f}
      BY <3>1, <3>3
    <3> QED
      BY <3>a, <3>4, <3>5 DEF ShowsWhole
  <2> HIDE DEF new
  <2>5. u = [Put(b, b.drag.last, {}, new) EXCEPT !.drag.status = c.shoves]
    BY <1>1, <1>3
  <2> DEFINE ok == c.shoves
  <2>6. ok \in BOOLEAN /\ (ok => ShowsWhole((b.tree.view[b.drag.last] \ {}) \cup new, {}))
    BY <2>4
  <2> HIDE DEF ok
  <2>7. MultiMoved(b, [Put(b, b.drag.last, {}, new) EXCEPT !.drag.status = ok], ok, {})
    BY <2>2, <2>3, <2>6, MultiPainted, ZenonT(60)
  <2>8. MultiMoved(b, u, c.shoves, {})
    BY <2>5, <2>7 DEF ok
  <2> QED
    BY <1>3, <2>1, <2>2, <2>8 DEF MultiMoved, u
<1> QED
  BY <1>2, <1>3

(* How a drag of several lines may come out, and where it gets to.         *)
MultiOutcome(s, c) ==
    /\ setting.mode = "shove" => c.k \in Kept(s)
    /\ c.shoves \in BOOLEAN /\ c.walks \in BOOLEAN /\ c.done \in SUBSET Piece
    /\ c.lost \in SUBSET c.done /\ (setting.mode # "mark" => c.lost = {})
MultiLanded(u, p) ==
    /\ Safe(u) /\ MultiGround(u) /\ Waits(u)
    /\ u.drag.status => WholeAt(u.tree, Current(u), u.drag.lost)
    /\ u.drag.at = p
    /\ AllowDrc => u.drag.status

LEMMA MultiDragOK ==
  ASSUME NEW s, Safe(s), MultiGround(s), Waits(s), Spare(s, 4), TypeOK,
         NEW p \in Place, NEW c, MultiOutcome(s, c)
  PROVE  MultiLanded(MultiDrag(s, p, c), p)
<1> DEFINE m == CASE setting.mode = "mark" -> MultiMark(s, p, c)
                  [] setting.mode = "walk" -> MultiWalk(s, p, c)
                  [] setting.mode = "shove" -> MultiShove(s, p, c)
           d == [m.drag EXCEPT !.at = p, !.lost = c.lost]
           u == MultiDrag(s, p, c)
<1>1. u = [m EXCEPT !.drag.at = p, !.drag.lost = c.lost]
  BY DEF MultiDrag
<1>2. /\ Safe(m) /\ MultiGround(m) /\ Waits(m)
      /\ m.drag.status => WholeAt(m.tree, Current(m), c.lost)
      /\ AllowDrc => m.drag.status
  <2>1. setting.mode \in {"mark", "walk", "shove"}
    BY AssumeSettings DEF TypeOK
  <2>2. CASE setting.mode = "mark"
    <3>1. MultiMoved(s, MultiMark(s, p, c), TRUE, c.lost)
      BY MultiMarkOK DEF MultiOutcome
    <3> QED
      BY <2>2, <3>1 DEF MultiMoved
  <2>3. CASE setting.mode = "walk"
    <3>1. MultiMoved(s, MultiWalk(s, p, c), p \notin Tight \/ c.walks, {})
      BY MultiWalkOK DEF MultiOutcome
    <3> QED
      BY <2>3, <3>1 DEF MultiMoved, MultiOutcome, AllowDrc
  <2>4. CASE setting.mode = "shove"
    <3>1. MultiMoved(s, MultiShove(s, p, c), s.shove.root # NoNode /\ c.shoves, {})
      BY <2>4, MultiShoveOK DEF MultiOutcome
    <3> QED
      BY <2>4, <3>1 DEF MultiMoved, MultiOutcome, AllowDrc
  <2> QED
    BY <2>1, <2>2, <2>3, <2>4
<1> HIDE DEF m, u
<1>3. m.drag \in DragType /\ u = [m EXCEPT !.drag = d]
  BY <1>1, <1>2, SafeType
<1>4. /\ d \in DragType /\ d.pieces = m.drag.pieces /\ d.bed = m.drag.bed
      /\ d.last = m.drag.last /\ d.walk = m.drag.walk /\ d.kind = m.drag.kind
      /\ d.status = m.drag.status /\ d.at = p /\ d.lost = c.lost
  BY <1>3 DEF DragType, MultiOutcome
<1> HIDE DEF d
<1>5. Safe(u) /\ u.tree = m.tree /\ u.drag = d /\ u.shove = m.shove
  BY <1>2, <1>3, <1>4, SafeFields
<1>6. MultiGround(u) /\ Waits(u)
  BY <1>2, <1>4, <1>5 DEF MultiGround, Bare, Shows, Frames, Waits
<1>7. u.drag.status => WholeAt(u.tree, Current(u), u.drag.lost)
  BY <1>2, <1>4, <1>5 DEF Current, WholeAt, Shows
<1> QED
  BY <1>2, <1>4, <1>5, <1>6, <1>7 DEF MultiLanded, u

(* A component, where it gets to.                                          *)
ComponentGround(s) ==
    /\ s.drag.kind = "component" /\ s.drag.pieces = Piece
    /\ s.drag.bed = NoNode /\ s.drag.walk = NoNode /\ s.shove = NoShove
ComponentLanded(u, p) ==
    /\ Safe(u) /\ Waits(u) /\ ComponentGround(u)
    /\ u.drag.at = p /\ u.drag.last # NoNode
    /\ Stub \notin u.tree.view[u.drag.last]
    /\ \A x \in Piece : Shows(u.tree, u.drag.last, x) =
                         IF x \in u.drag.lost THEN {} ELSE {New(x, p, "straight")}

LEMMA ComponentDragOK ==
  ASSUME NEW s, Safe(s), ComponentGround(s), Waits(s), Spare(s, 4), NEW p \in Place,
         NEW o, o.lost \in SUBSET Piece
  PROVE  ComponentLanded(ComponentDrag(s, p, o), p)
<1> DEFINE K == KilledChildren(s.tree, Root)
           k == [s EXCEPT !.tree = K]
           c == NewIn(k)
           v == [s EXCEPT !.tree = K, !.drag.last = NoNode]
           b == LastOn(k, Root)
           old == Olds(s.drag.pieces)
           left == s.drag.pieces \ o.lost
           new == Of(left, p, "straight")
           u == ComponentDrag(s, p, o)
<1>1. /\ IsState(s) /\ TreeOK(s.tree) /\ s.tree \in Tree(Fact) /\ s.drag \in DragType /\ s.shove = NoShove
      /\ s \in DragState /\ s.shove \in ShoveType
      /\ s.drag.last \in NodeOrNone
  BY SafeType, StateType DEF ComponentGround, Safe
<1>2. /\ TreeOK(K) /\ Pruned(s.tree, K) /\ K.live = {Root} /\ K.view[Root] = s.tree.view[Root]
  BY <1>1, KilledOK, KilledRoot
<1> HIDE DEF K
<1>3. /\ k \in DragState /\ v \in DragState
      /\ k.tree = K /\ k.drag = s.drag /\ k.shove = NoShove
      /\ v.tree = K /\ v.shove = NoShove /\ v.drag = [s.drag EXCEPT !.last = NoNode]
  BY <1>1, <1>2 DEF DragState, TreeOK, DragType, NodeOrNone
<1>4. v.drag.last = NoNode /\ v.drag.bed = NoNode /\ v.drag.walk = NoNode /\ v.drag.pieces = Piece
      /\ v.drag.kind = "component"
  BY <1>1, <1>3 DEF DragType, ComponentGround
<1>5. /\ Held(k) = {NoNode, s.drag.last} /\ Held(v) = {NoNode}
      /\ Frames(v) = {} /\ Frames(k) = {}
  BY <1>3, <1>4 DEF Held, Frames, ComponentGround, NoShove, ToSet
<1> HIDE DEF k, v
<1>6. Standing(v)
  <2>1. v.shove.stack = <<>> /\ v.shove.root = NoNode /\ v.shove.current = NoNode
    BY <1>3 DEF NoShove
  <2> QED
    BY <1>2, <1>3, <1>4, <1>5, <2>1
       DEF Standing, HandlesHold, LastAlone, WalkAlone, FramesOrdered
<1>7. Safe(v)
  <2>1. OthersStay(K, Piece) /\ NoLegs(K)
    BY <1>2, CalmPruned DEF Safe, ComponentGround
  <2> QED
    BY <1>3, <1>4, <1>6, <2>1 DEF Safe
<1>8. c \in Node \ Used(v) /\ c # NoNode
  <2>1. Spare(k, 1)
    <3>1. Used(k) \subseteq Used(s)
      BY <1>1, <1>2, <1>3, <1>5, StateType DEF Used, TreeOK
    <3> QED
      BY <3>1, SpareMonotone
  <2>2. IsState(k)
    BY <1>3 DEF IsState
  <2>3. c \in Node \ Used(k) /\ c # NoNode
    BY <2>1, <2>2, NewInFresh
  <2> QED
    BY <1>3, <1>5, <2>3 DEF Used
<1> HIDE DEF c
<1>9. b = LastAs(v, Root, c)
  <2>1. b = [k EXCEPT !.tree = Branched(@, Root, c), !.drag.last = c]
    BY DEF LastOn, c
  <2>2. LastAs(v, Root, c) = [v EXCEPT !.tree = Branched(@, Root, c), !.drag.last = c]
    BY DEF LastAs
  <2>3. [v.drag EXCEPT !.last = c] = [k.drag EXCEPT !.last = c]
    BY <1>1, <1>3 DEF DragType
  <2>4. k \in DragState /\ v \in DragState /\ k.tree = v.tree /\ k.shove = v.shove
    BY <1>3
  <2>5. /\ b = [tree |-> Branched(v.tree, Root, c), drag |-> [k.drag EXCEPT !.last = c], shove |-> v.shove]
        /\ LastAs(v, Root, c) = [tree |-> Branched(v.tree, Root, c), drag |-> [v.drag EXCEPT !.last = c], shove |-> v.shove]
    BY <2>1, <2>2, <2>4 DEF DragState
  <2> QED
    BY <2>3, <2>5
<1> HIDE DEF b
<1>10. /\ Safe(b) /\ b.drag = [v.drag EXCEPT !.last = c] /\ b.shove = v.shove
       /\ SameDrag(v, b)
       /\ b.drag.last = c /\ c \in b.tree.live \ {Root, NoNode}
       /\ Grown(v.tree, b.tree, Root, c)
  <2>1. Root \in v.tree.live
    BY <1>2, <1>3
  <2> QED
    BY <1>4, <1>7, <1>8, <1>9, <2>1, SafeLastAs
<1>11. /\ b.drag.pieces = Piece /\ b.drag.kind = "component" /\ b.drag.bed = NoNode
       /\ b.drag.walk = NoNode /\ b.drag \in DragType
       /\ b.tree.view[c] = s.tree.view[Root] /\ b.tree.view[Root] = s.tree.view[Root]
  <2>1. b.drag \in DragType /\ v.drag \in DragType
    BY <1>7, <1>10, SafeType
  <2>2. b.drag.bed = NoNode /\ b.drag.walk = NoNode
    BY <1>4, <1>10, <2>1 DEF DragType
  <2> QED
    BY <1>2, <1>3, <1>4, <1>10, <2>1, <2>2 DEF SameDrag, Grown
<1> DEFINE d == [b.drag EXCEPT !.at = p, !.lost = o.lost]
           w == PaintedAs(b, old, new, d)
<1>12. u = w
  <2>1. u = [Put(b, b.drag.last, old, new) EXCEPT !.drag.at = p, !.drag.lost = o.lost]
    BY DEF ComponentDrag, b, k, K
  <2>2. Put(b, b.drag.last, old, new).drag = b.drag
    BY <1>10 DEF Put, Safe, DragState
  <2> QED
    BY <2>1, <2>2 DEF PaintedAs
<1>13. /\ d \in DragType /\ d.pieces = b.drag.pieces /\ d.bed = b.drag.bed
       /\ d.last = b.drag.last /\ d.walk = b.drag.walk /\ d.kind = b.drag.kind
       /\ d.at = p /\ d.lost = o.lost
  BY <1>11 DEF DragType
<1>14. /\ About(old, Piece) /\ About(new, Piece) /\ new \in SUBSET Fact
       /\ old = Olds(Piece) /\ left = Piece \ o.lost
  <2>1. /\ old = Olds(Piece) /\ left = Piece \ o.lost /\ left \in SUBSET Piece
        /\ Piece \in SUBSET Piece /\ "straight" \in Ways
    BY DEF ComponentGround, Ways
  <2> HIDE DEF left
  <2>2. /\ About(Olds(Piece), Piece) /\ About(new, left) /\ new \in SUBSET Fact
    BY <2>1, FactsAbout
  <2> HIDE DEF old, new
  <2> QED
    BY <2>1, <2>2 DEF About
<1> HIDE DEF d, u, w, old, left
<1>15. /\ Safe(w) /\ w.drag = d /\ w.shove = b.shove
       /\ Repainted(b.tree, w.tree, c, old, new)
  <2>1. /\ Safe(b) /\ b.drag.last # NoNode /\ About(old, b.drag.pieces)
        /\ About(new, b.drag.pieces) /\ new \in SUBSET Fact
        /\ d \in DragType /\ d.pieces = b.drag.pieces /\ d.bed = b.drag.bed
        /\ d.last = b.drag.last /\ d.walk = b.drag.walk
    BY <1>8, <1>10, <1>11, <1>13, <1>14
  <2>2. LET z == PaintedAs(b, old, new, d)
        IN  /\ Safe(z) /\ z.drag = d /\ z.shove = b.shove
            /\ Repainted(b.tree, z.tree, b.drag.last, old, new)
            /\ Used(z) = Used(b)
    BY <2>1, LastPainted
  <2> QED
    BY <1>10, <2>2 DEF w
<1>16. /\ Waits(w) /\ ComponentGround(w)
  <2>1. Root \in b.tree.live
    BY <1>10, SafeType
  <2>2. w.tree.view[Root] = s.tree.view[Root]
    BY <1>10, <1>11, <1>15, <2>1 DEF Repainted
  <2> QED
    BY <1>3, <1>10, <1>11, <1>13, <1>15, <2>2 DEF Waits, ComponentGround
<1>17. /\ Stub \notin w.tree.view[c]
       /\ \A x \in Piece : Versions(x) \cap w.tree.view[c] =
                            IF x \in o.lost THEN {} ELSE {New(x, p, "straight")}
  <2>1. w.tree.view[c] = (s.tree.view[Root] \ old) \cup new
    BY <1>11, <1>15 DEF Repainted
  <2>2. /\ \A x \in Piece : Versions(x) \cap s.tree.view[Root] = {Old(x)}
        /\ Stub \notin s.tree.view[Root]
    BY RootWhole
  <2>3. /\ \A x \in Piece : Versions(x) \cap old = {Old(x)}
        /\ \A x \in Piece : Versions(x) \cap new = IF x \in left THEN {New(x, p, "straight")} ELSE {}
        /\ Stub \notin new
    <3>1. left \in SUBSET Piece /\ "straight" \in Ways
      BY <1>14 DEF Ways
    <3> QED
      BY <1>14, <3>1, PartsShown
  <2> HIDE DEF new
  <2> QED
    BY <1>14, <2>1, <2>2, <2>3
<1> QED
  BY <1>8, <1>10, <1>12, <1>13, <1>15, <1>16, <1>17 DEF ComponentLanded, Shows, u
----------------------------------------------------------------------------
(* The placement of a pair: what its handlers keep, with the legs L that   *)
(* are fixed and what is pushed aside for them.                            *)
PairSafe(s) == /\ s \in PairState /\ s.drag = NoDrag /\ Standing(s)
               /\ OthersStay(s.tree, {}) /\ PairStands(s)
PairGround(s, L, D) ==
    \A n \in PairNodes(s) : /\ LegsIn(s.tree, n) = L
                            /\ Stub \notin s.tree.view[n]
                            /\ D \subseteq s.tree.view[n]
SameNodes(q, r) == /\ r.world = q.world /\ r.current = q.current
                   /\ r.last = q.last /\ r.fixed = q.fixed

LEMMA NoDragIs ==
  /\ NoDrag \in DragType /\ NoDrag.bed = NoNode /\ NoDrag.last = NoNode /\ NoDrag.walk = NoNode
  /\ NoDrag.kind = "line" /\ NoDrag.pieces = {} /\ NoDrag.at \in Place /\ NoDrag.lost = {}
  /\ NoShove \in ShoveType /\ NoShove.root = NoNode /\ NoShove.current = NoNode
  /\ NoShove.stack = <<>>
<1>1. (CHOOSE p \in Place : TRUE) \in Place
  BY AssumePlaces
<1> QED
  BY <1>1, NodeType DEF NoDrag, DragType, Kind, NodeOrNone, NoShove, ShoveType

LEMMA PairType ==
  ASSUME NEW s, s \in PairState, s.drag = NoDrag
  PROVE  /\ IsState(s) /\ s.tree \in Tree(Fact) /\ s.shove \in ShoveType /\ s.placer \in PlacerType
         /\ s.drag \in DragType
         /\ s.drag.bed = NoNode /\ s.drag.last = NoNode /\ s.drag.walk = NoNode
         /\ s.drag.kind = "line" /\ s.drag.pieces = {}
         /\ Held(s) \ {NoNode} = ({s.shove.root, s.shove.current} \cup Frames(s)) \ {NoNode}
         /\ {s.placer.world, s.placer.current, s.placer.last, s.placer.fixed} \subseteq NodeOrNone
         /\ Frames(s) \subseteq Node /\ s.shove.root \in NodeOrNone /\ s.shove.current \in NodeOrNone
         /\ s.shove.stack \in Seq(Node) /\ DOMAIN s.shove.stack = 1..Len(s.shove.stack)
         /\ \A j \in DOMAIN s.shove.stack : s.shove.stack[j] \in Frames(s)
<1>1. /\ IsState(s) /\ s.tree \in Tree(Fact) /\ s.shove \in ShoveType /\ s.placer \in PlacerType
      /\ s.drag \in DragType
  BY DEF PairState, IsState
<1>2. {s.placer.world, s.placer.current, s.placer.last, s.placer.fixed} \subseteq NodeOrNone
  BY <1>1 DEF PlacerType
<1>3. Held(s) \ {NoNode} = ({s.shove.root, s.shove.current} \cup Frames(s)) \ {NoNode}
  BY <1>1, NoDragIs, StateType
<1> QED
  BY <1>1, <1>2, <1>3, NoDragIs, StateType

LEMMA PairStanding ==
  ASSUME NEW s, s \in PairState, s.drag = NoDrag
  PROVE  Standing(s) <=> /\ TreeOK(s.tree) /\ HandlesHold(s)
                         /\ \A j \in DOMAIN s.shove.stack :
                              /\ s.shove.root # NoNode => s.shove.stack[j] \notin s.tree.chain[s.shove.root]
                              /\ \A i \in 1..(j - 1) : s.shove.stack[j] \notin s.tree.chain[s.shove.stack[i]]
BY PairType DEF Standing, LastAlone, WalkAlone, FramesOrdered

(* The nodes of a placement are live, and apart from the board.            *)
LEMMA PairLive ==
  ASSUME NEW s, PairSafe(s)
  PROVE  /\ PairNodes(s) \subseteq s.tree.live \ {Root}
         /\ Root \in s.tree.live /\ TreeOK(s.tree) /\ s.tree.live \subseteq Node /\ NoNode \notin s.tree.live
         /\ s.placer.world \in PairNodes(s) /\ s.shove.root \in PairNodes(s)
         /\ Frames(s) \subseteq PairNodes(s)
         /\ s.shove.current \in {s.shove.root} \cup Frames(s) /\ s.shove.current \in PairNodes(s)
         /\ s.placer.current \in PairNodes(s)
         /\ Used(s) = s.tree.live
<1>1. /\ s \in PairState /\ s.drag = NoDrag /\ Standing(s) /\ PairStands(s)
  BY DEF PairSafe
<1>2. /\ Held(s) \ {NoNode} = ({s.shove.root, s.shove.current} \cup Frames(s)) \ {NoNode}
      /\ Frames(s) \subseteq Node /\ s.shove.stack \in Seq(Node)
      /\ s.tree.live \subseteq Node /\ IsState(s)
  BY <1>1, PairType, StateType
<1>3. /\ Held(s) \ {NoNode} \subseteq s.tree.live \ {Root} /\ TreeOK(s.tree) /\ HandlesHold(s)
  BY <1>1 DEF Standing, HandlesHold
<1>4. s.shove.current \in {s.shove.root} \cup Frames(s) /\ s.shove.current # NoNode
  <2>1. s.shove.stack # <<>> => Last(s.shove.stack) \in Frames(s)
    BY <1>2, StateType
  <2> QED
    BY <1>1, <1>2, <1>3, <2>1, NodeType DEF HandlesHold, PairStands
<1>5. /\ s.placer.world # NoNode /\ s.shove.root # NoNode /\ NoNode \notin Frames(s)
      /\ {s.placer.world, s.placer.current, s.placer.last, s.placer.fixed} \ {NoNode} \subseteq s.tree.live \ {Root}
      /\ s.placer.current \in {s.placer.world, s.shove.current}
  BY <1>1, <1>2, NodeType DEF PairStands
<1>6. Root \in s.tree.live
  BY <1>3 DEF TreeOK
<1> QED
  BY <1>2, <1>3, <1>4, <1>5, <1>6, NodeType DEF PairNodes, Used

(* Fields of the placer are set; it may go to where the shove stands.      *)
LEMMA PlacerFields ==
  ASSUME NEW s, PairSafe(s), NEW q \in PlacerType,
         q.world = s.placer.world, q.last = s.placer.last, q.fixed = s.placer.fixed,
         q.current \in {s.placer.current, s.shove.current}
  PROVE  LET u == [s EXCEPT !.placer = q]
         IN  /\ PairSafe(u) /\ u.tree = s.tree /\ u.shove = s.shove /\ u.placer = q
             /\ u.drag = s.drag
             /\ \A L, D : PairGround(s, L, D) => PairGround(u, L, D)
             /\ Used(u) = Used(s)
<1> DEFINE u == [s EXCEPT !.placer = q]
<1>1. /\ u \in PairState /\ s \in PairState /\ u.tree = s.tree /\ u.shove = s.shove /\ u.placer = q
      /\ u.drag = s.drag /\ s.drag = NoDrag /\ Standing(s) /\ PairStands(s) /\ OthersStay(s.tree, {})
      /\ TreeOK(s.tree)
  BY DEF PairState, PairSafe, Standing
<1> HIDE DEF u
<1>2. Standing(u) /\ Used(u) = Used(s)
  BY <1>1, SameStanding DEF SameHandles, IsState
<1>3. /\ s.placer.current \in PairNodes(s) /\ s.shove.current \in PairNodes(s)
      /\ s.shove.current \in s.tree.live \ {Root} /\ s.placer.current \in {s.placer.world, s.shove.current}
  BY <1>1, PairLive DEF PairStands
<1>4. PairStands(u)
  BY <1>1, <1>3 DEF PairStands, Frames
<1>5. PairNodes(u) \subseteq PairNodes(s)
  BY <1>1, <1>3 DEF PairNodes, Frames
<1> QED
  BY <1>1, <1>2, <1>4, <1>5 DEF PairSafe, PairGround, u

(* The last branch of a placement goes.                                    *)
PairCleared(s, q) == [s EXCEPT !.tree = Dropped(@, s.placer.last), !.placer = q]

LEMMA PairClearedOK ==
  ASSUME NEW s, PairSafe(s), NEW q \in PlacerType,
         q.world = s.placer.world, q.last = NoNode, q.fixed = s.placer.fixed,
         q.current = s.placer.current
  PROVE  LET u == PairCleared(s, q)
         IN  /\ PairSafe(u) /\ u.shove = s.shove /\ u.placer = q
             /\ Pruned(s.tree, u.tree) /\ Root \in u.tree.live
             /\ \A L, D : PairGround(s, L, D) => PairGround(u, L, D)
             /\ Used(u) \subseteq Used(s)
<1> DEFINE u == PairCleared(s, q)
           l == s.placer.last
           v == Dropped(s.tree, l)
<1>1. /\ s \in PairState /\ s.drag = NoDrag /\ Standing(s) /\ PairStands(s) /\ OthersStay(s.tree, {})
  BY DEF PairSafe
<1>2. /\ PairNodes(s) \subseteq s.tree.live \ {Root} /\ Root \in s.tree.live /\ TreeOK(s.tree)
      /\ s.tree.live \subseteq Node /\ NoNode \notin s.tree.live
      /\ s.placer.world \in PairNodes(s) /\ s.shove.root \in PairNodes(s)
      /\ Frames(s) \subseteq PairNodes(s)
      /\ s.shove.current \in {s.shove.root} \cup Frames(s) /\ s.shove.current \in PairNodes(s)
      /\ s.placer.current \in PairNodes(s) /\ Used(s) = s.tree.live
  BY PairLive
<1>3. l # Root /\ l \notin ({s.placer.world, s.placer.current, s.placer.fixed, s.shove.root, s.shove.current}
                              \cup Frames(s)) \ {NoNode}
  <2>1. CASE l = NoNode
    BY <2>1, NodeType
  <2>2. CASE l # NoNode
    <3>1. l \notin {s.placer.world, s.placer.fixed, s.shove.root} \cup Frames(s)
      BY <1>1, <2>2 DEF PairStands
    <3>2. l \in s.tree.live \ {Root}
      BY <1>1, <2>2 DEF PairStands
    <3>3. s.placer.current \in {s.placer.world, s.shove.current}
      BY <1>1 DEF PairStands
    <3> QED
      BY <1>2, <3>1, <3>2, <3>3
  <2> QED
    BY <2>1, <2>2
<1>4. /\ TreeOK(v) /\ Pruned(s.tree, v) /\ v.live = s.tree.live \ {l}
  <2>1. TreeOK(v) /\ Pruned(s.tree, v) /\ v.live = s.tree.live \ Subtree(s.tree, l)
    BY <1>2, <1>3, DroppedOK
  <2>2. Subtree(s.tree, l) = {l} \cap s.tree.live
    <3>1. CASE l = NoNode
      BY <1>2, <3>1, NoSubtree
    <3>2. CASE l # NoNode
      BY <1>1, <3>2 DEF PairStands
    <3> QED
      BY <3>1, <3>2
  <2> QED
    BY <2>1, <2>2
<1> HIDE DEF v, l
<1>5. u \in PairState /\ u.tree = v /\ u.drag = NoDrag /\ u.shove = s.shove /\ u.placer = q
  BY <1>1, <1>4 DEF PairState, PairCleared, TreeOK, v, l
<1> HIDE DEF u
<1>6. /\ \A n \in PairNodes(s) \ {l} : n \in v.live /\ v.chain[n] = s.tree.chain[n] /\ v.view[n] = s.tree.view[n]
      /\ Frames(u) = Frames(s)
  BY <1>2, <1>4, <1>5 DEF Pruned, Frames
<1>7. PairNodes(u) \subseteq PairNodes(s) \ {l}
  BY <1>3, <1>5, <1>6 DEF PairNodes
<1>8. {s.placer.world, s.placer.current, s.placer.fixed, s.shove.root, s.shove.current} \cup Frames(s)
         \subseteq (PairNodes(s) \ {l}) \cup {NoNode}
  BY <1>2, <1>3 DEF PairNodes
<1>9. HandlesHold(u)
  <2>1. Held(u) \ {NoNode} \subseteq v.live \ {Root}
    <3>1. Held(u) \ {NoNode} = ({s.shove.root, s.shove.current} \cup Frames(s)) \ {NoNode}
      BY <1>5, <1>6, PairType
    <3> QED
      BY <1>2, <1>6, <1>8, <3>1
  <2> QED
    BY <1>1, <1>5, <2>1 DEF HandlesHold, Standing
<1>10. Standing(u)
  <2>1. \A j \in DOMAIN s.shove.stack :
          /\ s.shove.root # NoNode => s.shove.stack[j] \notin s.tree.chain[s.shove.root]
          /\ \A i \in 1..(j - 1) : s.shove.stack[j] \notin s.tree.chain[s.shove.stack[i]]
    BY <1>1, PairStanding
  <2>2. v.chain[s.shove.root] = s.tree.chain[s.shove.root]
    BY <1>2, <1>3, <1>6
  <2>3. \A j \in DOMAIN s.shove.stack : \A i \in 1..(j - 1) : v.chain[s.shove.stack[i]] = s.tree.chain[s.shove.stack[i]]
    <3>1. \A j \in DOMAIN s.shove.stack : s.shove.stack[j] \in PairNodes(s) \ {l}
      <4>1. \A j \in DOMAIN s.shove.stack : s.shove.stack[j] \in Frames(s)
        BY <1>1, PairType
      <4> QED
        BY <1>2, <1>3, <4>1
    <3>2. \A j \in DOMAIN s.shove.stack : \A i \in 1..(j - 1) : i \in DOMAIN s.shove.stack
      BY <1>1, PairType, StateType
    <3> QED
      BY <1>6, <3>1, <3>2
  <2> QED
    BY <1>4, <1>5, <1>9, <2>1, <2>2, <2>3, PairStanding, ZenonT(60)
<1>11. PairStands(u)
  <2>1. \A j \in DOMAIN s.shove.stack : \A n \in {s.placer.world, s.placer.fixed} \ {NoNode} :
          s.shove.stack[j] \notin s.tree.chain[n]
    BY <1>1 DEF PairStands
  <2>2. \A n \in {s.placer.world, s.placer.fixed} \ {NoNode} : v.chain[n] = s.tree.chain[n]
    BY <1>6, <1>8
  <2>3. {s.placer.world, s.placer.current, s.placer.fixed} \ {NoNode} \subseteq v.live \ {Root}
    BY <1>2, <1>6, <1>8
  <2>4. s.placer.world # NoNode /\ s.shove.root # NoNode /\ s.placer.current \in {s.placer.world, s.shove.current}
    BY <1>1 DEF PairStands
  <2> QED
    BY <1>5, <2>1, <2>2, <2>3, <2>4 DEF PairStands
<1>12. OthersStay(v, {})
  BY <1>1, <1>4, CalmPruned
<1>13. \A L, D : PairGround(s, L, D) => PairGround(u, L, D)
  BY <1>5, <1>6, <1>7 DEF PairGround, LegsIn
<1>14. Used(u) \subseteq Used(s)
  <2>1. Held(u) \ {NoNode} \subseteq v.live
    BY <1>5, <1>9 DEF HandlesHold
  <2> QED
    BY <1>2, <1>4, <1>5, <2>1 DEF Used
<1> QED
  BY <1>4, <1>5, <1>10, <1>11, <1>12, <1>13, <1>14 DEF PairSafe, TreeOK, u

(* A run of the shove in a placement, which goes where the shove stands.   *)
PairRan(s, p, c) == LET ran == Ran(s, p, c)
                    IN  [ran EXCEPT !.placer.current = ran.shove.current]

LEMMA PairRanOK ==
  ASSUME NEW s, PairSafe(s), s.placer.last = NoNode, NEW p,
         NEW c, c.k \in Kept(s), c.shoves \in BOOLEAN, Spare(s, 2)
  PROVE  LET u == PairRan(s, p, c)
         IN  /\ PairSafe(u) /\ u.placer = [s.placer EXCEPT !.current = u.shove.current]
             /\ u.drag = s.drag /\ u.tree.view[Root] = s.tree.view[Root]
             /\ \A L, D : PairGround(s, L, D) => PairGround(u, L, D)
             /\ Spare(u, 1)
<1> DEFINE r == Ran(s, p, c)
           u == PairRan(s, p, c)
           f == NewIn(Reduced(s, c.k))
           g == Reduced(s, c.k).shove.current
           q == [s.placer EXCEPT !.current = r.shove.current]
<1>1. /\ s \in PairState /\ s.drag = NoDrag /\ Standing(s) /\ PairStands(s) /\ OthersStay(s.tree, {})
      /\ IsState(s) /\ s.drag.last = NoNode /\ s.drag.kind = "line" /\ s.placer \in PlacerType
  BY PairType DEF PairSafe
<1>2. /\ PairNodes(s) \subseteq s.tree.live \ {Root} /\ Root \in s.tree.live /\ TreeOK(s.tree)
      /\ s.tree.live \subseteq Node /\ NoNode \notin s.tree.live
      /\ s.placer.world \in PairNodes(s) /\ s.shove.root \in PairNodes(s)
      /\ Frames(s) \subseteq PairNodes(s)
      /\ s.shove.current \in {s.shove.root} \cup Frames(s) /\ s.shove.current \in PairNodes(s)
      /\ Used(s) = s.tree.live
  BY PairLive
<1>3. Spare(s, 1) /\ s.shove.root # NoNode
  BY <1>1, SpareMonotone DEF PairStands
<1>4. /\ IsState(r) /\ Standing(r) /\ r.drag = s.drag /\ r.shove.root = s.shove.root
      /\ r.shove.current \in r.tree.live \ {Root}
      /\ \A n \in s.tree.live :
           (\A j \in DOMAIN s.shove.stack : s.shove.stack[j] \notin s.tree.chain[n])
              => n \in r.tree.live
      /\ \A n \in r.tree.live :
           \/ n \in s.tree.live /\ r.tree.chain[n] = s.tree.chain[n]
                                /\ r.tree.view[n] = s.tree.view[n]
           \/ c.shoves /\ n = f
      /\ Frames(r) \subseteq Frames(s) \cup {f}
      /\ \A j \in DOMAIN r.shove.stack :
           \/ j \in DOMAIN s.shove.stack /\ r.shove.stack[j] = s.shove.stack[j]
           \/ c.shoves /\ r.shove.stack[j] = f
      /\ g \in {s.shove.current} \cup Frames(s) /\ g \in s.tree.live
      /\ IF c.shoves
         THEN /\ r.shove.current = f /\ f \in Frames(r)
              /\ f # Root /\ f # NoNode
              /\ \A n \in r.tree.live \ {f} : f \notin r.tree.chain[n]
              /\ r.tree.view[f] = s.tree.view[g] \cup Pushed(p)
         ELSE r.shove.current = g /\ Frames(r) \subseteq Frames(s)
      /\ Used(r) \subseteq Used(s) \cup {f}
      /\ r \in PairState /\ r.placer = s.placer
  <2>0. /\ IsState(s) /\ Standing(s) /\ s.drag.last = NoNode /\ s.shove.root # NoNode
        /\ c.k \in Kept(s) /\ c.shoves \in BOOLEAN /\ Spare(s, 1)
        /\ s.drag.kind = "via" => p \in Place
    BY <1>1, <1>3
  <2> HIDE DEF r, f, g
  <2>1. LET z == Ran(s, p, c)
            r0 == Reduced(s, c.k)
            h == NewIn(r0)
            via == s.drag.kind = "via"
        IN  /\ IsState(z) /\ Standing(z) /\ z.drag = s.drag
            /\ z.shove.root = s.shove.root
            /\ z.shove.current \in z.tree.live \ {Root}
            /\ \A n \in s.tree.live :
                 (\A j \in DOMAIN s.shove.stack : s.shove.stack[j] \notin s.tree.chain[n])
                    => n \in z.tree.live
            /\ \A n \in z.tree.live :
                 \/ n \in s.tree.live /\ z.tree.chain[n] = s.tree.chain[n]
                                      /\ z.tree.view[n] = s.tree.view[n]
                 \/ c.shoves /\ n = h
            /\ Frames(z) \subseteq Frames(s) \cup {h}
            /\ \A j \in DOMAIN z.shove.stack :
                 \/ j \in DOMAIN s.shove.stack /\ z.shove.stack[j] = s.shove.stack[j]
                 \/ c.shoves /\ z.shove.stack[j] = h
            /\ r0.shove.current \in {s.shove.current} \cup Frames(s)
            /\ r0.shove.current \in s.tree.live
            /\ IF c.shoves
               THEN /\ z.shove.current = h /\ h \in Frames(z)
                    /\ h \in Node \ Used(r0) /\ h # Root /\ h # NoNode
                    /\ h \notin {s.drag.bed, s.drag.walk, s.shove.root}
                    /\ \A n \in z.tree.live \ {h} : h \notin z.tree.chain[n]
                    /\ z.tree.view[h] = (s.tree.view[r0.shove.current]
                                            \ (IF via THEN ViaFacts(s) ELSE {}))
                             \cup Pushed(p) \cup (IF via THEN Moved(s, p, "straight") ELSE {})
               ELSE z.shove.current = r0.shove.current /\ Frames(z) \subseteq Frames(s)
            /\ Used(z) \subseteq Used(s) \cup {h}
            /\ (s \in PairState => z \in PairState /\ z.placer = s.placer)
            /\ (s \in DragState => z \in DragState)
    BY <2>0, RanOK
  <2>2. \A S, T : (S \ {}) \cup T \cup {} = S \cup T
    OBVIOUS
  <2> QED
    BY <1>1, <2>1, <2>2 DEF r, f, g
<1>5. u = [r EXCEPT !.placer = q]
  BY <1>1, <1>4 DEF PairRan
<1> HIDE DEF r, u, f, g
<1>6. q \in PlacerType /\ SameNodes([s.placer EXCEPT !.current = r.shove.current], q)
      /\ q.world = s.placer.world /\ q.last = NoNode /\ q.fixed = s.placer.fixed
      /\ q.current = r.shove.current
  <2>1. r.shove.current \in NodeOrNone
    BY <1>4, StateType
  <2> QED
    BY <1>1, <2>1 DEF PlacerType, SameNodes
<1>7. /\ u \in PairState /\ u.tree = r.tree /\ u.shove = r.shove /\ u.drag = s.drag /\ u.placer = q
  BY <1>4, <1>5, <1>6 DEF PairState
<1>8. q = [s.placer EXCEPT !.current = u.shove.current]
  BY <1>7
<1> HIDE DEF q
<1>9. Standing(u) /\ Used(u) = Used(r)
  <2>1. TreeOK(r.tree)
    BY <1>4 DEF Standing
  <2> QED
    BY <1>4, <1>7, <2>1, SameStanding DEF SameHandles, IsState
<1>10. \A n \in {s.placer.world, s.placer.fixed, s.shove.root} \ {NoNode} :
         n \in r.tree.live /\ n # f
  <2> TAKE n \in {s.placer.world, s.placer.fixed, s.shove.root} \ {NoNode}
  <2>1. n \in s.tree.live /\ \A j \in DOMAIN s.shove.stack : s.shove.stack[j] \notin s.tree.chain[n]
    BY <1>1, <1>2, PairStanding DEF PairStands, PairNodes
  <2>2. c.k \in Kept(s) /\ IsState(s) /\ Standing(s) /\ s.drag.last = NoNode /\ s.shove.root # NoNode
    BY <1>1, <1>3
  <2>3. /\ IsState(Reduced(s, c.k)) /\ Used(Reduced(s, c.k)) \subseteq Used(s)
        /\ \A m \in s.tree.live :
             (\A i \in DOMAIN s.shove.stack : s.shove.stack[i] \notin s.tree.chain[m])
               => m \in Reduced(s, c.k).tree.live
    BY <2>2, ReducedOK
  <2>4. Spare(Reduced(s, c.k), 1)
    BY <1>3, <2>3, SpareMonotone
  <2>5. f \in Node \ Used(Reduced(s, c.k)) /\ f # NoNode
    BY <2>3, <2>4, NewInFresh DEF f
  <2>6. n \in Reduced(s, c.k).tree.live
    BY <2>1, <2>3
  <2>7. n # f
    BY <2>5, <2>6 DEF Used
  <2> QED
    BY <1>4, <2>1, <2>7
<1>11. PairStands(u)
  <2>1. {u.placer.world, u.placer.current, u.placer.last, u.placer.fixed} \ {NoNode} \subseteq u.tree.live \ {Root}
    <3>1. \A n \in {s.placer.world, s.placer.fixed} \ {NoNode} : n # Root
      BY <1>2 DEF PairNodes
    <3> QED
      BY <1>4, <1>6, <1>7, <1>10, <3>1
  <2>2. u.placer.world # NoNode /\ u.shove.root # NoNode
    BY <1>1, <1>3, <1>4, <1>6, <1>7 DEF PairStands
  <2>3. \A j \in DOMAIN u.shove.stack : \A n \in {u.placer.world, u.placer.fixed} \ {NoNode} :
          u.shove.stack[j] \notin u.tree.chain[n]
    <3> SUFFICES ASSUME NEW j \in DOMAIN r.shove.stack, NEW n \in {s.placer.world, s.placer.fixed} \ {NoNode}
                 PROVE  r.shove.stack[j] \notin r.tree.chain[n]
      BY <1>6, <1>7
    <3>1. n \in s.tree.live /\ n \in r.tree.live
      BY <1>2, <1>10 DEF PairNodes
    <3>2. CASE j \in DOMAIN s.shove.stack /\ r.shove.stack[j] = s.shove.stack[j]
      <4>1. s.shove.stack[j] \notin s.tree.chain[n]
        BY <1>1, <3>2 DEF PairStands
      <4> QED
        BY <1>4, <1>10, <3>1, <3>2, <4>1
    <3>3. CASE c.shoves /\ r.shove.stack[j] = f
      BY <1>4, <1>10, <3>1, <3>3
    <3> QED
      BY <1>4, <3>2, <3>3
  <2> QED
    BY <1>6, <1>7, <2>1, <2>2, <2>3 DEF PairStands
<1>12. /\ OthersStay(r.tree, {}) /\ r.tree.view[Root] = s.tree.view[Root]
       /\ \A L, D : PairGround(s, L, D) => PairGround(u, L, D)
  <2>1. \A n \in r.tree.live : \/ n \in s.tree.live /\ r.tree.view[n] = s.tree.view[n]
                               \/ c.shoves /\ n = f /\ r.tree.view[n] = s.tree.view[g] \cup Pushed(p)
    BY <1>4
  <2>2. OthersStay(r.tree, {})
    <3>1. About({}, {}) /\ About(Pushed(p), {})
      BY FactsAbout
    <3>2. \A n \in r.tree.live : \/ n \in s.tree.live /\ r.tree.view[n] = s.tree.view[n]
                                 \/ \E m \in s.tree.live : r.tree.view[n] = (s.tree.view[m] \ {}) \cup Pushed(p)
      BY <1>4, <2>1
    <3> HIDE DEF OthersStay, About
    <3> QED
      BY <1>1, <3>1, <3>2, CalmPatched
  <2>3. r.tree.view[Root] = s.tree.view[Root]
    <3>1. Root \in r.tree.live
      BY <1>4 DEF Standing, TreeOK
    <3> QED
      BY <1>4, <2>1, <3>1
  <2>4. ASSUME NEW L, NEW D, PairGround(s, L, D) PROVE PairGround(u, L, D)
    <3>1. ASSUME NEW n \in PairNodes(u)
          PROVE  /\ n \in r.tree.live
                 /\ n \in PairNodes(s) \/ (c.shoves /\ n = f)
      <4>1. r.shove.current \in PairNodes(s) \/ (c.shoves /\ r.shove.current = f)
        BY <1>2, <1>4
      <4>2. n \in {s.placer.world, r.shove.current, s.placer.fixed, s.shove.root} \cup Frames(r)
        BY <1>4, <1>6, <1>7 DEF PairNodes, Frames
      <4>3. Frames(r) \subseteq PairNodes(s) \cup {f} /\ (~c.shoves => Frames(r) \subseteq Frames(s))
        BY <1>2, <1>4
      <4>4. n # NoNode
        BY DEF PairNodes
      <4>5. n \in r.tree.live
        BY <1>7, <1>9, <1>11, <4>4, PairLive, <2>2 DEF PairSafe
      <4>6. n \in PairNodes(s) \/ (c.shoves /\ n = f)
        BY <1>2, <4>1, <4>2, <4>3, <4>4 DEF PairNodes
      <4> QED
        BY <4>5, <4>6
    <3>2. \A x \in Pushed(p) : ~IsLeg(x) /\ x # Stub
      BY FactsApart DEF Pushed
    <3>3. g \in PairNodes(s)
      BY <1>2, <1>4
    <3>4. \A n \in PairNodes(u) : /\ LegsIn(r.tree, n) = L
                                  /\ Stub \notin r.tree.view[n]
                                  /\ D \subseteq r.tree.view[n]
      <4> TAKE n \in PairNodes(u)
      <4>1. \E m \in PairNodes(s) : r.tree.view[n] = s.tree.view[m] \/ r.tree.view[n] = s.tree.view[m] \cup Pushed(p)
        <5>1. CASE c.shoves /\ n = f
          BY <1>4, <3>3, <5>1
        <5>2. CASE ~(c.shoves /\ n = f)
          BY <2>1, <3>1, <5>2
        <5> QED
          BY <5>1, <5>2
      <4>2. \A m \in PairNodes(s) : /\ {x \in s.tree.view[m] : IsLeg(x)} = L
                                    /\ Stub \notin s.tree.view[m] /\ D \subseteq s.tree.view[m]
        BY <2>4 DEF PairGround, LegsIn
      <4> QED
        BY <3>2, <4>1, <4>2 DEF LegsIn
    <3> QED
      BY <1>7, <3>4 DEF PairGround
  <2> QED
    BY <2>2, <2>3, <2>4
<1>13. Spare(u, 1)
  <2>1. Used(u) \subseteq Used(s) \cup {f} /\ 2 = 1 + 1 /\ Spare(s, 2)
    BY <1>4, <1>9
  <2> QED
    BY <2>1, SpareAfter
<1> QED
  BY <1>1, <1>7, <1>8, <1>9, <1>11, <1>12, <1>13 DEF PairSafe, u

(* The next branch of a placement.                                         *)
PairLastOn(s, p) == LET n == NewIn(s)
                    IN  [s EXCEPT !.tree = Branched(@, s.placer.current, n),
                                  !.placer.last = n, !.placer.end = p]

LEMMA PairLastOnOK ==
  ASSUME NEW s, PairSafe(s), s.placer.last = NoNode, NEW p \in Place, Spare(s, 1)
  PROVE  LET u == PairLastOn(s, p)
         IN  /\ PairSafe(u) /\ u.shove = s.shove /\ u.drag = s.drag
             /\ u.placer = [s.placer EXCEPT !.last = u.placer.last, !.end = p]
             /\ u.tree.view[u.placer.last] = s.tree.view[s.placer.current]
             /\ u.tree.view[Root] = s.tree.view[Root]
             /\ \A L, D : PairGround(s, L, D) => PairGround(u, L, D)
<1> DEFINE u == PairLastOn(s, p)
           n == NewIn(s)
           m == s.placer.current
           v == Branched(s.tree, m, n)
           q == [s.placer EXCEPT !.last = n, !.end = p]
<1>1. /\ s \in PairState /\ s.drag = NoDrag /\ Standing(s) /\ PairStands(s) /\ OthersStay(s.tree, {})
      /\ IsState(s) /\ s.placer \in PlacerType
  BY PairType DEF PairSafe
<1>2. /\ PairNodes(s) \subseteq s.tree.live \ {Root} /\ Root \in s.tree.live /\ TreeOK(s.tree)
      /\ s.tree.live \subseteq Node /\ NoNode \notin s.tree.live
      /\ s.placer.world \in PairNodes(s) /\ s.shove.root \in PairNodes(s)
      /\ Frames(s) \subseteq PairNodes(s) /\ m \in PairNodes(s)
      /\ s.shove.current \in {s.shove.root} \cup Frames(s) /\ s.shove.current \in PairNodes(s)
  BY PairLive
<1>3. n \in Node \ s.tree.live /\ n # NoNode
  BY <1>1, NewInFresh
<1> HIDE DEF n
<1>4. TreeOK(v) /\ Grown(s.tree, v, m, n)
  BY <1>2, <1>3, BranchedOK DEF Grown
<1> HIDE DEF v
<1>5. /\ q \in PlacerType /\ q.world = s.placer.world /\ q.last = n /\ q.fixed = s.placer.fixed
      /\ q.current = m /\ q.end = p
  BY <1>1, <1>3, ZenonT(60) DEF PlacerType, NodeOrNone
<1>6. /\ u \in PairState /\ u.tree = v /\ u.shove = s.shove /\ u.drag = NoDrag /\ u.placer = q
  BY <1>1, <1>4, <1>5 DEF PairLastOn, PairState, TreeOK, n, v
<1> HIDE DEF u, q
<1>7. /\ \A k \in PairNodes(s) : k \in v.live \ {Root, n} /\ v.chain[k] = s.tree.chain[k]
                                  /\ v.view[k] = s.tree.view[k]
      /\ Frames(u) = Frames(s)
  BY <1>2, <1>3, <1>4, <1>6 DEF Grown, Frames
<1>8. HandlesHold(u)
  <2>1. Held(u) \ {NoNode} \subseteq v.live \ {Root}
    <3>1. Held(u) \ {NoNode} = ({s.shove.root, s.shove.current} \cup Frames(s)) \ {NoNode}
      BY <1>6, <1>7, PairType
    <3> QED
      BY <1>2, <1>7, <3>1
  <2> QED
    BY <1>1, <1>6, <2>1 DEF HandlesHold, Standing
<1>9. Standing(u)
  <2>1. \A j \in DOMAIN s.shove.stack :
          /\ s.shove.root # NoNode => s.shove.stack[j] \notin s.tree.chain[s.shove.root]
          /\ \A i \in 1..(j - 1) : s.shove.stack[j] \notin s.tree.chain[s.shove.stack[i]]
    BY <1>1, PairStanding
  <2>2. v.chain[s.shove.root] = s.tree.chain[s.shove.root]
    BY <1>2, <1>7
  <2>3. \A j \in DOMAIN s.shove.stack : \A i \in 1..(j - 1) : v.chain[s.shove.stack[i]] = s.tree.chain[s.shove.stack[i]]
    <3>1. \A j \in DOMAIN s.shove.stack : s.shove.stack[j] \in PairNodes(s)
      <4>1. \A j \in DOMAIN s.shove.stack : s.shove.stack[j] \in Frames(s)
        BY <1>1, PairType
      <4> QED
        BY <1>2, <4>1
    <3>2. \A j \in DOMAIN s.shove.stack : \A i \in 1..(j - 1) : i \in DOMAIN s.shove.stack
      BY <1>1, PairType, StateType
    <3> QED
      BY <1>7, <3>1, <3>2
  <2> QED
    BY <1>4, <1>6, <1>8, <2>1, <2>2, <2>3, PairStanding
<1>10. PairStands(u)
  <2>1. \A j \in DOMAIN s.shove.stack : \A k \in {s.placer.world, s.placer.fixed} \ {NoNode} :
          s.shove.stack[j] \notin v.chain[k]
    <3>1. \A k \in {s.placer.world, s.placer.fixed} \ {NoNode} : k \in PairNodes(s)
      BY DEF PairNodes
    <3> QED
      BY <1>1, <1>7, <3>1 DEF PairStands
  <2>2. Subtree(v, n) = {n}
    <3>1. \A k \in s.tree.live : n \notin s.tree.chain[k]
      BY <1>2, <1>3 DEF TreeOK
    <3> QED
      BY <1>4, <3>1 DEF Subtree, Grown
  <2>3. /\ s.placer.world # NoNode /\ s.shove.root # NoNode /\ m \in {s.placer.world, s.shove.current}
    BY <1>1 DEF PairStands
  <2>4. n \notin {s.placer.world, s.placer.fixed, s.shove.root} \cup Frames(s)
    <3>1. s.placer.fixed # NoNode => s.placer.fixed \in PairNodes(s)
      BY DEF PairNodes
    <3> QED
      BY <1>2, <1>3, <1>7, <3>1
  <2>5. {s.placer.world, m, n, s.placer.fixed} \ {NoNode} \subseteq v.live \ {Root}
    <3>1. s.placer.fixed # NoNode => s.placer.fixed \in PairNodes(s)
      BY DEF PairNodes
    <3>2. n \in v.live /\ n # Root
      BY <1>2, <1>3, <1>4 DEF Grown
    <3> QED
      BY <1>2, <1>7, <3>1, <3>2
  <2> QED
    BY <1>5, <1>6, <1>7, <2>1, <2>2, <2>3, <2>4, <2>5 DEF PairStands
<1>11. OthersStay(v, {})
  BY <1>1, <1>2, <1>4, CalmGrown
<1>12. /\ v.view[n] = s.tree.view[m] /\ v.view[Root] = s.tree.view[Root]
  BY <1>2, <1>4 DEF Grown
<1>13. ASSUME NEW L, NEW D, PairGround(s, L, D) PROVE PairGround(u, L, D)
  <2>1. PairNodes(u) \subseteq PairNodes(s) \cup {n}
    BY <1>5, <1>6, <1>7 DEF PairNodes
  <2> QED
    BY <1>2, <1>6, <1>7, <1>12, <1>13, <2>1 DEF PairGround, LegsIn
<1> QED
  BY <1>5, <1>6, <1>9, <1>10, <1>11, <1>12, <1>13 DEF PairSafe, q, u

(* A placement begins anew on a node.                                      *)
LEMMA RestartedOK ==
  ASSUME NEW s, s \in PairState, s.drag = NoDrag, TreeOK(s.tree), OthersStay(s.tree, {}),
         NEW from \in s.tree.live, Spare(s, 2),
         s.placer.fixed # NoNode => s.placer.fixed \in s.tree.live \ {Root}
  PROVE  LET u == Restarted(s, from)
         IN  /\ PairSafe(u) /\ u.drag = s.drag
             /\ u.placer = [s.placer EXCEPT !.world = u.placer.world, !.current = u.placer.world,
                                            !.last = NoNode]
             /\ u.shove.stack = <<>>
             /\ u.tree.view[Root] = s.tree.view[Root]
             /\ \A k \in PairNodes(u) : \/ u.tree.view[k] = s.tree.view[from]
                                        \/ k = s.placer.fixed /\ u.tree.view[k] = s.tree.view[k]
             /\ \A k \in Nat : Spare(s, k + 2) => Spare(u, k)
<1> DEFINE w == NewIn(s)
           b == [s EXCEPT !.tree = Branched(@, from, w)]
           g == NewIn(b)
           u == Restarted(s, from)
           t1 == Branched(s.tree, from, w)
           t2 == Branched(t1, w, g)
           q == [s.placer EXCEPT !.world = w, !.current = w, !.last = NoNode]
           h == [NoShove EXCEPT !.root = g, !.current = g]
<1>1. /\ IsState(s) /\ s.placer \in PlacerType /\ Root \in s.tree.live
      /\ s.tree.live \subseteq Node /\ s.tree \in Tree(Fact)
  BY PairType, StateType DEF TreeOK
<1>2. w \in Node \ Used(s) /\ w \notin s.tree.live /\ w # NoNode
  <2>1. Spare(s, 1)
    BY SpareMonotone
  <2> QED
    BY <1>1, <2>1, NewInFresh
<1> HIDE DEF w
<1>3. TreeOK(t1) /\ Grown(s.tree, t1, from, w)
  BY <1>2, BranchedOK DEF Grown
<1> HIDE DEF t1
<1>4. /\ b \in PairState /\ b.tree = t1 /\ b.drag = s.drag /\ b.shove = s.shove /\ b.placer = s.placer
  BY <1>3 DEF PairState, TreeOK, t1
<1> HIDE DEF b
<1>5. Used(b) \subseteq Used(s) \cup {w}
  <2>1. Held(b) = Held(s)
    BY <1>4 DEF Held
  <2> QED
    BY <1>3, <1>4, <2>1 DEF Used, Grown
<1>6. Spare(b, 1)
  <2>1. Spare(s, 2) /\ 2 = 1 + 1
    OBVIOUS
  <2> QED
    BY <1>5, <2>1, SpareAfter
<1>7. g \in Node \ Used(b) /\ g \notin t1.live /\ g # NoNode
  BY <1>4, <1>6, NewInFresh DEF IsState
<1> HIDE DEF g
<1>8. TreeOK(t2) /\ Grown(t1, t2, w, g)
  <2>1. w \in t1.live
    BY <1>3 DEF Grown
  <2> QED
    BY <1>3, <1>7, <2>1, BranchedOK DEF Grown
<1>9. /\ q \in PlacerType /\ q.world = w /\ q.current = w /\ q.last = NoNode /\ q.fixed = s.placer.fixed
  BY <1>1, <1>2 DEF PlacerType, NodeOrNone
<1>10. h \in ShoveType /\ h.root = g /\ h.current = g /\ h.stack = <<>>
  BY <1>7, NoDragIs DEF ShoveType, NodeOrNone
<1>11. u = [[[b EXCEPT !.tree = t2] EXCEPT !.shove = h] EXCEPT !.placer = q]
  <2>1. u = [b EXCEPT !.tree = Branched(@, w, g), !.shove = h,
                      !.placer = [@ EXCEPT !.world = w, !.current = w, !.last = NoNode]]
    BY DEF Restarted, b, g, w
  <2> HIDE DEF u, h
  <2> QED
    BY <1>4, <2>1 DEF PairState
<1> HIDE DEF t2, q, h, u
<1>12. /\ u \in PairState /\ u.tree = t2 /\ u.drag = s.drag /\ u.shove = h /\ u.placer = q
  BY <1>4, <1>8, <1>9, <1>10, <1>11 DEF PairState, TreeOK
<1>13. /\ t2.live = s.tree.live \cup {w, g} /\ w # g
       /\ t2.view[w] = s.tree.view[from] /\ t2.view[g] = s.tree.view[from]
       /\ \A k \in s.tree.live : t2.view[k] = s.tree.view[k]
  BY <1>2, <1>3, <1>7, <1>8 DEF Grown
<1>14. Frames(u) = {} /\ DOMAIN u.shove.stack = {}
  BY <1>10, <1>12 DEF Frames, ToSet
<1>15. w # Root /\ g # Root
  BY <1>1, <1>2, <1>3, <1>7 DEF Grown
<1>16. Standing(u)
  <2>1. Held(u) \ {NoNode} = {g}
    <3>1. Held(u) \ {NoNode} = ({u.shove.root, u.shove.current} \cup Frames(u)) \ {NoNode}
      BY <1>12, PairType
    <3> QED
      BY <1>7, <1>10, <1>12, <1>14, <3>1
  <2>2. HandlesHold(u)
    BY <1>10, <1>12, <1>13, <1>15, <2>1 DEF HandlesHold
  <2> QED
    BY <1>8, <1>12, <1>14, <2>2, PairStanding
<1>17. PairStands(u)
  BY <1>2, <1>7, <1>9, <1>10, <1>12, <1>13, <1>14, <1>15 DEF PairStands
<1>18. OthersStay(t2, {})
  <2>1. OthersStay(t1, {})
    BY <1>3, CalmGrown
  <2>2. w \in t1.live
    BY <1>3 DEF Grown
  <2> QED
    BY <1>8, <2>1, <2>2, CalmGrown
<1>19. PairNodes(u) \subseteq {w, g, s.placer.fixed}
  BY <1>9, <1>10, <1>12, <1>14 DEF PairNodes
<1>20. \A k \in PairNodes(u) : \/ t2.view[k] = s.tree.view[from]
                               \/ k = s.placer.fixed /\ t2.view[k] = s.tree.view[k]
  <2>1. NoNode \notin PairNodes(u)
    BY DEF PairNodes
  <2> QED
    BY <1>13, <1>19, <2>1
<1>21. ASSUME NEW k \in Nat, Spare(s, k + 2) PROVE Spare(u, k)
  <2>1. Used(u) \subseteq Used(s) \cup {w} \cup {g}
    BY <1>12, <1>13, <1>16 DEF Used, Standing, HandlesHold
  <2>2. Spare(b, k + 1)
    <3>1. k + 2 = (k + 1) + 1 /\ k + 1 \in Nat /\ k + 2 \in Nat
      OBVIOUS
    <3> QED
      BY <1>5, <1>21, <3>1, SpareAfter
  <2>3. Used(u) \subseteq Used(b) \cup {g}
    <3>1. Held(u) \ {NoNode} \subseteq t2.live
      BY <1>12, <1>16 DEF Standing, HandlesHold
    <3>2. t2.live = t1.live \cup {g} /\ NoNode \notin t2.live
      BY <1>1, <1>2, <1>7, <1>8, <1>13, NodeType DEF Grown
    <3>3. t1.live \subseteq Used(b)
      BY <1>1, <1>2, <1>3, <1>4, NodeType DEF Used, Grown
    <3> QED
      BY <1>12, <3>1, <3>2, <3>3 DEF Used
  <2>4. k + 1 \in Nat
    OBVIOUS
  <2> QED
    BY <2>2, <2>3, <2>4, SpareAfter
<1> QED
  <2>1. PairSafe(u)
    BY <1>12, <1>16, <1>17, <1>18 DEF PairSafe
  <2>2. u.placer = [s.placer EXCEPT !.world = u.placer.world, !.current = u.placer.world, !.last = NoNode]
    BY <1>9, <1>12 DEF q
  <2> QED
    BY <1>1, <1>10, <1>12, <1>13, <1>20, <1>21, <2>1, <2>2 DEF u

(* How a move of a pair may come out.                                      *)
PairOutcome(s, c) ==
    /\ setting.mode = "shove" => c.k \in Kept(s)
    /\ c \in [k : Nat, shoves : BOOLEAN, walks : BOOLEAN, snap : BOOLEAN,
             fits : {"fits", "sticky", "lost"}]
Traced(q) == /\ q.ok => q.trace # "none"
             /\ q.trace # "none" => q.leg = Len(fixes) + 1 /\ q.at \in Place
SamePair(q, r) == /\ r.world = q.world /\ r.last = q.last /\ r.fixed = q.fixed
                  /\ r.kind = q.kind /\ r.pieces = q.pieces /\ r.end = q.end

LEMMA HeadedOK ==
  ASSUME NEW s, s \in PairState, s.drag = NoDrag, Traced(s.placer), NEW p \in Place,
         NEW c, c.snap \in BOOLEAN, c.fits \in {"fits", "sticky", "lost"}, Len(fixes) \in Nat
  PROVE  LET h == Headed(s, p, c)
             q == h.placer
         IN  /\ h = [s EXCEPT !.placer = q] /\ q \in PlacerType
             /\ SamePair(s.placer, q) /\ q.current = s.placer.current
             /\ ~q.fit /\ Traced(q)
             /\ Routable(s, c) => q.trace # "none"
<1> DEFINE h == Headed(s, p, c)
           from == [s.placer EXCEPT !.fit = FALSE,
                                    !.prev = IF @ = "unset" THEN s.placer.start ELSE @]
           fits == [from EXCEPT !.trace = "straight", !.at = p,
                                !.leg = Len(fixes) + 1, !.ok = TRUE,
                                !.vias = s.placer.placing_via, !.snap = c.snap]
           sticky == [from EXCEPT !.snap = c.snap]
           q == CASE c.fits = "fits" -> fits [] c.fits = "sticky" -> sticky [] c.fits = "lost" -> from
<1>1. s.placer \in PlacerType
  BY PairType
<1>2. from \in PlacerType /\ SamePair(s.placer, from) /\ from.current = s.placer.current
      /\ ~from.fit /\ from.trace = s.placer.trace /\ from.leg = s.placer.leg /\ from.at = s.placer.at
      /\ from.ok = s.placer.ok
  BY <1>1, ZenonT(60) DEF PlacerType, SamePair
<1> HIDE DEF from
<1>3. fits \in PlacerType /\ SamePair(s.placer, fits) /\ fits.current = s.placer.current
      /\ ~fits.fit /\ fits.trace = "straight" /\ fits.leg = Len(fixes) + 1 /\ fits.at = p
  <2> DEFINE leg == Len(fixes) + 1
  <2>1. leg \in Nat
    OBVIOUS
  <2>2. fits = [from EXCEPT !.trace = "straight", !.at = p, !.leg = leg, !.ok = TRUE,
                            !.vias = s.placer.placing_via, !.snap = c.snap]
    OBVIOUS
  <2>3. s.placer.placing_via \in BOOLEAN
    BY <1>1 DEF PlacerType
  <2> HIDE DEF leg, fits
  <2>4. fits \in PlacerType
    BY <1>2, <2>1, <2>2, <2>3 DEF PlacerType
  <2>5. /\ SamePair(from, fits) /\ fits.current = from.current
        /\ fits.fit = from.fit /\ fits.trace = "straight" /\ fits.leg = leg /\ fits.at = p
    BY <1>2, <2>2 DEF PlacerType, SamePair
  <2> QED
    BY <1>2, <2>4, <2>5 DEF SamePair, leg
<1>4. sticky \in PlacerType /\ SamePair(s.placer, sticky) /\ sticky.current = s.placer.current
      /\ ~sticky.fit /\ sticky.trace = s.placer.trace /\ sticky.leg = s.placer.leg /\ sticky.at = s.placer.at
      /\ sticky.ok = s.placer.ok
  BY <1>2 DEF PlacerType, SamePair
<1> HIDE DEF fits, sticky
<1>5. h = [s EXCEPT !.placer = q]
  BY DEF Headed, from, fits, sticky
<1>6. h.placer = q
  BY <1>5 DEF PairState
<1>7. /\ q \in PlacerType /\ SamePair(s.placer, q) /\ q.current = s.placer.current
      /\ ~q.fit /\ Traced(q) /\ (Routable(s, c) => q.trace # "none")
  <2>1. CASE c.fits = "fits"
    BY <1>3, <2>1 DEF Traced
  <2>2. CASE c.fits = "sticky"
    BY <1>4, <2>2 DEF Traced, Routable
  <2>3. CASE c.fits = "lost"
    BY <1>2, <2>3 DEF Traced, Routable
  <2> QED
    BY <2>1, <2>2, <2>3
<1> HIDE DEF h, q
<1> QED
  BY <1>5, <1>6, <1>7 DEF h

(* What a pair's route comes to, before the next branch is made.           *)
PairKeeps(s, u) ==
    /\ PairSafe(u) /\ u.drag = s.drag
    /\ u.placer.last = NoNode /\ u.placer.fixed = s.placer.fixed
    /\ u.placer.kind = s.placer.kind /\ u.placer.pieces = s.placer.pieces
    /\ u.tree.view[Root] = s.tree.view[Root]
    /\ \A L, D : PairGround(s, L, D) => PairGround(u, L, D)
Routed(s, u) == /\ PairKeeps(s, u) /\ Traced(u.placer)
                /\ u.placer.fit => Free(u, u.placer.current)
                /\ Spare(u, 1)

LEMMA PairHeaded ==
  ASSUME NEW s, PairSafe(s), s.placer.last = NoNode, Traced(s.placer), Spare(s, 2),
         NEW p \in Place, NEW c, PairOutcome(s, c), Len(fixes) \in Nat
  PROVE  LET h == Headed(s, p, c)
         IN  /\ PairKeeps(s, h) /\ h.placer \in PlacerType /\ h.tree = s.tree /\ h.shove = s.shove
             /\ Spare(h, 2) /\ Spare(h, 1) /\ ~h.placer.fit /\ Traced(h.placer)
             /\ SamePair(s.placer, h.placer) /\ h.placer.current = s.placer.current
             /\ Routable(s, c) => h.placer.trace # "none"
<1> DEFINE h == Headed(s, p, c)
           q == h.placer
<1>1. /\ h = [s EXCEPT !.placer = q] /\ q \in PlacerType
      /\ SamePair(s.placer, q) /\ q.current = s.placer.current
      /\ ~q.fit /\ Traced(q)
      /\ Routable(s, c) => q.trace # "none"
  <2>1. /\ s \in PairState /\ s.drag = NoDrag /\ c.snap \in BOOLEAN /\ c.fits \in {"fits", "sticky", "lost"}
    BY DEF PairSafe, PairOutcome
  <2> QED
    BY <2>1, HeadedOK
<1> HIDE DEF h
<1>2. /\ PairSafe(h) /\ h.tree = s.tree /\ h.shove = s.shove /\ h.drag = s.drag
      /\ \A L, D : PairGround(s, L, D) => PairGround(h, L, D)
      /\ Used(h) = Used(s)
  <2>1. LET u == [s EXCEPT !.placer = q]
        IN  /\ PairSafe(u) /\ u.tree = s.tree /\ u.shove = s.shove /\ u.placer = q
            /\ u.drag = s.drag
            /\ \A L, D : PairGround(s, L, D) => PairGround(u, L, D)
            /\ Used(u) = Used(s)
    BY <1>1, PlacerFields DEF SamePair
  <2> QED
    BY <1>1, <2>1
<1>3. Spare(h, 2) /\ Spare(h, 1)
  BY <1>2, SpareMonotone
<1> QED
  BY <1>1, <1>2, <1>3 DEF PairKeeps, SamePair, h

(* Fields that are set after the head was routed.                          *)
LEMMA PairRetraced ==
  ASSUME NEW s, NEW h, PairKeeps(s, h), NEW q \in PlacerType, SamePair(h.placer, q),
         q.current \in {h.placer.current, h.shove.current}
  PROVE  LET u == [h EXCEPT !.placer = q]
         IN  /\ PairKeeps(s, u) /\ u.placer = q /\ u.tree = h.tree /\ u.shove = h.shove
             /\ Used(u) = Used(h)
<1> DEFINE u == [h EXCEPT !.placer = q]
<1>1. /\ PairSafe(u) /\ u.tree = h.tree /\ u.shove = h.shove /\ u.placer = q
      /\ u.drag = h.drag
      /\ \A L, D : PairGround(h, L, D) => PairGround(u, L, D)
      /\ Used(u) = Used(h)
  BY PlacerFields DEF PairKeeps, SamePair
<1> HIDE DEF u
<1> QED
  BY <1>1 DEF PairKeeps, SamePair, u

LEMMA PairMarkOK ==
  ASSUME NEW s, PairSafe(s), s.placer.last = NoNode, Traced(s.placer), Spare(s, 2),
         NEW p \in Place, NEW c, PairOutcome(s, c), Len(fixes) \in Nat
  PROVE  Routed(s, PairMark(s, p, c))
<1> DEFINE h == Headed(s, p, c)
           u == PairMark(s, p, c)
           fit == Free(h, h.placer.current)
           q == [h.placer EXCEPT !.fit = fit]
<1>1. /\ PairKeeps(s, h) /\ h.placer \in PlacerType /\ h.tree = s.tree
      /\ Spare(h, 1) /\ ~h.placer.fit /\ Traced(h.placer)
  BY PairHeaded
<1>2. u = IF ~Routable(s, c) THEN h ELSE [h EXCEPT !.placer.fit = fit]
  BY DEF PairMark
<1> HIDE DEF h, u
<1>3. CASE ~Routable(s, c)
  BY <1>1, <1>2, <1>3 DEF Routed, u
<1>4. CASE Routable(s, c)
  <2>1. h \in PairState /\ u = [h EXCEPT !.placer = q]
    BY <1>1, <1>2, <1>4 DEF PairKeeps, PairSafe, PairState
  <2>2. fit \in BOOLEAN
    BY DEF Free
  <2>3. /\ q \in PlacerType /\ SamePair(h.placer, q) /\ q.current = h.placer.current
        /\ q.trace = h.placer.trace /\ q.at = h.placer.at /\ q.fit = fit /\ Traced(q)
    <3> HIDE DEF fit
    <3>1. /\ q \in PlacerType /\ SamePair(h.placer, q) /\ q.current = h.placer.current
          /\ q.trace = h.placer.trace /\ q.at = h.placer.at /\ q.fit = fit
          /\ q.ok = h.placer.ok /\ q.leg = h.placer.leg
      BY <1>1, <2>2 DEF PlacerType, SamePair
    <3> QED
      BY <1>1, <3>1 DEF Traced
  <2> HIDE DEF q
  <2>4. PairKeeps(s, u) /\ u.placer = q /\ u.tree = h.tree /\ Used(u) = Used(h)
    BY <1>1, <2>1, <2>3, PairRetraced
  <2>5. u.placer.fit => Free(u, u.placer.current)
    BY <2>3, <2>4 DEF Free
  <2>6. Spare(u, 1)
    BY <1>1, <2>4 DEF Spare
  <2> QED
    BY <2>3, <2>4, <2>5, <2>6 DEF Routed, u
<1> QED
  BY <1>3, <1>4

LEMMA PairWalkOK ==
  ASSUME NEW s, PairSafe(s), s.placer.last = NoNode, Traced(s.placer), Spare(s, 2),
         NEW p \in Place, NEW c, PairOutcome(s, c), Len(fixes) \in Nat
  PROVE  Routed(s, PairWalk(s, p, c))
<1> DEFINE h == Headed(s, p, c)
           u == PairWalk(s, p, c)
           meets == ~Free(h, h.placer.current)
           trace == IF ~meets THEN h.placer.trace ELSE IF c.walks THEN "walked" ELSE "empty"
           q == [[h.placer EXCEPT !.trace = trace] EXCEPT !.fit = TRUE]
<1>1. /\ PairKeeps(s, h) /\ h.placer \in PlacerType /\ h.tree = s.tree
      /\ Spare(h, 1) /\ ~h.placer.fit /\ Traced(h.placer)
      /\ Routable(s, c) => h.placer.trace # "none"
  BY PairHeaded
<1>2. /\ u = IF ~Routable(s, c) THEN h ELSE [Walked(h, meets, c) EXCEPT !.placer.fit = TRUE]
      /\ Walked(h, meets, c) = [h EXCEPT !.placer.trace = trace]
  <2>1. u = IF ~Routable(s, c) THEN h ELSE [Walked(h, meets, c) EXCEPT !.placer.fit = TRUE]
    BY DEF PairWalk
  <2> HIDE DEF meets, h, u
  <2>2. Walked(h, meets, c) = [h EXCEPT !.placer.trace = trace]
    BY DEF Walked
  <2> QED
    BY <2>1, <2>2
<1> HIDE DEF h, u
<1>3. CASE ~Routable(s, c)
  BY <1>1, <1>2, <1>3 DEF Routed, u
<1>4. CASE Routable(s, c)
  <2>0. trace \in {"none", "straight", "walked", "empty"} /\ trace # "none"
        /\ (trace = "straight" => ~meets)
    BY <1>1, <1>4 DEF PlacerType, Free
  <2> HIDE DEF trace
  <2>1. h \in PairState /\ u = [h EXCEPT !.placer = q]
    BY <1>1, <1>2, <1>4 DEF PairKeeps, PairSafe, PairState
  <2>3. /\ q \in PlacerType /\ SamePair(h.placer, q) /\ q.current = h.placer.current
        /\ q.trace = trace /\ q.at = h.placer.at /\ q.fit /\ Traced(q)
    <3>1. /\ q \in PlacerType /\ SamePair(h.placer, q) /\ q.current = h.placer.current
          /\ q.trace = trace /\ q.at = h.placer.at /\ q.fit = TRUE
          /\ q.ok = h.placer.ok /\ q.leg = h.placer.leg
      BY <1>1, <2>0, ZenonT(60) DEF PlacerType, SamePair
    <3> QED
      BY <1>1, <1>4, <2>0, <3>1 DEF Traced
  <2> HIDE DEF q
  <2>4. PairKeeps(s, u) /\ u.placer = q /\ u.tree = h.tree /\ Used(u) = Used(h)
    BY <1>1, <2>1, <2>3, PairRetraced
  <2>5. Free(u, u.placer.current)
    BY <2>0, <2>3, <2>4 DEF Free, trace
  <2>6. Spare(u, 1)
    BY <1>1, <2>4 DEF Spare
  <2> QED
    BY <2>3, <2>4, <2>5, <2>6 DEF Routed, u
<1> QED
  BY <1>3, <1>4

LEMMA PairShoveOK ==
  ASSUME NEW s, PairSafe(s), s.placer.last = NoNode, Traced(s.placer), Spare(s, 2),
         NEW p \in Place, NEW c, PairOutcome(s, c), c.k \in Kept(s), Len(fixes) \in Nat
  PROVE  Routed(s, PairShove(s, p, c))
<1> DEFINE e == [s EXCEPT !.placer.current = s.shove.current]
           qe == [s.placer EXCEPT !.current = s.shove.current]
           h == Headed(e, p, c)
           trace == IF c.walks THEN h.placer.trace ELSE "empty"
           solid == [h EXCEPT !.placer.trace = IF c.walks THEN @ ELSE "empty"]
           qs == [h.placer EXCEPT !.trace = trace]
           head == IF solid.placer.trace = "straight" THEN solid.placer.at ELSE Nowhere
           shoves == c.shoves /\ solid.placer.trace # "empty"
           cc == [c EXCEPT !.shoves = shoves]
           stands == PairRan(solid, head, cc)
           fit == shoves /\ Free(stands, stands.placer.current)
           qf == [stands.placer EXCEPT !.fit = fit]
           u == PairShove(s, p, c)
<1>1. u = IF ~Routable(s, c) THEN h ELSE [stands EXCEPT !.placer.fit = fit]
  BY DEF PairShove, PairRan
<1> HIDE DEF u
<1>2. /\ PairSafe(e) /\ e.tree = s.tree /\ e.shove = s.shove /\ e.placer = qe /\ e.drag = s.drag
      /\ \A L, D : PairGround(s, L, D) => PairGround(e, L, D)
      /\ Used(e) = Used(s)
      /\ SamePair(s.placer, qe) /\ qe.current = s.shove.current /\ qe.ok = s.placer.ok /\ Traced(qe)
  <2>1. s \in PairState /\ s.placer \in PlacerType /\ s.shove.current \in NodeOrNone
    BY PairType DEF PairSafe
  <2>2. e = [s EXCEPT !.placer = qe]
    BY <2>1 DEF PairState
  <2>3. /\ qe \in PlacerType /\ SamePair(s.placer, qe) /\ qe.current = s.shove.current
        /\ qe.ok = s.placer.ok /\ qe.trace = s.placer.trace /\ qe.leg = s.placer.leg
        /\ qe.at = s.placer.at
    BY <2>1 DEF PlacerType, SamePair
  <2> HIDE DEF qe, e
  <2>4. LET z == [s EXCEPT !.placer = qe]
        IN  /\ PairSafe(z) /\ z.tree = s.tree /\ z.shove = s.shove /\ z.placer = qe
            /\ z.drag = s.drag
            /\ \A L, D : PairGround(s, L, D) => PairGround(z, L, D)
            /\ Used(z) = Used(s)
    BY <2>3, PlacerFields DEF SamePair
  <2>5. Traced(qe)
    BY <2>3 DEF Traced
  <2> QED
    BY <2>2, <2>3, <2>4, <2>5
<1>3. PairKeeps(s, e) /\ Spare(e, 2) /\ PairOutcome(e, c) /\ e.placer.last = NoNode /\ Traced(e.placer)
      /\ (Routable(s, c) <=> Routable(e, c)) /\ c.k \in Kept(e)
  <2> HIDE DEF e, qe
  <2>1. PairKeeps(s, e) /\ Spare(e, 2) /\ e.placer.last = NoNode /\ Traced(e.placer)
    BY <1>2 DEF PairKeeps, Spare, SamePair
  <2>2. PairOutcome(e, c) /\ c.k \in Kept(e)
    BY <1>2 DEF PairOutcome, Kept
  <2>3. Routable(s, c) <=> Routable(e, c)
    BY <1>2 DEF Routable
  <2> QED
    BY <2>1, <2>2, <2>3
<1> HIDE DEF e, qe
<1>4. /\ PairKeeps(e, h) /\ h.placer \in PlacerType /\ h.tree = e.tree /\ h.shove = e.shove
      /\ Spare(h, 2) /\ Spare(h, 1) /\ ~h.placer.fit /\ Traced(h.placer)
      /\ SamePair(e.placer, h.placer) /\ h.placer.current = e.placer.current
      /\ Routable(e, c) => h.placer.trace # "none"
  BY <1>2, <1>3, PairHeaded
<1> HIDE DEF h
<1>5. PairKeeps(s, h)
  BY <1>3, <1>4 DEF PairKeeps
<1>6. CASE ~Routable(s, c)
  BY <1>1, <1>4, <1>5, <1>6 DEF Routed, u
<1>7. CASE Routable(s, c)
  <2>1. trace \in {"none", "straight", "walked", "empty"} /\ trace # "none"
    BY <1>3, <1>4, <1>7 DEF PlacerType
  <2>2. h \in PairState /\ solid = [h EXCEPT !.placer = qs]
    BY <1>4 DEF PairKeeps, PairSafe, PairState
  <2> HIDE DEF trace, solid
  <2>3. /\ qs \in PlacerType /\ SamePair(h.placer, qs) /\ qs.current = h.placer.current
        /\ qs.trace = trace /\ Traced(qs)
    <3>1. /\ qs \in PlacerType /\ SamePair(h.placer, qs) /\ qs.current = h.placer.current
          /\ qs.trace = trace /\ qs.at = h.placer.at /\ qs.ok = h.placer.ok /\ qs.leg = h.placer.leg
      BY <1>4, <2>1 DEF PlacerType, SamePair
    <3> QED
      BY <1>3, <1>4, <1>7, <2>1, <3>1 DEF Traced
  <2> HIDE DEF qs
  <2>4. PairKeeps(s, solid) /\ solid.placer = qs /\ solid.tree = h.tree /\ solid.shove = h.shove
        /\ Used(solid) = Used(h)
    BY <1>5, <2>2, <2>3, PairRetraced
  <2>5. /\ PairSafe(solid) /\ solid.placer.last = NoNode /\ Spare(solid, 2) /\ Traced(solid.placer)
    BY <1>4, <2>3, <2>4 DEF PairKeeps, Spare
  <2>6. /\ cc.k \in Kept(solid) /\ cc.shoves \in BOOLEAN
    <3>1. cc.k = c.k /\ cc.shoves = shoves
      BY DEF PairOutcome
    <3> QED
      BY <1>3, <1>4, <2>4, <3>1 DEF Kept
  <2> HIDE DEF cc, head
  <2>7. /\ PairSafe(stands) /\ stands.placer = [solid.placer EXCEPT !.current = stands.shove.current]
        /\ stands.drag = solid.drag /\ stands.tree.view[Root] = solid.tree.view[Root]
        /\ \A L, D : PairGround(solid, L, D) => PairGround(stands, L, D)
        /\ Spare(stands, 1)
    BY <2>5, <2>6, PairRanOK
  <2> HIDE DEF stands
  <2>8. /\ stands.placer \in PlacerType /\ SamePair(solid.placer, stands.placer) /\ Traced(stands.placer)
        /\ stands \in PairState
    <3>1. stands \in PairState /\ stands.placer \in PlacerType /\ solid.placer \in PlacerType
      BY <2>5, <2>7, PairType DEF PairSafe
    <3>2. /\ SamePair(solid.placer, stands.placer) /\ stands.placer.trace = solid.placer.trace
          /\ stands.placer.ok = solid.placer.ok /\ stands.placer.leg = solid.placer.leg
          /\ stands.placer.at = solid.placer.at
      BY <2>7, <3>1 DEF PlacerType, SamePair
    <3> QED
      BY <2>5, <3>1, <3>2 DEF Traced
  <2>9. PairKeeps(s, stands)
    BY <2>4, <2>7, <2>8 DEF PairKeeps, SamePair
  <2>10. u = [stands EXCEPT !.placer = qf]
    BY <1>1, <1>7, <2>8 DEF PairState
  <2>11. fit \in BOOLEAN
    BY DEF Free
  <2>12. /\ qf \in PlacerType /\ SamePair(stands.placer, qf) /\ qf.current = stands.placer.current
         /\ qf.trace = stands.placer.trace /\ qf.at = stands.placer.at /\ qf.fit = fit /\ Traced(qf)
    <3> HIDE DEF fit
    <3>1. /\ qf \in PlacerType /\ SamePair(stands.placer, qf) /\ qf.current = stands.placer.current
          /\ qf.trace = stands.placer.trace /\ qf.at = stands.placer.at /\ qf.fit = fit
          /\ qf.ok = stands.placer.ok /\ qf.leg = stands.placer.leg
      BY <2>8, <2>11 DEF PlacerType, SamePair
    <3> QED
      BY <2>8, <3>1 DEF Traced
  <2> HIDE DEF qf
  <2>13. PairKeeps(s, u) /\ u.placer = qf /\ u.tree = stands.tree /\ Used(u) = Used(stands)
    BY <2>9, <2>10, <2>12, PairRetraced
  <2>14. u.placer.fit => Free(u, u.placer.current)
    BY <2>12, <2>13 DEF Free
  <2>15. Spare(u, 1)
    BY <2>7, <2>13 DEF Spare
  <2> QED
    BY <2>12, <2>13, <2>14, <2>15 DEF Routed, u
<1> QED
  BY <1>6, <1>7

LEMMA PairRouteOK ==
  ASSUME NEW s, PairSafe(s), s.placer.last = NoNode, Traced(s.placer), Spare(s, 2),
         NEW p \in Place, NEW c, PairOutcome(s, c), TypeOK
  PROVE  Routed(s, PairRoute(s, p, c))
<1>1. setting.mode \in {"mark", "walk", "shove"} /\ Len(fixes) \in Nat
  BY AssumeSettings DEF TypeOK
<1>2. CASE setting.mode = "mark"
  <2>1. PairRoute(s, p, c) = PairMark(s, p, c)
    BY <1>2 DEF PairRoute
  <2> QED
    BY <1>1, <2>1, PairMarkOK
<1>3. CASE setting.mode = "walk"
  <2>1. PairRoute(s, p, c) = PairWalk(s, p, c)
    BY <1>3 DEF PairRoute
  <2> QED
    BY <1>1, <2>1, PairWalkOK
<1>4. CASE setting.mode = "shove"
  <2>1. PairRoute(s, p, c) = PairShove(s, p, c) /\ c.k \in Kept(s)
    BY <1>4 DEF PairRoute, PairOutcome
  <2> QED
    BY <1>1, <2>1, PairShoveOK
<1> QED
  BY <1>1, <1>2, <1>3, <1>4

(* What a move of a pair comes to.                                         *)
PairArrived(s, u, p) ==
    /\ PairSafe(u) /\ u.drag = s.drag
    /\ u.placer.fixed = s.placer.fixed
    /\ u.placer.kind = s.placer.kind /\ u.placer.pieces = s.placer.pieces
    /\ u.placer.end = p
    /\ u.tree.view[Root] = s.tree.view[Root]
    /\ \A L, D : PairGround(s, L, D) => PairGround(u, L, D)
    /\ Traced(u.placer)
    /\ u.placer.fit /\ u.placer.last # NoNode => Free(u, u.placer.last)

LEMMA PairMovedOK ==
  ASSUME NEW s, PairSafe(s), Traced(s.placer), Spare(s, 2),
         NEW p \in Place, NEW c, PairOutcome(s, c), TypeOK
  PROVE  PairArrived(s, PairMoved(s, p, c), p)
<1> DEFINE q == [s.placer EXCEPT !.last = NoNode, !.fit = FALSE, !.resized = FALSE]
           clear == PairCleared(s, q)
           routed == PairRoute(clear, p, c)
           u == PairLastOn(routed, p)
<1>1. s \in PairState /\ s.placer \in PlacerType /\ s.shove \in ShoveType
  BY PairType DEF PairSafe
<1>2. PairMoved(s, p, c) = u
  <2>1. clear = [s EXCEPT !.tree = Dropped(@, s.placer.last), !.placer.last = NoNode,
                          !.placer.fit = FALSE, !.placer.resized = FALSE]
    BY <1>1 DEF PairCleared, PairState
  <2> HIDE DEF clear
  <2> QED
    BY <2>1 DEF PairMoved, PairLastOn
<1>3. /\ q \in PlacerType /\ q.world = s.placer.world /\ q.last = NoNode /\ q.fixed = s.placer.fixed
      /\ q.current = s.placer.current /\ q.kind = s.placer.kind /\ q.pieces = s.placer.pieces
      /\ Traced(q)
  <2>1. /\ q \in PlacerType /\ q.world = s.placer.world /\ q.last = NoNode /\ q.fixed = s.placer.fixed
        /\ q.current = s.placer.current /\ q.kind = s.placer.kind /\ q.pieces = s.placer.pieces
        /\ q.ok = s.placer.ok /\ q.trace = s.placer.trace /\ q.leg = s.placer.leg /\ q.at = s.placer.at
    BY <1>1, ZenonT(60) DEF PlacerType, NodeOrNone
  <2> QED
    BY <2>1 DEF Traced
<1> HIDE DEF q
<1>4. /\ PairSafe(clear) /\ clear.shove = s.shove /\ clear.placer = q
      /\ Pruned(s.tree, clear.tree) /\ Root \in clear.tree.live
      /\ \A L, D : PairGround(s, L, D) => PairGround(clear, L, D)
      /\ Used(clear) \subseteq Used(s)
  BY <1>3, PairClearedOK
<1> HIDE DEF clear, u
<1>5. clear.placer.last = NoNode /\ Traced(clear.placer) /\ Spare(clear, 2) /\ PairOutcome(clear, c)
  <2>1. Spare(clear, 2)
    BY <1>4, SpareMonotone
  <2>2. PairOutcome(clear, c)
    BY <1>4 DEF PairOutcome, Kept
  <2> QED
    BY <1>3, <1>4, <2>1, <2>2
<1>6. Routed(clear, routed)
  BY <1>4, <1>5, PairRouteOK
<1> HIDE DEF routed
<1>7. PairSafe(routed) /\ routed.placer.last = NoNode /\ Spare(routed, 1)
  BY <1>6 DEF Routed, PairKeeps
<1>8. /\ PairSafe(u) /\ u.shove = routed.shove /\ u.drag = routed.drag
      /\ u.placer = [routed.placer EXCEPT !.last = u.placer.last, !.end = p]
      /\ u.tree.view[u.placer.last] = routed.tree.view[routed.placer.current]
      /\ u.tree.view[Root] = routed.tree.view[Root]
      /\ \A L, D : PairGround(routed, L, D) => PairGround(u, L, D)
  BY <1>7, PairLastOnOK DEF u
<1>9. /\ u.placer.fixed = routed.placer.fixed /\ u.placer.kind = routed.placer.kind
      /\ u.placer.pieces = routed.placer.pieces /\ u.placer.end = p
      /\ u.placer.trace = routed.placer.trace /\ u.placer.at = routed.placer.at
      /\ u.placer.leg = routed.placer.leg /\ u.placer.ok = routed.placer.ok
      /\ u.placer.fit = routed.placer.fit
  <2>1. routed.placer \in PlacerType
    BY <1>7, PairType DEF PairSafe
  <2> QED
    BY <1>8, <2>1 DEF PlacerType
<1>10. Traced(u.placer)
  BY <1>6, <1>9 DEF Routed, Traced
<1>11. u.placer.fit => Free(u, u.placer.last)
  BY <1>6, <1>8, <1>9 DEF Routed, Free
<1>12. clear.tree.view[Root] = s.tree.view[Root] /\ clear.drag = s.drag
  BY <1>4 DEF Pruned, PairSafe
<1>13. PairArrived(s, u, p)
  BY <1>3, <1>4, <1>6, <1>8, <1>9, <1>10, <1>11, <1>12 DEF PairArrived, Routed, PairKeeps
<1> QED
  BY <1>2, <1>13
----------------------------------------------------------------------------
(* What is left to show of a step, by the phase it leads to.               *)
LEMMA StateIs ==
  /\ State = [tree |-> tree, drag |-> drag, shove |-> shove]
  /\ State.tree = tree /\ State.drag = drag /\ State.shove = shove
  /\ PState.tree = tree /\ PState.drag = drag /\ PState.shove = shove /\ PState.placer = placer
  /\ Held(PState) = Held(State) /\ Frames(PState) = Frames(State)
  /\ Used(PState) = Used(State)
  /\ \A n \in Nat : Spare(State, n) <=> Spare(PState, n)
BY DEF State, PState, Held, Frames, Used, Spare

LEMMA RoomIs ==
  ASSUME TypeOK, NEW n \in Nat, NEW k \in Nat, Room(n), k <= n
  PROVE  Spare(State, k) /\ Spare(PState, k)
<1>1. Node \ Used(State) = Node \ (tree.live \cup Held(State))
  BY NodeType, StateIs DEF Used
<1>2. Spare(State, n)
  BY <1>1 DEF Room, Spare
<1> QED
  BY <1>2, StateIs, SpareMonotone

LEMMA StatesTyped ==
  ASSUME TypeOK
  PROVE  State \in DragState /\ PState \in PairState
BY DEF TypeOK, State, PState, DragState, PairState

LEMMA SameStandingBoth == Standing(State) <=> Standing(PState)
<1>1. /\ Held(PState) = Held(State) /\ Frames(PState) = Frames(State)
      /\ State.tree = tree /\ State.drag = drag /\ State.shove = shove
      /\ PState.tree = tree /\ PState.drag = drag /\ PState.shove = shove
  BY StateIs
<1>2. HandlesHold(State) <=> HandlesHold(PState)
  BY <1>1 DEF HandlesHold
<1>3. LastAlone(State) <=> LastAlone(PState)
  BY <1>1 DEF LastAlone
<1>4. WalkAlone(State) <=> WalkAlone(PState)
  BY <1>1 DEF WalkAlone
<1>5. FramesOrdered(State) <=> FramesOrdered(PState)
  BY <1>1 DEF FramesOrdered
<1> QED
  BY <1>1, <1>2, <1>3, <1>4, <1>5 DEF Standing

(* A drag.                                                                 *)
LEMMA DragOf ==
  ASSUME AnySession, phase = "dragging"
  PROVE  /\ TypeOK /\ Safe(State) /\ DragShows(State) /\ Waits(State)
         /\ placer = NoPlacer /\ fixes = <<>> /\ good = drag.at
         /\ ended.by = "none" /\ drag.kind \in Kind
<1>1. TypeOK /\ RootWaits /\ Dragging /\ Over
  BY DEF AnySession
<1>2. Safe(State)
  BY <1>1, StatesTyped, StateIs DEF Dragging, Safe
<1>3. Waits(State)
  BY <1>1, StateIs DEF RootWaits, Waits
<1>4. drag.kind \in Kind
  BY <1>1 DEF TypeOK, DragType
<1> QED
  BY <1>1, <1>2, <1>3, <1>4 DEF Dragging, Over

LEMMA DragGoesOn ==
  ASSUME NEW u, Safe(u), DragShows(u), Waits(u), u.drag.at \in Place,
         tree' = u.tree, drag' = u.drag, shove' = u.shove,
         phase' = "dragging", setting' \in Setting, drags' \in Nat, good' = u.drag.at,
         ended' = ended, ended.by = "none",
         ended \in [by : {"none", "commit", "abort"}, excused : BOOLEAN, lost : SUBSET Piece],
         placer' = NoPlacer, fixes' = <<>>
  PROVE  AnySession'
<1>1. u \in DragState /\ State' = u /\ u.tree = tree' /\ u.drag = drag' /\ u.shove = shove'
  BY DEF Safe, DragState, State
<1>2. NoPlacer \in PlacerType
  BY NodeType DEF NoPlacer, PlacerType, NodeOrNone
<1>3. TypeOK'
  <2>1. /\ <<>> \in Seq([leg : Fact, excused : BOOLEAN]) /\ Len(<<>>) <= MaxLegs
    BY AssumeLegs
  <2>2. /\ u.tree \in Tree(Fact) /\ u.drag \in DragType /\ u.shove \in ShoveType
    BY <1>1 DEF DragState
  <2> QED
    BY <1>1, <1>2, <2>1, <2>2 DEF TypeOK
<1>4. RootWaits'
  BY <1>1 DEF RootWaits, Waits
<1>5. Dragging'
  <2>1. Standing(State)' /\ DragShows(State)'
    BY <1>1 DEF Safe
  <2>2. OthersStay(tree, drag.pieces)' /\ NoLegs(tree)'
    BY <1>1 DEF Safe
  <2> QED
    BY <1>1, <2>1, <2>2 DEF Dragging
<1>6. /\ Idle' /\ Placing' /\ Over' /\ LegsNumbered'
  BY DEF Idle, Placing, Over, LegsNumbered
<1>7. /\ CommitsLastGood' /\ AbortRestores' /\ LegsStand' /\ LegsLegal'
  BY DEF CommitsLastGood, AbortRestores, LegsStand, LegsLegal
<1> QED
  BY <1>3, <1>4, <1>5, <1>6, <1>7 DEF AnySession

(* A placement of a pair.                                                  *)
PushDue == {Push(fixes[i].leg[3]) :
              i \in {k \in DOMAIN fixes : /\ ~fixes[k].excused /\ fixes[k].leg[4] = "straight"
                                          /\ fixes[k].leg[3] \in Tight}}

LEMMA PushDueIs ==
  \A view : LegsPushed(view) <=> PushDue \subseteq view
BY DEF PushDue, LegsPushed

(* What is kept of a pair between its moves.                               *)
PairHolds(s) ==
    /\ PairSafe(s) /\ s.placer.kind = "pair" /\ s.placer.pieces = {}
    /\ PairGround(s, LegsFixed, PushDue)
    /\ s.placer.fixed = NoNode <=> fixes = <<>>
    /\ s.placer.end \in Place /\ Traced(s.placer)
    /\ s.placer.fit /\ s.placer.last # NoNode => Free(s, s.placer.last)

LEMMA PairOf ==
  ASSUME AnySession, phase = "placing", placer.kind = "pair"
  PROVE  /\ TypeOK /\ PairHolds(PState) /\ Waits(PState) /\ drag = NoDrag
         /\ ended.by = "none" /\ LegsNumbered
<1>1. TypeOK /\ RootWaits /\ Placing /\ Over /\ LegsNumbered
  BY DEF AnySession
<1>2. /\ drag = NoDrag /\ Standing(State) /\ OthersStay(tree, {}) /\ placer.pieces = {}
      /\ PairStands(PState) /\ PairShows(PState)
  BY <1>1 DEF Placing
<1>3. PairSafe(PState)
  BY <1>1, <1>2, StatesTyped, SameStandingBoth, StateIs DEF PairSafe
<1>4. Waits(PState)
  BY <1>1, StateIs DEF RootWaits, Waits
<1>5. PairGround(PState, LegsFixed, PushDue)
  BY <1>2, PushDueIs DEF PairShows, PairGround
<1>6. /\ placer.fixed = NoNode <=> fixes = <<>>
      /\ placer.end \in Place /\ Traced(placer)
      /\ placer.fit /\ placer.last # NoNode => Free(PState, placer.last)
  BY <1>2, StateIs DEF PairShows, Traced
<1> QED
  BY <1>1, <1>2, <1>3, <1>4, <1>5, <1>6, StateIs DEF PairHolds, Over

LEMMA PairGoesOn ==
  ASSUME NEW u, PairHolds(u)', PairSafe(u), Waits(u),
         tree' = u.tree, shove' = u.shove, placer' = u.placer, drag' = NoDrag,
         phase' = "placing", setting' \in Setting, drags' \in Nat, good' \in Place,
         ended' = ended, ended.by = "none",
         ended \in [by : {"none", "commit", "abort"}, excused : BOOLEAN, lost : SUBSET Piece],
         fixes' \in Seq([leg : Fact, excused : BOOLEAN]), Len(fixes') <= MaxLegs, LegsNumbered'
  PROVE  AnySession'
<1>1. u \in PairState /\ PState' = u /\ u.tree = tree' /\ u.drag = NoDrag /\ u.shove = shove'
      /\ u.placer = placer'
  BY DEF PairSafe, PairState, PState
<1>2. TypeOK'
  BY <1>1, NoDragIs DEF TypeOK, PairState
<1>3. RootWaits'
  BY <1>1 DEF RootWaits, Waits
<1>4. Placing'
  <2>1. Standing(State)'
    <3>1. Standing(PState)'
      BY <1>1 DEF PairSafe
    <3>2. (Standing(State) <=> Standing(PState))'
      BY SameStandingBoth, PTL
    <3> QED
      BY <3>1, <3>2
  <2>2. PairStands(PState)' /\ OthersStay(tree, {})'
    BY <1>1 DEF PairSafe
  <2>3. PairGround(u, LegsFixed, PushDue)' /\ u.placer.pieces = {} /\ u.placer.kind = "pair"
    BY DEF PairHolds
  <2>4. (\A n \in PairNodes(u) : /\ LegsIn(u.tree, n) = LegsFixed
                                 /\ Stub \notin u.tree.view[n]
                                 /\ LegsPushed(u.tree.view[n]))'
    <3>1. (\A view : LegsPushed(view) <=> PushDue \subseteq view)'
      BY PushDueIs, PTL
    <3>2. \A n \in PairNodes(u) : /\ LegsIn(u.tree, n) = LegsFixed'
                                  /\ Stub \notin u.tree.view[n]
                                  /\ PushDue' \subseteq u.tree.view[n]
      BY <2>3 DEF PairGround
    <3>3. \A n \in PairNodes(u) : PushDue' \subseteq u.tree.view[n] => LegsPushed(u.tree.view[n])'
      BY <3>1
    <3> QED
      BY <3>2, <3>3
  <2>5. PairShows(u)'
    BY <2>4 DEF PairShows, PairHolds, Traced
  <2>6. PairShows(PState)'
    BY <1>1, <2>5
  <2> QED
    BY <1>1, <2>1, <2>2, <2>3, <2>6 DEF Placing
<1>5. /\ Idle' /\ Dragging' /\ Over'
  BY DEF Idle, Dragging, Over
<1>6. /\ CommitsLastGood' /\ AbortRestores' /\ LegsStand' /\ LegsLegal'
  BY DEF CommitsLastGood, AbortRestores, LegsStand, LegsLegal, LegsNumbered
<1> QED
  BY <1>2, <1>3, <1>4, <1>5, <1>6 DEF AnySession
----------------------------------------------------------------------------
(* Before a session, and its start.                                        *)
LEMMA IdleOf ==
  ASSUME AnySession, phase = "idle"
  PROVE  /\ TypeOK /\ drag = NoDrag /\ shove = NoShove /\ placer = NoPlacer /\ fixes = <<>>
         /\ TreeOK(tree) /\ OthersStay(tree, {}) /\ NoLegs(tree) /\ Waits(State)
         /\ ended.by = "none" /\ Held(State) = {NoNode} /\ Used(State) = tree.live
         /\ Root \in tree.live /\ tree.live \subseteq Node
<1>1. TypeOK /\ RootWaits /\ Idle /\ Over
  BY DEF AnySession
<1>2. /\ drag = NoDrag /\ shove = NoShove /\ placer = NoPlacer /\ fixes = <<>>
      /\ TreeOK(tree) /\ OthersStay(tree, {}) /\ NoLegs(tree)
  BY <1>1 DEF Idle
<1>3. Held(State) = {NoNode}
  <2>1. Frames(State) = {}
    BY <1>2, NoDragIs, StateIs DEF Frames, ToSet
  <2> QED
    BY <1>2, <2>1, NoDragIs, StateIs DEF Held, Frames
<1>4. Waits(State)
  BY <1>1, StateIs DEF RootWaits, Waits
<1>5. tree.live \subseteq Node /\ Root \in tree.live
  BY <1>2 DEF TreeOK, Tree
<1>6. Used(State) = tree.live
  BY <1>3, <1>5, NodeType, StateIs DEF Used
<1> QED
  BY <1>1, <1>2, <1>3, <1>4, <1>5, <1>6 DEF Over

LEMMA IdleGoesOn ==
  ASSUME AnySession, phase = "idle", TreeOK(tree'), OthersStay(tree', {}), NoLegs(tree'),
         tree'.view[Root] \ Locks = Olds(Piece),
         UNCHANGED <<drag, shove, phase, setting, drags, good, ended, placer, fixes>>
  PROVE  AnySession' /\ QuietSession'
<1>1. /\ TypeOK /\ drag = NoDrag /\ shove = NoShove /\ placer = NoPlacer /\ fixes = <<>>
      /\ ended.by = "none"
  BY IdleOf
<1>2. TypeOK'
  BY <1>1 DEF TypeOK, TreeOK
<1>3. /\ RootWaits' /\ Idle'
  BY <1>1 DEF RootWaits, Idle
<1>4. /\ LegsNumbered' /\ Dragging' /\ Placing' /\ Over'
  BY <1>1 DEF LegsNumbered, Dragging, Placing, Over
<1>5. /\ CommitsLastGood' /\ AbortRestores' /\ LegsStand' /\ LegsLegal' /\ QuietSession'
  BY <1>1 DEF CommitsLastGood, AbortRestores, LegsStand, LegsLegal, QuietSession, PiecesWhole, DragLegal
<1> QED
  BY <1>2, <1>3, <1>4, <1>5 DEF AnySession

(* The item dragger takes a lock off in every board.                       *)
Unlocked(t, x) == [t EXCEPT !.view = [n \in Node |-> @[n] \ {Lock(x)}]]

LEMMA UnlockedOK ==
  ASSUME NEW t, TreeOK(t), NEW x \in Piece
  PROVE  LET u == Unlocked(t, x)
         IN  /\ TreeOK(u) /\ u.live = t.live /\ u.chain = t.chain
             /\ \A n \in Node : u.view[n] = t.view[n] \ {Lock(x)}
             /\ \A X : OthersStay(t, X) => OthersStay(u, X)
             /\ NoLegs(t) => NoLegs(u)
<1> DEFINE u == Unlocked(t, x)
<1>1. /\ u \in Tree(Fact) /\ u.live = t.live /\ u.chain = t.chain /\ t.live \subseteq Node
      /\ \A n \in Node : u.view[n] = t.view[n] \ {Lock(x)}
  BY DEF Unlocked, TreeOK, Tree
<1> HIDE DEF u
<1>2. TreeOK(u)
  BY <1>1 DEF TreeOK
<1>3. \A y : Lock(x) \notin Versions(y)
  BY VersionsApart
<1>4. \A X : OthersStay(t, X) => OthersStay(u, X)
  BY <1>1, <1>3 DEF OthersStay, Shows
<1>5. NoLegs(t) => NoLegs(u)
  BY <1>1 DEF NoLegs, LegsIn
<1> QED
  BY <1>1, <1>2, <1>4, <1>5 DEF u

(* A branch of the board made in front of a session.                       *)
LEMMA BranchOK ==
  ASSUME NEW t, TreeOK(t), OthersStay(t, {}), NoLegs(t), t.view[Root] \ Locks = Olds(Piece),
         NEW n \in Node \ t.live
  PROVE  LET u == Branched(t, Root, n)
         IN  /\ TreeOK(u) /\ OthersStay(u, {}) /\ NoLegs(u) /\ u.view[Root] = t.view[Root]
             /\ u.view[n] = t.view[Root] /\ n # Root
             /\ u.live = t.live \cup {n} /\ u.chain[n] = {Root, n}
<1> DEFINE u == Branched(t, Root, n)
<1>1. Root \in t.live /\ t.chain[Root] = {Root}
  BY DEF TreeOK
<1>2. TreeOK(u) /\ Grown(t, u, Root, n)
  BY <1>1, BranchedOK DEF Grown
<1> HIDE DEF u
<1>3. OthersStay(u, {}) /\ NoLegs(u)
  BY <1>1, <1>2, CalmGrown
<1> QED
  BY <1>1, <1>2, <1>3 DEF Grown, u

LEMMA RefusedStep ==
  ASSUME AnySession, NEW x \in Piece, StartRefused(x), UNCHANGED <<placer, fixes>>
  PROVE  AnySession' /\ QuietSession'
<1> DEFINE n == NewIn(State)
           t == Branched(tree, Root, n)
<1>1. /\ phase = "idle" /\ Room(8) /\ tree' = Unlocked(t, x)
      /\ UNCHANGED <<drag, shove, phase, setting, drags, good, ended>>
  BY DEF StartRefused, Unlocked
<1>2. /\ TypeOK /\ TreeOK(tree) /\ OthersStay(tree, {}) /\ NoLegs(tree) /\ Waits(State)
  BY <1>1, IdleOf
<1>3. n \in Node \ tree.live
  <2>1. Spare(State, 1) /\ State \in DragState
    BY <1>1, <1>2, RoomIs, StatesTyped
  <2> QED
    BY <2>1, NewInFresh, StateIs DEF IsState
<1> HIDE DEF n
<1>4. TreeOK(t) /\ OthersStay(t, {}) /\ NoLegs(t) /\ t.view[Root] = tree.view[Root]
  BY <1>2, <1>3, BranchOK, StateIs DEF Waits
<1> HIDE DEF t
<1>5. /\ TreeOK(tree') /\ OthersStay(tree', {}) /\ NoLegs(tree')
      /\ tree'.view[Root] = tree.view[Root] \ {Lock(x)}
  BY <1>1, <1>4, UnlockedOK, NodeType
<1>6. tree'.view[Root] \ Locks = Olds(Piece)
  <2>1. Lock(x) \in Locks
    BY DEF Locks
  <2> QED
    BY <1>2, <1>5, <2>1, StateIs DEF Waits
<1> QED
  BY <1>1, <1>5, <1>6, IdleGoesOn

LEMMA TuningRefusedStep ==
  ASSUME AnySession, StartTuningRefused
  PROVE  AnySession' /\ QuietSession'
<1> DEFINE n == NewIn(State)
<1>1. /\ phase = "idle" /\ Room(8) /\ tree' = Branched(tree, Root, n)
      /\ UNCHANGED <<drag, shove, phase, setting, drags, good, ended, placer, fixes>>
  BY DEF StartTuningRefused
<1>2. /\ TypeOK /\ TreeOK(tree) /\ OthersStay(tree, {}) /\ NoLegs(tree) /\ Waits(State)
  BY <1>1, IdleOf
<1>3. n \in Node \ tree.live
  <2>1. Spare(State, 1) /\ State \in DragState
    BY <1>1, <1>2, RoomIs, StatesTyped
  <2> QED
    BY <2>1, NewInFresh, StateIs DEF IsState
<1> HIDE DEF n
<1>4. /\ TreeOK(tree') /\ OthersStay(tree', {}) /\ NoLegs(tree') /\ tree'.view[Root] = tree.view[Root]
  BY <1>1, <1>2, <1>3, BranchOK, StateIs DEF Waits
<1> QED
  BY <1>1, <1>2, <1>4, IdleGoesOn, StateIs DEF Waits

(* What the router is in before any session satisfies the        *)
(* invariant.                                                              *)
LEMMA InitInv == Init => IInv
<1> SUFFICES ASSUME Init PROVE IInv
  OBVIOUS
<1> DEFINE board == Olds(Piece) \cup Locks
<1>1. /\ tree = [NewTree EXCEPT !.view[Root] = board]
      /\ drag = NoDrag /\ shove = NoShove /\ phase = "idle" /\ setting \in Setting
      /\ drags = 0 /\ good = NoDrag.at /\ ended = [by |-> "none", excused |-> FALSE, lost |-> {}]
      /\ placer = NoPlacer /\ fixes = <<>>
  BY DEF Init, DragInit, Olds, Locks
<1>2. board \subseteq Fact
  BY FactTypes DEF Olds, Locks
<1>3. TreeOK(NewTree) /\ NewTree.live = {Root}
  BY NewTreeOK
<1>4. TreeOK(tree) /\ tree.live = {Root} /\ tree.view[Root] = board
  <2> HIDE DEF board
  <2>1. /\ tree \in Tree(Fact) /\ tree.live = {Root} /\ tree.chain = NewTree.chain
        /\ tree.view[Root] = board
    BY <1>1, <1>2, <1>3, NodeType DEF TreeOK, Tree
  <2> QED
    BY <1>3, <2>1 DEF TreeOK
<1>5. OthersStay(tree, {})
  <2>1. \A y \in Piece : Versions(y) \cap board = {Old(y)}
    BY VersionsApart, FactsApart DEF Olds, Locks
  <2> HIDE DEF board
  <2> QED
    BY <1>4, <2>1 DEF OthersStay, Shows
<1>6. NoLegs(tree)
  <2>1. \A f \in board : ~IsLeg(f)
    BY FactsApart DEF Olds, Locks
  <2> HIDE DEF board
  <2> QED
    BY <1>4, <2>1 DEF NoLegs, LegsIn
<1>7. tree.view[Root] \ Locks = Olds(Piece)
  BY <1>4, FactsApart DEF Olds, Locks
<1>8. TypeOK
  <2>1. NoPlacer \in PlacerType
    BY NodeType DEF NoPlacer, PlacerType, NodeOrNone
  <2>2. <<>> \in Seq([leg : Fact, excused : BOOLEAN]) /\ Len(<<>>) <= MaxLegs
    BY AssumeLegs
  <2>3. tree \in Tree(Fact)
    BY <1>4 DEF TreeOK
  <2> QED
    BY <1>1, <2>1, <2>2, <2>3, NoDragIs DEF TypeOK
<1>9. RootWaits /\ LegsNumbered /\ Idle /\ Dragging /\ Placing /\ Over
  BY <1>1, <1>4, <1>5, <1>6, <1>7 DEF RootWaits, LegsNumbered, Idle, Dragging, Placing, Over
<1>10. /\ CommitsLastGood /\ AbortRestores /\ LegsStand /\ LegsLegal /\ QuietSession
  BY <1>1 DEF CommitsLastGood, AbortRestores, LegsStand, LegsLegal, QuietSession, PiecesWhole, DragLegal
<1> QED
  BY <1>8, <1>9, <1>10 DEF IInv, AnySession
----------------------------------------------------------------------------
(* The start of a drag.                                                    *)
ShoveOn(n) == [NoShove EXCEPT !.root = n, !.current = n]

LEMMA FreshStands ==
  ASSUME NEW t, TreeOK(t), NEW d \in DragType, d.last = NoNode, d.walk = NoNode,
         d.bed = NoNode \/ d.bed \in t.live \ {Root},
         NEW h, h = NoShove \/ (\E n \in t.live \ {Root} : h = ShoveOn(n)),
         OthersStay(t, d.pieces), NoLegs(t)
  PROVE  LET u == [tree |-> t, drag |-> d, shove |-> h]
         IN  Safe(u) /\ Frames(u) = {} /\ u.shove.stack = <<>>
<1> DEFINE u == [tree |-> t, drag |-> d, shove |-> h]
<1>1. t.live \subseteq Node /\ t \in Tree(Fact)
  BY DEF TreeOK, Tree
<1>2. /\ h \in ShoveType /\ h.stack = <<>> /\ h.root = h.current
      /\ h.root = NoNode \/ h.root \in t.live \ {Root}
  BY <1>1, NoDragIs, ZenonT(60) DEF ShoveOn, ShoveType, NodeOrNone
<1>3. /\ u.tree = t /\ u.drag = d /\ u.shove = h /\ u \in DragState
  BY <1>1, <1>2 DEF DragState
<1> HIDE DEF u
<1>4. Frames(u) = {}
  BY <1>2, <1>3 DEF Frames, ToSet
<1>5. Held(u) \ {NoNode} \subseteq t.live \ {Root}
  BY <1>2, <1>3, <1>4, StateType DEF IsState
<1>6. Standing(u)
  BY <1>2, <1>3, <1>4, <1>5 DEF Standing, HandlesHold, LastAlone, WalkAlone, FramesOrdered
<1> QED
  BY <1>2, <1>3, <1>4, <1>6 DEF Safe, u

LEMMA StartSingleStep ==
  ASSUME AnySession, NEW kind \in Single, NEW x \in Piece, NEW free \in BOOLEAN, NEW p \in Place,
         NEW stub \in SUBSET {Stub}, StartSingle(kind, x, free, p, stub),
         UNCHANGED <<placer, fixes>>
  PROVE  AnySession' /\ QuietSession'
<1> DEFINE bed == NewIn(State)
           bedded == Branched(tree, Root, bed)
           t == Unlocked(bedded, x)
           w == Written(t, bed, stub)
           d == [NoDrag EXCEPT !.kind = kind, !.pieces = {x}, !.free = free,
                        !.mode = setting.mode, !.bed = bed, !.at = p,
                        !.solution = IF kind = "line" THEN {Old(x)} ELSE {}]
           shoves == setting.mode = "shove" /\ ~free
           h == IF shoves THEN ShoveOn(bed) ELSE NoShove
           u == [tree |-> w, drag |-> d, shove |-> h]
<1>1. /\ phase = "idle" /\ Room(3) /\ (stub # {} => kind = "arc")
      /\ tree' = w /\ drag' = d /\ shove' = h
      /\ phase' = "dragging" /\ good' = p /\ UNCHANGED <<setting, drags, ended>>
  BY DEF StartSingle, Unlocked, ShoveOn
<1>2. /\ TypeOK /\ TreeOK(tree) /\ OthersStay(tree, {}) /\ NoLegs(tree) /\ Waits(State)
      /\ placer = NoPlacer /\ fixes = <<>> /\ ended.by = "none"
  BY <1>1, IdleOf
<1>3. bed \in Node \ tree.live /\ bed # NoNode
  <2>1. Spare(State, 1) /\ State \in DragState
    BY <1>1, <1>2, RoomIs, StatesTyped
  <2> QED
    BY <2>1, NewInFresh, StateIs DEF IsState
<1> HIDE DEF bed
<1>4. /\ TreeOK(bedded) /\ OthersStay(bedded, {}) /\ NoLegs(bedded)
      /\ bedded.view[Root] = tree.view[Root] /\ bedded.view[bed] = tree.view[Root]
      /\ bed # Root /\ bedded.live = tree.live \cup {bed}
  BY <1>2, <1>3, BranchOK, StateIs DEF Waits
<1> HIDE DEF bedded
<1>5. /\ TreeOK(t) /\ OthersStay(t, {}) /\ NoLegs(t) /\ t.live = tree.live \cup {bed}
      /\ t.view[Root] = tree.view[Root] \ {Lock(x)} /\ t.view[bed] = tree.view[Root] \ {Lock(x)}
  BY <1>3, <1>4, UnlockedOK, NodeType
<1> HIDE DEF t
<1>6. /\ TreeOK(w) /\ w.live = tree.live \cup {bed} /\ w.view[bed] = t.view[bed] \cup stub
      /\ \A n \in Node \ {bed} : w.view[n] = t.view[n]
  <2>1. stub \in SUBSET Fact
    BY FactTypes
  <2> QED
    BY <1>3, <1>5, <2>1, WrittenOK
<1> HIDE DEF w
<1>7. OthersStay(w, {x}) /\ NoLegs(w)
  <2>1. \A n \in w.live : w.view[n] = t.view[n] \/ w.view[n] = t.view[n] \cup stub
    BY <1>2, <1>3, <1>6 DEF TreeOK, Tree
  <2>2. \A y \in Piece : Versions(y) \cap stub = {}
    BY VersionsApart
  <2>3. \A f \in stub : ~IsLeg(f)
    BY FactsApart
  <2>4. \A n \in w.live, y \in Piece : Versions(y) \cap w.view[n] = Versions(y) \cap t.view[n]
    BY <2>1, <2>2
  <2>5. OthersStay(w, {x})
    BY <1>5, <1>6, <2>4 DEF OthersStay, Shows
  <2>6. NoLegs(w)
    BY <1>5, <1>6, <2>1, <2>3 DEF NoLegs, LegsIn
  <2> QED
    BY <2>5, <2>6
<1>8. /\ d \in DragType /\ d.kind = kind /\ d.pieces = {x} /\ d.free = free /\ d.mode = setting.mode
      /\ d.bed = bed /\ d.at = p /\ d.last = NoNode /\ d.walk = NoNode
      /\ ~d.status /\ ~d.forced /\ d.solution \subseteq {Old(x)} /\ d.lost = {}
  <2>1. setting.mode \in {"mark", "walk", "shove"} /\ kind \in Kind
    BY <1>2, AssumeSettings DEF TypeOK, Single, Kind
  <2>2. {Old(x)} \subseteq Fact
    BY FactTypes
  <2>3. NoDrag \in DragType /\ NoDrag.last = NoNode /\ NoDrag.walk = NoNode
        /\ NoDrag.status = FALSE /\ NoDrag.forced = FALSE /\ NoDrag.lost = {}
    BY NoDragIs DEF NoDrag
  <2> QED
    BY <1>3, <2>1, <2>2, <2>3 DEF DragType, NodeOrNone
<1> HIDE DEF d
<1>9. Safe(u) /\ Frames(u) = {} /\ u.shove.stack = <<>>
  <2>1. d.bed \in w.live \ {Root}
    BY <1>4, <1>6, <1>8
  <2>2. h = NoShove \/ \E n \in w.live \ {Root} : h = ShoveOn(n)
    BY <1>8, <2>1
  <2> HIDE DEF h
  <2>3. /\ TreeOK(w) /\ d \in DragType /\ d.last = NoNode /\ d.walk = NoNode
        /\ OthersStay(w, d.pieces) /\ NoLegs(w)
    BY <1>6, <1>7, <1>8
  <2> QED
    BY <2>1, <2>2, <2>3, FreshStands
<1>10. u.tree = w /\ u.drag = d /\ u.shove = h
  OBVIOUS
<1>11. h.root = IF shoves THEN bed ELSE NoNode
  BY <1>3, NoDragIs DEF ShoveOn, NoShove
<1>12. Waits(u)
  <2>1. w.view[Root] = tree.view[Root] \ {Lock(x)}
    BY <1>4, <1>5, <1>6, NodeType
  <2>2. Lock(x) \in Locks
    BY DEF Locks
  <2> QED
    BY <1>2, <1>10, <2>1, <2>2, StateIs DEF Waits
<1>13. SingleGround(u, x)
  <2>1. /\ \A y \in Piece : Versions(y) \cap tree.view[Root] = {Old(y)}
        /\ Stub \notin tree.view[Root]
    BY <1>2, RootWhole, StateIs
  <2>2. Shows(w, bed, x) \subseteq {Old(x)}
    <3>1. Versions(x) \cap stub = {}
      BY VersionsApart
    <3> QED
      BY <1>5, <1>6, <2>1, <3>1 DEF Shows
  <2>3. kind # "arc" => Stub \notin w.view[bed]
    BY <1>1, <1>5, <1>6, <2>1
  <2> QED
    BY <1>3, <1>8, <1>9, <1>10, <1>11, <2>2, <2>3 DEF SingleGround
<1>14. DragShows(u)
  <2>1. {Old(x)} \subseteq Versions(x)
    BY VersionsApart
  <2>2. SingleShows(u)
    BY <1>8, <1>10, <1>13, <2>1 DEF SingleShows
  <2> QED
    BY <1>8, <1>10, <2>2 DEF DragShows, Single
<1> HIDE DEF u, h
<1>15. AnySession'
  BY <1>1, <1>2, <1>8, <1>9, <1>10, <1>12, <1>14, DragGoesOn DEF TypeOK
<1>16. QuietSession'
  <2>1. ~drag'.status /\ drag'.kind # "multi"
    BY <1>1, <1>8 DEF Single
  <2>2. SingleLegal(State)' /\ MultiExcused(State)'
    BY <2>1 DEF SingleLegal, MultiExcused, State
  <2> QED
    BY <1>1, <1>2, <2>2 DEF QuietSession, PiecesWhole, DragLegal
<1> QED
  BY <1>15, <1>16

LEMMA StartComponentStep ==
  ASSUME AnySession, NEW p \in Place, StartComponent(p), UNCHANGED <<placer, fixes>>
  PROVE  AnySession' /\ QuietSession'
<1> DEFINE d == [NoDrag EXCEPT !.kind = "component", !.pieces = Piece, !.at = p]
           u == [tree |-> tree, drag |-> d, shove |-> NoShove]
<1>1. /\ phase = "idle" /\ drag' = d /\ phase' = "dragging" /\ good' = p
      /\ UNCHANGED <<tree, shove, setting, drags, ended>>
  BY DEF StartComponent
<1>2. /\ TypeOK /\ TreeOK(tree) /\ OthersStay(tree, {}) /\ NoLegs(tree) /\ Waits(State)
      /\ placer = NoPlacer /\ fixes = <<>> /\ ended.by = "none" /\ shove = NoShove
  BY <1>1, IdleOf
<1>3. /\ d \in DragType /\ d.kind = "component" /\ d.pieces = Piece
      /\ d.bed = NoNode /\ d.at = p /\ d.last = NoNode /\ d.walk = NoNode /\ ~d.status
  <2>1. NoDrag \in DragType /\ NoDrag.last = NoNode /\ NoDrag.walk = NoNode /\ NoDrag.bed = NoNode
        /\ NoDrag.status = FALSE
    BY NoDragIs DEF NoDrag
  <2> QED
    BY <2>1 DEF DragType, Kind
<1> HIDE DEF d
<1>4. OthersStay(tree, Piece)
  BY DEF OthersStay
<1>5. Safe(u)
  BY <1>2, <1>3, <1>4, FreshStands
<1>6. u.tree = tree /\ u.drag = d /\ u.shove = NoShove
  OBVIOUS
<1> HIDE DEF u
<1>7. Waits(u) /\ DragShows(u)
  BY <1>2, <1>3, <1>6, StateIs DEF Waits, DragShows, ComponentShows, Single
<1>8. AnySession'
  BY <1>1, <1>2, <1>3, <1>5, <1>6, <1>7, DragGoesOn DEF TypeOK
<1>9. QuietSession'
  <2>1. drag'.kind = "component"
    BY <1>1, <1>3
  <2>2. SingleLegal(State)' /\ MultiExcused(State)'
    BY <2>1 DEF SingleLegal, MultiExcused, State, Single
  <2> QED
    BY <1>1, <1>2, <2>2 DEF QuietSession, PiecesWhole, DragLegal
<1> QED
  BY <1>8, <1>9

LEMMA StartMultiStep ==
  ASSUME AnySession, NEW p \in Place, StartMulti(p), UNCHANGED <<placer, fixes>>
  PROVE  AnySession' /\ QuietSession'
<1> DEFINE bed == NewIn(State)
           started == [NoDrag EXCEPT !.kind = "multi", !.pieces = Piece, !.at = p]
           bedded == Branched(tree, Root, bed)
           s == [State EXCEPT !.tree = Branched(@, Root, bed)]
           bare == Put(s, bed, Olds(Piece), {})
           d == [started EXCEPT !.bed = bed]
<1>1. /\ phase = "idle" /\ Room(3)
      /\ IF setting.mode = "shove"
         THEN Become([bare EXCEPT !.drag = d, !.shove = ShoveOn(bed)])
         ELSE Become([State EXCEPT !.drag = started, !.shove = NoShove])
      /\ phase' = "dragging" /\ good' = p /\ UNCHANGED <<setting, drags, ended>>
  BY DEF StartMulti, ShoveOn
<1>2. /\ TypeOK /\ TreeOK(tree) /\ OthersStay(tree, {}) /\ NoLegs(tree) /\ Waits(State)
      /\ placer = NoPlacer /\ fixes = <<>> /\ ended.by = "none" /\ drag = NoDrag /\ shove = NoShove
  BY <1>1, IdleOf
<1>3. bed \in Node \ tree.live /\ bed # NoNode
  <2>1. Spare(State, 1) /\ State \in DragState
    BY <1>1, <1>2, RoomIs, StatesTyped
  <2> QED
    BY <2>1, NewInFresh, StateIs DEF IsState
<1> HIDE DEF bed
<1>4. /\ started \in DragType /\ started.kind = "multi" /\ started.pieces = Piece
      /\ started.bed = NoNode /\ started.at = p /\ started.last = NoNode /\ started.walk = NoNode
      /\ started.status = FALSE /\ started.lost = {}
  <2>1. NoDrag \in DragType /\ NoDrag.last = NoNode /\ NoDrag.walk = NoNode /\ NoDrag.bed = NoNode
        /\ NoDrag.status = FALSE /\ NoDrag.lost = {}
    BY NoDragIs DEF NoDrag
  <2> QED
    BY <2>1 DEF DragType, Kind
<1> HIDE DEF started
<1>5. /\ d \in DragType /\ d.kind = "multi" /\ d.pieces = Piece
      /\ d.bed = bed /\ d.at = p /\ d.last = NoNode /\ d.walk = NoNode /\ d.status = FALSE
      /\ d.lost = {}
  BY <1>3, <1>4 DEF DragType, NodeOrNone
<1>6. PICK u : /\ Safe(u) /\ DragShows(u) /\ Waits(u) /\ u.drag.at = p /\ u.drag.status = FALSE
               /\ u.drag.last = NoNode /\ u.drag.kind = "multi" /\ u.drag.lost = {}
               /\ tree' = u.tree /\ drag' = u.drag /\ shove' = u.shove
  <2>1. CASE setting.mode # "shove"
    <3> DEFINE u == [tree |-> tree, drag |-> started, shove |-> NoShove]
    <3>1. tree' = tree /\ drag' = started /\ shove' = NoShove
      BY <1>1, <2>1 DEF Become, State
    <3>2. OthersStay(tree, Piece)
      BY DEF OthersStay
    <3>3. Safe(u)
      BY <1>2, <1>4, <3>2, FreshStands
    <3>4. u.tree = tree /\ u.drag = started /\ u.shove = NoShove
      OBVIOUS
    <3> HIDE DEF u
    <3>5. Waits(u) /\ DragShows(u)
      BY <1>2, <1>4, <3>4, NoDragIs, StateIs DEF Waits, DragShows, MultiShows, Single
    <3> QED
      BY <1>4, <3>1, <3>3, <3>4, <3>5
  <2>2. CASE setting.mode = "shove"
    <3> DEFINE w == [bedded EXCEPT !.view[bed] = (@ \ Olds(Piece)) \cup {}]
               u == [tree |-> w, drag |-> d, shove |-> ShoveOn(bed)]
    <3>1. tree' = w /\ drag' = d /\ shove' = ShoveOn(bed)
      <4>1. Become([bare EXCEPT !.drag = d, !.shove = ShoveOn(bed)])
        BY <1>1, <2>2
      <4>2. s = [tree |-> bedded, drag |-> drag, shove |-> shove]
        BY DEF State
      <4>3. bare = [tree |-> w, drag |-> drag, shove |-> shove]
        <5>1. s.tree = bedded
          BY <4>2
        <5>2. bare = [s EXCEPT !.tree = w]
          BY <4>2, <5>1 DEF Put
        <5> HIDE DEF bare, w, s
        <5> QED
          BY <4>2, <5>2
      <4> QED
        BY <4>1, <4>3, SMTT(40) DEF Become
    <3>2. /\ TreeOK(bedded) /\ OthersStay(bedded, {}) /\ NoLegs(bedded)
          /\ bedded.view[Root] = tree.view[Root] /\ bedded.view[bed] = tree.view[Root]
          /\ bed # Root /\ bedded.live = tree.live \cup {bed}
      BY <1>2, <1>3, BranchOK, StateIs DEF Waits
    <3> HIDE DEF bedded
    <3>3. /\ TreeOK(w) /\ w.live = tree.live \cup {bed}
          /\ w.view[bed] = tree.view[Root] \ Olds(Piece) /\ w.view[Root] = tree.view[Root]
          /\ \A n \in Node : w.view[n] \subseteq bedded.view[n]
      <4>1. /\ w \in Tree(Fact) /\ w.live = bedded.live /\ w.chain = bedded.chain
            /\ w.view[bed] = bedded.view[bed] \ Olds(Piece)
            /\ \A n \in Node \ {bed} : w.view[n] = bedded.view[n]
        BY <1>3, <3>2 DEF TreeOK, Tree
      <4> HIDE DEF w
      <4>2. TreeOK(w)
        BY <3>2, <4>1 DEF TreeOK
      <4> QED
        BY <3>2, <4>1, <4>2, NodeType
    <3> HIDE DEF w
    <3>4. OthersStay(w, Piece) /\ NoLegs(w)
      <4>1. w.live \subseteq Node /\ w.live = bedded.live
        BY <3>2, <3>3 DEF TreeOK, Tree
      <4> QED
        BY <3>2, <3>3, <4>1 DEF OthersStay, NoLegs, LegsIn
    <3>5. Safe(u) /\ Frames(u) = {}
      <4>1. bed \in w.live \ {Root}
        BY <3>2, <3>3
      <4> HIDE DEF d
      <4> QED
        BY <1>5, <3>3, <3>4, <4>1, FreshStands
    <3>6. u.tree = w /\ u.drag = d /\ u.shove = ShoveOn(bed)
      OBVIOUS
    <3> HIDE DEF u, d
    <3>7. Waits(u)
      BY <1>2, <3>3, <3>6, StateIs DEF Waits
    <3>8. MultiShows(u)
      <4>1. /\ \A y \in Piece : Versions(y) \cap tree.view[Root] = {Old(y)}
            /\ Stub \notin tree.view[Root]
        BY <1>2, RootWhole, StateIs
      <4>2. \A y \in Piece : Bare(w, bed, y)
        BY <3>3, <4>1 DEF Bare, Shows, Olds
      <4>3. ShoveOn(bed).root = bed
        BY DEF ShoveOn, NoShove
      <4> QED
        BY <1>5, <3>5, <3>6, <4>2, <4>3 DEF MultiShows
    <3>9. DragShows(u)
      BY <1>5, <3>6, <3>8 DEF DragShows, Single
    <3> QED
      BY <1>5, <3>1, <3>5, <3>6, <3>7, <3>9
  <2> QED
    BY <2>1, <2>2
<1>7. AnySession'
  <2>1. u.drag.at \in Place
    BY <1>6
  <2> QED
    BY <1>1, <1>2, <1>6, <2>1, DragGoesOn DEF TypeOK
<1>8. QuietSession'
  <2>1. /\ drag'.status = FALSE /\ drag'.last = NoNode /\ drag'.kind = "multi"
    BY <1>6
  <2>2. SingleLegal(State)'
    BY <2>1 DEF SingleLegal, State
  <2>3. MultiExcused(State)'
    <3>1. Current(u) = Root
      BY <1>6 DEF Current
    <3>2. WholeAt(u.tree, Root, {})
      BY <1>6, RootWhole DEF WholeAt, Shows
    <3> QED
      BY <1>6, <3>1, <3>2 DEF MultiExcused, Current, State
  <2> QED
    BY <1>1, <1>2, <2>2, <2>3 DEF QuietSession, PiecesWhole, DragLegal
<1> QED
  BY <1>7, <1>8
----------------------------------------------------------------------------
(* The cursor moves in a drag.                                             *)
LEMMA ChoiceIs ==
  ASSUME NEW c \in Choice
  PROVE  /\ c.shoves \in BOOLEAN /\ c.walks \in BOOLEAN /\ c.collapses \in BOOLEAN
         /\ c.collapses => drag.kind # "via"
         /\ drag.kind \in Single => (drag.mode = "shove" => c.k \in Kept(State))
         /\ drag.kind \notin Single => (setting.mode = "shove" => c.k \in Kept(State))
         /\ drag.kind = "multi" =>
              /\ c.done \in SUBSET drag.pieces /\ c.lost \in SUBSET c.done
              /\ setting.mode # "mark" => c.lost = {}
         /\ drag.kind = "component" => c.lost \in SUBSET drag.pieces
<1> DEFINE mode == IF drag.kind \in Single THEN drag.mode ELSE setting.mode
           collapsing == IF drag.kind \in {"line", "arc"} THEN BOOLEAN ELSE {FALSE}
           fitting == IF drag.kind = "multi" THEN SUBSET drag.pieces ELSE {{}}
<1>1. PICK done \in fitting :
        c \in [k : FramesKept(mode), shoves : Shoves(mode), walks : Walks(mode),
              collapses : collapsing, done : {done}, lost : Clipped(done)]
  BY DEF Choice
<1> HIDE DEF mode, collapsing, fitting
<1>2. /\ c.k \in FramesKept(mode) /\ c.shoves \in Shoves(mode) /\ c.walks \in Walks(mode)
      /\ c.collapses \in collapsing /\ c.done \in fitting /\ c.lost \in Clipped(c.done)
  BY <1>1
<1>3. c.shoves \in BOOLEAN /\ c.walks \in BOOLEAN
  BY <1>2 DEF Shoves, Walks
<1>4. mode = "shove" => c.k \in Kept(State)
  BY <1>2 DEF FramesKept
<1>5. c.collapses \in BOOLEAN /\ (c.collapses => drag.kind # "via")
  BY <1>2 DEF collapsing
<1>6. drag.kind = "multi" => /\ c.done \in SUBSET drag.pieces /\ c.lost \in SUBSET c.done
                             /\ setting.mode # "mark" => c.lost = {}
  BY <1>2 DEF fitting, Clipped, NotAll
<1>7. drag.kind = "component" => c.lost \in SUBSET drag.pieces
  BY <1>2 DEF Clipped, NotAll
<1> QED
  BY <1>3, <1>4, <1>5, <1>6, <1>7 DEF mode

DragLands(u, at) ==
    /\ Safe(u) /\ DragShows(u) /\ Waits(u) /\ u.drag.at = at
    /\ SingleLegal(u) /\ MultiExcused(u)

LEMMA SingleLands ==
  ASSUME AnySession, phase = "dragging", drag.kind \in Single, NEW p \in Place,
         NEW c \in Choice, Room(4)
  PROVE  LET u == SingleDrag(State, p, c)
         IN  /\ DragLands(u, IF Worked(u.drag) THEN p ELSE drag.at)
             /\ u.drag.kind = drag.kind /\ u.drag.pieces = drag.pieces
<1> DEFINE s == State
           u == SingleDrag(s, p, c)
<1>1. /\ TypeOK /\ Safe(s) /\ DragShows(s) /\ Waits(s) /\ s.drag = drag
  BY DragOf, StateIs
<1>2. Spare(s, 4)
  BY <1>1, RoomIs
<1>3. PICK x \in Piece : /\ SingleGround(s, x) /\ s.drag.solution \subseteq Versions(x)
                         /\ Marks(s) \/ s.drag.lost = {}
  BY <1>1 DEF DragShows, SingleShows
<1>4. SingleOutcome(s, c)
  BY <1>1, ChoiceIs DEF SingleOutcome
<1> HIDE DEF s
<1>5. Landed(s, u, x, p)
  BY <1>1, <1>2, <1>3, <1>4, SingleDragOK
<1> HIDE DEF u
<1>6. u.drag.kind = drag.kind /\ u.drag.pieces = drag.pieces
  BY <1>1, <1>5 DEF Landed, SameDrag
<1>7. SingleShows(u)
  BY <1>5 DEF Landed, SingleShows
<1>8. DragShows(u) /\ MultiExcused(u)
  BY <1>6, <1>7 DEF DragShows, MultiExcused, Single
<1>9. Waits(u)
  BY <1>1, <1>5 DEF Landed, Waits
<1>10. DragLands(u, IF Worked(u.drag) THEN p ELSE drag.at)
  BY <1>1, <1>5, <1>8, <1>9 DEF Landed, DragLands
<1> QED
  BY <1>6, <1>10 DEF u, s

LEMMA DraggedLands ==
  ASSUME AnySession, phase = "dragging", NEW p \in Place, NEW c \in Choice, Room(4)
  PROVE  LET u == Dragged(State, p, c)
         IN  DragLands(u, IF Worked(u.drag) THEN p ELSE drag.at)
<1> DEFINE s == State
           u == Dragged(s, p, c)
<1>1. /\ TypeOK /\ Safe(s) /\ DragShows(s) /\ Waits(s) /\ s.drag = drag /\ drag.kind \in Kind
  BY DragOf, StateIs
<1>2. Spare(s, 4)
  BY <1>1, RoomIs
<1>3. CASE drag.kind \in Single
  <2>1. u = SingleDrag(State, p, c)
    BY <1>1, <1>3 DEF Dragged, Single
  <2> HIDE DEF u, s
  <2>2. DragLands(u, IF Worked(u.drag) THEN p ELSE drag.at)
    BY <1>3, <2>1, SingleLands
  <2> QED
    BY <2>2 DEF u, s
<1>4. CASE drag.kind = "multi"
  <2>1. u = MultiDrag(s, p, c)
    BY <1>1, <1>4 DEF Dragged, Single
  <2>2. MultiGround(s)
    BY <1>1, <1>4 DEF DragShows, MultiShows, MultiGround
  <2>3. MultiOutcome(s, c)
    BY <1>1, <1>4, <2>2, ChoiceIs DEF MultiOutcome, MultiGround, Single
  <2> HIDE DEF u, s
  <2>4. MultiLanded(u, p)
    BY <1>1, <1>2, <2>1, <2>2, <2>3, MultiDragOK
  <2>5. u.drag.kind = "multi"
    BY <2>4 DEF MultiLanded, MultiGround
  <2>6. DragShows(u)
    BY <2>4, <2>5 DEF MultiLanded, MultiGround, DragShows, MultiShows, Single
  <2>7. SingleLegal(u) /\ MultiExcused(u) /\ Worked(u.drag)
    BY <2>4, <2>5 DEF MultiLanded, SingleLegal, MultiExcused, Worked, Single
  <2>8. DragLands(u, IF Worked(u.drag) THEN p ELSE drag.at)
    BY <2>4, <2>6, <2>7 DEF DragLands, MultiLanded
  <2> QED
    BY <2>8 DEF u, s
<1>5. CASE drag.kind = "component"
  <2>1. u = ComponentDrag(s, p, c) /\ c.lost \in SUBSET Piece
    BY <1>1, <1>5, ChoiceIs DEF Dragged, Single, DragShows, ComponentShows
  <2>2. ComponentGround(s)
    BY <1>1, <1>5 DEF DragShows, ComponentShows, ComponentGround
  <2> HIDE DEF u, s
  <2>3. ComponentLanded(u, p)
    BY <1>1, <1>2, <2>1, <2>2, ComponentDragOK
  <2>4. u.drag.kind = "component"
    BY <2>3 DEF ComponentLanded, ComponentGround
  <2>5. DragShows(u)
    BY <2>3, <2>4 DEF ComponentLanded, ComponentGround, DragShows, ComponentShows, Single
  <2>6. SingleLegal(u) /\ MultiExcused(u) /\ Worked(u.drag)
    BY <2>4 DEF SingleLegal, MultiExcused, Worked, Single
  <2>7. DragLands(u, IF Worked(u.drag) THEN p ELSE drag.at)
    BY <2>3, <2>5, <2>6 DEF DragLands, ComponentLanded
  <2> QED
    BY <2>7 DEF u, s
<1> QED
  BY <1>1, <1>3, <1>4, <1>5 DEF Kind, Single

(* A drag that goes on, where it has come to.                              *)
LEMMA DragCameTo ==
  ASSUME AnySession, phase = "dragging", NEW at \in Place, NEW u, DragLands(u, at),
         tree' = u.tree, drag' = u.drag, shove' = u.shove, phase' = phase,
         setting' = setting, drags' \in Nat, good' = at, ended' = ended,
         UNCHANGED <<placer, fixes>>
  PROVE  AnySession' /\ QuietSession'
<1>1. /\ TypeOK /\ placer = NoPlacer /\ fixes = <<>> /\ ended.by = "none"
  BY DragOf
<1>2. /\ setting' \in Setting
      /\ ended \in [by : {"none", "commit", "abort"}, excused : BOOLEAN, lost : SUBSET Piece]
  BY <1>1 DEF TypeOK
<1>3. AnySession'
  <2>1. /\ Safe(u) /\ DragShows(u) /\ Waits(u) /\ u.drag.at \in Place /\ good' = u.drag.at
    BY DEF DragLands
  <2> QED
    BY <1>1, <1>2, <2>1, DragGoesOn
<1>4. State' = u /\ u.drag = drag' /\ (AllowDrc' <=> AllowDrc)
  BY DEF DragLands, Safe, DragState, State, AllowDrc
<1>5. SingleLegal(State)' /\ MultiExcused(State)'
  BY <1>4 DEF DragLands, SingleLegal, MultiExcused
<1> QED
  BY <1>1, <1>3, <1>5 DEF QuietSession, PiecesWhole, DragLegal

LEMMA MoveToStep ==
  ASSUME AnySession, NEW p \in Place, NEW c \in Choice, MoveTo(p, c), UNCHANGED <<placer, fixes>>
  PROVE  AnySession' /\ QuietSession'
<1>1. /\ phase = "dragging" /\ Room(4) /\ Become(Dragged(State, p, c)) /\ drags' = drags + 1
      /\ good' = (IF Worked(drag') THEN p ELSE good) /\ UNCHANGED <<phase, setting, ended>>
  BY DEF MoveTo, Possible
<1>2. PICK u : u = Dragged(State, p, c)
  OBVIOUS
<1>3. DragLands(u, IF Worked(u.drag) THEN p ELSE drag.at)
  BY <1>1, <1>2, DraggedLands
<1>4. tree' = u.tree /\ drag' = u.drag /\ shove' = u.shove
  BY <1>1, <1>2 DEF Become
<1>5. drags' \in Nat /\ good = drag.at /\ drag.at \in Place
  BY <1>1, DragOf DEF TypeOK, DragType
<1> QED
  BY <1>1, <1>3, <1>4, <1>5, DragCameTo

(* A drag that has failed is tried again before it is fixed, and fails.    *)
LEMMA RedragFailedStep ==
  ASSUME AnySession, NEW c \in Choice, phase = "dragging", drag.kind \in Single, Room(4),
         Become(SingleDrag(State, drag.at, c)),
         UNCHANGED <<phase, setting, drags, good, ended, placer, fixes>>
  PROVE  AnySession' /\ QuietSession'
<1>1. PICK u : u = SingleDrag(State, drag.at, c)
  OBVIOUS
<1>2. good = drag.at /\ drag.at \in Place /\ drags \in Nat
  BY DragOf DEF TypeOK, DragType
<1>3. DragLands(u, drag.at)
  <2>1. DragLands(u, IF Worked(u.drag) THEN drag.at ELSE drag.at)
    BY <1>1, <1>2, SingleLands
  <2> QED
    BY <2>1
<1>4. tree' = u.tree /\ drag' = u.drag /\ shove' = u.shove
  BY <1>1 DEF Become
<1> QED
  BY <1>2, <1>3, <1>4, DragCameTo
----------------------------------------------------------------------------
(* The settings change in the midst of a session.                          *)
LEMMA SettingsStep ==
  ASSUME AnySession, NEW new \in Setting, SetSettings(new), UNCHANGED <<placer, fixes>>
  PROVE  AnySession' /\ (Quiet /\ QuietSession => QuietSession')
<1>1. /\ phase \in {"dragging", "placing"} /\ <<setting, new>> \in MidDrag /\ setting' = new
      /\ UNCHANGED <<tree, drag, shove, phase, drags, good, ended, placer, fixes>>
  BY DEF SetSettings
<1>2. State' = State /\ PState' = PState
  BY <1>1 DEF State, PState
<1>3. /\ TypeOK' /\ RootWaits' /\ LegsNumbered' /\ Idle' /\ Dragging' /\ Over'
  <2>1. TypeOK' /\ RootWaits' /\ LegsNumbered' /\ Idle' /\ Over'
    BY <1>1 DEF AnySession, TypeOK, RootWaits, LegsNumbered, Idle, Over
  <2>2. Dragging'
    BY <1>1, <1>2 DEF AnySession, Dragging
  <2> QED
    BY <2>1, <2>2
<1>4. Placing'
  <2>1. PairShows(PState)' <=> PairShows(PState)
    BY <1>1, <1>2 DEF PairShows, LegsFixed, LegsPushed
  <2>2. TuningShows(PState)' <=> TuningShows(PState)
    BY <1>1, <1>2 DEF TuningShows
  <2> QED
    BY <1>1, <1>2, <2>1, <2>2 DEF AnySession, Placing
<1>5. /\ CommitsLastGood' /\ AbortRestores' /\ LegsStand' /\ LegsLegal'
  BY <1>1 DEF AnySession, CommitsLastGood, AbortRestores, LegsStand, LegsLegal, Over
<1>6. ASSUME Quiet, QuietSession PROVE QuietSession'
  <2>1. ~setting.drc /\ ~setting'.drc
    BY <1>1, <1>6 DEF Quiet
  <2>2. ~AllowDrc /\ ~AllowDrc'
    BY <2>1 DEF AllowDrc
  <2>3. phase = "dragging" => SingleLegal(State)' /\ MultiExcused(State)'
    <3>1. SingleLegal(State) => SingleLegal(State)'
      BY <1>2, <2>2 DEF SingleLegal
    <3>2. MultiExcused(State)'
      BY <2>2 DEF MultiExcused
    <3> QED
      BY <1>6, <3>1, <3>2 DEF QuietSession
  <2>4. PiecesWhole' /\ DragLegal'
    <3>1. ended'.by = "none" /\ phase' # "over"
      BY <1>1 DEF AnySession, Over
    <3> QED
      BY <3>1 DEF PiecesWhole, DragLegal
  <2> QED
    BY <1>1, <2>3, <2>4 DEF QuietSession
<1> QED
  BY <1>3, <1>4, <1>5, <1>6 DEF AnySession
----------------------------------------------------------------------------
(* The end of a session.                                                   *)
LEMMA OverReached ==
  ASSUME AnySession, TreeOK(tree'), tree'.live = {Root}, drag' \in DragType, shove' = NoShove,
         placer' \in PlacerType, phase' = "over", setting' = setting, drags' \in Nat, good' = good,
         ended' \in [by : {"commit", "abort"}, excused : BOOLEAN, lost : SUBSET Piece],
         fixes' \in Seq([leg : Fact, excused : BOOLEAN]), Len(fixes') <= MaxLegs, LegsNumbered',
         CommitsLastGood', AbortRestores', LegsStand', LegsLegal'
  PROVE  AnySession'
<1>1. TypeOK'
  BY NoDragIs DEF AnySession, TypeOK, TreeOK
<1>2. RootWaits' /\ Idle' /\ Dragging' /\ Placing' /\ Over'
  BY DEF RootWaits, Idle, Dragging, Placing, Over
<1> QED
  BY <1>1, <1>2 DEF AnySession

LEMMA DragOver ==
  ASSUME NEW d \in DragType
  PROVE  LET e == [NoDrag EXCEPT !.kind = d.kind, !.pieces = d.pieces]
         IN  e \in DragType /\ e.kind = d.kind /\ e.pieces = d.pieces
BY NoDragIs DEF DragType

(* Nothing but a piece's versions, the pieces' locks and what was pushed   *)
(* aside stands on a node without legs.                                    *)
LEMMA NoLegsOn ==
  ASSUME NEW t, NEW n \in t.live, NoLegs(t)
  PROVE  {f \in t.view[n] : IsLeg(f)} = {}
BY DEF NoLegs, LegsIn

(* What a dragger may commit: where it stands, when it answers that it may *)
(* be fixed.                                                               *)
MayFix(u) ==
    /\ u.drag.kind \in Single => u.drag.status \/ u.drag.forced
    /\ u.drag.kind = "component" => u.drag.last # NoNode

(* A piece in the view that is committed.                                  *)
Stands(u, V, x) ==
    IF x \in u.drag.lost THEN Versions(x) \cap V = {}
    ELSE \E way \in Ways : Versions(x) \cap V = {New(x, u.drag.at, way)}

LEMMA CommitShows ==
  ASSUME NEW u, Safe(u), DragShows(u), Waits(u), u.drag.kind \in Kind, MayFix(u)
  PROVE  LET V == u.tree.view[Current(u)]
         IN  /\ Current(u) \in u.tree.live
             /\ {f \in V : IsLeg(f)} = {}
             /\ u.drag.kind # "multi" => Stub \notin V
             /\ \A y \in Piece \ u.drag.pieces : Versions(y) \cap V = {Old(y)}
             /\ u.drag.kind # "multi" =>
                  /\ u.drag.lost \subseteq u.drag.pieces
                  /\ \A x \in u.drag.pieces : Stands(u, V, x)
<1> DEFINE n == Current(u)
           V == u.tree.view[n]
<1>1. n \in u.tree.live /\ (u.drag.last # NoNode => n = u.drag.last)
  BY SafeType DEF Current
<1> HIDE DEF n
<1>2. {f \in V : IsLeg(f)} = {}
  BY <1>1, NoLegsOn DEF Safe
<1>3. \A y \in Piece \ u.drag.pieces : Versions(y) \cap V = {Old(y)}
  BY <1>1 DEF Safe, OthersStay, Shows
<1>4. u.drag.kind # "multi" =>
        /\ Stub \notin V /\ u.drag.lost \subseteq u.drag.pieces
        /\ \A x \in u.drag.pieces : Stands(u, V, x)
  <2>1. CASE u.drag.kind \in Single
    <3>1. PICK x \in Piece : SingleGround(u, x) /\ ShowsOnce(u, x)
      BY <2>1 DEF DragShows, SingleShows, MayFix
    <3>2. n = u.drag.last /\ Stub \notin V /\ u.drag.pieces = {x}
      BY <1>1, <3>1 DEF ShowsOnce, SingleGround
    <3>3. u.drag.lost \subseteq {x} /\ Stands(u, V, x)
      BY <3>1, <3>2 DEF ShowsOnce, Shows, Stands
    <3> QED
      BY <3>2, <3>3
  <2>2. CASE u.drag.kind = "component"
    <3>1. n = u.drag.last /\ Stub \notin V /\ u.drag.pieces = Piece
      BY <1>1, <2>2 DEF MayFix, DragShows, ComponentShows
    <3>2. \A x \in Piece : Versions(x) \cap V = IF x \in u.drag.lost THEN {}
                                               ELSE {New(x, u.drag.at, "straight")}
      BY <2>2, <3>1 DEF MayFix, DragShows, ComponentShows, Shows
    <3>3. u.drag.lost \subseteq Piece
      BY SafeType DEF DragType
    <3> QED
      BY <3>1, <3>2, <3>3 DEF Ways, Stands
  <2> QED
    BY <2>1, <2>2 DEF Kind, Single
<1> QED
  BY <1>1, <1>2, <1>3, <1>4 DEF n

LEMMA CommitStep ==
  ASSUME AnySession, phase = "dragging", NEW u, Safe(u), DragShows(u), Waits(u),
         u.drag.at = good, u.drag.kind \in Kind, NEW excused \in BOOLEAN,
         MayFix(u), Commit(u, excused), UNCHANGED <<placer, fixes>>
  PROVE  /\ AnySession' /\ phase' = "over"
         /\ ended' = [by |-> "commit", excused |-> excused, lost |-> u.drag.lost]
         /\ tree'.view[Root] = u.tree.view[Current(u)]
<1> DEFINE V == u.tree.view[Current(u)]
<1>1. /\ tree' = KilledChildren(Committed(u.tree, Current(u)), Root)
      /\ drag' = [NoDrag EXCEPT !.kind = u.drag.kind, !.pieces = u.drag.pieces]
      /\ shove' = NoShove /\ phase' = "over" /\ drags' = 0
      /\ ended' = [by |-> "commit", excused |-> excused, lost |-> u.drag.lost]
      /\ setting' = setting /\ good' = good
  BY DEF Commit, FinishDrag
<1>2. /\ TypeOK /\ placer = NoPlacer /\ fixes = <<>> /\ LegsNumbered
  BY DragOf DEF AnySession
<1>3. /\ Current(u) \in u.tree.live
      /\ {f \in V : IsLeg(f)} = {}
      /\ \A y \in Piece \ u.drag.pieces : Versions(y) \cap V = {Old(y)}
      /\ u.drag.kind # "multi" =>
           /\ u.drag.lost \subseteq u.drag.pieces
           /\ \A x \in u.drag.pieces : Stands(u, V, x)
  BY CommitShows
<1>4. TreeOK(tree') /\ tree'.live = {Root} /\ tree'.view[Root] = V
  <2>1. TreeOK(u.tree)
    BY DEF Safe, Standing
  <2> QED
    BY <1>1, <1>3, <2>1, CommittedOK
<1>5. drag' \in DragType /\ drag'.kind = u.drag.kind /\ drag'.pieces = u.drag.pieces
  BY <1>1, SafeType, DragOver
<1> HIDE DEF V
<1>6. LegsNumbered' /\ AbortRestores' /\ LegsStand' /\ LegsLegal'
  <2>1. fixes' = <<>> /\ DOMAIN fixes' = {} /\ ended'.by = "commit"
    BY <1>1, <1>2
  <2>2. {f \in Board' : IsLeg(f)} = {}
    BY <1>3, <1>4 DEF Board
  <2>3. LegsStand'
    BY <2>1, <2>2 DEF LegsStand
  <2> QED
    BY <2>1, <2>3 DEF LegsNumbered, AbortRestores, LegsLegal
<1>7. CommitsLastGood'
  <2> SUFFICES ASSUME u.drag.kind # "multi", NEW x \in Piece
               PROVE  Versions(x) \cap V \subseteq
                        IF x \in u.drag.pieces THEN {New(x, good, way) : way \in {"straight", "walked"}}
                        ELSE {Old(x)}
    <3>1. placer'.pieces = {}
      BY <1>2 DEF NoPlacer
    <3> QED
      BY <1>1, <1>4, <1>5, <3>1 DEF CommitsLastGood, Shown, Board
  <2> QED
    BY <1>3 DEF Ways, Stands
<1>8. /\ placer' \in PlacerType /\ fixes' \in Seq([leg : Fact, excused : BOOLEAN])
      /\ Len(fixes') <= MaxLegs /\ drags' \in Nat
      /\ ended' \in [by : {"commit", "abort"}, excused : BOOLEAN, lost : SUBSET Piece]
  <2>1. u.drag.lost \in SUBSET Piece
    BY SafeType DEF DragType
  <2> QED
    BY <1>1, <1>2, <2>1 DEF TypeOK
<1>9. AnySession'
  BY <1>1, <1>4, <1>5, <1>6, <1>7, <1>8, OverReached
<1> QED
  BY <1>1, <1>4, <1>9 DEF V

(* What is committed is whole, and what is not excused is legal.           *)
LEMMA CommitQuiet ==
  ASSUME NEW u, Safe(u), DragShows(u), Waits(u), u.drag.kind \in Kind,
         NEW excused \in BOOLEAN, MayFix(u),
         SingleLegal(u), MultiExcused(u),
         u.drag.kind \in Single => (excused <=> ~u.drag.status \/ AllowDrc),
         u.drag.kind = "multi" => excused /\ (u.drag.status \/ AllowDrc),
         u.drag.kind = "component" => excused \/ u.drag.at \notin Tight,
         phase' = "over", ended' = [by |-> "commit", excused |-> excused, lost |-> u.drag.lost],
         tree'.view[Root] = u.tree.view[Current(u)]
  PROVE  QuietSession'
<1> DEFINE V == u.tree.view[Current(u)]
<1>1. /\ Current(u) \in u.tree.live
      /\ u.drag.kind # "multi" => Stub \notin V
      /\ \A y \in Piece \ u.drag.pieces : Versions(y) \cap V = {Old(y)}
      /\ u.drag.kind # "multi" =>
           /\ u.drag.lost \subseteq u.drag.pieces
           /\ \A x \in u.drag.pieces : Stands(u, V, x)
  BY CommitShows
<1>2. /\ Stub \notin V
      /\ \A x \in Piece : IF x \in u.drag.lost THEN Versions(x) \cap V = {}
                          ELSE \E f : Versions(x) \cap V = {f}
  <2>1. CASE u.drag.kind = "multi"
    <3>1. WholeAt(u.tree, Current(u), u.drag.lost)
      BY <2>1 DEF DragShows, MultiShows, MultiExcused
    <3> QED
      BY <3>1 DEF WholeAt, Shows
  <2>2. CASE u.drag.kind # "multi"
    BY <1>1, <2>2 DEF Stands
  <2> QED
    BY <2>1, <2>2
<1>3. PiecesWhole'
  <2>1. Cardinality({}) = 0 /\ \A f : Cardinality({f}) = 1
    BY FS_EmptySet, FS_Singleton
  <2> SUFFICES /\ Stub \notin V
               /\ \A x \in Piece : Cardinality(Versions(x) \cap V) =
                                    IF x \in u.drag.lost THEN 0 ELSE 1
    BY DEF PiecesWhole, Shown, Board
  <2> HIDE DEF V
  <2> QED
    BY <1>2, <2>1
<1>4. DragLegal'
  <2> SUFFICES ASSUME ~excused, NEW x \in Piece, NEW p \in Tight, New(x, p, "straight") \in V
               PROVE  Push(p) \in V
    BY DEF DragLegal, Board
  <2>1. u.drag.kind # "multi" /\ p \in Place
    BY AssumePlaces
  <2>2. New(x, p, "straight") \in Versions(x) \cap V
    BY <2>1, VersionsApart DEF Ways
  <2>3. x \in u.drag.pieces /\ u.drag.at = p
    BY <1>1, <2>1, <2>2, FactsApart DEF Stands
  <2>4. u.drag.kind \in Single
    BY <2>1, <2>3 DEF Kind, Single
  <2>5. u.drag.status /\ ~AllowDrc
    BY <2>4
  <2>6. V = u.tree.view[u.drag.last]
    <3>1. u.drag.last # NoNode
      BY <2>4, <2>5 DEF DragShows, SingleShows, ShowsOnce
    <3> QED
      BY <3>1 DEF Current
  <2> QED
    BY <2>3, <2>4, <2>5, <2>6 DEF SingleLegal
<1> QED
  BY <1>3, <1>4 DEF QuietSession

LEMMA DragStands ==
  ASSUME AnySession, phase = "dragging"
  PROVE  /\ Safe(State) /\ DragShows(State) /\ Waits(State) /\ State.drag.at = good
         /\ State.drag = drag /\ drag.kind \in Kind /\ drag.status \in BOOLEAN
BY DragOf, StateIs DEF TypeOK, DragType

LEMMA FixSingleStep ==
  ASSUME AnySession, NEW force \in BOOLEAN, FixSingle(force), UNCHANGED <<placer, fixes>>
  PROVE  AnySession' /\ (QuietSession => QuietSession')
<1> DEFINE s == State
           excused == ~drag.status \/ AllowDrc
<1>1. /\ phase = "dragging" /\ drag.kind \in Single /\ (drag.status \/ drag.forced)
      /\ Commit(s, excused)
  BY DEF FixSingle
<1>2. /\ Safe(s) /\ DragShows(s) /\ Waits(s) /\ s.drag.at = good
      /\ s.drag = drag /\ drag.kind \in Kind
      /\ excused \in BOOLEAN
  BY <1>1, DragStands
<1>3. MayFix(s)
  BY <1>1, <1>2 DEF MayFix, Single
<1> HIDE DEF excused
<1>4. /\ AnySession' /\ phase' = "over"
      /\ ended' = [by |-> "commit", excused |-> excused, lost |-> s.drag.lost]
      /\ tree'.view[Root] = s.tree.view[Current(s)]
  <2> HIDE DEF s
  <2> QED
    BY <1>1, <1>2, <1>3, CommitStep
<1>5. ASSUME QuietSession PROVE QuietSession'
  <2>1. SingleLegal(s) /\ MultiExcused(s)
    BY <1>1, <1>5 DEF QuietSession
  <2>2. /\ s.drag.kind \in Single => (excused <=> ~s.drag.status \/ AllowDrc)
        /\ s.drag.kind # "multi" /\ s.drag.kind # "component"
    BY <1>1, <1>2 DEF excused, Single
  <2> HIDE DEF s
  <2> QED
    BY <1>2, <1>3, <1>4, <2>1, <2>2, CommitQuiet
<1> QED
  BY <1>4, <1>5

LEMMA FixRedragsStep ==
  ASSUME AnySession, NEW c \in Choice, FixRedrags(c), UNCHANGED <<placer, fixes>>
  PROVE  AnySession' /\ QuietSession'
<1>1. PICK u : u = SingleDrag(State, drag.at, c)
  OBVIOUS
<1>2. /\ phase = "dragging" /\ drag.kind \in Single /\ Room(4)
      /\ IF u.drag.status THEN Commit(u, AllowDrc)
         ELSE Become(u) /\ UNCHANGED <<phase, setting, drags, good, ended>>
  BY <1>1 DEF FixRedrags, Possible
<1>3. CASE ~u.drag.status
  BY <1>1, <1>2, <1>3, RedragFailedStep
<1>4. CASE u.drag.status
  <2> DEFINE excused == AllowDrc
  <2>1. drag.at \in Place /\ drag.at = good /\ Safe(State) /\ TypeOK
    BY <1>2, DragOf DEF TypeOK, DragType
  <2>2. /\ DragLands(u, IF Worked(u.drag) THEN drag.at ELSE drag.at)
        /\ u.drag.kind = drag.kind
    BY <1>1, <1>2, <2>1, SingleLands
  <2>3. /\ Safe(u) /\ DragShows(u) /\ Waits(u) /\ u.drag.at = good
        /\ SingleLegal(u) /\ MultiExcused(u) /\ u.drag.kind \in Kind /\ u.drag.kind \in Single
    BY <1>2, <2>1, <2>2 DEF DragLands, Single, Kind
  <2>4. excused \in BOOLEAN /\ MayFix(u) /\ Commit(u, excused)
    BY <1>2, <1>4, <2>3 DEF MayFix, Single, AllowDrc
  <2>5. /\ u.drag.kind \in Single => (excused <=> ~u.drag.status \/ AllowDrc)
        /\ u.drag.kind # "multi" /\ u.drag.kind # "component"
    BY <1>4, <2>3 DEF Single
  <2> HIDE DEF excused
  <2>6. /\ AnySession' /\ phase' = "over"
        /\ ended' = [by |-> "commit", excused |-> excused, lost |-> u.drag.lost]
        /\ tree'.view[Root] = u.tree.view[Current(u)]
    BY <1>2, <2>3, <2>4, CommitStep
  <2>7. QuietSession'
    BY <2>3, <2>4, <2>5, <2>6, CommitQuiet
  <2> QED
    BY <2>6, <2>7
<1> QED
  BY <1>3, <1>4

LEMMA FixMultiStep ==
  ASSUME AnySession, FixMulti, UNCHANGED <<placer, fixes>>
  PROVE  AnySession' /\ (QuietSession => QuietSession')
<1> DEFINE s == State
<1>1. /\ phase = "dragging" /\ drag.kind = "multi" /\ (drag.status \/ AllowDrc)
      /\ Commit(s, TRUE)
  BY DEF FixMulti
<1>2. /\ Safe(s) /\ DragShows(s) /\ Waits(s) /\ s.drag.at = good
      /\ s.drag = drag /\ drag.kind \in Kind
  BY <1>1, DragStands
<1>3. MayFix(s)
  BY <1>1, <1>2 DEF MayFix, Single
<1>4. /\ AnySession' /\ phase' = "over"
      /\ ended' = [by |-> "commit", excused |-> TRUE, lost |-> s.drag.lost]
      /\ tree'.view[Root] = s.tree.view[Current(s)]
  <2> HIDE DEF s
  <2> QED
    BY <1>1, <1>2, <1>3, CommitStep
<1>5. ASSUME QuietSession PROVE QuietSession'
  <2>1. SingleLegal(s) /\ MultiExcused(s)
    BY <1>1, <1>5 DEF QuietSession
  <2>2. s.drag.kind \notin Single /\ s.drag.kind # "component"
    BY <1>1, <1>2 DEF Single
  <2> HIDE DEF s
  <2> QED
    BY <1>1, <1>2, <1>3, <1>4, <2>1, <2>2, CommitQuiet
<1> QED
  BY <1>4, <1>5

LEMMA FixComponentStep ==
  ASSUME AnySession, NEW force \in BOOLEAN, FixComponent(force), UNCHANGED <<placer, fixes>>
  PROVE  AnySession' /\ (QuietSession => QuietSession')
<1> DEFINE s == State
           excused == AllowDrc \/ force
<1>1. /\ phase = "dragging" /\ drag.kind = "component" /\ drag.last # NoNode
      /\ excused \/ drag.at \notin Tight
      /\ Commit(s, excused)
  BY DEF FixComponent
<1>2. /\ Safe(s) /\ DragShows(s) /\ Waits(s) /\ s.drag.at = good
      /\ s.drag = drag /\ drag.kind \in Kind /\ excused \in BOOLEAN
  BY <1>1, DragStands
<1>3. MayFix(s)
  BY <1>1, <1>2 DEF MayFix, Single
<1> HIDE DEF excused
<1>4. /\ AnySession' /\ phase' = "over"
      /\ ended' = [by |-> "commit", excused |-> excused, lost |-> s.drag.lost]
      /\ tree'.view[Root] = s.tree.view[Current(s)]
  <2> HIDE DEF s
  <2> QED
    BY <1>1, <1>2, <1>3, CommitStep
<1>5. ASSUME QuietSession PROVE QuietSession'
  <2>1. SingleLegal(s) /\ MultiExcused(s)
    BY <1>1, <1>5 DEF QuietSession
  <2>2. s.drag.kind \notin Single /\ s.drag.kind # "multi"
    BY <1>1, <1>2 DEF Single
  <2> HIDE DEF s
  <2> QED
    BY <1>1, <1>2, <1>3, <1>4, <2>1, <2>2, CommitQuiet
<1> QED
  BY <1>4, <1>5
----------------------------------------------------------------------------
(* A pair is placed.                                                       *)
LEMMA PairChoiceIs ==
  ASSUME NEW c \in PairChoice
  PROVE  PairOutcome(PState, c)
<1>1. c \in [k : FramesKept(setting.mode), shoves : Shoves(setting.mode),
             walks : Walks(setting.mode), snap : BOOLEAN, fits : {"fits", "sticky", "lost"}]
  BY DEF PairChoice
<1>2. FramesKept(setting.mode) \subseteq Nat
  BY DEF FramesKept, Kept
<1>3. Shoves(setting.mode) \subseteq BOOLEAN /\ Walks(setting.mode) \subseteq BOOLEAN
  BY DEF Shoves, Walks
<1>4. setting.mode = "shove" => FramesKept(setting.mode) = Kept(PState)
  BY StateIs DEF FramesKept, Kept
<1> HIDE DEF PairChoice
<1>5. /\ c \in [k : Nat, shoves : BOOLEAN, walks : BOOLEAN, snap : BOOLEAN,
                fits : {"fits", "sticky", "lost"}]
      /\ c.k \in FramesKept(setting.mode)
  BY <1>1, <1>2, <1>3
<1> QED
  BY <1>4, <1>5 DEF PairOutcome

LEMMA PairCameTo ==
  ASSUME AnySession, ended.by = "none", drag = NoDrag, NEW u, PairHolds(u), Waits(u),
         tree' = u.tree, shove' = u.shove, placer' = u.placer, drag' = drag,
         phase' = "placing", setting' = setting, drags' \in Nat, UNCHANGED <<good, ended, fixes>>
  PROVE  AnySession' /\ QuietSession'
<1>1. TypeOK /\ LegsNumbered
  BY DEF AnySession
<1>2. PairHolds(u)'
  BY DEF PairHolds, PairGround, LegsFixed, PushDue, Traced
<1>3. AnySession'
  <2>1. /\ PairSafe(u) /\ setting' \in Setting /\ good' \in Place
        /\ ended \in [by : {"none", "commit", "abort"}, excused : BOOLEAN, lost : SUBSET Piece]
        /\ fixes' \in Seq([leg : Fact, excused : BOOLEAN]) /\ Len(fixes') <= MaxLegs
    BY <1>1 DEF TypeOK, PairHolds
  <2>2. LegsNumbered'
    BY <1>1 DEF LegsNumbered
  <2> QED
    BY <1>2, <2>1, <2>2, PairGoesOn
<1> QED
  BY <1>3 DEF QuietSession, PiecesWhole, DragLegal

LEMMA PairMoveHolds ==
  ASSUME AnySession, NEW s, PairHolds(s), Waits(s), Spare(s, 2), NEW p \in Place,
         NEW c, PairOutcome(s, c)
  PROVE  LET u == PairMoved(s, p, c)
         IN  PairHolds(u) /\ Waits(u)
<1> DEFINE u == PairMoved(s, p, c)
<1>1. TypeOK /\ PairSafe(s) /\ Traced(s.placer)
  BY DEF AnySession, PairHolds
<1>2. PairArrived(s, u, p)
  BY <1>1, PairMovedOK
<1> HIDE DEF u
<1>3. PairHolds(u)
  BY <1>2 DEF PairArrived, PairHolds
<1>4. Waits(u)
  BY <1>2 DEF PairArrived, Waits
<1> QED
  BY <1>3, <1>4 DEF u

(* A field of the placer that says nothing of its nodes.                   *)
LEMMA PairFieldHolds ==
  ASSUME NEW s, PairHolds(s), Waits(s), NEW q \in PlacerType,
         SamePair(s.placer, q), q.current = s.placer.current, q.ok = s.placer.ok,
         q.trace = s.placer.trace, q.leg = s.placer.leg, q.at = s.placer.at, q.fit = s.placer.fit
  PROVE  LET u == [s EXCEPT !.placer = q]
         IN  PairHolds(u) /\ Waits(u) /\ u.tree = s.tree /\ u.shove = s.shove /\ u.placer = q
             /\ Used(u) = Used(s)
<1> DEFINE u == [s EXCEPT !.placer = q]
<1>1. /\ q.world = s.placer.world /\ q.last = s.placer.last /\ q.fixed = s.placer.fixed
      /\ q.kind = s.placer.kind /\ q.pieces = s.placer.pieces /\ q.end = s.placer.end
      /\ q.current \in {s.placer.current, s.shove.current} /\ PairSafe(s)
  BY DEF SamePair, PairHolds
<1>2. /\ PairSafe(u) /\ u.tree = s.tree /\ u.shove = s.shove /\ u.placer = q
      /\ \A L, D : PairGround(s, L, D) => PairGround(u, L, D)
      /\ Used(u) = Used(s)
  BY <1>1, PlacerFields
<1> HIDE DEF u
<1>3. PairHolds(u)
  BY <1>1, <1>2 DEF PairHolds, Traced, Free
<1>4. Waits(u)
  BY <1>2 DEF Waits
<1> QED
  BY <1>2, <1>3, <1>4 DEF u

LEMMA MovesOf ==
  ASSUME AnySession, NEW c \in PairChoice, Moves(c)
  PROVE  /\ TypeOK /\ PairHolds(PState) /\ Waits(PState) /\ drag = NoDrag /\ phase = "placing"
         /\ ended.by = "none" /\ PairOutcome(PState, c) /\ Spare(PState, 4)
         /\ placer.end \in Place /\ placer \in PlacerType /\ drags + 1 \in Nat
<1>1. placer.kind = "pair" /\ phase = "placing" /\ Room(4)
  BY DEF Moves, Possible
<1>2. /\ TypeOK /\ PairHolds(PState) /\ Waits(PState) /\ drag = NoDrag /\ ended.by = "none"
  BY <1>1, PairOf
<1>3. PairOutcome(PState, c) /\ Spare(PState, 4)
  BY <1>1, <1>2, PairChoiceIs, RoomIs
<1> QED
  BY <1>1, <1>2, <1>3, StateIs DEF TypeOK, PairHolds

LEMMA MovedStep ==
  ASSUME AnySession, NEW c \in PairChoice, Moves(c), Moving,
         NEW s, PairHolds(s), Waits(s), Spare(s, 2), NEW d, PairOutcome(s, d), NEW p \in Place,
         PBecome(PairMoved(s, p, d))
  PROVE  AnySession' /\ QuietSession'
<1>1. PICK u : u = PairMoved(s, p, d)
  OBVIOUS
<1>2. PairHolds(u) /\ Waits(u)
  BY <1>1, PairMoveHolds
<1>3. tree' = u.tree /\ shove' = u.shove /\ placer' = u.placer /\ drag' = drag
  BY <1>1 DEF PBecome
<1>4. /\ ended.by = "none" /\ drag = NoDrag /\ phase = "placing" /\ drags' \in Nat
      /\ UNCHANGED <<phase, setting, good, ended, fixes>>
  BY MovesOf DEF Moving
<1> QED
  BY <1>2, <1>3, <1>4, PairCameTo

LEMMA MovePairStep ==
  ASSUME AnySession, NEW p \in Place, NEW c \in PairChoice, MovePair(p, c)
  PROVE  AnySession' /\ QuietSession'
<1>1. Moves(c) /\ Moving /\ PBecome(PairMoved(PState, p, c))
  BY DEF MovePair
<1>2. /\ PairHolds(PState) /\ Waits(PState) /\ PairOutcome(PState, c) /\ Spare(PState, 4)
  BY <1>1, MovesOf
<1>3. Spare(PState, 2)
  BY <1>2, SpareMonotone
<1> QED
  BY <1>1, <1>2, <1>3, MovedStep

LEMMA FlipPostureStep ==
  ASSUME AnySession, NEW c \in PairChoice, FlipPosture(c)
  PROVE  AnySession' /\ QuietSession'
<1>1. Moves(c) /\ Moving /\ PBecome(PairMoved(PState, placer.end, c))
  BY DEF FlipPosture
<1>2. /\ PairHolds(PState) /\ Waits(PState) /\ PairOutcome(PState, c) /\ Spare(PState, 4)
      /\ placer.end \in Place
  BY <1>1, MovesOf
<1>3. Spare(PState, 2)
  BY <1>2, SpareMonotone
<1> QED
  BY <1>1, <1>2, <1>3, MovedStep

LEMMA ToggleViaStep ==
  ASSUME AnySession, NEW enabled \in BOOLEAN, NEW c \in PairChoice, ToggleVia(enabled, c)
  PROVE  AnySession' /\ QuietSession'
<1> DEFINE q == [placer EXCEPT !.placing_via = enabled]
           s == [PState EXCEPT !.placer = q]
<1>1. /\ Moves(c) /\ Moving
      /\ PBecome(PairMoved([PState EXCEPT !.placer.placing_via = enabled], placer.end, c))
  BY DEF ToggleVia
<1>2. [PState EXCEPT !.placer.placing_via = enabled] = s
  BY DEF PState
<1>3. /\ PairHolds(PState) /\ Waits(PState) /\ PairOutcome(PState, c) /\ Spare(PState, 4)
      /\ placer.end \in Place /\ placer \in PlacerType
  BY <1>1, MovesOf
<1>4. /\ q \in PlacerType /\ SamePair(placer, q) /\ q.current = placer.current /\ q.ok = placer.ok
      /\ q.trace = placer.trace /\ q.leg = placer.leg /\ q.at = placer.at /\ q.fit = placer.fit
  BY <1>3 DEF PlacerType, SamePair
<1> HIDE DEF q
<1>5. /\ PairHolds(s) /\ Waits(s) /\ s.tree = PState.tree /\ s.shove = PState.shove /\ s.placer = q
      /\ Used(s) = Used(PState)
  BY <1>3, <1>4, StateIs, PairFieldHolds
<1> HIDE DEF s
<1>6. Spare(s, 2) /\ PairOutcome(s, c)
  BY <1>3, <1>5, SpareMonotone DEF PairOutcome, Kept
<1> QED
  BY <1>1, <1>2, <1>3, <1>5, <1>6, MovedStep

LEMMA SetSizesStep ==
  ASSUME AnySession, SetSizes
  PROVE  AnySession' /\ QuietSession'
<1> DEFINE q == [placer EXCEPT !.resized = TRUE]
           s == [PState EXCEPT !.placer = q]
<1>1. /\ placer.kind = "pair" /\ phase = "placing" /\ placer' = q
      /\ UNCHANGED <<tree, drag, shove, phase, setting, drags, good, ended, fixes>>
  BY DEF SetSizes, dragVars
<1>2. /\ TypeOK /\ PairHolds(PState) /\ Waits(PState) /\ drag = NoDrag /\ ended.by = "none"
  BY <1>1, PairOf
<1>3. /\ q \in PlacerType /\ SamePair(placer, q) /\ q.current = placer.current /\ q.ok = placer.ok
      /\ q.trace = placer.trace /\ q.leg = placer.leg /\ q.at = placer.at /\ q.fit = placer.fit
  BY <1>2 DEF TypeOK, PlacerType, SamePair
<1> HIDE DEF q
<1>4. /\ PairHolds(s) /\ Waits(s) /\ s.tree = PState.tree /\ s.shove = PState.shove /\ s.placer = q
  BY <1>2, <1>3, StateIs, PairFieldHolds
<1> HIDE DEF s
<1>5. tree' = s.tree /\ shove' = s.shove /\ placer' = s.placer /\ drag' = drag /\ drags' \in Nat
  BY <1>1, <1>2, <1>4, StateIs DEF TypeOK
<1> QED
  BY <1>1, <1>2, <1>4, <1>5, PairCameTo

(* The leg begins anew on the node it stands on.                           *)
LEMMA SetLayerStep ==
  ASSUME AnySession, NEW c \in PairChoice, SetLayer(c)
  PROVE  AnySession' /\ QuietSession'
<1> DEFINE q == [placer EXCEPT !.start = placer.prev]
           s == [PState EXCEPT !.placer = q]
           again == Restarted(s, placer.current)
           d == [c EXCEPT !.k = 0]
<1>1. /\ Moves(c) /\ Moving /\ Room(6) /\ placer.prev = "via"
      /\ PBecome(PairMoved(Restarted([PState EXCEPT !.placer.start = placer.prev], placer.current),
                           placer.end, d))
  BY DEF SetLayer
<1>2. [PState EXCEPT !.placer.start = placer.prev] = s
  BY DEF PState
<1>3. /\ TypeOK /\ PairHolds(PState) /\ Waits(PState) /\ PairOutcome(PState, c)
      /\ placer.end \in Place /\ placer \in PlacerType
  BY <1>1, MovesOf
<1>4. Spare(PState, 6)
  BY <1>1, <1>3, RoomIs
<1>5. /\ q \in PlacerType /\ SamePair(placer, q) /\ q.current = placer.current /\ q.ok = placer.ok
      /\ q.trace = placer.trace /\ q.leg = placer.leg /\ q.at = placer.at /\ q.fit = placer.fit
  BY <1>1, <1>3 DEF PlacerType, SamePair
<1> HIDE DEF q
<1>6. /\ PairHolds(s) /\ Waits(s) /\ s.tree = PState.tree /\ s.shove = PState.shove /\ s.placer = q
      /\ Used(s) = Used(PState)
  BY <1>3, <1>5, StateIs, PairFieldHolds
<1> HIDE DEF s
<1>7. /\ s \in PairState /\ s.drag = NoDrag /\ TreeOK(s.tree) /\ OthersStay(s.tree, {})
      /\ Spare(s, 6) /\ Spare(s, 2)
      /\ placer.current \in s.tree.live /\ placer.current \in PairNodes(s)
      /\ s.placer.fixed # NoNode => s.placer.fixed \in s.tree.live \ {Root} /\ s.placer.fixed \in PairNodes(s)
  <2>1. PairSafe(s) /\ s.placer.current = placer.current
    BY <1>5, <1>6 DEF PairHolds
  <2>2. Spare(s, 6) /\ Spare(s, 2)
    BY <1>4, <1>6, SpareMonotone
  <2>3. /\ PairNodes(s) \subseteq s.tree.live /\ s.placer.current \in PairNodes(s) /\ TreeOK(s.tree)
    BY <2>1, PairLive
  <2>4. s.placer.fixed # NoNode => s.placer.fixed \in s.tree.live \ {Root} /\ s.placer.fixed \in PairNodes(s)
    BY <2>1 DEF PairSafe, PairStands, PairNodes
  <2> QED
    BY <2>1, <2>2, <2>3, <2>4 DEF PairSafe
<1>8. /\ PairSafe(again) /\ again.drag = s.drag
      /\ again.placer = [s.placer EXCEPT !.world = again.placer.world,
                                         !.current = again.placer.world, !.last = NoNode]
      /\ again.shove.stack = <<>>
      /\ again.tree.view[Root] = s.tree.view[Root]
      /\ \A k \in PairNodes(again) : \/ again.tree.view[k] = s.tree.view[placer.current]
                                     \/ k = s.placer.fixed /\ again.tree.view[k] = s.tree.view[k]
      /\ \A k \in Nat : Spare(s, k + 2) => Spare(again, k)
  BY <1>7, RestartedOK
<1> HIDE DEF again
<1>9. /\ s.placer \in PlacerType /\ again.placer.last = NoNode /\ again.placer.fixed = s.placer.fixed
      /\ again.placer.kind = s.placer.kind /\ again.placer.pieces = s.placer.pieces
      /\ again.placer.end = s.placer.end /\ again.placer.ok = s.placer.ok
      /\ again.placer.trace = s.placer.trace /\ again.placer.leg = s.placer.leg
      /\ again.placer.at = s.placer.at
  <2>1. PICK w : again.placer = [q EXCEPT !.world = w, !.current = w, !.last = NoNode]
    BY <1>6, <1>8
  <2> QED
    BY <1>5, <1>6, <2>1 DEF PlacerType
<1>10. PairGround(again, LegsFixed, PushDue)
  <2>1. PairGround(s, LegsFixed, PushDue)
    BY <1>6 DEF PairHolds
  <2>2. ASSUME NEW k \in PairNodes(again)
        PROVE  \E m \in PairNodes(s) : again.tree.view[k] = s.tree.view[m]
    <3>1. CASE again.tree.view[k] = s.tree.view[placer.current]
      BY <1>7, <3>1
    <3>2. CASE k = s.placer.fixed /\ again.tree.view[k] = s.tree.view[k]
      <4>1. k # NoNode
        BY <2>2 DEF PairNodes
      <4> QED
        BY <1>7, <3>2, <4>1
    <3> QED
      BY <1>8, <2>2, <3>1, <3>2
  <2> QED
    BY <2>1, <2>2 DEF PairGround, LegsIn
<1>11. PairHolds(again)
  BY <1>6, <1>8, <1>9, <1>10 DEF PairHolds, Traced
<1>12. Waits(again)
  BY <1>6, <1>8 DEF Waits
<1>13. Spare(again, 2)
  <2>1. 6 = 4 + 2
    OBVIOUS
  <2>2. Spare(again, 4)
    BY <1>7, <1>8, <2>1
  <2> QED
    BY <2>2, SpareMonotone
<1>14. PairOutcome(again, d)
  <2>1. c \in [k : Nat, shoves : BOOLEAN, walks : BOOLEAN, snap : BOOLEAN,
               fits : {"fits", "sticky", "lost"}]
    BY <1>3 DEF PairOutcome
  <2>2. d.k = 0 /\ d \in [k : Nat, shoves : BOOLEAN, walks : BOOLEAN, snap : BOOLEAN,
               fits : {"fits", "sticky", "lost"}]
    BY <2>1
  <2> HIDE DEF d
  <2> QED
    BY <1>8, <2>2 DEF PairOutcome, Kept
<1> HIDE DEF d
<1>15. PBecome(PairMoved(again, placer.end, d))
  BY <1>1, <1>2 DEF again
<1> QED
  BY <1>1, <1>3, <1>11, <1>12, <1>13, <1>14, <1>15, MovedStep

LEMMA StartPairStep ==
  ASSUME AnySession, NEW p \in Place, NEW start \in {"via", "other"}, StartPair(p, start)
  PROVE  AnySession' /\ QuietSession'
<1> DEFINE t == KilledChildren(tree, Root)
           q == [NoPlacer EXCEPT !.kind = "pair", !.start = start, !.end = p]
           s == [PState EXCEPT !.tree = t, !.placer = q]
           u == Restarted(s, Root)
<1>1. /\ phase = "idle" /\ Room(3) /\ phase' = "placing"
      /\ UNCHANGED <<setting, drags, good, ended, fixes>>
      /\ PBecome(Restarted([PState EXCEPT !.tree = KilledChildren(@, Root), !.placer = q], Root))
  BY DEF StartPair
<1>2. [PState EXCEPT !.tree = KilledChildren(@, Root), !.placer = q] = s
  BY DEF PState
<1>3. /\ TypeOK /\ drag = NoDrag /\ shove = NoShove /\ fixes = <<>>
      /\ TreeOK(tree) /\ OthersStay(tree, {}) /\ NoLegs(tree) /\ Waits(State)
      /\ ended.by = "none" /\ Used(State) = tree.live
  BY <1>1, IdleOf
<1>4. /\ TreeOK(t) /\ Pruned(tree, t) /\ t.live = {Root} /\ t.view[Root] = tree.view[Root]
  BY <1>3, KilledOK, KilledRoot
<1> HIDE DEF t
<1>5. /\ q \in PlacerType /\ q.kind = "pair" /\ q.pieces = {} /\ q.fixed = NoNode /\ q.end = p
      /\ q.ok = FALSE /\ q.trace = "none" /\ q.fit = FALSE
  BY NodeType DEF NoPlacer, PlacerType, NodeOrNone
<1> HIDE DEF q
<1>6. /\ s \in PairState /\ s.drag = NoDrag /\ s.tree = t /\ s.placer = q /\ s.shove = NoShove
  BY <1>3, <1>4, <1>5, NoDragIs DEF PState, PairState, TreeOK
<1> HIDE DEF s
<1>7. OthersStay(t, {}) /\ NoLegs(t)
  BY <1>3, <1>4, CalmPruned
<1>8. Spare(s, 2)
  <2>1. Spare(State, 3)
    BY <1>1, <1>3, RoomIs
  <2>2. Used(s) \subseteq Used(State)
    <3>1. Held(s) \ {NoNode} = {}
      <4>1. Frames(s) = {}
        BY <1>6, NoDragIs DEF Frames, ToSet
      <4> QED
        BY <1>6, <4>1, PairType, NoDragIs
    <3>2. Root \in tree.live
      BY <1>3 DEF TreeOK
    <3> QED
      BY <1>3, <1>4, <1>6, <3>1, <3>2 DEF Used
  <2> QED
    BY <2>1, <2>2, SpareMonotone
<1>9. /\ PairSafe(u) /\ u.drag = s.drag
      /\ u.placer = [s.placer EXCEPT !.world = u.placer.world, !.current = u.placer.world,
                                     !.last = NoNode]
      /\ u.tree.view[Root] = s.tree.view[Root]
      /\ \A k \in PairNodes(u) : \/ u.tree.view[k] = s.tree.view[Root]
                                 \/ k = s.placer.fixed /\ u.tree.view[k] = s.tree.view[k]
  <2>1. Root \in s.tree.live /\ TreeOK(s.tree) /\ OthersStay(s.tree, {}) /\ s.placer.fixed = NoNode
    BY <1>4, <1>5, <1>6, <1>7
  <2> QED
    BY <1>6, <1>8, <2>1, RestartedOK
<1> HIDE DEF u
<1>10. /\ u.placer.kind = "pair" /\ u.placer.pieces = {} /\ u.placer.fixed = NoNode
       /\ u.placer.end = p /\ u.placer.ok = FALSE /\ u.placer.trace = "none" /\ u.placer.fit = FALSE
  BY <1>5, <1>6, <1>9, ZenonT(60) DEF PlacerType
<1>11. LegsFixed = {} /\ PushDue = {}
  BY <1>3 DEF LegsFixed, PushDue
<1>12. PairGround(u, LegsFixed, PushDue)
  <2>1. \A k \in PairNodes(u) : u.tree.view[k] = tree.view[Root]
    <3>1. NoNode \notin PairNodes(u)
      BY DEF PairNodes
    <3> QED
      BY <1>4, <1>5, <1>6, <1>9, <3>1
  <2>2. {f \in tree.view[Root] : IsLeg(f)} = {}
    BY <1>3, NoLegsOn DEF TreeOK
  <2>3. Stub \notin tree.view[Root]
    BY <1>3, RootWhole, StateIs
  <2> QED
    BY <1>11, <2>1, <2>2, <2>3 DEF PairGround, LegsIn
<1>13. PairHolds(u)
  BY <1>3, <1>9, <1>10, <1>12 DEF PairHolds, Traced
<1>14. Waits(u)
  BY <1>3, <1>4, <1>6, <1>9, StateIs DEF Waits
<1>15. tree' = u.tree /\ shove' = u.shove /\ placer' = u.placer /\ drag' = drag
  BY <1>1, <1>2 DEF PBecome, u
<1> QED
  BY <1>1, <1>3, <1>13, <1>14, <1>15, PairCameTo DEF TypeOK

(* A leg is fixed: it joins the last branch, and everything that was fixed *)
(* before and what was pushed aside for it is there.                       *)
FixedLeg == [leg |-> Fixed, excused |-> AllowDrc \/ placer.resized]

LEMMA FixedAppended ==
  ASSUME AnySession, FixGate
  PROVE  /\ Fixed \in Fact /\ IsLeg(Fixed)
         /\ fixes' \in Seq([leg : Fact, excused : BOOLEAN]) /\ Len(fixes') <= MaxLegs
         /\ fixes' # <<>> /\ LegsNumbered' /\ LegsFixed' = LegsFixed \cup {Fixed}
         /\ PushDue' \subseteq PushDue \cup
              {Push(p) : p \in {placer.at} \cap {q \in Tight : ~FixedLeg.excused /\ placer.trace = "straight"}}
<1>1. /\ placer.kind = "pair" /\ phase = "placing" /\ placer.last # NoNode
      /\ placer.trace \in {"straight", "walked"} /\ Len(fixes) < MaxLegs
      /\ fixes' = Append(fixes, FixedLeg)
  BY DEF FixGate, FixedLeg
<1>2. /\ TypeOK /\ PairHolds(PState) /\ LegsNumbered
  BY <1>1, PairOf
<1>3. fixes \in Seq([leg : Fact, excused : BOOLEAN]) /\ placer \in PlacerType
  BY <1>2 DEF TypeOK
<1> DEFINE k == Len(fixes) + 1
<1>4. /\ Len(fixes) \in Nat /\ k \in 1..MaxLegs /\ DOMAIN fixes = 1..Len(fixes)
  BY <1>1, <1>3, AssumeLegs, LenProperties
<1>5. placer.leg = k /\ placer.at \in Place
  BY <1>1, <1>2, StateIs DEF PairHolds, Traced
<1>6. Fixed \in Fact /\ IsLeg(Fixed) /\ Fixed[2] = k /\ Fixed[3] = placer.at /\ Fixed[4] = placer.trace
  <2>1. Fixed = Leg(k, placer.at, placer.trace)
    BY <1>5 DEF Fixed
  <2> HIDE DEF k
  <2>2. Fixed \in Fact
    BY <1>1, <1>4, <1>5, <2>1 DEF Fact, Ways
  <2> QED
    BY <2>1, <2>2, FactsApart
<1>7. FixedLeg \in [leg : Fact, excused : BOOLEAN] /\ FixedLeg.leg = Fixed
  BY <1>3, <1>6 DEF FixedLeg, AllowDrc, PlacerType
<1> HIDE DEF FixedLeg, Fixed
<1>8. /\ fixes' \in Seq([leg : Fact, excused : BOOLEAN]) /\ Len(fixes') = k
      /\ DOMAIN fixes' = 1..k
      /\ \A i \in 1..Len(fixes) : fixes'[i] = fixes[i]
      /\ fixes'[k] = FixedLeg
  <2>1. /\ Append(fixes, FixedLeg) \in Seq([leg : Fact, excused : BOOLEAN])
        /\ Len(Append(fixes, FixedLeg)) = k
        /\ \A i \in 1..Len(fixes) : Append(fixes, FixedLeg)[i] = fixes[i]
        /\ Append(fixes, FixedLeg)[k] = FixedLeg
    BY <1>3, <1>7, AppendProperties
  <2> HIDE DEF k
  <2>2. DOMAIN fixes' = 1..k
    BY <1>1, <2>1, LenProperties
  <2> QED
    BY <1>1, <2>1, <2>2
<1>9. /\ DOMAIN fixes' = DOMAIN fixes \cup {k} /\ \A i \in DOMAIN fixes : fixes'[i] = fixes[i]
      /\ k \in Nat \ {0}
  BY <1>4, <1>8
<1>10. Len(fixes') <= MaxLegs /\ fixes' # <<>>
  <2>1. k \in DOMAIN fixes'
    BY <1>9
  <2> QED
    BY <1>4, <1>8, <2>1
<1> HIDE DEF k
<1>11. LegsNumbered'
  BY <1>2, <1>6, <1>7, <1>8, <1>9 DEF LegsNumbered
<1>12. LegsFixed' = LegsFixed \cup {Fixed}
  <2>1. LegsFixed' = {fixes'[i].leg : i \in DOMAIN fixes'}
    BY DEF LegsFixed
  <2> QED
    BY <1>7, <1>8, <1>9, <2>1, SMTT(40) DEF LegsFixed
<1>13. PushDue' \subseteq PushDue \cup
              {Push(p) : p \in {placer.at} \cap {q \in Tight : ~FixedLeg.excused /\ placer.trace = "straight"}}
  <2> DEFINE due == {i \in DOMAIN fixes' : /\ ~fixes'[i].excused /\ fixes'[i].leg[4] = "straight"
                                           /\ fixes'[i].leg[3] \in Tight}
  <2>1. PushDue' = {Push(fixes'[i].leg[3]) : i \in due}
    BY DEF PushDue
  <2>2. ASSUME NEW i \in due
        PROVE  \/ Push(fixes'[i].leg[3]) \in PushDue
               \/ /\ fixes'[i].leg[3] = placer.at /\ placer.at \in Tight
                  /\ ~FixedLeg.excused /\ placer.trace = "straight"
    <3>1. CASE i \in DOMAIN fixes
      BY <1>9, <2>2, <3>1 DEF PushDue
    <3>2. CASE i = k
      BY <1>6, <1>7, <1>8, <2>2, <3>2
    <3> QED
      BY <1>9, <2>2, <3>1, <3>2
  <2> QED
    BY <2>1, <2>2
<1> QED
  BY <1>6, <1>8, <1>10, <1>11, <1>12, <1>13

LEMMA LaidOK ==
  ASSUME AnySession, FixGate
  PROVE  LET s == Laid(PState)
             n == placer.last
         IN  /\ s \in PairState /\ s.drag = NoDrag /\ s.shove = shove
             /\ TreeOK(s.tree) /\ OthersStay(s.tree, {}) /\ n \in s.tree.live \ {Root}
             /\ s.tree.view[Root] = tree.view[Root]
             /\ LegsIn(s.tree, n) = LegsFixed' /\ Stub \notin s.tree.view[n]
             /\ PushDue' \subseteq s.tree.view[n]
             /\ s.placer.fixed = n /\ s.placer.kind = "pair" /\ s.placer.pieces = {}
             /\ s.placer.end \in Place /\ Used(s) = Used(PState)
<1> DEFINE n == placer.last
           t == Written(tree, n, {Fixed})
           q == [placer EXCEPT !.fixed = n, !.placing_via = FALSE,
                               !.prev = IF placer.vias THEN "via" ELSE "other"]
           s == Laid(PState)
<1>1. /\ placer.kind = "pair" /\ phase = "placing" /\ n # NoNode
      /\ placer.fit \/ AllowDrc
  BY DEF FixGate
<1>2. /\ TypeOK /\ PairHolds(PState) /\ PairSafe(PState) /\ drag = NoDrag
  BY <1>1, PairOf DEF PairHolds
<1>3. /\ placer \in PlacerType /\ shove \in ShoveType /\ tree \in Tree(Fact) /\ n \in NodeOrNone
  BY <1>2 DEF TypeOK, PlacerType
<1>4. /\ TreeOK(tree) /\ n \in tree.live \ {Root} /\ n \in Node /\ OthersStay(tree, {})
      /\ n \in PairNodes(PState)
  <2>1. n \in tree.live \ {Root}
    BY <1>1, <1>2, StateIs DEF PairSafe, PairStands
  <2>2. n \in PairNodes(PState)
    BY <1>1, StateIs DEF PairNodes
  <2>3. TreeOK(tree) /\ OthersStay(tree, {})
    BY <1>2, StateIs DEF PairSafe, Standing
  <2> QED
    BY <2>1, <2>2, <2>3 DEF TreeOK, Tree
<1>5. /\ Fixed \in Fact /\ IsLeg(Fixed) /\ LegsFixed' = LegsFixed \cup {Fixed}
      /\ PushDue' \subseteq PushDue \cup
           {Push(p) : p \in {placer.at} \cap {r \in Tight : ~FixedLeg.excused /\ placer.trace = "straight"}}
  BY FixedAppended
<1>6. /\ TreeOK(t) /\ t.live = tree.live /\ t.chain = tree.chain
      /\ t.view[n] = tree.view[n] \cup {Fixed}
      /\ \A m \in Node \ {n} : t.view[m] = tree.view[m]
  BY <1>4, <1>5, WrittenOK
<1>7. /\ q \in PlacerType /\ q.fixed = n /\ q.kind = "pair" /\ q.pieces = placer.pieces /\ q.end = placer.end
  BY <1>1, <1>3 DEF PlacerType
<1>8. s = [tree |-> t, drag |-> drag, shove |-> shove, placer |-> q]
  <2>1. s = [PState EXCEPT !.tree = t, !.placer = q]
    BY StateIs DEF Laid
  <2> HIDE DEF t, q, s
  <2> QED
    BY <2>1 DEF PState
<1> HIDE DEF t, q, s
<1>9. /\ s \in PairState /\ s.drag = NoDrag /\ s.shove = shove /\ s.tree = t /\ s.placer = q
  BY <1>2, <1>3, <1>6, <1>7, <1>8, NoDragIs DEF PairState, TreeOK
<1>10. OthersStay(t, {})
  <2>1. \A y : Fixed \notin Versions(y)
    BY <1>5, VersionsApart
  <2>2. \A m \in t.live : t.view[m] = tree.view[m] \/ t.view[m] = tree.view[m] \cup {Fixed}
    BY <1>6, <1>4 DEF TreeOK, Tree
  <2>3. \A m \in t.live, y \in Piece : Versions(y) \cap t.view[m] = Versions(y) \cap tree.view[m]
    BY <2>1, <2>2
  <2> QED
    BY <1>4, <1>6, <2>3 DEF OthersStay, Shows
<1>11. /\ LegsIn(tree, n) = LegsFixed /\ Stub \notin tree.view[n] /\ PushDue \subseteq tree.view[n]
       /\ placer.end \in Place /\ placer.pieces = {}
  <2>1. PairGround(PState, LegsFixed, PushDue) /\ placer.end \in Place /\ placer.pieces = {}
    BY <1>2, StateIs DEF PairHolds
  <2>2. /\ LegsIn(PState.tree, n) = LegsFixed /\ Stub \notin PState.tree.view[n]
        /\ PushDue \subseteq PState.tree.view[n]
    BY <1>4, <2>1 DEF PairGround
  <2> QED
    BY <2>1, <2>2, StateIs
<1>12. LegsIn(t, n) = LegsFixed' /\ Stub \notin t.view[n]
  <2>1. Fixed # Stub
    BY <1>5, FactsApart
  <2> QED
    BY <1>5, <1>6, <1>11, <2>1 DEF LegsIn
<1>13. PushDue' \subseteq t.view[n]
  <2>1. ASSUME placer.at \in Tight, ~FixedLeg.excused, placer.trace = "straight"
        PROVE  Push(placer.at) \in tree.view[n]
    <3>1. placer.fit
      BY <1>1, <2>1 DEF FixedLeg
    <3>2. Free(PState, n)
      BY <1>1, <1>2, <3>1, StateIs DEF PairHolds
    <3> QED
      BY <2>1, <3>2, StateIs DEF Free
  <2> QED
    BY <1>5, <1>6, <1>11, <2>1
<1>14. t.view[Root] = tree.view[Root]
  BY <1>4, <1>6, NodeType
<1>15. Used(s) = Used(PState)
  BY <1>6, <1>9, <1>2, StateIs DEF Used, Held
<1> QED
  BY <1>4, <1>6, <1>7, <1>9, <1>10, <1>11, <1>12, <1>13, <1>14, <1>15 DEF s

LEMMA FixLegStep ==
  ASSUME AnySession, FixLeg
  PROVE  AnySession' /\ QuietSession'
<1> DEFINE n == placer.last
           l == Laid(PState)
           q == [l.placer EXCEPT !.chained = ~placer.vias, !.trace = "none",
                                 !.ok = FALSE, !.vias = FALSE]
           s == NextLeg(l)
           r == Restarted(s, n)
<1>0. PICK u : u = r
  OBVIOUS
<1>1. /\ FixGate /\ Room(2) /\ placer.kind = "pair" /\ phase = "placing"
      /\ tree' = u.tree /\ shove' = u.shove /\ placer' = u.placer /\ drag' = drag
      /\ UNCHANGED <<phase, setting, drags, good, ended>>
  BY <1>0 DEF FixLeg, FixGate, PBecome
<1>2. /\ TypeOK /\ PairHolds(PState) /\ Waits(PState) /\ drag = NoDrag /\ ended.by = "none"
  BY <1>1, PairOf
<1>3. /\ l \in PairState /\ l.drag = NoDrag /\ l.shove = shove
      /\ TreeOK(l.tree) /\ OthersStay(l.tree, {}) /\ n \in l.tree.live \ {Root}
      /\ l.tree.view[Root] = tree.view[Root]
      /\ LegsIn(l.tree, n) = LegsFixed' /\ Stub \notin l.tree.view[n]
      /\ PushDue' \subseteq l.tree.view[n]
      /\ l.placer.fixed = n /\ l.placer.kind = "pair" /\ l.placer.pieces = {}
      /\ l.placer.end \in Place /\ Used(l) = Used(PState)
  BY <1>1, LaidOK
<1> HIDE DEF l
<1>4. s = [l EXCEPT !.placer = q]
  BY DEF NextLeg
<1>5. /\ q \in PlacerType /\ q.fixed = n /\ q.kind = "pair" /\ q.pieces = {} /\ q.end = l.placer.end
      /\ q.trace = "none" /\ q.ok = FALSE
  <2>1. l.placer \in PlacerType
    BY <1>3 DEF PairState
  <2> QED
    BY <1>3, <2>1, ZenonT(60) DEF PlacerType
<1> HIDE DEF q, s
<1>6. /\ s \in PairState /\ s.drag = NoDrag /\ s.shove = l.shove /\ s.tree = l.tree /\ s.placer = q
  BY <1>3, <1>4, <1>5 DEF PairState
<1>7. Spare(s, 2)
  <2>1. Spare(PState, 2)
    BY <1>1, <1>2, RoomIs
  <2>2. Used(s) = Used(l)
    BY <1>3, <1>6 DEF Used, Held
  <2> QED
    BY <1>3, <2>1, <2>2, SpareMonotone
<1>8. /\ PairSafe(u) /\ u.drag = s.drag
      /\ u.placer = [s.placer EXCEPT !.world = u.placer.world, !.current = u.placer.world,
                                     !.last = NoNode]
      /\ u.tree.view[Root] = s.tree.view[Root]
      /\ \A k \in PairNodes(u) : \/ u.tree.view[k] = s.tree.view[n]
                                 \/ k = s.placer.fixed /\ u.tree.view[k] = s.tree.view[k]
  <2>1. n \in s.tree.live /\ TreeOK(s.tree) /\ OthersStay(s.tree, {})
        /\ (s.placer.fixed # NoNode => s.placer.fixed \in s.tree.live \ {Root})
    BY <1>3, <1>5, <1>6
  <2> HIDE DEF n
  <2> QED
    <3>1. LET v == Restarted(s, n)
          IN  /\ PairSafe(v) /\ v.drag = s.drag
              /\ v.placer = [s.placer EXCEPT !.world = v.placer.world, !.current = v.placer.world,
                                             !.last = NoNode]
              /\ v.tree.view[Root] = s.tree.view[Root]
              /\ \A k \in PairNodes(v) : \/ v.tree.view[k] = s.tree.view[n]
                                         \/ k = s.placer.fixed /\ v.tree.view[k] = s.tree.view[k]
      BY <1>6, <1>7, <2>1, RestartedOK, ZenonT(60)
    <3> QED
      BY <1>0, <3>1
<1>9. /\ u.placer.kind = "pair" /\ u.placer.pieces = {} /\ u.placer.fixed = n
      /\ u.placer.end \in Place /\ u.placer.ok = FALSE /\ u.placer.trace = "none"
      /\ u.placer.last = NoNode
  <2>1. PICK w : u.placer = [q EXCEPT !.world = w, !.current = w, !.last = NoNode]
    BY <1>6, <1>8
  <2> QED
    BY <1>3, <1>5, <2>1 DEF PlacerType
<1>10. PairGround(u, LegsFixed', PushDue')
  <2>1. \A k \in PairNodes(u) : u.tree.view[k] = l.tree.view[n]
    BY <1>5, <1>6, <1>8
  <2> QED
    BY <1>3, <2>1 DEF PairGround, LegsIn
<1>11. /\ fixes' \in Seq([leg : Fact, excused : BOOLEAN]) /\ Len(fixes') <= MaxLegs
       /\ fixes' # <<>> /\ LegsNumbered'
  BY <1>1, FixedAppended
<1>12. PairHolds(u)'
  <2>1. n # NoNode
    BY <1>1 DEF FixGate
  <2>2. Traced(u.placer)'
    BY <1>9 DEF Traced
  <2>3. PairGround(u, LegsFixed, PushDue)'
    BY <1>10
  <2> QED
    BY <1>8, <1>9, <1>11, <2>1, <2>2, <2>3 DEF PairHolds
<1>13. Waits(u)
  BY <1>2, <1>3, <1>6, <1>8, StateIs DEF Waits
<1>14. AnySession'
  <2>1. /\ setting' \in Setting /\ drags' \in Nat /\ good' \in Place
        /\ ended \in [by : {"none", "commit", "abort"}, excused : BOOLEAN, lost : SUBSET Piece]
    BY <1>1, <1>2 DEF TypeOK
  <2> QED
    BY <1>1, <1>2, <1>8, <1>11, <1>12, <1>13, <2>1, PairGoesOn
<1>15. QuietSession'
  BY <1>1, <1>2 DEF QuietSession, PiecesWhole, DragLegal
<1> QED
  BY <1>14, <1>15

(* A placement or a tuning that ends with what stands on a node.           *)
LEMMA FinishStep ==
  ASSUME AnySession, phase = "placing", NEW t, TreeOK(t), NEW n \in t.live, Finish(t, n),
         Stub \notin t.view[n],
         \A x \in Piece : \/ Versions(x) \cap t.view[n] = {Old(x)}
                          \/ /\ x \in placer.pieces
                             /\ Versions(x) \cap t.view[n] = {New(x, good, "walked")},
         LegsIn(t, n) = LegsFixed', PushDue' \subseteq t.view[n], LegsNumbered',
         fixes' \in Seq([leg : Fact, excused : BOOLEAN]), Len(fixes') <= MaxLegs
  PROVE  AnySession' /\ QuietSession'
<1> DEFINE V == t.view[n]
<1>1. /\ tree' = KilledChildren(Committed(t, n), Root)
      /\ ended' = [by |-> "commit", excused |-> FALSE, lost |-> {}]
      /\ placer' = [NoPlacer EXCEPT !.kind = placer.kind, !.pieces = placer.pieces]
      /\ drag' = [NoDrag EXCEPT !.kind = drag.kind, !.pieces = drag.pieces]
      /\ shove' = NoShove /\ phase' = "over" /\ drags' = 0 /\ UNCHANGED <<setting, good>>
  BY DEF Finish, FinishSession, FinishDrag
<1>2. /\ TypeOK /\ drag = NoDrag
  BY DEF AnySession, Placing
<1>3. TreeOK(tree') /\ tree'.live = {Root} /\ tree'.view[Root] = V
  BY <1>1, CommittedOK
<1>4. drag' \in DragType /\ drag'.pieces = {} /\ drag'.kind = "line"
  <2>1. NoDrag \in DragType /\ NoDrag.kind = "line" /\ NoDrag.pieces = {}
    BY NoDragIs
  <2>2. drag' = [NoDrag EXCEPT !.kind = NoDrag.kind, !.pieces = NoDrag.pieces]
    BY <1>1, <1>2
  <2> QED
    BY <2>1, <2>2 DEF DragType
<1>5. placer' \in PlacerType /\ placer'.pieces = placer.pieces
  <2>1. NoPlacer \in PlacerType
    BY NodeType DEF NoPlacer, PlacerType, NodeOrNone
  <2>2. placer.kind \in {"none", "pair", "one", "both"} /\ placer.pieces \in SUBSET Piece
    BY <1>2 DEF TypeOK, PlacerType
  <2> QED
    BY <1>1, <2>1, <2>2 DEF PlacerType
<1> HIDE DEF V
<1>6. CommitsLastGood'
  <2> SUFFICES ASSUME NEW x \in Piece
               PROVE  Versions(x) \cap V \subseteq IF x \in placer.pieces
                                                   THEN {Old(x), New(x, good, "walked")}
                                                   ELSE {Old(x)}
    BY <1>1, <1>3, <1>4, <1>5 DEF CommitsLastGood, Shown, Board
  <2> QED
    BY DEF V
<1>7. AbortRestores' /\ LegsStand'
  <2>1. {f \in Board' : IsLeg(f)} = {fixes'[i].leg : i \in DOMAIN fixes'}
    BY <1>3 DEF Board, LegsIn, LegsFixed, V
  <2> QED
    BY <1>1, <2>1 DEF AbortRestores, LegsStand, LegsNumbered
<1>8. LegsLegal'
  <2>1. (\A view : LegsPushed(view) <=> PushDue \subseteq view)'
    BY PushDueIs, PTL
  <2>2. LegsPushed(Board)'
    BY <1>3, <2>1 DEF Board, V
  <2> QED
    BY <2>2 DEF LegsLegal, LegsPushed
<1>9. AnySession'
  <2>1. /\ drags' \in Nat
        /\ ended' \in [by : {"commit", "abort"}, excused : BOOLEAN, lost : SUBSET Piece]
    BY <1>1
  <2> QED
    BY <1>1, <1>3, <1>4, <1>5, <1>6, <1>7, <1>8, <2>1, OverReached
<1>10. PiecesWhole'
  <2>1. \A f : Cardinality({f}) = 1
    BY FS_Singleton
  <2>2. \A x \in Piece : \E f : Versions(x) \cap V = {f}
    BY DEF V
  <2>3. \A x \in Piece : Cardinality(Versions(x) \cap V) = 1
    BY <2>1, <2>2
  <2>4. Stub \notin V
    BY DEF V
  <2>5. ended'.lost = {}
    BY <1>1
  <2> QED
    BY <1>3, <2>3, <2>4, <2>5 DEF PiecesWhole, Shown, Board
<1>11. DragLegal'
  <2> SUFFICES ASSUME NEW x \in Piece, NEW p \in Tight, New(x, p, "straight") \in V
               PROVE  FALSE
    BY <1>3 DEF DragLegal, Board
  <2>1. New(x, p, "straight") \in Versions(x) \cap V
    BY AssumePlaces, VersionsApart DEF Ways
  <2>2. New(x, p, "straight") # Old(x) /\ New(x, p, "straight") # New(x, good, "walked")
    BY FactsApart
  <2> QED
    BY <2>1, <2>2 DEF V
<1> QED
  BY <1>1, <1>9, <1>10, <1>11 DEF QuietSession

LEMMA FixLastStep ==
  ASSUME AnySession, NEW force \in BOOLEAN, FixLast(force)
  PROVE  AnySession' /\ QuietSession'
<1> DEFINE n == placer.last
           s == Laid(PState)
<1>1. FixGate /\ phase = "placing" /\ Finish(s.tree, s.placer.fixed)
  BY DEF FixLast, FixGate
<1>2. /\ TreeOK(s.tree) /\ OthersStay(s.tree, {}) /\ n \in s.tree.live \ {Root}
      /\ LegsIn(s.tree, n) = LegsFixed' /\ Stub \notin s.tree.view[n]
      /\ PushDue' \subseteq s.tree.view[n]
      /\ s.placer.fixed = n
  BY <1>1, LaidOK
<1>3. /\ fixes' \in Seq([leg : Fact, excused : BOOLEAN]) /\ Len(fixes') <= MaxLegs /\ LegsNumbered'
  BY <1>1, FixedAppended
<1> HIDE DEF s, n
<1>4. \A x \in Piece : Versions(x) \cap s.tree.view[n] = {Old(x)}
  BY <1>2 DEF OthersStay, Shows
<1> QED
  BY <1>1, <1>2, <1>3, <1>4, FinishStep

LEMMA StopPairStep ==
  ASSUME AnySession, StopPair
  PROVE  AnySession' /\ QuietSession'
<1> DEFINE n == placer.fixed
<1>1. /\ placer.kind = "pair" /\ phase = "placing" /\ n # NoNode /\ Finish(tree, n) /\ fixes' = fixes
  BY DEF StopPair
<1>2. /\ TypeOK /\ PairHolds(PState) /\ LegsNumbered
  BY <1>1, PairOf
<1>3. TreeOK(tree) /\ OthersStay(tree, {}) /\ n \in tree.live /\ n \in PairNodes(PState)
  <2>1. PairSafe(PState)
    BY <1>2 DEF PairHolds
  <2>2. n \in PairNodes(PState)
    BY <1>1, StateIs DEF PairNodes
  <2> QED
    BY <2>1, <2>2, PairLive, StateIs DEF PairSafe
<1>4. /\ LegsIn(tree, n) = LegsFixed /\ Stub \notin tree.view[n] /\ PushDue \subseteq tree.view[n]
  <2>1. PairGround(PState, LegsFixed, PushDue)
    BY <1>2 DEF PairHolds
  <2>2. /\ LegsIn(PState.tree, n) = LegsFixed /\ Stub \notin PState.tree.view[n]
        /\ PushDue \subseteq PState.tree.view[n]
    BY <1>3, <2>1 DEF PairGround
  <2> QED
    BY <2>2, StateIs
<1> HIDE DEF n
<1>5. \A x \in Piece : Versions(x) \cap tree.view[n] = {Old(x)}
  BY <1>3 DEF OthersStay, Shows
<1>6. /\ fixes' \in Seq([leg : Fact, excused : BOOLEAN]) /\ Len(fixes') <= MaxLegs /\ LegsNumbered'
      /\ LegsFixed' = LegsFixed /\ PushDue' = PushDue
  BY <1>1, <1>2 DEF TypeOK, LegsNumbered, LegsFixed, PushDue
<1> QED
  BY <1>1, <1>3, <1>4, <1>5, <1>6, FinishStep
----------------------------------------------------------------------------
(* A tuning.                                                               *)
TuningHolds(s, g) ==
    /\ s \in PairState /\ s.drag = NoDrag /\ TreeOK(s.tree)
    /\ OthersStay(s.tree, s.placer.pieces) /\ NoLegs(s.tree)
    /\ s.placer.kind \in {"one", "both"} /\ TuningStands(s)
    /\ s.placer.pieces # {}
    /\ \A n \in {s.placer.world, s.placer.current} \ {NoNode}, x \in s.placer.pieces : Bare(s.tree, n, x)
    /\ s.placer.current # NoNode =>
         s.placer.shape \in {Olds(s.placer.pieces), Of(s.placer.pieces, g, "walked")}

LEMMA TuningOf ==
  ASSUME AnySession, phase = "placing", placer.kind \in {"one", "both"}
  PROVE  /\ TypeOK /\ TuningHolds(PState, good) /\ Waits(PState) /\ drag = NoDrag /\ fixes = <<>>
         /\ ended.by = "none"
<1>1. TypeOK /\ RootWaits /\ Placing /\ Over
  BY DEF AnySession
<1>2. /\ drag = NoDrag /\ Standing(State) /\ OthersStay(tree, placer.pieces)
      /\ fixes = <<>> /\ NoLegs(tree) /\ TuningStands(PState) /\ TuningShows(PState)
  BY <1>1 DEF Placing
<1>3. TreeOK(tree)
  BY <1>2, StateIs DEF Standing
<1>4. Waits(PState)
  BY <1>1, StateIs DEF RootWaits, Waits
<1>5. TuningHolds(PState, good)
  BY <1>1, <1>2, <1>3, StatesTyped, StateIs DEF TuningHolds, TuningShows
<1> QED
  BY <1>1, <1>2, <1>4, <1>5 DEF Over

LEMMA TuningCameTo ==
  ASSUME AnySession, ended.by = "none", drag = NoDrag, fixes = <<>>, NEW p \in Place, NEW u,
         TuningHolds(u, p), Waits(u),
         tree' = u.tree, shove' = u.shove, placer' = u.placer, drag' = drag, good' = p,
         phase' = "placing", setting' = setting, drags' \in Nat, UNCHANGED <<ended, fixes>>
  PROVE  AnySession' /\ QuietSession'
<1>1. u \in PairState /\ PState' = u /\ u.tree = tree' /\ u.drag = NoDrag /\ u.shove = shove'
      /\ u.placer = placer' /\ u.shove = NoShove
  BY DEF TuningHolds, PairState, PState, TuningStands
<1>2. TypeOK'
  BY <1>1, NoDragIs DEF AnySession, TypeOK, PairState
<1>3. RootWaits'
  BY <1>1 DEF RootWaits, Waits
<1>4. Placing'
  <2>1. Standing(State)'
    <3>1. Standing(u)
      <4>1. Frames(u) = {}
        BY <1>1, NoDragIs DEF Frames, ToSet
      <4>2. Held(u) \ {NoNode} = {}
        BY <1>1, <4>1, PairType, NoDragIs
      <4>3. HandlesHold(u)
        BY <1>1, <4>2, NoDragIs DEF HandlesHold
      <4>4. DOMAIN u.shove.stack = {}
        BY <1>1, NoDragIs
      <4> QED
        BY <1>1, <4>3, <4>4, PairStanding DEF TuningHolds
    <3>2. (Standing(State) <=> Standing(PState))'
      BY SameStandingBoth, PTL
    <3> QED
      BY <1>1, <3>1, <3>2
  <2>2. TuningShows(PState)'
    BY <1>1 DEF TuningShows, TuningHolds
  <2>3. OthersStay(tree, placer.pieces)' /\ NoLegs(tree)' /\ TuningStands(PState)'
    BY <1>1 DEF TuningHolds
  <2>4. placer'.kind \in {"one", "both"}
    BY <1>1 DEF TuningHolds
  <2> QED
    BY <1>1, <2>1, <2>2, <2>3, <2>4 DEF Placing
<1>5. /\ Idle' /\ Dragging' /\ Over' /\ LegsNumbered'
  BY DEF Idle, Dragging, Over, LegsNumbered
<1>6. /\ CommitsLastGood' /\ AbortRestores' /\ LegsStand' /\ LegsLegal' /\ QuietSession'
  BY DEF CommitsLastGood, AbortRestores, LegsStand, LegsLegal, LegsNumbered, QuietSession,
         PiecesWhole, DragLegal
<1> QED
  BY <1>2, <1>3, <1>4, <1>5, <1>6 DEF AnySession

LEMMA BareOf ==
  ASSUME NEW X \in SUBSET Piece, NEW p \in Place
  PROVE  \A shape \in {Olds(X), Of(X, p, "walked")} :
           /\ \A x \in X : \/ Versions(x) \cap shape = {Old(x)}
                           \/ Versions(x) \cap shape = {New(x, p, "walked")}
           /\ \A y \in Piece \ X : Versions(y) \cap shape = {}
           /\ Stub \notin shape /\ \A f \in shape : ~IsLeg(f)
           /\ shape \subseteq Fact
<1>1. /\ \A x \in Piece : Versions(x) \cap Olds(X) = IF x \in X THEN {Old(x)} ELSE {}
      /\ \A x \in Piece : Versions(x) \cap Of(X, p, "walked") =
                            IF x \in X THEN {New(x, p, "walked")} ELSE {}
      /\ Stub \notin Olds(X) /\ Stub \notin Of(X, p, "walked")
  BY PartsShown DEF Ways
<1>2. /\ Olds(X) \subseteq Fact /\ Of(X, p, "walked") \subseteq Fact
      /\ \A f \in Olds(X) \cup Of(X, p, "walked") : ~IsLeg(f)
  BY FactsAbout DEF About, Ways
<1> QED
  BY <1>1, <1>2

LEMMA StartTuningStep ==
  ASSUME AnySession, NEW how \in {"one", "both"}, NEW x \in Piece, NEW p \in Place,
         StartTuning(how, x, p)
  PROVE  AnySession' /\ QuietSession'
<1> DEFINE pieces == IF how = "both" THEN Piece ELSE {x}
           world == NewIn(State)
           b == Branched(tree, Root, world)
           t == [b EXCEPT !.view[world] = (@ \ Olds(pieces)) \cup {}]
           q == [NoPlacer EXCEPT !.kind = how, !.world = world, !.pieces = pieces, !.end = p]
           branch == [PState EXCEPT !.tree = b]
           put == Put(branch, world, Olds(pieces), {})
           u == [tree |-> t, drag |-> NoDrag, shove |-> NoShove, placer |-> q]
<1>1. /\ phase = "idle" /\ Room(2) /\ PBecome([put EXCEPT !.placer = q])
      /\ phase' = "placing" /\ good' = p /\ UNCHANGED <<setting, drags, ended, fixes>>
  <2>1. branch = [PState EXCEPT !.tree = Branched(@, Root, world)]
    BY DEF PState
  <2> HIDE DEF branch, world, q
  <2> QED
    BY <2>1 DEF StartTuning, world, q
<1>2. /\ TypeOK /\ TreeOK(tree) /\ OthersStay(tree, {}) /\ NoLegs(tree) /\ Waits(State)
      /\ drag = NoDrag /\ shove = NoShove /\ fixes = <<>> /\ ended.by = "none"
  BY <1>1, IdleOf
<1>3. world \in Node \ tree.live /\ world # NoNode
  <2>1. Spare(State, 1) /\ State \in DragState
    BY <1>1, <1>2, RoomIs, StatesTyped
  <2> QED
    BY <2>1, NewInFresh, StateIs DEF IsState
<1> HIDE DEF world
<1>4. pieces \in SUBSET Piece /\ pieces # {}
  OBVIOUS
<1> HIDE DEF pieces
<1>5. /\ TreeOK(b) /\ OthersStay(b, {}) /\ NoLegs(b)
      /\ b.view[Root] = tree.view[Root] /\ b.view[world] = tree.view[Root]
      /\ world # Root /\ b.live = tree.live \cup {world}
  BY <1>2, <1>3, BranchOK, StateIs DEF Waits
<1>6. tree' = t /\ shove' = NoShove /\ placer' = q /\ drag' = drag
  <2>1. branch.tree = b /\ branch = [tree |-> b, drag |-> drag, shove |-> shove, placer |-> placer]
    BY DEF PState
  <2>2. put = [branch EXCEPT !.tree = t]
    <3> HIDE DEF b, branch
    <3> QED
      BY <2>1 DEF Put
  <2> HIDE DEF put, t, b, branch, q
  <2>3. put = [tree |-> t, drag |-> drag, shove |-> shove, placer |-> placer]
    BY <2>1, <2>2
  <2> QED
    BY <1>1, <1>2, <2>3 DEF PBecome
<1> HIDE DEF b
<1>7. /\ TreeOK(t) /\ t.live = tree.live \cup {world} /\ t.view[Root] = tree.view[Root]
      /\ t.view[world] = tree.view[Root] \ Olds(pieces)
      /\ \A m \in Node \ {world} : t.view[m] = b.view[m]
  <2>1. /\ t \in Tree(Fact) /\ t.live = b.live /\ t.chain = b.chain
        /\ t.view[world] = b.view[world] \ Olds(pieces)
        /\ \A m \in Node \ {world} : t.view[m] = b.view[m]
    BY <1>3, <1>5 DEF TreeOK, Tree
  <2> HIDE DEF t
  <2>2. TreeOK(t)
    BY <1>5, <2>1 DEF TreeOK
  <2> QED
    BY <1>5, <2>1, <2>2, NodeType
<1> HIDE DEF t
<1>8. OthersStay(t, pieces) /\ NoLegs(t)
  <2>1. t.live = b.live /\ t.live \subseteq Node
    BY <1>5, <1>7 DEF TreeOK, Tree
  <2>2. \A y \in Piece \ pieces : Versions(y) \cap Olds(pieces) = {}
    BY <1>4, FactsAbout DEF About
  <2>3. \A m \in t.live, y \in Piece \ pieces : Versions(y) \cap t.view[m] = Versions(y) \cap b.view[m]
    BY <1>5, <1>7, <2>1, <2>2
  <2>4. \A m \in t.live : t.view[m] \subseteq b.view[m]
    BY <1>5, <1>7, <2>1
  <2> QED
    BY <1>5, <2>1, <2>3, <2>4 DEF OthersStay, NoLegs, LegsIn, Shows
<1>9. /\ q \in PlacerType /\ q.kind = how /\ q.world = world /\ q.pieces = pieces
      /\ q.current = NoNode /\ q.last = NoNode /\ q.fixed = NoNode
  <2>1. NoPlacer \in PlacerType
    BY NodeType DEF NoPlacer, PlacerType, NodeOrNone
  <2>2. NoPlacer.current = NoNode /\ NoPlacer.last = NoNode /\ NoPlacer.fixed = NoNode
    BY DEF NoPlacer
  <2> QED
    BY <1>3, <1>4, <2>1, <2>2 DEF PlacerType, NodeOrNone
<1> HIDE DEF q
<1>10. /\ u \in PairState /\ u.drag = NoDrag /\ u.shove = NoShove /\ u.tree = t /\ u.placer = q
  BY <1>7, <1>9, NoDragIs DEF PairState, TreeOK
<1> HIDE DEF u
<1>11. \A y \in pieces : Bare(t, world, y)
  <2>1. /\ \A y \in Piece : Versions(y) \cap tree.view[Root] = {Old(y)}
        /\ Stub \notin tree.view[Root]
    BY <1>2, RootWhole, StateIs
  <2> QED
    BY <1>4, <1>7, <2>1 DEF Bare, Shows, Olds
<1>12. TuningHolds(u, p)
  BY <1>3, <1>4, <1>5, <1>7, <1>8, <1>9, <1>10, <1>11 DEF TuningHolds, TuningStands
<1>13. Waits(u)
  BY <1>2, <1>7, <1>10, StateIs DEF Waits
<1>14. drags' \in Nat
  BY <1>1, <1>2 DEF TypeOK
<1> QED
  BY <1>1, <1>2, <1>6, <1>10, <1>12, <1>13, <1>14, TuningCameTo

LEMMA MoveTuningStep ==
  ASSUME AnySession, NEW p \in Place, NEW meanders \in BOOLEAN, MoveTuning(p, meanders)
  PROVE  AnySession' /\ QuietSession'
<1> DEFINE s == PState
           k == Dropped(tree, placer.current)
           v == [s EXCEPT !.tree = k]
           n == NewIn(v)
           t == Branched(k, placer.world, n)
           shape == IF meanders THEN Of(placer.pieces, p, "walked") ELSE Olds(placer.pieces)
           q == [placer EXCEPT !.current = n, !.shape = shape]
           u == [tree |-> t, drag |-> drag, shove |-> shove, placer |-> q]
<1>1. /\ placer.kind \in {"one", "both"} /\ phase = "placing" /\ Room(1)
      /\ PBecome(Tuned(s, p, meanders)) /\ drags' = drags + 1 /\ good' = p
      /\ UNCHANGED <<phase, setting, ended, fixes>>
  BY DEF MoveTuning
<1>2. /\ TypeOK /\ TuningHolds(s, good) /\ Waits(s) /\ drag = NoDrag /\ fixes = <<>>
      /\ ended.by = "none" /\ s \in PairState /\ s.tree = tree /\ s.placer = placer
      /\ s.drag = drag /\ s.shove = shove
  BY <1>1, TuningOf, StatesTyped, StateIs
<1>3. /\ TreeOK(tree) /\ OthersStay(tree, placer.pieces) /\ NoLegs(tree) /\ shove = NoShove
      /\ placer.world \in tree.live \ {Root} /\ placer.last = NoNode /\ placer.fixed = NoNode
      /\ placer.pieces # {} /\ placer.pieces \in SUBSET Piece /\ placer \in PlacerType
      /\ \A x \in placer.pieces : Bare(tree, placer.world, x)
      /\ placer.current # NoNode =>
           /\ placer.current \in tree.live \ {Root, placer.world}
           /\ Subtree(tree, placer.current) = {placer.current}
  <2>1. placer.world # NoNode
    BY <1>2, NodeType DEF TuningHolds, TuningStands, TreeOK, Tree
  <2> QED
    BY <1>2, <2>1 DEF TuningHolds, TuningStands, TypeOK, PlacerType
<1>4. /\ TreeOK(k) /\ Pruned(tree, k) /\ placer.world \in k.live \ {Root} /\ Root \in k.live
  <2>1. /\ TreeOK(k) /\ Pruned(tree, k)
        /\ k.live = IF placer.current = Root THEN tree.live ELSE tree.live \ Subtree(tree, placer.current)
    BY <1>3, DroppedOK
  <2>2. placer.world \notin Subtree(tree, placer.current)
    BY <1>3, NoSubtree
  <2>3. Root \in k.live
    BY <2>1 DEF TreeOK
  <2> HIDE DEF k
  <2> QED
    BY <1>3, <2>1, <2>2, <2>3
<1> HIDE DEF k
<1>5. v \in PairState /\ v.tree = k /\ v.drag = drag /\ v.shove = shove
  BY <1>2, <1>4 DEF PState, PairState, TreeOK
<1>6. n \in Node \ k.live /\ n # NoNode
  <2>1. Spare(PState, 1)
    BY <1>1, <1>2, RoomIs
  <2>2. Used(v) \subseteq Used(PState)
    <3>1. Held(v) = Held(PState)
      BY <1>5, StateIs DEF Held
    <3> QED
      BY <1>4, <1>5, <3>1, StateIs DEF Used, Pruned
  <2>3. Spare(v, 1)
    BY <2>1, <2>2, SpareMonotone
  <2> HIDE DEF v
  <2> QED
    BY <1>5, <2>3, NewInFresh DEF IsState
<1>7. tree' = t /\ shove' = shove /\ placer' = q /\ drag' = drag
  <2>1. /\ Dropped(s.tree, s.placer.current) = k
        /\ [s EXCEPT !.tree = k] = v
    BY <1>2 DEF k
  <2>2. Tuned(s, p, meanders) = [s EXCEPT !.tree = t, !.placer.current = n, !.placer.shape = shape]
    <3> HIDE DEF k, v, s
    <3> QED
      BY <1>2, <2>1 DEF Tuned, n
  <2> HIDE DEF t, n, shape
  <2>3. Tuned(s, p, meanders) = [tree |-> t, drag |-> drag, shove |-> shove, placer |-> q]
    BY <2>2 DEF PState
  <2> HIDE DEF s, q
  <2> QED
    BY <1>1, <2>3 DEF PBecome
<1> HIDE DEF v, n
<1>8. TreeOK(t) /\ Grown(k, t, placer.world, n)
  BY <1>4, <1>6, BranchedOK DEF Grown
<1> HIDE DEF t
<1>9. OthersStay(t, placer.pieces) /\ NoLegs(t)
  <2>1. OthersStay(k, placer.pieces) /\ NoLegs(k)
    BY <1>3, <1>4, CalmPruned
  <2> QED
    BY <1>4, <1>8, <2>1, CalmGrown
<1>10. shape \in SUBSET Fact /\ shape \in {Olds(placer.pieces), Of(placer.pieces, p, "walked")}
  BY <1>3, FactsAbout DEF Ways
<1> HIDE DEF shape
<1>11. /\ q \in PlacerType /\ q.kind = placer.kind /\ q.world = placer.world /\ q.pieces = placer.pieces
       /\ q.current = n /\ q.last = NoNode /\ q.fixed = NoNode /\ q.shape = shape
  BY <1>3, <1>6, <1>10 DEF PlacerType, NodeOrNone
<1> HIDE DEF q
<1>12. /\ u \in PairState /\ u.drag = NoDrag /\ u.shove = NoShove /\ u.tree = t /\ u.placer = q
  BY <1>2, <1>3, <1>8, <1>11, NoDragIs DEF PairState, TreeOK
<1> HIDE DEF u
<1>13. \A x \in placer.pieces : Bare(t, placer.world, x) /\ Bare(t, n, x)
  <2>1. t.view[placer.world] = tree.view[placer.world] /\ t.view[n] = tree.view[placer.world]
    BY <1>4, <1>8 DEF Grown, Pruned
  <2> QED
    BY <1>3, <2>1 DEF Bare, Shows
<1>14. /\ n \in t.live \ {Root, placer.world} /\ placer.world \in t.live \ {Root}
       /\ Subtree(t, n) = {n}
  <2>1. n \in t.live \ {Root, placer.world} /\ placer.world \in t.live \ {Root}
    BY <1>4, <1>6, <1>8 DEF Grown
  <2>2. \A m \in t.live : n \in t.chain[m] => m = n
    <3>1. \A m \in k.live : t.chain[m] = k.chain[m] /\ k.chain[m] \subseteq k.live
      BY <1>4, <1>8 DEF Grown, TreeOK
    <3> QED
      BY <1>6, <1>8, <3>1 DEF Grown
  <2>3. n \in t.chain[n]
    BY <1>8, <2>1 DEF TreeOK
  <2> QED
    BY <2>1, <2>2, <2>3 DEF Subtree
<1>15. TuningStands(u)
  BY <1>11, <1>12, <1>14 DEF TuningStands
<1>16. TuningHolds(u, p)
  BY <1>1, <1>3, <1>8, <1>9, <1>10, <1>11, <1>12, <1>13, <1>15 DEF TuningHolds
<1>17. Waits(u)
  <2>1. t.view[Root] = tree.view[Root]
    BY <1>4, <1>8 DEF Grown, Pruned
  <2> QED
    BY <1>2, <1>12, <2>1 DEF Waits
<1>18. drags' \in Nat /\ phase' = "placing"
  BY <1>1, <1>2 DEF TypeOK
<1> QED
  BY <1>1, <1>2, <1>3, <1>7, <1>12, <1>16, <1>17, <1>18, TuningCameTo

LEMMA FixTuningStep ==
  ASSUME AnySession, FixTuning
  PROVE  AnySession' /\ QuietSession'
<1> DEFINE n == placer.current
           X == placer.pieces
           shape == placer.shape
           t == Written(tree, n, shape)
<1>1. /\ placer.kind \in {"one", "both"} /\ phase = "placing" /\ n # NoNode
      /\ Finish(t, n) /\ fixes' = fixes
  BY DEF FixTuning
<1>2. /\ TypeOK /\ TuningHolds(PState, good) /\ fixes = <<>>
  BY <1>1, TuningOf
<1>3. /\ TreeOK(tree) /\ OthersStay(tree, X) /\ NoLegs(tree) /\ n \in tree.live /\ n \in Node
      /\ X # {} /\ X \in SUBSET Piece /\ good \in Place
      /\ \A x \in X : Bare(tree, n, x)
      /\ shape \in {Olds(X), Of(X, good, "walked")}
  <2>1. TuningHolds(PState, good) /\ TypeOK /\ n # NoNode
    BY <1>1, <1>2
  <2>2. /\ TreeOK(tree) /\ OthersStay(tree, X) /\ NoLegs(tree) /\ n \in tree.live
        /\ X # {} /\ X \in SUBSET Piece /\ good \in Place
        /\ \A x \in X : Bare(tree, n, x)
        /\ shape \in {Olds(X), Of(X, good, "walked")}
    BY <2>1, StateIs DEF TuningHolds, TuningStands, TypeOK, PlacerType
  <2> QED
    BY <2>2 DEF TreeOK, Tree
<1>4. /\ \A x \in X : Versions(x) \cap tree.view[n] = {}
      /\ Stub \notin tree.view[n]
  BY <1>3 DEF Bare, Shows
<1> HIDE DEF n, X, shape
<1>5. /\ \A x \in X : \/ Versions(x) \cap (tree.view[n] \cup shape) = {Old(x)}
                      \/ Versions(x) \cap (tree.view[n] \cup shape) = {New(x, good, "walked")}
      /\ \A y \in Piece \ X : Versions(y) \cap shape = {}
      /\ Stub \notin shape /\ \A f \in shape : ~IsLeg(f)
      /\ shape \subseteq Fact
  <2>1. X \in SUBSET Piece /\ good \in Place /\ shape \in {Olds(X), Of(X, good, "walked")}
    BY <1>3
  <2>2. /\ \A x \in X : \/ Versions(x) \cap shape = {Old(x)}
                        \/ Versions(x) \cap shape = {New(x, good, "walked")}
        /\ \A y \in Piece \ X : Versions(y) \cap shape = {}
        /\ Stub \notin shape /\ \A f \in shape : ~IsLeg(f)
        /\ shape \subseteq Fact
    BY <2>1, BareOf
  <2>3. \A x \in X : Versions(x) \cap (tree.view[n] \cup shape) = Versions(x) \cap shape
    BY <1>4
  <2> QED
    BY <2>2, <2>3
<1>6. TreeOK(t) /\ n \in t.live /\ t.view[n] = tree.view[n] \cup shape
  BY <1>3, <1>5, WrittenOK
<1> HIDE DEF t
<1>7. \A x \in Piece : \/ Versions(x) \cap t.view[n] = {Old(x)}
                       \/ x \in X /\ Versions(x) \cap t.view[n] = {New(x, good, "walked")}
  <2> SUFFICES ASSUME NEW x \in Piece
               PROVE  \/ Versions(x) \cap t.view[n] = {Old(x)}
                      \/ x \in X /\ Versions(x) \cap t.view[n] = {New(x, good, "walked")}
    OBVIOUS
  <2>1. CASE x \in X
    BY <1>5, <1>6, <2>1
  <2>2. CASE x \notin X
    <3>1. Versions(x) \cap tree.view[n] = {Old(x)} /\ Versions(x) \cap shape = {}
      BY <1>3, <1>5, <2>2 DEF OthersStay, Shows
    <3> QED
      BY <1>6, <3>1
  <2> QED
    BY <2>1, <2>2
<1>8. LegsIn(t, n) = {}
  <2>1. {f \in tree.view[n] : IsLeg(f)} = {}
    BY <1>3, NoLegsOn
  <2> QED
    BY <1>5, <1>6, <2>1 DEF LegsIn
<1>9. /\ fixes' \in Seq([leg : Fact, excused : BOOLEAN]) /\ Len(fixes') <= MaxLegs /\ LegsNumbered'
      /\ LegsFixed' = {} /\ PushDue' = {}
  BY <1>1, <1>2 DEF TypeOK, LegsNumbered, LegsFixed, PushDue
<1>10. Stub \notin t.view[n]
  BY <1>4, <1>5, <1>6
<1>11. \A x \in Piece : \/ Versions(x) \cap t.view[n] = {Old(x)}
                        \/ /\ x \in placer.pieces
                           /\ Versions(x) \cap t.view[n] = {New(x, good, "walked")}
  BY <1>7 DEF X
<1> QED
  BY <1>1, <1>6, <1>8, <1>9, <1>10, <1>11, FinishStep

(* A session that is dropped.                                              *)
LEMMA AbortStep ==
  ASSUME AnySession, Abort
  PROVE  AnySession' /\ QuietSession'
<1>1. /\ phase \in {"dragging", "placing"} /\ tree' = KilledChildren(tree, Root)
      /\ ended' = [by |-> "abort", excused |-> FALSE, lost |-> {}]
      /\ placer' = [NoPlacer EXCEPT !.kind = placer.kind, !.pieces = placer.pieces]
      /\ drag' = [NoDrag EXCEPT !.kind = drag.kind, !.pieces = drag.pieces]
      /\ shove' = NoShove /\ phase' = "over" /\ drags' = 0 /\ UNCHANGED <<setting, good, fixes>>
  BY DEF Abort, FinishSession, FinishDrag
<1>2. TypeOK /\ RootWaits /\ Dragging /\ Placing /\ LegsNumbered
  BY DEF AnySession
<1>3. TreeOK(tree) /\ Waits(State)
  BY <1>1, <1>2, StateIs DEF Dragging, Placing, Standing, RootWaits, Waits
<1>4. TreeOK(tree') /\ tree'.live = {Root} /\ tree'.view[Root] = tree.view[Root]
  BY <1>1, <1>3, KilledOK, KilledRoot
<1>5. drag' \in DragType
  BY <1>1, <1>2, DragOver DEF TypeOK
<1>6. placer' \in PlacerType
  <2>1. NoPlacer \in PlacerType
    BY NodeType DEF NoPlacer, PlacerType, NodeOrNone
  <2>2. placer.kind \in {"none", "pair", "one", "both"} /\ placer.pieces \in SUBSET Piece
    BY <1>2 DEF TypeOK, PlacerType
  <2> QED
    BY <1>1, <2>1, <2>2 DEF PlacerType
<1>7. LegsNumbered' /\ CommitsLastGood' /\ LegsLegal'
  BY <1>1, <1>2 DEF LegsNumbered, CommitsLastGood, LegsLegal
<1>8. AbortRestores'
  BY <1>3, <1>4, StateIs DEF AbortRestores, Board, Waits, Locks, Olds
<1>9. LegsStand'
  <2>1. \A f \in tree.view[Root] : ~IsLeg(f)
    <3>1. tree.view[Root] \ Locks = Olds(Piece)
      BY <1>3, StateIs DEF Waits
    <3>2. \A f \in Locks \cup Olds(Piece) : ~IsLeg(f)
      BY FactsApart DEF Locks, Olds
    <3> QED
      BY <3>1, <3>2
  <2>2. Board' = tree.view[Root]
    BY <1>4 DEF Board
  <2>3. {f \in Board' : IsLeg(f)} = {}
    BY <2>1, <2>2
  <2>4. ended'.by # "commit"
    BY <1>1
  <2>5. \A i \in DOMAIN fixes' : fixes'[i].leg[2] = i
    BY <1>7 DEF LegsNumbered
  <2> QED
    BY <2>3, <2>4, <2>5 DEF LegsStand
<1>10. AnySession'
  <2>1. /\ drags' \in Nat
        /\ ended' \in [by : {"commit", "abort"}, excused : BOOLEAN, lost : SUBSET Piece]
        /\ fixes' \in Seq([leg : Fact, excused : BOOLEAN]) /\ Len(fixes') <= MaxLegs
    BY <1>1, <1>2 DEF TypeOK
  <2> QED
    BY <1>1, <1>4, <1>5, <1>6, <1>7, <1>8, <1>9, <2>1, OverReached
<1>11. PiecesWhole'
  <2>1. \A f : Cardinality({f}) = 1
    BY FS_Singleton
  <2>2. /\ \A x \in Piece : Versions(x) \cap tree.view[Root] = {Old(x)}
        /\ Stub \notin tree.view[Root]
    BY <1>3, RootWhole, StateIs
  <2>3. \A x \in Piece : Cardinality(Versions(x) \cap tree.view[Root]) = 1
    BY <2>1, <2>2
  <2>4. ended'.lost = {}
    BY <1>1
  <2> QED
    BY <1>4, <2>2, <2>3, <2>4 DEF PiecesWhole, Shown, Board
<1>12. DragLegal'
  BY <1>1 DEF DragLegal
<1> QED
  BY <1>1, <1>10, <1>11, <1>12 DEF QuietSession
----------------------------------------------------------------------------
(* Every step.                                                             *)
LEMMA StutterInv ==
  ASSUME UNCHANGED vars
  PROVE  (AnySession => AnySession') /\ (QuietSession => QuietSession')
<1>1. /\ UNCHANGED <<tree, drag, shove, phase, setting, drags, good, ended, placer, fixes>>
      /\ State' = State /\ PState' = PState
  BY DEF vars, dragVars, State, PState
<1>2. QuietSession => QuietSession'
  BY <1>1 DEF QuietSession, SingleLegal, MultiExcused, AllowDrc, PiecesWhole, DragLegal, Shown, Board
<1>3. AnySession => AnySession'
  <2>1. /\ TypeOK => TypeOK'
        /\ RootWaits => RootWaits'
        /\ LegsNumbered => LegsNumbered'
        /\ Idle => Idle'
        /\ Over => Over'
    BY <1>1 DEF TypeOK, RootWaits, LegsNumbered, Idle, Over
  <2>2. /\ Dragging => Dragging'
    BY <1>1 DEF Dragging
  <2>3. Placing => Placing'
    <3>1. PairShows(PState)' <=> PairShows(PState)
      BY <1>1 DEF PairShows, LegsFixed, LegsPushed
    <3>2. TuningShows(PState)' <=> TuningShows(PState)
      BY <1>1 DEF TuningShows
    <3> QED
      BY <1>1, <3>1, <3>2 DEF Placing
  <2>4. /\ CommitsLastGood => CommitsLastGood'
        /\ AbortRestores => AbortRestores'
        /\ LegsStand => LegsStand'
        /\ LegsLegal => LegsLegal'
    BY <1>1 DEF CommitsLastGood, AbortRestores, LegsStand, LegsLegal, Shown, Board
  <2> QED
    BY <2>1, <2>2, <2>3, <2>4 DEF AnySession
<1> QED
  BY <1>2, <1>3

LEMMA DragInv ==
  ASSUME AnySession, DragNext, UNCHANGED <<placer, fixes>>
  PROVE  AnySession' /\ (Quiet /\ QuietSession => QuietSession')
<1>1. ASSUME NEW kind \in Single, NEW x \in Piece, NEW free \in BOOLEAN, NEW p \in Place,
             NEW stub \in SUBSET {Stub}, StartSingle(kind, x, free, p, stub)
      PROVE  AnySession' /\ QuietSession'
  BY <1>1, StartSingleStep
<1>2. ASSUME NEW x \in Piece, StartRefused(x)
      PROVE  AnySession' /\ QuietSession'
  BY <1>2, RefusedStep
<1>3. ASSUME NEW p \in Place, StartMulti(p)
      PROVE  AnySession' /\ QuietSession'
  BY <1>3, StartMultiStep
<1>4. ASSUME NEW p \in Place, StartComponent(p)
      PROVE  AnySession' /\ QuietSession'
  BY <1>4, StartComponentStep
<1>5. ASSUME NEW new \in Setting, SetSettings(new)
      PROVE  AnySession' /\ (Quiet /\ QuietSession => QuietSession')
  BY <1>5, SettingsStep
<1>6. ASSUME NEW p \in Place, NEW c \in Choice, MoveTo(p, c)
      PROVE  AnySession' /\ QuietSession'
  BY <1>6, MoveToStep
<1>7. ASSUME NEW force \in BOOLEAN, FixSingle(force)
      PROVE  AnySession' /\ (QuietSession => QuietSession')
  BY <1>7, FixSingleStep
<1>8. ASSUME NEW force \in BOOLEAN, FixComponent(force)
      PROVE  AnySession' /\ (QuietSession => QuietSession')
  BY <1>8, FixComponentStep
<1>9. ASSUME NEW c \in Choice, FixRedrags(c)
      PROVE  AnySession' /\ QuietSession'
  BY <1>9, FixRedragsStep
<1>10. ASSUME FixMulti
       PROVE  AnySession' /\ (QuietSession => QuietSession')
  BY <1>10, FixMultiStep
<1> QED
  BY <1>1, <1>2, <1>3, <1>4, <1>5, <1>6, <1>7, <1>8, <1>9, <1>10 DEF DragNext

LEMMA StepInv ==
  ASSUME AnySession, [Next]_vars
  PROVE  AnySession' /\ (Quiet /\ QuietSession => QuietSession')
<1>1. CASE DragNext /\ UNCHANGED <<placer, fixes>>
  BY <1>1, DragInv
<1>2. ASSUME NEW p \in Place, NEW start \in {"via", "other"}, StartPair(p, start)
      PROVE  AnySession' /\ QuietSession'
  BY <1>2, StartPairStep
<1>3. ASSUME NEW c \in PairChoice, NEW p \in Place, MovePair(p, c)
      PROVE  AnySession' /\ QuietSession'
  BY <1>3, MovePairStep
<1>4. ASSUME NEW c \in PairChoice, NEW enabled \in BOOLEAN, ToggleVia(enabled, c)
      PROVE  AnySession' /\ QuietSession'
  BY <1>4, ToggleViaStep
<1>5. ASSUME NEW c \in PairChoice, FlipPosture(c)
      PROVE  AnySession' /\ QuietSession'
  BY <1>5, FlipPostureStep
<1>6. ASSUME NEW c \in PairChoice, SetLayer(c)
      PROVE  AnySession' /\ QuietSession'
  BY <1>6, SetLayerStep
<1>7. ASSUME SetSizes
      PROVE  AnySession' /\ QuietSession'
  BY <1>7, SetSizesStep
<1>8. ASSUME FixLeg
      PROVE  AnySession' /\ QuietSession'
  BY <1>8, FixLegStep
<1>9. ASSUME NEW force \in BOOLEAN, FixLast(force)
      PROVE  AnySession' /\ QuietSession'
  BY <1>9, FixLastStep
<1>10. ASSUME StopPair
       PROVE  AnySession' /\ QuietSession'
  BY <1>10, StopPairStep
<1>11. ASSUME NEW how \in {"one", "both"}, NEW x \in Piece, NEW p \in Place, StartTuning(how, x, p)
       PROVE  AnySession' /\ QuietSession'
  BY <1>11, StartTuningStep
<1>12. ASSUME StartTuningRefused
       PROVE  AnySession' /\ QuietSession'
  BY <1>12, TuningRefusedStep
<1>13. ASSUME NEW p \in Place, NEW meanders \in BOOLEAN, MoveTuning(p, meanders)
       PROVE  AnySession' /\ QuietSession'
  BY <1>13, MoveTuningStep
<1>14. ASSUME FixTuning
       PROVE  AnySession' /\ QuietSession'
  BY <1>14, FixTuningStep
<1>15. ASSUME Abort
       PROVE  AnySession' /\ QuietSession'
  BY <1>15, AbortStep
<1>16. CASE UNCHANGED vars
  BY <1>16, StutterInv
<1> QED
  BY <1>1, <1>2, <1>3, <1>4, <1>5, <1>6, <1>7, <1>8, <1>9, <1>10, <1>11, <1>12, <1>13, <1>14,
     <1>15, <1>16 DEF Next
----------------------------------------------------------------------------
(* What holds in every state of a drag, a pair placement or a tuning,      *)
(* whatever the host calls, the geometry answers and the settings become.  *)
THEOREM AnySessionHolds == Spec => []AnySession
<1>1. Init => AnySession
  BY InitInv DEF IInv
<1>2. AnySession /\ [Next]_vars => AnySession'
  BY StepInv
<1> QED
  BY <1>1, <1>2, PTL DEF Spec

(* What holds beyond that if no setting that is changed in the midst of a  *)
(* session allows violations (Quiet).                                      *)
THEOREM QuietSessionHolds == Quiet => (Spec => []QuietSession)
<1>1. SUFFICES ASSUME Quiet PROVE Spec => []QuietSession
  OBVIOUS
<1>2. Init => AnySession /\ QuietSession
  BY InitInv DEF IInv
<1>3. AnySession /\ QuietSession /\ [Next]_vars => (AnySession /\ QuietSession)'
  BY <1>1, StepInv
<1> QED
  BY <1>2, <1>3, PTL DEF Spec

(* What the router, its dragger, placer and shove hold is typed.           *)
THEOREM TypeOKHolds == Spec => []TypeOK
<1>1. AnySession => TypeOK
  BY DEF AnySession
<1> QED
  BY <1>1, AnySessionHolds, PTL

(* Between two events every node that the algorithm and its shove will     *)
(* come back to is live, in every session and with any settings: a branch  *)
(* that is dropped on a move, a springback or a fix is held by nobody.     *)
THEOREM HandlesLiveHolds == Spec => []HandlesLive
<1>1. AnySession => HandlesLive
  <2> SUFFICES ASSUME AnySession, phase \in {"dragging", "placing"}
               PROVE  (Held(State) \cup {placer.world, placer.current, placer.last, placer.fixed})
                         \ {NoNode} \subseteq tree.live
    BY DEF HandlesLive
  <2>1. TypeOK /\ Dragging /\ Placing
    BY DEF AnySession
  <2>2. Held(State) \ {NoNode} \subseteq tree.live
    BY <2>1, StateIs DEF Dragging, Placing, Standing, HandlesHold
  <2>3. {placer.world, placer.current, placer.last, placer.fixed} \ {NoNode} \subseteq tree.live
    <3>1. CASE phase = "dragging"
      BY <2>1, <3>1 DEF Dragging, NoPlacer
    <3>2. CASE phase = "placing" /\ placer.kind = "pair"
      BY <2>1, <3>2, StateIs DEF Placing, PairStands
    <3>3. CASE phase = "placing" /\ placer.kind # "pair"
      BY <2>1, <3>3, StateIs DEF Placing, TuningStands
    <3> QED
      BY <3>1, <3>2, <3>3
  <2> QED
    BY <2>2, <2>3
<1> QED
  BY <1>1, AnySessionHolds, PTL

(* A session that is aborted leaves the board as it was, but for a lock.   *)
THEOREM AbortRestoresHolds == Spec => []AbortRestores
<1>1. AnySession => AbortRestores
  BY DEF AnySession
<1> QED
  BY <1>1, AnySessionHolds, PTL

(* A drag commits the last position that worked, a tuning its last move.   *)
THEOREM CommitsLastGoodHolds == Spec => []CommitsLastGood
<1>1. AnySession => CommitsLastGood
  BY DEF AnySession
<1> QED
  BY <1>1, AnySessionHolds, PTL

(* The legs of a pair on the board are those that were fixed, each as it   *)
(* was routed for that leg.                                                *)
THEOREM LegsStandHolds == Spec => []LegsStand
<1>1. AnySession => LegsStand
  BY DEF AnySession
<1> QED
  BY <1>1, AnySessionHolds, PTL

(* If no setting that is changed in the midst of a session allows          *)
(* violations, every piece is on the board once when the session is over.  *)
THEOREM PiecesWholeHolds == Quiet => (Spec => []PiecesWhole)
<1>1. QuietSession => PiecesWhole
  BY DEF QuietSession
<1> QED
  BY <1>1, QuietSessionHolds, PTL

(* Under the same condition nothing that is committed collides, be it      *)
(* dragged or routed, but for what was forced or excused.                  *)
THEOREM CommitLegalHolds == Quiet => (Spec => []CommitLegal)
<1>1. QuietSession /\ AnySession => CommitLegal
  BY DEF QuietSession, AnySession, CommitLegal
<1> QED
  BY <1>1, QuietSessionHolds, AnySessionHolds, PTL
=============================================================================
