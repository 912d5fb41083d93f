------------------------ MODULE LinePlacementProofs ------------------------
(***************************************************************************)
(* Proofs about a routing session, for any plans: any number of nodes,     *)
(* legs, springback frames and passes.  The first half is about every      *)
(* session, the second about the steady ones: the handles stay live, no    *)
(* fixed leg is lost, and the commit keeps them.                           *)
(***************************************************************************)
EXTENDS LinePlacement, TLAPS, FiniteSetTheorems, SequenceTheorems, WellFoundedInduction

(* Numbers: the least of a set, the greatest of a bounded one, and finite  *)
(* sets are bounded.                                                       *)
LEMMA MinOfNat ==
  ASSUME NEW S \in SUBSET Nat, S # {}
  PROVE  Min(S) \in S /\ \A y \in S : Min(S) <= y
<1> DEFINE R == OpToRel(<, Nat)
<1>1. PICK x \in S : \A y \in S : ~(<<y, x>> \in R)
  BY NatLessThanWellFounded, WFMin
<1>2. ASSUME NEW y \in S PROVE x <= y
  <2>1. y < x => <<y, x>> \in R
    BY DEF OpToRel
  <2>2. <<y, x>> \notin R
    BY <1>1
  <2> HIDE DEF R
  <2> QED
    BY <2>1, <2>2
<1> QED
  BY <1>2 DEF Min

LEMMA MaxOfNat ==
  ASSUME NEW S \in SUBSET Nat, NEW b \in Nat, S # {}, \A y \in S : y <= b
  PROVE  Max(S) \in S /\ \A y \in S : y <= Max(S)
<1> DEFINE T == {b - y : y \in S}
<1>1. T \in SUBSET Nat /\ T # {}
  <2>1. \A y \in S : b - y \in Nat
    OBVIOUS
  <2> QED
    BY <2>1
<1>2. PICK x \in S : Min(T) = b - x
  BY <1>1, MinOfNat
<1>3. ASSUME NEW y \in S PROVE x >= y
  <2>1. Min(T) <= b - y
    BY <1>1, MinOfNat
  <2> QED
    BY <1>2, <2>1
<1> QED
  BY <1>3 DEF Max

LEMMA FiniteBounded ==
  ASSUME NEW S \in SUBSET Nat, IsFiniteSet(S)
  PROVE  \E b \in Nat : \A y \in S : y <= b
<1> DEFINE Bounded(T) == \E b \in Nat : \A y \in T : y <= b
           Unbounded == {T \in FiniteSubsetsOf(S) : ~Bounded(T)}
           R == StrictSubsetOrdering(S)
<1>1. SUFFICES ASSUME Unbounded # {} PROVE FALSE
  BY DEF FiniteSubsetsOf
<1>2. PICK T \in Unbounded : \A U \in Unbounded : ~(<<U, T>> \in R)
  <2> HIDE DEF R
  <2>1. IsWellFoundedOn(R, FiniteSubsetsOf(S))
    BY FS_StrictSubsetOrderingWellFounded DEF R
  <2> QED
    BY <1>1, <2>1, WFMin
<1>3. T \subseteq S /\ IsFiniteSet(T) /\ ~Bounded(T)
  BY DEF FiniteSubsetsOf
<1>3a. PICK x \in T : TRUE
  BY <1>3
<1>4. T \ {x} \subseteq S /\ IsFiniteSet(T \ {x}) /\ T \ {x} # T
  BY <1>3, FS_RemoveElement
<1>4a. <<T \ {x}, T>> \in R
  <2>1. \A A \in SUBSET S, B \in SUBSET S : A \subseteq B /\ A # B => <<A, B>> \in R
    BY DEF StrictSubsetOrdering
  <2> QED
    BY <2>1, <1>3, <1>4
<1>5. Bounded(T \ {x})
  BY <1>2, <1>4, <1>4a DEF FiniteSubsetsOf
<1> HIDE DEF Unbounded, R
<1>5a. PICK b \in Nat : \A y \in T \ {x} : y <= b
  BY <1>5
<1>6. x \in Nat /\ \A y \in T : y <= IF b <= x THEN x ELSE b
  BY <1>5a, <1>3
<1> QED
  BY <1>6, <1>3

(* The bounds of every plan are within those of the model.                 *)
LEMMA PlanBounds ==
  ASSUME plan \in Plans
  PROVE  /\ plan.nodes \in Nat \ {0, 1} /\ MaxNode \in Nat /\ plan.nodes <= MaxNode
         /\ plan.fixes \in Nat \ {0} /\ MaxFixes \in Nat /\ plan.fixes <= MaxFixes
         /\ plan.rounds \in Nat \ {0} /\ plan.frames \in Nat \ {0}
         /\ plan.outcomes \subseteq Outcome
         /\ plan.modes \subseteq Mode /\ plan.switches \subseteq Mode \X Mode
<1> DEFINE N == {p.nodes : p \in Plans}
           F == {p.fixes : p \in Plans}
<1>1. N \in SUBSET Nat /\ F \in SUBSET Nat /\ plan.nodes \in N /\ plan.fixes \in F
  BY AssumePlans
<1>2. IsFiniteSet(N) /\ IsFiniteSet(F)
  <2>1. /\ [p \in Plans |-> p.nodes] \in Surjection(Plans, N)
        /\ [p \in Plans |-> p.fixes] \in Surjection(Plans, F)
    BY DEF Surjection
  <2> QED
    BY <2>1, AssumePlans, FS_Surjection
<1>3. /\ \E b \in Nat : \A y \in N : y <= b
      /\ \E b \in Nat : \A y \in F : y <= b
  BY <1>1, <1>2, FiniteBounded
<1>4. /\ MaxNode \in N /\ \A y \in N : y <= MaxNode
      /\ MaxFixes \in F /\ \A y \in F : y <= MaxFixes
  <2> HIDE DEF N, F
  <2>1. /\ Max(N) \in N /\ \A y \in N : y <= Max(N)
        /\ Max(F) \in F /\ \A y \in F : y <= Max(F)
    BY <1>1, <1>3, MaxOfNat
  <2> QED
    BY <2>1 DEF MaxNode, MaxFixes, N, F
<1> QED
  BY AssumePlans, <1>1, <1>4
----------------------------------------------------------------------------
(* The operations of a tree of boards keep it a tree, and what they change.*)

(* u is t with some of its branches dropped.                               *)
Pruned(t, u) ==
    /\ u.live \subseteq t.live
    /\ \A m \in u.live : u.chain[m] = t.chain[m] /\ u.view[m] = t.view[m]

LEMMA NodeType ==
  ASSUME plan \in Plans
  PROVE  Root \in Node /\ NoNode \notin Node /\ Root # NoNode /\ 0..plan.nodes \subseteq Node
<1>1. MaxNode \in Nat /\ plan.nodes \in Nat /\ plan.nodes <= MaxNode
  BY PlanBounds
<1> QED
  BY <1>1 DEF Root, Node, NoNode

LEMMA NewTreeOK ==
  ASSUME plan \in Plans
  PROVE  TreeOK(NewTree) /\ NewTree.live = {Root} /\ \A n \in Node : NewTree.view[n] = {}
<1>1. Root \in Node
  BY NodeType
<1>2. NewTree \in Tree(Fact)
  BY <1>1 DEF NewTree, Tree
<1> QED
  BY <1>1, <1>2 DEF NewTree, TreeOK

LEMMA BranchedOK ==
  ASSUME NEW t, TreeOK(t), NEW n \in t.live, NEW c \in Node \ t.live
  PROVE  LET u == Branched(t, n, c)
         IN  /\ TreeOK(u)
             /\ u.live = t.live \cup {c}
             /\ u.chain[c] = t.chain[n] \cup {c} /\ u.view[c] = t.view[n]
             /\ \A m \in t.live : u.chain[m] = t.chain[m] /\ u.view[m] = t.view[m]
<1> DEFINE u == Branched(t, n, c)
<1>1. /\ u.live = t.live \cup {c}
      /\ u.chain[c] = t.chain[n] \cup {c} /\ u.view[c] = t.view[n]
      /\ \A m \in Node \ {c} : u.chain[m] = t.chain[m] /\ u.view[m] = t.view[m]
      /\ t.live \subseteq Node /\ u \in Tree(Fact)
  BY DEF Branched, TreeOK, Tree
<1> HIDE DEF u
<1>2. TreeOK(u)
  BY <1>1 DEF TreeOK
<1> QED
  BY <1>1, <1>2 DEF u

LEMMA WrittenOK ==
  ASSUME NEW t, TreeOK(t), NEW n, NEW facts \in SUBSET Fact
  PROVE  LET u == Written(t, n, facts)
         IN  /\ TreeOK(u)
             /\ u.live = t.live /\ u.chain = t.chain
             /\ n \in Node => u.view[n] = t.view[n] \cup facts
             /\ \A m \in Node \ {n} : u.view[m] = t.view[m]
BY DEF Written, TreeOK, Tree

LEMMA AdoptedOK ==
  ASSUME NEW t, TreeOK(t), NEW adopts \in BOOLEAN
  PROVE  LET u == Adopted(t, adopts)
         IN  /\ TreeOK(u)
             /\ u.live = t.live /\ u.chain = t.chain
             /\ \A m \in Node : /\ t.view[m] \subseteq u.view[m]
                                /\ u.view[m] \ {Net} = t.view[m] \ {Net}
BY DEF Adopted, TreeOK, Tree, Fact

LEMMA WithoutOK ==
  ASSUME NEW t, TreeOK(t), NEW gone, Root \notin gone,
         \A n \in gone, m \in t.live : n \in t.chain[m] => m \in gone
  PROVE  /\ TreeOK(Without(t, gone)) /\ Pruned(t, Without(t, gone))
         /\ Without(t, gone).live = t.live \ gone
<1> DEFINE u == Without(t, gone)
<1>1. /\ u.live = t.live \ gone /\ u \in Tree(Fact) /\ t.live \subseteq Node
      /\ \A m \in Node \ gone : u.chain[m] = t.chain[m] /\ u.view[m] = t.view[m]
  BY DEF Without, TreeOK, Tree
<1> HIDE DEF u
<1>2. TreeOK(u)
  BY <1>1 DEF TreeOK
<1> QED
  BY <1>1, <1>2 DEF u, Pruned

LEMMA KilledOK ==
  ASSUME NEW t, TreeOK(t), NEW n
  PROVE  LET u == KilledChildren(t, n)
         IN  /\ TreeOK(u) /\ Pruned(t, u)
             /\ u.live = t.live \ (Subtree(t, n) \ {n})
<1> DEFINE gone == Subtree(t, n) \ {n}
<1>1. Root \notin gone
  BY DEF Subtree, TreeOK
<1>2. ASSUME NEW k \in gone, NEW m \in t.live, k \in t.chain[m]
      PROVE  m \in gone
  BY <1>2 DEF Subtree, TreeOK
<1> QED
  BY <1>1, <1>2, WithoutOK DEF KilledChildren

LEMMA DroppedOK ==
  ASSUME NEW t, TreeOK(t), NEW n
  PROVE  LET u == Dropped(t, n)
         IN  /\ TreeOK(u) /\ Pruned(t, u)
             /\ u.live = IF n = Root THEN t.live ELSE t.live \ Subtree(t, n)
<1>1. CASE n = Root
  BY <1>1 DEF Dropped, Pruned
<1>2. CASE n # Root
  <2>1. Root \notin Subtree(t, n)
    BY <1>2 DEF Subtree, TreeOK
  <2>2. ASSUME NEW k \in Subtree(t, n), NEW m \in t.live, k \in t.chain[m]
        PROVE  m \in Subtree(t, n)
    BY <2>2 DEF Subtree, TreeOK
  <2> QED
    BY <1>2, <2>1, <2>2, WithoutOK DEF Dropped
<1> QED
  BY <1>1, <1>2

(* Once a session is over there is the board, and no branch.               *)
LEMMA KilledRoot ==
  ASSUME NEW t, TreeOK(t)
  PROVE  LET u == KilledChildren(t, Root)
         IN  u.live = {Root} /\ u.view[Root] = t.view[Root]
BY KilledOK DEF TreeOK, Subtree, Pruned

LEMMA CommittedOK ==
  ASSUME NEW t, TreeOK(t), NEW n
  PROVE  LET u == KilledChildren(Committed(t, n), Root)
         IN  /\ TreeOK(u) /\ u.live = {Root}
             /\ u.view[Root] = IF n \in t.live \ {Root} THEN t.view[n] ELSE t.view[Root]
<1>1. CASE n \in t.live \ {Root}
  <2> DEFINE w == [t EXCEPT !.view[Root] = t.view[n]]
  <2>1. /\ TreeOK(w) /\ w.view[Root] = t.view[n]
    BY <1>1 DEF TreeOK, Tree
  <2> HIDE DEF w
  <2>2. /\ TreeOK(KilledChildren(w, Root)) /\ KilledChildren(w, Root).live = {Root}
        /\ KilledChildren(w, Root).view[Root] = t.view[n]
    BY <2>1, KilledOK, KilledRoot
  <2>3. /\ TreeOK(KilledChildren(KilledChildren(w, Root), Root))
        /\ KilledChildren(KilledChildren(w, Root), Root).live = {Root}
        /\ KilledChildren(KilledChildren(w, Root), Root).view[Root] = t.view[n]
    BY <2>2, KilledOK, KilledRoot
  <2> QED
    BY <1>1, <2>3 DEF Committed, w
<1>2. CASE n \notin t.live \ {Root}
  BY <1>2, KilledOK, KilledRoot DEF Committed
<1> QED
  BY <1>1, <1>2
----------------------------------------------------------------------------
(* What a session of any kind keeps.                                       *)

(* A new handle is one nobody holds.                                       *)
LEMMA NewNodeFresh ==
  ASSUME TypeOK, Room(1)
  PROVE  /\ NewNode \in Node \ tree.live
         /\ NewNode \notin FrameNodes \cup ToSet(placer.stages)
         /\ NewNode \notin {Root, NoNode, placer.current, placer.last, route.node,
                            shove.root, shove.current}
<1>1. Unused # {}
  BY FS_EmptySet DEF Room
<1>2. plan \in Plans
  BY DEF TypeOK
<1>3. Unused \in SUBSET Nat
  BY <1>2, PlanBounds DEF Unused
<1>4. NewNode \in Unused
  BY <1>1, <1>3, MinOfNat DEF NewNode
<1>5. Unused \subseteq Node
  BY <1>2, NodeType DEF Unused
<1> QED
  BY <1>2, <1>4, <1>5, NodeType DEF Unused, TypeOK

(* So are the two the start takes.                                         *)
LEMMA StartNodesFresh ==
  ASSUME plan \in Plans, Untouched, phase = "idle"
  PROVE  /\ NewNode \in Node \ {Root, NoNode} /\ SecondNewNode \in Node \ {Root, NoNode}
         /\ NewNode # SecondNewNode
<1>1. FrameNodes = {} /\ ToSet(placer.stages) = {} /\ tree.live = {Root}
  BY DEF Untouched, FrameNodes, ToSet, NoShove, NoPlacer, NewTree
<1>2. {1, 2} \subseteq Unused /\ Unused \in SUBSET Nat /\ Unused \subseteq Node \ {Root, NoNode}
  BY <1>1, PlanBounds, NodeType DEF Unused, Untouched, NoShove, NoPlacer, NoRoute, Root, NoNode
<1>3. NewNode \in Unused
  BY <1>2, MinOfNat DEF NewNode
<1>4. SecondNewNode \in Unused \ {NewNode}
  <2>1. Unused \ {NewNode} # {} /\ Unused \ {NewNode} \in SUBSET Nat
    <3>1. 1 \in Unused \ {NewNode} \/ 2 \in Unused \ {NewNode}
      BY <1>2
    <3> QED
      BY <3>1, <1>2
  <2> QED
    BY <2>1, MinOfNat DEF SecondNewNode
<1> QED
  BY <1>2, <1>3, <1>4

LEMMA FactType ==
  ASSUME TypeOK
  PROVE  /\ Pending \in 1..(MaxFixes + 1)
         /\ {Leg(Pending), Push(Pending), Tidy(Pending), Cut, Net} \subseteq Fact
<1>1. Pending \in 1..(MaxFixes + 1)
  <2>1. plan \in Plans /\ fixes \in Seq(BOOLEAN) /\ Len(fixes) <= MaxFixes
    BY DEF TypeOK
  <2>2. Len(fixes) \in Nat /\ MaxFixes \in Nat
    BY <2>1, PlanBounds
  <2> QED
    BY <2>1, <2>2 DEF Pending
<1> QED
  BY <1>1 DEF Fact, Leg, Push, Tidy, Cut, Net

LEMMA InitAny == Init => AnySession
<1> SUFFICES ASSUME Init PROVE AnySession
  OBVIOUS
<1>1. /\ TreeOK(tree) /\ tree.live = {Root} /\ \A n \in Node : tree.view[n] = {}
      /\ Root \in Node
  BY NewTreeOK, NodeType DEF Init
<1>2. /\ placer = NoPlacer /\ shove = NoShove /\ route = NoRoute /\ fixes = <<>>
      /\ plan \in Plans /\ mode \in plan.modes /\ phase = "idle" /\ host = {}
      /\ ended = [by |-> "none", placed |-> FALSE] /\ tree = NewTree
  BY DEF Init
<1>3. TypeOK
  <2>1. /\ MaxFixes \in Nat /\ plan.rounds \in Nat /\ plan.modes \subseteq Mode
    BY <1>2, PlanBounds
  <2>2. /\ placer \in [current : NodeOrNone, last : NodeOrNone, stages : Seq(Node),
                       correct : BOOLEAN, trace : Trace, shoveMode : BOOLEAN]
        /\ Len(placer.stages) <= MaxFixes + 1
    BY <1>2, <2>1 DEF NoPlacer, NodeOrNone, Trace
  <2>3. shove \in [root : NodeOrNone, current : NodeOrNone, stack : Seq(Frame)]
    BY <1>2 DEF NoShove, NodeOrNone
  <2>4. route \in [node : NodeOrNone, rounds : 0..plan.rounds, found : BOOLEAN]
    BY <1>2, <2>1 DEF NoRoute, NodeOrNone
  <2>5. tree \in Tree(Fact)
    BY <1>1 DEF TreeOK
  <2>6. mode \in Mode /\ fixes \in Seq(BOOLEAN) /\ Len(fixes) <= MaxFixes
    BY <1>2, <2>1
  <2> QED
    BY <1>1, <1>2, <2>1, <2>2, <2>3, <2>4, <2>5, <2>6 DEF TypeOK
<1>4. BoardWaits
  BY <1>1, <1>2 DEF BoardWaits
<1> QED
  BY <1>1, <1>2, <1>3, <1>4 DEF AnySession, Untouched, ScratchOwned, FramesOrdered, InSession

(* What the operators on sequences used here return.                       *)
LEMMA FramesOf ==
  ASSUME shove \in [root : NodeOrNone, current : NodeOrNone, stack : Seq(Frame)]
  PROVE  /\ DOMAIN shove.stack = 1..Len(shove.stack) /\ Len(shove.stack) \in Nat
         /\ \A i \in 1..Len(shove.stack) : /\ shove.stack[i] \in Frame
                                           /\ shove.stack[i].node \in Node
                                           /\ shove.stack[i].node \in FrameNodes
         /\ \A n \in FrameNodes : \E i \in 1..Len(shove.stack) : n = shove.stack[i].node
<1>1. shove.stack \in Seq(Frame)
  OBVIOUS
<1>2. /\ DOMAIN shove.stack = 1..Len(shove.stack) /\ Len(shove.stack) \in Nat
      /\ \A i \in 1..Len(shove.stack) : shove.stack[i] \in Frame
  BY <1>1, LenProperties, ElementOfSeq
<1> QED
  BY <1>2 DEF FrameNodes, ToSet, Frame

LEMMA StagesOf ==
  ASSUME placer.stages \in Seq(Node)
  PROVE  /\ DOMAIN placer.stages = 1..Len(placer.stages) /\ Len(placer.stages) \in Nat
         /\ \A i \in 1..Len(placer.stages) : /\ placer.stages[i] \in Node
                                             /\ placer.stages[i] \in ToSet(placer.stages)
         /\ \A n \in ToSet(placer.stages) : \E i \in 1..Len(placer.stages) : n = placer.stages[i]
<1>1. /\ DOMAIN placer.stages = 1..Len(placer.stages) /\ Len(placer.stages) \in Nat
      /\ \A i \in 1..Len(placer.stages) : placer.stages[i] \in Node
  BY LenProperties, ElementOfSeq
<1> QED
  BY <1>1 DEF ToSet

(* A step to "panicked" changes nothing else.                              *)
LEMMA PanicsAny ==
  ASSUME AnySession, phase' = "panicked",
         UNCHANGED <<plan, tree, mode, placer, shove, route, fixes, host, ended>>,
         phase \in {"placing", "routing"}
  PROVE  AnySession'
<1>1. TypeOK'
  BY DEF AnySession, TypeOK
<1>2. TreeOK(tree)' /\ Untouched' /\ BoardWaits' /\ ScratchOwned' /\ FramesOrdered'
  BY DEF AnySession, TreeOK, Untouched, BoardWaits, ScratchOwned, FramesOrdered, InSession
<1> QED
  BY <1>1, <1>2 DEF AnySession

LEMMA SetModeAny ==
  ASSUME AnySession, NEW m \in Mode, SetMode(m)
  PROVE  AnySession'
<1> USE DEF SetMode
<1>1. TypeOK'
  BY DEF AnySession, TypeOK
<1>2. TreeOK(tree)' /\ Untouched' /\ BoardWaits'
  BY DEF AnySession, TreeOK, Untouched, BoardWaits
<1>3. ScratchOwned' /\ FramesOrdered'
  BY DEF AnySession, ScratchOwned, FramesOrdered, InSession, FrameNodes, Ground
<1> QED
  BY <1>1, <1>2, <1>3 DEF AnySession

LEMMA StartAny ==
  ASSUME AnySession, NEW cut \in SUBSET {Cut}, Start(cut)
  PROVE  AnySession'
<1> DEFINE branch == NewNode
           bed == SecondNewNode
           pruned == KilledChildren(tree, Root)
           grown == Branched(pruned, Root, branch)
           cutTree == Written(grown, branch, cut)
<1>1. /\ branch \in Node \ {Root, NoNode} /\ bed \in Node \ {Root, NoNode} /\ branch # bed
      /\ tree = NewTree /\ plan \in Plans
  BY StartNodesFresh DEF AnySession, TypeOK, Start, Untouched
<1>2. TreeOK(pruned) /\ pruned.live = {Root} /\ pruned.view[Root] = {}
  BY <1>1, NewTreeOK, NodeType, KilledOK, KilledRoot
<1>3. /\ TreeOK(grown) /\ grown.live = {Root, branch} /\ grown.view[Root] = {}
      /\ grown.chain[branch] = {Root, branch}
  <2> HIDE DEF branch, pruned
  <2>1. pruned.chain[Root] = {Root}
    BY <1>2 DEF TreeOK
  <2> QED
    BY <1>1, <1>2, <2>1, BranchedOK
<1>4. /\ TreeOK(cutTree) /\ cutTree.live = {Root, branch} /\ cutTree.view[Root] = {}
  <2>1. cut \in SUBSET Fact /\ Root \in Node
    BY <1>1, NodeType DEF Fact
  <2> HIDE DEF branch, grown
  <2> QED
    BY <1>1, <1>3, <2>1, WrittenOK
<1>5. /\ TreeOK(tree') /\ tree'.live = {Root, branch, bed} /\ tree'.view[Root] = {}
  <2>1. tree' = Branched(cutTree, branch, bed)
    BY DEF Start
  <2> HIDE DEF branch, bed, cutTree
  <2> QED
    BY <1>1, <1>4, <2>1, BranchedOK
<1>6. /\ placer' = [current |-> branch, last |-> NoNode, stages |-> <<branch>>,
                    correct |-> FALSE, trace |-> "none", shoveMode |-> (mode = "shove")]
      /\ shove' = [root |-> bed, current |-> bed, stack |-> <<>>]
      /\ phase = "idle" /\ phase' = "placing"
      /\ UNCHANGED <<plan, mode, route, fixes, host, ended>>
  BY DEF Start, NoPlacer, NoShove
<1> HIDE DEF branch, bed, pruned, grown, cutTree
<1>7. TypeOK'
  <2>1. placer' \in [current : NodeOrNone, last : NodeOrNone, stages : Seq(Node),
                     correct : BOOLEAN, trace : Trace, shoveMode : BOOLEAN]
        /\ placer'.stages = <<branch>>
    BY <1>1, <1>6 DEF NodeOrNone, Trace
  <2>2. shove' \in [root : NodeOrNone, current : NodeOrNone, stack : Seq(Frame)]
    BY <1>1, <1>6 DEF NodeOrNone
  <2>3. MaxFixes \in Nat
    BY <1>1, PlanBounds
  <2>4. tree' \in Tree(Fact) /\ Root \in tree'.live
    BY <1>5 DEF TreeOK
  <2> QED
    BY <1>6, <2>1, <2>2, <2>3, <2>4 DEF AnySession, TypeOK
<1>8. Untouched' /\ BoardWaits'
  BY <1>5, <1>6 DEF AnySession, Untouched, BoardWaits
<1>9. ScratchOwned' /\ FramesOrdered'
  <2>1. placer'.last = NoNode /\ shove'.stack = <<>>
    BY <1>6
  <2> QED
    BY <1>6, <2>1 DEF ScratchOwned, FramesOrdered, InSession, FrameNodes, ToSet
<1> QED
  BY <1>5, <1>7, <1>8, <1>9 DEF AnySession

LEMMA MoveToAny ==
  ASSUME AnySession, MoveTo
  PROVE  AnySession'
<1>1. /\ tree' = Dropped(tree, placer.last) /\ phase = "placing" /\ phase' = "routing"
      /\ placer' = [placer EXCEPT !.last = NoNode, !.shoveMode = (mode = "shove")]
      /\ route' = [node |-> placer.current, rounds |-> plan.rounds, found |-> FALSE]
      /\ UNCHANGED <<plan, mode, shove, fixes, host, ended>>
  BY DEF MoveTo
<1>2. TreeOK(tree') /\ Pruned(tree, tree')
  BY <1>1, DroppedOK DEF AnySession
<1>3. /\ placer \in [current : NodeOrNone, last : NodeOrNone, stages : Seq(Node),
                    correct : BOOLEAN, trace : Trace, shoveMode : BOOLEAN]
      /\ plan.rounds \in Nat
  BY PlanBounds DEF AnySession, TypeOK
<1>4. placer' = [current |-> placer.current, last |-> NoNode, stages |-> placer.stages,
                 correct |-> placer.correct, trace |-> placer.trace,
                 shoveMode |-> (mode = "shove")]
  BY <1>1, <1>3
<1>5. TypeOK'
  <2>1. placer' \in [current : NodeOrNone, last : NodeOrNone, stages : Seq(Node),
                     correct : BOOLEAN, trace : Trace, shoveMode : BOOLEAN]
        /\ placer'.stages = placer.stages
    BY <1>3, <1>4 DEF NodeOrNone
  <2>2. route' \in [node : NodeOrNone, rounds : 0..plan.rounds, found : BOOLEAN]
    BY <1>1, <1>3
  <2>3. tree' \in Tree(Fact) /\ Root \in tree'.live
    BY <1>2 DEF TreeOK
  <2> QED
    BY <1>1, <2>1, <2>2, <2>3 DEF AnySession, TypeOK
<1>6. Untouched' /\ BoardWaits'
  BY <1>1, <1>2 DEF AnySession, Untouched, BoardWaits, Pruned, TreeOK
<1>7. ScratchOwned'
  BY <1>1, <1>4 DEF ScratchOwned
<1>8. FramesOrdered'
  BY <1>1, <1>2 DEF AnySession, FramesOrdered, InSession, FrameNodes, Ground, Pruned
<1> QED
  BY <1>2, <1>5, <1>6, <1>7, <1>8 DEF AnySession

(* Reducing the springback drops the frames above the kept ones with what  *)
(* was branched from them, and spares those kept.                          *)
LEMMA KeptIndex ==
  ASSUME TypeOK, NEW k \in Kept
  PROVE  k \in 0..Len(shove.stack) /\ Len(shove.stack) \in Nat
BY FramesOf DEF TypeOK, Kept

LEMMA ReducedOK ==
  ASSUME TypeOK, TreeOK(tree), Root \notin FrameNodes, NEW k \in 0..Len(shove.stack)
  PROVE  /\ TreeOK(Reduced(k)) /\ Pruned(tree, Reduced(k))
         /\ \A m \in tree.live :
              m \in Reduced(k).live <=>
                 \A j \in (k + 1)..Len(shove.stack) : shove.stack[j].node \notin tree.chain[m]
<1> DEFINE gone == UNION {Subtree(tree, n) : n \in Above(k)}
<1>1. \A m : m \in gone <=> /\ m \in tree.live
                            /\ \E j \in (k + 1)..Len(shove.stack) :
                                 shove.stack[j].node \in tree.chain[m]
  BY DEF Above, Subtree
<1>2. \A j \in (k + 1)..Len(shove.stack) : shove.stack[j].node # Root
  BY FramesOf DEF TypeOK
<1> HIDE DEF gone
<1>3. Root \notin gone
  BY <1>1, <1>2 DEF TreeOK
<1>4. \A n \in gone, m \in tree.live : n \in tree.chain[m] => m \in gone
  BY <1>1 DEF TreeOK
<1>5. /\ TreeOK(Without(tree, gone)) /\ Pruned(tree, Without(tree, gone))
      /\ Without(tree, gone).live = tree.live \ gone
  BY <1>3, <1>4, WithoutOK
<1> QED
  BY <1>1, <1>5 DEF Reduced, gone

LEMMA GroundKept ==
  ASSUME AnySession, InSession, NEW k \in 0..Len(shove.stack), NEW i \in 0..k,
         Ground(i) \in tree.live
  PROVE  Ground(i) \in Reduced(k).live
<1>1. \A j \in (k + 1)..Len(shove.stack) : shove.stack[j].node \notin tree.chain[Ground(i)]
  <2>1. DOMAIN shove.stack = 1..Len(shove.stack) /\ Len(shove.stack) \in Nat
    BY FramesOf DEF AnySession, TypeOK
  <2>2. FramesOrdered
    BY DEF AnySession
  <2> QED
    BY <2>1, <2>2 DEF FramesOrdered
<1>2. Root \notin FrameNodes
  BY DEF AnySession, FramesOrdered
<1> QED
  BY <1>1, <1>2, ReducedOK DEF AnySession

(* What a pass of routing in shove mode leaves, in each of its outcomes.   *)
LEMMA ShovePassed ==
  ASSUME AnySession, NEW k \in Kept, NEW outcome \in plan.outcomes \ {"blocked"},
         NEW pushed \in SUBSET {Push(Pending)}, RouteShove(k, outcome, pushed)
  PROVE  \/ /\ outcome = "moved"
            /\ NewNode \in Node \ tree.live
            /\ TreeOK(tree')
            /\ tree'.live = Reduced(k).live \cup {NewNode}
            /\ tree'.chain[NewNode] = tree.chain[Ground(k)] \cup {NewNode}
            /\ tree'.view[NewNode] = tree.view[Ground(k)] \cup pushed
            /\ \A m \in Reduced(k).live : /\ tree'.chain[m] = tree.chain[m]
                                          /\ tree'.view[m] = tree.view[m]
            /\ shove' = [root |-> shove.root, current |-> NewNode,
                         stack |-> Append(SubSeq(shove.stack, 1, k),
                                          [node |-> NewNode, locked |-> FALSE])]
            /\ route' = [node |-> NewNode, rounds |-> route.rounds - 1, found |-> TRUE]
         \/ /\ outcome # "moved"
            /\ TreeOK(tree') /\ Pruned(tree, tree') /\ tree' = Reduced(k)
            /\ shove' = [root |-> shove.root, current |-> Ground(k),
                         stack |-> SubSeq(shove.stack, 1, k)]
            /\ \/ route' = [node |-> Ground(k), rounds |-> route.rounds - 1, found |-> TRUE]
               \/ route' = [node |-> route.node, rounds |-> 0, found |-> route.found]
<1>1. /\ shove \in [root : NodeOrNone, current : NodeOrNone, stack : Seq(Frame)]
      /\ route \in [node : NodeOrNone, rounds : 0..plan.rounds, found : BOOLEAN]
      /\ plan.outcomes \subseteq Outcome /\ TypeOK /\ TreeOK(tree)
  BY PlanBounds DEF AnySession, TypeOK
<1>2. /\ k \in 0..Len(shove.stack) /\ Root \notin FrameNodes /\ Ground(k) \in Reduced(k).live
  BY KeptIndex DEF AnySession, FramesOrdered, InSession, RouteShove
<1>3. TreeOK(Reduced(k)) /\ Pruned(tree, Reduced(k))
  BY <1>1, <1>2, ReducedOK
<1>4. CASE outcome = "moved"
  <2>1. /\ Room(1)
        /\ tree' = Written(Branched(Reduced(k), Ground(k), NewNode), NewNode, pushed)
        /\ shove' = [shove EXCEPT !.stack = Append(SubSeq(shove.stack, 1, k),
                                                   [node |-> NewNode, locked |-> FALSE]),
                                  !.current = NewNode]
        /\ route' = [node |-> NewNode, rounds |-> route.rounds - 1, found |-> TRUE]
    BY <1>4 DEF RouteShove
  <2>2. NewNode \in Node \ tree.live
    BY <1>1, <2>1, NewNodeFresh
  <2>3. NewNode \in Node \ Reduced(k).live
    BY <1>3, <2>2 DEF Pruned
  <2> DEFINE grown == Branched(Reduced(k), Ground(k), NewNode)
  <2>4. /\ TreeOK(grown)
        /\ grown.live = Reduced(k).live \cup {NewNode}
        /\ grown.chain[NewNode] = tree.chain[Ground(k)] \cup {NewNode}
        /\ grown.view[NewNode] = tree.view[Ground(k)]
        /\ \A m \in Reduced(k).live : /\ grown.chain[m] = tree.chain[m]
                                      /\ grown.view[m] = tree.view[m]
    BY <1>2, <1>3, <2>3, BranchedOK DEF Pruned
  <2>5. pushed \in SUBSET Fact /\ tree' = Written(grown, NewNode, pushed)
    BY <1>1, <2>1, FactType
  <2> HIDE DEF grown
  <2>6. /\ TreeOK(tree') /\ tree'.live = grown.live /\ tree'.chain = grown.chain
        /\ tree'.view[NewNode] = grown.view[NewNode] \cup pushed
        /\ \A m \in Node \ {NewNode} : tree'.view[m] = grown.view[m]
    BY <2>2, <2>4, <2>5, WrittenOK
  <2>7. Reduced(k).live \subseteq Node \ {NewNode}
    BY <1>3, <2>3 DEF TreeOK, Tree
  <2>8. shove' = [root |-> shove.root, current |-> NewNode,
                  stack |-> Append(SubSeq(shove.stack, 1, k),
                                   [node |-> NewNode, locked |-> FALSE])]
    BY <1>1, <2>1
  <2> QED
    BY <1>4, <2>1, <2>2, <2>4, <2>6, <2>7, <2>8, ZenonT(60)
<1>5. CASE outcome # "moved"
  <2>1. outcome \in {"walked", "stuck"}
    BY <1>1, <1>5 DEF Outcome
  <2>2. /\ tree' = Reduced(k)
        /\ shove' = [shove EXCEPT !.stack = SubSeq(shove.stack, 1, k), !.current = Ground(k)]
        /\ \/ route' = [node |-> Ground(k), rounds |-> route.rounds - 1, found |-> TRUE]
           \/ route' = [route EXCEPT !.rounds = 0]
    BY <2>1 DEF RouteShove
  <2>3. /\ shove' = [root |-> shove.root, current |-> Ground(k),
                     stack |-> SubSeq(shove.stack, 1, k)]
        /\ \/ route' = [node |-> Ground(k), rounds |-> route.rounds - 1, found |-> TRUE]
           \/ route' = [node |-> route.node, rounds |-> 0, found |-> route.found]
    BY <1>1, <2>2
  <2> QED
    BY <1>3, <1>5, <2>2, <2>3
<1> QED
  BY <1>4, <1>5

LEMMA PrefixOf ==
  ASSUME NEW S, NEW s \in Seq(S), NEW k \in 0..Len(s)
  PROVE  /\ SubSeq(s, 1, k) \in Seq(S) /\ Len(SubSeq(s, 1, k)) = k
         /\ \A i \in 1..k : SubSeq(s, 1, k)[i] = s[i]
<1>1. Len(s) \in Nat /\ \A i \in 1..k : s[i] \in S
  BY LenProperties, ElementOfSeq
<1> QED
  BY <1>1, SubSeqProperties

LEMMA RouteShoveAny ==
  ASSUME AnySession, NEW k \in Kept, NEW outcome \in plan.outcomes \ {"blocked"},
         NEW pushed \in SUBSET {Push(Pending)}, RouteShove(k, outcome, pushed)
  PROVE  AnySession'
<1> DEFINE frames == SubSeq(shove.stack, 1, k)
           pass == [node |-> NewNode, locked |-> FALSE]
<1>1. /\ phase = "routing" /\ phase' = "routing" /\ InSession /\ InSession'
      /\ Ground(k) \in Reduced(k).live /\ route.rounds > 0
      /\ UNCHANGED <<plan, mode, placer, fixes, host, ended>>
  BY DEF RouteShove, InSession
<1>2. /\ TypeOK /\ TreeOK(tree) /\ Root \notin FrameNodes /\ k \in 0..Len(shove.stack)
      /\ shove \in [root : NodeOrNone, current : NodeOrNone, stack : Seq(Frame)]
      /\ shove.stack \in Seq(Frame) /\ plan.rounds \in Nat
      /\ route \in [node : NodeOrNone, rounds : 0..plan.rounds, found : BOOLEAN]
  BY <1>1, KeptIndex, PlanBounds DEF AnySession, FramesOrdered, TypeOK
<1>3. /\ TreeOK(Reduced(k)) /\ Pruned(tree, Reduced(k))
  BY <1>2, ReducedOK
<1>4. /\ frames \in Seq(Frame) /\ Len(frames) = k
      /\ \A i \in 1..k : frames[i] = shove.stack[i] /\ frames[i].node \in FrameNodes
      /\ Len(shove.stack) \in Nat
  BY <1>2, PrefixOf, FramesOf
<1>5. Ground(k) \in NodeOrNone /\ Ground(k) \in tree.live
  BY <1>1, <1>2, <1>3, FramesOf DEF Ground, NodeOrNone, Pruned
<1>6. \A i \in 0..k, j \in 1..k : i < j /\ Ground(i) \in tree.live =>
         shove.stack[j].node \notin tree.chain[Ground(i)]
  <2>1. DOMAIN shove.stack = 1..Len(shove.stack) /\ FramesOrdered
    BY <1>2, FramesOf DEF AnySession
  <2> QED
    BY <1>1, <1>2, <1>4, <2>1 DEF FramesOrdered
<1> HIDE DEF frames
<1>7. CASE /\ outcome = "moved"
           /\ NewNode \in Node \ tree.live
           /\ TreeOK(tree')
           /\ tree'.live = Reduced(k).live \cup {NewNode}
           /\ tree'.chain[NewNode] = tree.chain[Ground(k)] \cup {NewNode}
           /\ tree'.view[NewNode] = tree.view[Ground(k)] \cup pushed
           /\ \A m \in Reduced(k).live : /\ tree'.chain[m] = tree.chain[m]
                                         /\ tree'.view[m] = tree.view[m]
           /\ shove' = [root |-> shove.root, current |-> NewNode,
                        stack |-> Append(frames, pass)]
           /\ route' = [node |-> NewNode, rounds |-> route.rounds - 1, found |-> TRUE]
  <2>1. pass \in Frame /\ pass.node = NewNode
    BY <1>7 DEF Frame
  <2>2. /\ Append(frames, pass) \in Seq(Frame) /\ Len(Append(frames, pass)) = k + 1
        /\ \A i \in 1..k : Append(frames, pass)[i] = shove.stack[i]
        /\ Append(frames, pass)[k + 1] = pass
    BY <1>2, <1>4, <2>1, AppendProperties
  <2> HIDE DEF pass
  <2>3. shove'.stack = Append(frames, pass) /\ shove'.root = shove.root
    BY <1>7
  <2>4. TypeOK'
    <3>1. shove' \in [root : NodeOrNone, current : NodeOrNone, stack : Seq(Frame)]
      BY <1>2, <1>7, <2>2 DEF NodeOrNone
    <3>2. route' \in [node : NodeOrNone, rounds : 0..plan.rounds, found : BOOLEAN]
      <4>1. route.rounds - 1 \in 0..plan.rounds
        BY <1>1, <1>2
      <4> QED
        BY <1>7, <4>1 DEF NodeOrNone
    <3>3. tree' \in Tree(Fact) /\ Root \in tree'.live
      BY <1>7 DEF TreeOK
    <3> QED
      BY <1>1, <1>2, <3>1, <3>2, <3>3 DEF TypeOK
  <2>5. Untouched' /\ BoardWaits' /\ ScratchOwned'
    <3>1. Root \in Reduced(k).live /\ tree'.view[Root] = tree.view[Root]
      BY <1>3, <1>7 DEF TreeOK
    <3> QED
      BY <1>1, <3>1 DEF AnySession, Untouched, BoardWaits, ScratchOwned
  <2>6. FramesOrdered'
    <3>1. FrameNodes' \subseteq FrameNodes \cup {NewNode}
      <4>1. DOMAIN shove'.stack = 1..(k + 1)
        BY <2>2, <2>3, LenProperties
      <4> QED
        BY <1>2, <1>4, <2>1, <2>2, <2>3, <4>1 DEF FrameNodes, ToSet
    <3>2. NewNode \notin FrameNodes /\ NewNode # shove.root /\ NewNode # Root
      <4>1. Room(1)
        BY <1>7 DEF RouteShove
      <4> QED
        BY <1>2, <4>1, NewNodeFresh
    <3>3. \A i \in 0..k : Ground(i)' = Ground(i) /\ Ground(i) # NewNode
      <4>1. \A i \in 1..k : Ground(i)' = Ground(i) /\ Ground(i) # NewNode
        BY <1>2, <1>4, <2>2, <2>3, <3>2 DEF Ground
      <4>2. Ground(0)' = Ground(0) /\ Ground(0) # NewNode
        BY <2>3, <3>2 DEF Ground
      <4> QED
        BY <4>1, <4>2
    <3>4. ASSUME NEW i \in 0..(k + 1), NEW j \in 1..(k + 1), i < j, Ground(i)' \in tree'.live
          PROVE  shove'.stack[j].node \notin tree'.chain[Ground(i)']
      <4>1. i \in 0..k /\ Ground(i)' = Ground(i) /\ Ground(i) \in Reduced(k).live
        BY <1>2, <1>7, <3>3, <3>4
      <4>2. tree'.chain[Ground(i)] = tree.chain[Ground(i)] /\ Ground(i) \in tree.live
        BY <1>3, <1>7, <4>1 DEF Pruned
      <4>3. CASE j = k + 1
        BY <1>2, <1>7, <2>1, <2>2, <2>3, <4>1, <4>2, <4>3 DEF TreeOK
      <4>4. CASE j \in 1..k
        BY <1>6, <2>2, <2>3, <3>4, <4>1, <4>2, <4>4
      <4> QED
        BY <1>2, <4>3, <4>4
    <3>5. DOMAIN shove'.stack = 1..(k + 1) /\ Len(shove'.stack) = k + 1
      BY <2>2, <2>3, LenProperties
    <3> QED
      BY <1>2, <3>1, <3>2, <3>4, <3>5 DEF FramesOrdered
  <2> QED
    BY <1>7, <2>4, <2>5, <2>6 DEF AnySession
<1>8. CASE /\ outcome # "moved"
           /\ TreeOK(tree') /\ Pruned(tree, tree') /\ tree' = Reduced(k)
           /\ shove' = [root |-> shove.root, current |-> Ground(k), stack |-> frames]
           /\ \/ route' = [node |-> Ground(k), rounds |-> route.rounds - 1, found |-> TRUE]
              \/ route' = [node |-> route.node, rounds |-> 0, found |-> route.found]
  <2>1. TypeOK'
    <3>1. shove' \in [root : NodeOrNone, current : NodeOrNone, stack : Seq(Frame)]
      BY <1>2, <1>4, <1>5, <1>8
    <3>2. route' \in [node : NodeOrNone, rounds : 0..plan.rounds, found : BOOLEAN]
      <4>1. route.rounds - 1 \in 0..plan.rounds /\ 0 \in 0..plan.rounds
        BY <1>1, <1>2
      <4>2. route.node \in NodeOrNone /\ route.found \in BOOLEAN
        BY <1>2
      <4>3. /\ [node |-> Ground(k), rounds |-> route.rounds - 1, found |-> TRUE]
                 \in [node : NodeOrNone, rounds : 0..plan.rounds, found : BOOLEAN]
            /\ [node |-> route.node, rounds |-> 0, found |-> route.found]
                 \in [node : NodeOrNone, rounds : 0..plan.rounds, found : BOOLEAN]
        BY <1>5, <4>1, <4>2
      <4> QED
        BY <1>8, <4>3
    <3>3. tree' \in Tree(Fact) /\ Root \in tree'.live
      BY <1>8 DEF TreeOK
    <3> QED
      BY <1>1, <1>2, <3>1, <3>2, <3>3 DEF TypeOK
  <2>2. Untouched' /\ BoardWaits' /\ ScratchOwned'
    BY <1>1, <1>8 DEF AnySession, Untouched, BoardWaits, ScratchOwned, TreeOK, Pruned
  <2>3. FramesOrdered'
    <3>1. shove'.stack = frames /\ shove'.root = shove.root
          /\ DOMAIN frames = 1..k
      BY <1>4, <1>8, LenProperties
    <3>2. FrameNodes' \subseteq FrameNodes
      BY <1>4, <3>1 DEF FrameNodes, ToSet
    <3>3. \A i \in 0..k : Ground(i)' = Ground(i)
      BY <1>4, <3>1 DEF Ground
    <3>4. Root \notin FrameNodes' /\ k \in 0..Len(shove.stack)
      BY <1>1, <1>2, <1>4, <1>6, <3>2 DEF FramesOrdered
    <3>5. ASSUME NEW i \in 0..k, NEW j \in 1..k, i < j, Ground(i) \in tree'.live
          PROVE  frames[j].node \notin tree'.chain[Ground(i)]
      <4>1. tree'.chain[Ground(i)] = tree.chain[Ground(i)] /\ Ground(i) \in tree.live
        BY <1>8, <3>5 DEF Pruned
      <4>2. frames[j] = shove.stack[j] /\ j \in DOMAIN shove.stack /\ i \in 0..Len(shove.stack)
        BY <1>4, <3>4, <3>5
      <4> QED
        BY <1>6, <3>5, <4>1, <4>2
    <3> QED
      BY <1>4, <3>1, <3>3, <3>4, <3>5 DEF FramesOrdered
  <2> QED
    BY <1>8, <2>1, <2>2, <2>3 DEF AnySession
<1> QED
  BY <1>7, <1>8, ShovePassed DEF frames, pass

(* The order of the frames stands while the stack does and no frame's      *)
(* chain changes.                                                          *)
LEMMA FramesKept ==
  ASSUME AnySession, InSession, shove'.stack = shove.stack, shove'.root = shove.root,
         \A m \in tree'.live \cap (FrameNodes \cup {shove.root}) :
            m \in tree.live /\ tree'.chain[m] = tree.chain[m]
  PROVE  FramesOrdered'
<1>1. FrameNodes' = FrameNodes /\ \A i : Ground(i)' = Ground(i)
  BY DEF FrameNodes, Ground
<1>2. \A i \in 0..Len(shove.stack) : Ground(i) \in FrameNodes \cup {shove.root}
  BY FramesOf DEF AnySession, TypeOK, Ground
<1>3. FramesOrdered
  BY DEF AnySession
<1> QED
  BY <1>1, <1>2, <1>3 DEF FramesOrdered

(* A branch just made is a leaf.                                           *)
LEMMA NewLeaf ==
  ASSUME NEW t, TreeOK(t), NEW u, NEW c \in Node \ t.live, TreeOK(u),
         u.live = t.live \cup {c}, \A m \in t.live : u.chain[m] = t.chain[m]
  PROVE  Subtree(u, c) = {c}
BY DEF TreeOK, Subtree

(* The end of move_to: a scratch branch on the node that was routed on.    *)
LEMMA MoveEndsDoes ==
  ASSUME AnySession, NEW trace \in Trace, NEW tidied \in SUBSET {Tidy(Pending)},
         MoveEnds(trace, tidied)
  PROVE  /\ phase = "routing" /\ phase' = "placing" /\ route.node \in tree.live
         /\ NewNode \in Node \ tree.live
         /\ NewNode \notin {Root, NoNode, route.node, shove.root, shove.current}
                              \cup ToSet(placer.stages) \cup FrameNodes
         /\ TreeOK(tree') /\ tree'.live = tree.live \cup {NewNode}
         /\ \A m \in tree.live : tree'.chain[m] = tree.chain[m] /\ tree'.view[m] = tree.view[m]
         /\ tree'.chain[NewNode] = tree.chain[route.node] \cup {NewNode}
         /\ tree'.view[NewNode] = tree.view[route.node] \cup tidied
         /\ placer' = [current |-> route.node, last |-> NewNode, stages |-> placer.stages,
                       correct |-> placer.correct, trace |-> trace,
                       shoveMode |-> placer.shoveMode]
         /\ route' = NoRoute
         /\ UNCHANGED <<plan, mode, shove, fixes, host, ended>>
<1> DEFINE grown == Branched(tree, route.node, NewNode)
<1>1. /\ phase = "routing" /\ phase' = "placing" /\ Room(1) /\ route.node \in tree.live
      /\ tree' = Written(grown, NewNode, tidied)
      /\ placer' = [placer EXCEPT !.current = route.node, !.last = NewNode, !.trace = trace]
      /\ route' = NoRoute
      /\ UNCHANGED <<plan, mode, shove, fixes, host, ended>>
  BY DEF MoveEnds
<1>2. /\ TypeOK /\ TreeOK(tree) /\ tidied \in SUBSET Fact
      /\ placer \in [current : NodeOrNone, last : NodeOrNone, stages : Seq(Node),
                    correct : BOOLEAN, trace : Trace, shoveMode : BOOLEAN]
  BY FactType DEF AnySession, TypeOK
<1>3. /\ NewNode \in Node \ tree.live
      /\ NewNode \notin {Root, NoNode, route.node, shove.root, shove.current}
                           \cup ToSet(placer.stages) \cup FrameNodes
  BY <1>1, <1>2, NewNodeFresh
<1>4. /\ TreeOK(grown) /\ grown.live = tree.live \cup {NewNode}
      /\ \A m \in tree.live : grown.chain[m] = tree.chain[m] /\ grown.view[m] = tree.view[m]
      /\ grown.chain[NewNode] = tree.chain[route.node] \cup {NewNode}
      /\ grown.view[NewNode] = tree.view[route.node]
  BY <1>1, <1>2, <1>3, BranchedOK
<1> HIDE DEF grown
<1>5. /\ TreeOK(tree') /\ tree'.live = grown.live /\ tree'.chain = grown.chain
      /\ tree'.view[NewNode] = grown.view[NewNode] \cup tidied
      /\ \A m \in Node \ {NewNode} : tree'.view[m] = grown.view[m]
  BY <1>1, <1>2, <1>3, <1>4, WrittenOK
<1>6. tree.live \subseteq Node \ {NewNode}
  BY <1>2, <1>3 DEF TreeOK, Tree
<1>7. placer' = [current |-> route.node, last |-> NewNode, stages |-> placer.stages,
                 correct |-> placer.correct, trace |-> trace, shoveMode |-> placer.shoveMode]
  BY <1>1, <1>2
<1> QED
  BY <1>1, <1>3, <1>4, <1>5, <1>6, <1>7, ZenonT(60)

LEMMA MoveEndsAny ==
  ASSUME AnySession, NEW trace \in Trace, NEW tidied \in SUBSET {Tidy(Pending)},
         MoveEnds(trace, tidied)
  PROVE  AnySession'
<1>1. /\ phase = "routing" /\ phase' = "placing" /\ route.node \in tree.live
      /\ route' = NoRoute
      /\ UNCHANGED <<plan, mode, shove, fixes, host, ended>>
  BY MoveEndsDoes
<1>2. /\ TypeOK /\ TreeOK(tree) /\ plan.rounds \in Nat
      /\ placer \in [current : NodeOrNone, last : NodeOrNone, stages : Seq(Node),
                    correct : BOOLEAN, trace : Trace, shoveMode : BOOLEAN]
  BY PlanBounds DEF AnySession, TypeOK
<1>3. /\ NewNode \in Node \ tree.live
      /\ NewNode \notin {Root, NoNode, route.node, shove.root, shove.current}
                           \cup ToSet(placer.stages) \cup FrameNodes
  BY MoveEndsDoes
<1>5. /\ TreeOK(tree') /\ tree'.live = tree.live \cup {NewNode}
      /\ \A m \in tree.live : tree'.chain[m] = tree.chain[m] /\ tree'.view[m] = tree.view[m]
  BY MoveEndsDoes
<1>6. placer' = [current |-> route.node, last |-> NewNode, stages |-> placer.stages,
                 correct |-> placer.correct, trace |-> trace, shoveMode |-> placer.shoveMode]
  BY MoveEndsDoes
<1>7. TypeOK'
  <2>1. placer' \in [current : NodeOrNone, last : NodeOrNone, stages : Seq(Node),
                     correct : BOOLEAN, trace : Trace, shoveMode : BOOLEAN]
        /\ placer'.stages = placer.stages /\ placer'.current \in Node
    <3>1. route.node \in Node
      BY <1>1, <1>2 DEF TreeOK, Tree
    <3> QED
      BY <1>2, <1>3, <1>6, <3>1 DEF NodeOrNone
  <2>2. route' \in [node : NodeOrNone, rounds : 0..plan.rounds, found : BOOLEAN]
    BY <1>1, <1>2 DEF NoRoute, NodeOrNone
  <2>3. tree' \in Tree(Fact) /\ Root \in tree'.live
    BY <1>5 DEF TreeOK
  <2> QED
    BY <1>1, <1>2, <2>1, <2>2, <2>3 DEF TypeOK
<1>8. Untouched' /\ BoardWaits'
  <2>1. tree'.view[Root] = tree.view[Root]
    BY <1>2, <1>5 DEF TreeOK
  <2> QED
    BY <1>1, <2>1 DEF AnySession, Untouched, BoardWaits
<1>9. ScratchOwned'
  <2>1. Subtree(tree', NewNode) = {NewNode}
    BY <1>2, <1>3, <1>5, NewLeaf
  <2>2. FrameNodes' = FrameNodes /\ placer'.last = NewNode /\ placer'.current = route.node
        /\ placer'.stages = placer.stages /\ shove' = shove
    BY <1>1, <1>6 DEF FrameNodes
  <2> QED
    BY <1>1, <1>3, <1>5, <2>1, <2>2 DEF ScratchOwned, InSession
<1>10. FramesOrdered'
  BY <1>1, <1>3, <1>5, FramesKept DEF InSession
<1> QED
  BY <1>5, <1>7, <1>8, <1>9, <1>10 DEF AnySession

(* What is written by a fix, and what it leaves alone.                     *)
LEMMA FixWrites ==
  ASSUME AnySession, phase = "placing", placer.last # NoNode,
         NEW facts \in SUBSET Fact, NEW adopts \in BOOLEAN,
         NEW u, u = Written(Adopted(tree, adopts), FixedInto, facts)
  PROVE  /\ TreeOK(u) /\ u.live = tree.live /\ u.chain = tree.chain
         /\ u.view[placer.last] \ {Net} = (tree.view[placer.last] \cup facts) \ {Net}
         /\ \A m \in Node \ {placer.last} : u.view[m] \ {Net} = tree.view[m] \ {Net}
         /\ placer.last \in Node \ {Root}
<1> DEFINE w == Adopted(tree, adopts)
<1>1. /\ TreeOK(w) /\ w.live = tree.live /\ w.chain = tree.chain
      /\ \A m \in Node : w.view[m] \ {Net} = tree.view[m] \ {Net}
  BY AdoptedOK DEF AnySession
<1>2. placer.last \in Node \ {Root}
  BY DEF AnySession, TypeOK, NodeOrNone, ScratchOwned, InSession
<1> HIDE DEF w
<1>3. /\ TreeOK(u) /\ u.live = w.live /\ u.chain = w.chain
      /\ u.view[placer.last] = w.view[placer.last] \cup facts
      /\ \A m \in Node \ {placer.last} : u.view[m] = w.view[m]
  <2>1. u = Written(w, placer.last, facts)
    BY DEF w, FixedInto
  <2> QED
    BY <1>1, <1>2, <2>1, WrittenOK
<1> QED
  BY <1>1, <1>2, <1>3

LEMMA FixNothingAny ==
  ASSUME AnySession, NEW tidied \in SUBSET {Tidy(Pending)}, NEW adopts \in BOOLEAN,
         FixNothing(tidied, adopts)
  PROVE  AnySession'
<1>1. /\ phase = "placing" /\ phase' = "placing" /\ placer.last # NoNode
      /\ tree' = Written(Adopted(tree, adopts), FixedInto, tidied)
      /\ placer' = [placer EXCEPT !.shoveMode = (mode = "shove")]
      /\ UNCHANGED <<plan, mode, shove, route, fixes, host, ended>>
  BY DEF FixNothing
<1>2. /\ TypeOK /\ tidied \in SUBSET Fact
      /\ placer \in [current : NodeOrNone, last : NodeOrNone, stages : Seq(Node),
                    correct : BOOLEAN, trace : Trace, shoveMode : BOOLEAN]
  BY FactType DEF AnySession, TypeOK
<1>3. /\ TreeOK(tree') /\ tree'.live = tree.live /\ tree'.chain = tree.chain
      /\ \A m \in Node \ {placer.last} : tree'.view[m] \ {Net} = tree.view[m] \ {Net}
      /\ placer.last \in Node \ {Root}
  <2>1. AnySession /\ phase = "placing" /\ placer.last # NoNode /\ tidied \in SUBSET Fact
    BY <1>1, <1>2
  <2> QED
    BY <1>1, <2>1, FixWrites, ZenonT(60)
<1>4. placer' = [current |-> placer.current, last |-> placer.last, stages |-> placer.stages,
                 correct |-> placer.correct, trace |-> placer.trace,
                 shoveMode |-> (mode = "shove")]
  BY <1>1, <1>2
<1>5. TypeOK'
  <2>1. placer' \in [current : NodeOrNone, last : NodeOrNone, stages : Seq(Node),
                     correct : BOOLEAN, trace : Trace, shoveMode : BOOLEAN]
        /\ placer'.stages = placer.stages
    BY <1>2, <1>4
  <2>2. tree' \in Tree(Fact) /\ Root \in tree'.live
    BY <1>3 DEF TreeOK
  <2> QED
    BY <1>1, <1>2, <2>1, <2>2 DEF TypeOK
<1>6. Untouched' /\ BoardWaits'
  <2>1. Root \in Node
    BY <1>3 DEF TreeOK, Tree
  <2>2. tree'.view[Root] \subseteq {Net}
    BY <1>1, <1>3, <2>1 DEF AnySession, BoardWaits
  <2> QED
    BY <1>1, <2>2 DEF AnySession, Untouched, BoardWaits
<1>7. ScratchOwned'
  <2>1. /\ FrameNodes' = FrameNodes /\ placer'.last = placer.last /\ shove' = shove
        /\ placer'.current = placer.current /\ placer'.stages = placer.stages
        /\ Subtree(tree', placer.last) = Subtree(tree, placer.last)
    BY <1>1, <1>3, <1>4 DEF FrameNodes, Subtree
  <2>2. ScratchOwned
    BY DEF AnySession
  <2> QED
    BY <1>1, <1>3, <2>1, <2>2 DEF ScratchOwned, InSession
<1>8. FramesOrdered'
  BY <1>1, <1>3, FramesKept DEF InSession
<1> QED
  BY <1>3, <1>5, <1>6, <1>7, <1>8 DEF AnySession

(* However a session ends, the branches are gone, and what the board then  *)
(* shows is what the committed node showed, if it was live.                *)
LEMMA OverAny ==
  ASSUME AnySession, phase' = "over", TypeOK', TreeOK(tree')
  PROVE  AnySession'
BY DEF AnySession, Untouched, BoardWaits, ScratchOwned, FramesOrdered, InSession

LEMMA StopRoutingOK ==
  ASSUME NEW t, TreeOK(t), NEW committed, NEW placed, StopRouting(t, committed, placed),
         host \subseteq Fact
  PROVE  /\ TreeOK(tree') /\ tree'.live = {Root}
         /\ tree'.view[Root] = IF committed \in t.live \ {Root} THEN t.view[committed]
                                                               ELSE t.view[Root]
         /\ host' = IF placed /\ placer.last \in t.live THEN t.view[placer.last] ELSE host
         /\ host' \subseteq Fact
         /\ ended' = [by |-> "commit", placed |-> placed] /\ phase' = "over"
<1> DEFINE kept == IF placer.shoveMode' THEN KilledChildren(t, committed) ELSE t
<1>1. /\ TreeOK(kept)
      /\ committed \in t.live <=> committed \in kept.live
      /\ committed \in t.live => kept.view[committed] = t.view[committed]
      /\ kept.view[Root] = t.view[Root]
  <2>1. CASE placer.shoveMode'
    <3>1. LET u == KilledChildren(t, committed)
          IN  TreeOK(u) /\ Pruned(t, u) /\ u.live = t.live \ (Subtree(t, committed) \ {committed})
      BY KilledOK
    <3> QED
      BY <2>1, <3>1 DEF Pruned, TreeOK
  <2>2. CASE ~placer.shoveMode'
    BY <2>2
  <2> QED
    BY <2>1, <2>2
<1>2. tree' = KilledChildren(Committed(kept, committed), Root)
  BY DEF StopRouting
<1> HIDE DEF kept
<1>3. /\ TreeOK(tree') /\ tree'.live = {Root}
      /\ tree'.view[Root] = IF committed \in t.live \ {Root} THEN t.view[committed]
                                                            ELSE t.view[Root]
  BY <1>1, <1>2, CommittedOK
<1>4. /\ host' = IF placed /\ placer.last \in t.live THEN t.view[placer.last] ELSE host
      /\ ended' = [by |-> "commit", placed |-> placed] /\ phase' = "over"
  BY DEF StopRouting
<1>5. host' \subseteq Fact
  BY <1>4 DEF TreeOK, Tree
<1> QED
  BY <1>3, <1>4, <1>5

LEMMA StopAny ==
  ASSUME AnySession, Stop
  PROVE  AnySession'
<1>1. /\ TreeOK(tree') /\ tree'.live = {Root} /\ host' \subseteq Fact
      /\ ended' = [by |-> "commit", placed |-> HasPlaced] /\ phase' = "over"
  BY StopRoutingOK DEF Stop, AnySession, TypeOK
<1>2. TypeOK'
  <2>1. HasPlaced \in BOOLEAN
    BY DEF HasPlaced, AnySession, TypeOK
  <2>2. ended' \in [by : {"none", "commit", "abort"}, placed : BOOLEAN]
    BY <1>1, <2>1
  <2>3. tree' \in Tree(Fact) /\ Root \in tree'.live
    BY <1>1 DEF TreeOK
  <2>4. UNCHANGED <<plan, mode, placer, shove, route, fixes>> /\ phase = "placing" /\ TypeOK
    BY DEF Stop, AnySession
  <2> QED
    BY <1>1, <2>2, <2>3, <2>4 DEF TypeOK
<1> QED
  BY <1>1, <1>2, OverAny

LEMMA AbortAny ==
  ASSUME AnySession, Abort
  PROVE  AnySession'
<1>1. /\ tree' = KilledChildren(tree, Root) /\ phase' = "over" /\ phase = "placing"
      /\ ended' = [by |-> "abort", placed |-> FALSE]
      /\ UNCHANGED <<plan, mode, placer, shove, route, fixes, host>>
  BY DEF Abort
<1>2. TreeOK(tree')
  BY <1>1, KilledOK DEF AnySession
<1>3. TypeOK'
  <2>1. ended' \in [by : {"none", "commit", "abort"}, placed : BOOLEAN]
    BY <1>1
  <2>2. tree' \in Tree(Fact) /\ Root \in tree'.live
    BY <1>2 DEF TreeOK
  <2> QED
    BY <1>1, <2>1, <2>2 DEF AnySession, TypeOK
<1> QED
  BY <1>1, <1>2, <1>3, OverAny

(* Locking a frame.                                                        *)
LEMMA LockedOK ==
  ASSUME NEW n \in Node, NEW s \in [root : NodeOrNone, current : NodeOrNone, stack : Seq(Frame)]
  PROVE  LET top == [node |-> n, locked |-> TRUE]
         IN  /\ Locked(s, n) = [root |-> s.root, current |-> s.current,
                                stack |-> Append(s.stack, top)]
             /\ top \in Frame
             /\ Append(s.stack, top) \in Seq(Frame)
             /\ Len(Append(s.stack, top)) = Len(s.stack) + 1
             /\ \A i \in 1..Len(s.stack) : Append(s.stack, top)[i] = s.stack[i]
             /\ Append(s.stack, top)[Len(s.stack) + 1] = top
             /\ Locked(s, n) \in [root : NodeOrNone, current : NodeOrNone, stack : Seq(Frame)]
<1> DEFINE top == [node |-> n, locked |-> TRUE]
<1>1. top \in Frame
  BY DEF Frame
<1>2. Locked(s, n) = [root |-> s.root, current |-> s.current, stack |-> Append(s.stack, top)]
  BY SMTT(40) DEF Locked
<1> HIDE DEF top
<1>3. /\ Append(s.stack, top) \in Seq(Frame)
      /\ Len(Append(s.stack, top)) = Len(s.stack) + 1
      /\ \A i \in 1..Len(s.stack) : Append(s.stack, top)[i] = s.stack[i]
      /\ Append(s.stack, top)[Len(s.stack) + 1] = top
  BY <1>1, AppendProperties
<1>4. Locked(s, n) \in [root : NodeOrNone, current : NodeOrNone, stack : Seq(Frame)]
  BY <1>2, <1>3
<1> QED
  BY <1>1, <1>2, <1>3, <1>4 DEF top

(* One more fix in force.                                                  *)
LEMMA FixesGrow ==
  ASSUME TypeOK, Len(fixes) < plan.fixes, NEW placed \in BOOLEAN,
         fixes' = Append(fixes, placed)
  PROVE  /\ fixes' \in Seq(BOOLEAN) /\ Len(fixes') = Len(fixes) + 1
         /\ Len(fixes') <= MaxFixes /\ Len(fixes) \in Nat
         /\ \A k \in 1..Len(fixes) : fixes'[k] = fixes[k]
         /\ fixes'[Len(fixes) + 1] = placed
<1>1. fixes \in Seq(BOOLEAN) /\ plan \in Plans
  BY DEF TypeOK
<1>2. Len(fixes) \in Nat /\ MaxFixes \in Nat /\ plan.fixes <= MaxFixes /\ plan.fixes \in Nat
  BY <1>1, PlanBounds
<1>3. /\ Append(fixes, placed) \in Seq(BOOLEAN)
      /\ Len(Append(fixes, placed)) = Len(fixes) + 1
      /\ \A k \in 1..Len(fixes) : Append(fixes, placed)[k] = fixes[k]
      /\ Append(fixes, placed)[Len(fixes) + 1] = placed
  BY <1>1, AppendProperties
<1> QED
  BY <1>2, <1>3

LEMMA FixEndAny ==
  ASSUME AnySession, NEW tidied \in SUBSET {Tidy(Pending)}, NEW adopts \in BOOLEAN,
         FixEnd(tidied, adopts)
  PROVE  AnySession'
<1> DEFINE placed == Written(Adopted(tree, adopts), FixedInto, NewLeg \cup tidied)
           committed == IF mode = "shove" THEN LastLocked(shove') ELSE placer.last
<1>1. /\ phase = "placing" /\ placer.last # NoNode /\ Len(fixes) < plan.fixes
      /\ placer' = [placer EXCEPT !.shoveMode = (mode = "shove")]
      /\ shove' = Locked(shove, placer.last)
      /\ StopRouting(placed, committed, TRUE)
      /\ fixes' = Append(fixes, placer.trace # "dot")
      /\ UNCHANGED <<plan, mode, route>>
  BY DEF FixEnd
<1>2. /\ TypeOK /\ NewLeg \cup tidied \in SUBSET Fact /\ host \subseteq Fact
      /\ placer \in [current : NodeOrNone, last : NodeOrNone, stages : Seq(Node),
                    correct : BOOLEAN, trace : Trace, shoveMode : BOOLEAN]
      /\ shove \in [root : NodeOrNone, current : NodeOrNone, stack : Seq(Frame)]
  BY FactType DEF AnySession, TypeOK, NewLeg
<1>3. TreeOK(placed) /\ placer.last \in Node
  BY <1>1, <1>2, FixWrites
<1> HIDE DEF placed, committed
<1>4. /\ TreeOK(tree') /\ tree'.live = {Root} /\ host' \subseteq Fact
      /\ ended' = [by |-> "commit", placed |-> TRUE] /\ phase' = "over"
  BY <1>1, <1>2, <1>3, StopRoutingOK
<1>5. TypeOK'
  <2>1. ended' \in [by : {"none", "commit", "abort"}, placed : BOOLEAN]
    BY <1>4
  <2>2. tree' \in Tree(Fact) /\ Root \in tree'.live
    BY <1>4 DEF TreeOK
  <2>3. fixes' \in Seq(BOOLEAN) /\ Len(fixes') <= MaxFixes
    BY <1>1, <1>2, FixesGrow
  <2>4. shove' \in [root : NodeOrNone, current : NodeOrNone, stack : Seq(Frame)]
    BY <1>1, <1>2, <1>3, LockedOK
  <2>5. placer' \in [current : NodeOrNone, last : NodeOrNone, stages : Seq(Node),
                     correct : BOOLEAN, trace : Trace, shoveMode : BOOLEAN]
        /\ placer'.stages = placer.stages
    BY <1>1, <1>2
  <2> QED
    BY <1>1, <1>2, <1>4, <2>1, <2>2, <2>3, <2>4, <2>5 DEF TypeOK
<1> QED
  BY <1>4, <1>5, OverAny

(* An intermediate fix: what it writes, what it locks, the stage it        *)
(* pushes, and the scratch branch it opens on the node it fixed.           *)
LEMMA FixLegDoes ==
  ASSUME AnySession, NEW adopts \in BOOLEAN, FixLeg(adopts)
  PROVE  /\ phase = "placing" /\ phase' = "placing" /\ placer.last # NoNode
         /\ placer.trace \in {"dot", "line"} /\ Len(fixes) < plan.fixes
         /\ Len(placer.stages) <= plan.fixes
         /\ placer.last \in tree.live
         /\ placer.last \notin {Root, placer.current, shove.root, shove.current}
                                 \cup ToSet(placer.stages) \cup FrameNodes
         /\ Subtree(tree, placer.last) = {placer.last}
         /\ NewNode \in Node \ tree.live
         /\ NewNode \notin {Root, NoNode, placer.current, placer.last, shove.root, shove.current}
                             \cup ToSet(placer.stages) \cup FrameNodes
         /\ TreeOK(tree') /\ tree'.live = tree.live \cup {NewNode}
         /\ \A m \in tree.live : tree'.chain[m] = tree.chain[m]
         /\ tree'.chain[NewNode] = tree.chain[placer.last] \cup {NewNode}
         /\ tree'.view[NewNode] = tree'.view[placer.last]
         /\ tree'.view[placer.last] \ {Net} = (tree.view[placer.last] \cup NewLeg) \ {Net}
         /\ \A m \in tree.live \ {placer.last} :
              tree'.view[m] \ {Net} = tree.view[m] \ {Net}
         /\ placer'.current = placer.last /\ placer'.last = NewNode
         /\ placer'.correct = TRUE /\ placer'.trace = "none"
         /\ placer'.shoveMode = (mode = "shove")
         /\ placer'.stages \in Seq(Node) /\ Len(placer'.stages) = Len(placer.stages) + 1
         /\ \A i \in 1..Len(placer.stages) : placer'.stages[i] = placer.stages[i]
         /\ placer'.stages[Len(placer.stages) + 1] = placer.current
         /\ ToSet(placer'.stages) = ToSet(placer.stages) \cup {placer.current}
         /\ shove' \in [root : NodeOrNone, current : NodeOrNone, stack : Seq(Frame)]
         /\ shove'.root = shove.root /\ shove'.current = shove.current
         /\ Len(shove'.stack) = Len(shove.stack) + 1
         /\ \A i \in 1..Len(shove.stack) : shove'.stack[i] = shove.stack[i]
         /\ shove'.stack[Len(shove.stack) + 1].node = placer.last
         /\ shove'.stack[Len(shove.stack) + 1].locked = TRUE
         /\ fixes' = Append(fixes, placer.trace # "dot")
         /\ UNCHANGED <<plan, mode, route, host, ended>>
<1> DEFINE placed == Written(Adopted(tree, adopts), FixedInto, NewLeg)
           top == [node |-> placer.last, locked |-> TRUE]
           n == Len(shove.stack)
<1>1. /\ phase = "placing" /\ phase' = "placing" /\ placer.last # NoNode
      /\ placer.trace \in {"dot", "line"}
      /\ Len(fixes) < plan.fixes /\ Len(placer.stages) <= plan.fixes /\ Room(1)
      /\ tree' = Branched(placed, placer.last, NewNode)
      /\ placer' = [current |-> placer.last, last |-> NewNode,
                    stages |-> Append(placer.stages, placer.current),
                    correct |-> TRUE, trace |-> "none", shoveMode |-> (mode = "shove")]
      /\ shove' = Locked(shove, placer.last)
      /\ fixes' = Append(fixes, placer.trace # "dot")
      /\ UNCHANGED <<plan, mode, route, host, ended>>
  BY DEF FixLeg
<1>2. /\ TypeOK /\ TreeOK(tree) /\ NewLeg \in SUBSET Fact /\ plan \in Plans
      /\ placer \in [current : NodeOrNone, last : NodeOrNone, stages : Seq(Node),
                    correct : BOOLEAN, trace : Trace, shoveMode : BOOLEAN]
      /\ placer.stages \in Seq(Node) /\ placer.current \in Node
      /\ shove \in [root : NodeOrNone, current : NodeOrNone, stack : Seq(Frame)]
      /\ n \in Nat /\ DOMAIN shove.stack = 1..n
  BY <1>1, FactType, FramesOf DEF AnySession, TypeOK, NewLeg
<1>3. /\ placer.last \in tree.live
      /\ placer.last \notin {Root, placer.current, shove.root, shove.current}
                              \cup ToSet(placer.stages) \cup FrameNodes
      /\ Subtree(tree, placer.last) = {placer.last}
  BY <1>1 DEF AnySession, ScratchOwned, InSession
<1>4. /\ NewNode \in Node \ tree.live
      /\ NewNode \notin {Root, NoNode, placer.current, placer.last, shove.root, shove.current}
                          \cup ToSet(placer.stages) \cup FrameNodes
  BY <1>1, <1>2, NewNodeFresh
<1>5. /\ TreeOK(placed) /\ placed.live = tree.live /\ placed.chain = tree.chain
      /\ placed.view[placer.last] \ {Net} = (tree.view[placer.last] \cup NewLeg) \ {Net}
      /\ \A m \in Node \ {placer.last} : placed.view[m] \ {Net} = tree.view[m] \ {Net}
  BY <1>1, <1>2, FixWrites, ZenonT(60)
<1> HIDE DEF placed
<1>6. /\ TreeOK(tree') /\ tree'.live = tree.live \cup {NewNode}
      /\ \A m \in tree.live : tree'.chain[m] = tree.chain[m] /\ tree'.view[m] = placed.view[m]
      /\ tree'.chain[NewNode] = tree.chain[placer.last] \cup {NewNode}
      /\ tree'.view[NewNode] = placed.view[placer.last]
  BY <1>1, <1>3, <1>4, <1>5, BranchedOK
<1>7. /\ shove' = [root |-> shove.root, current |-> shove.current,
                   stack |-> Append(shove.stack, top)]
      /\ top \in Frame /\ Len(Append(shove.stack, top)) = n + 1
      /\ Append(shove.stack, top) \in Seq(Frame)
      /\ \A i \in 1..n : Append(shove.stack, top)[i] = shove.stack[i]
      /\ Append(shove.stack, top)[n + 1] = top
      /\ shove' \in [root : NodeOrNone, current : NodeOrNone, stack : Seq(Frame)]
  <2>1. placer.last \in Node
    BY <1>2, <1>3 DEF TreeOK, Tree
  <2> QED
    BY <1>1, <1>2, <2>1, LockedOK
<1>8. /\ shove'.stack = Append(shove.stack, top) /\ shove'.root = shove.root
      /\ shove'.current = shove.current
      /\ Len(shove'.stack) = n + 1 /\ DOMAIN shove'.stack = 1..(n + 1)
      /\ \A i \in 1..n : shove'.stack[i].node = shove.stack[i].node
      /\ \A i \in 1..n : shove'.stack[i] = shove.stack[i]
      /\ shove'.stack[n + 1].node = placer.last /\ shove'.stack[n + 1].locked = TRUE
  BY <1>2, <1>7, LenProperties
<1> HIDE DEF top
<1>9. /\ Append(placer.stages, placer.current) \in Seq(Node)
      /\ Len(Append(placer.stages, placer.current)) = Len(placer.stages) + 1
      /\ \A i \in 1..Len(placer.stages) :
            Append(placer.stages, placer.current)[i] = placer.stages[i]
      /\ Append(placer.stages, placer.current)[Len(placer.stages) + 1] = placer.current
      /\ ToSet(Append(placer.stages, placer.current)) = ToSet(placer.stages) \cup {placer.current}
  <2>1. /\ Append(placer.stages, placer.current) \in Seq(Node)
        /\ Len(Append(placer.stages, placer.current)) = Len(placer.stages) + 1
        /\ \A i \in 1..Len(placer.stages) :
              Append(placer.stages, placer.current)[i] = placer.stages[i]
        /\ Append(placer.stages, placer.current)[Len(placer.stages) + 1] = placer.current
        /\ Len(placer.stages) \in Nat /\ DOMAIN placer.stages = 1..Len(placer.stages)
    BY <1>2, AppendProperties, LenProperties
  <2>2. DOMAIN Append(placer.stages, placer.current) = 1..(Len(placer.stages) + 1)
    BY <2>1, LenProperties
  <2>3. ToSet(Append(placer.stages, placer.current)) = ToSet(placer.stages) \cup {placer.current}
    BY <2>1, <2>2 DEF ToSet
  <2> QED
    BY <2>1, <2>3
<1>9a. /\ placer'.current = placer.last /\ placer'.last = NewNode
       /\ placer'.correct = TRUE /\ placer'.trace = "none"
       /\ placer'.shoveMode = (mode = "shove")
       /\ placer'.stages = Append(placer.stages, placer.current)
  BY <1>1
<1> HIDE DEF n
<1>9b. /\ tree'.view[NewNode] = tree'.view[placer.last]
       /\ tree'.view[placer.last] \ {Net} = (tree.view[placer.last] \cup NewLeg) \ {Net}
       /\ \A m \in tree.live \ {placer.last} :
            tree'.view[m] \ {Net} = tree.view[m] \ {Net}
  BY <1>2, <1>3, <1>5, <1>6 DEF TreeOK, Tree
<1>9c. /\ Len(shove'.stack) = Len(shove.stack) + 1
       /\ \A i \in 1..Len(shove.stack) : shove'.stack[i] = shove.stack[i]
       /\ shove'.stack[Len(shove.stack) + 1].node = placer.last
       /\ shove'.stack[Len(shove.stack) + 1].locked = TRUE
  BY <1>8 DEF n
<1> QED
  BY <1>1, <1>3, <1>4, <1>6, <1>7, <1>8, <1>9, <1>9a, <1>9b, <1>9c

LEMMA FixLegAny ==
  ASSUME AnySession, NEW adopts \in BOOLEAN, FixLeg(adopts)
  PROVE  AnySession'
<1> DEFINE n == Len(shove.stack)
<1>1. /\ phase = "placing" /\ phase' = "placing" /\ placer.last # NoNode
      /\ Len(fixes) < plan.fixes /\ Len(placer.stages) <= plan.fixes
      /\ fixes' = Append(fixes, placer.trace # "dot")
      /\ placer'.current = placer.last /\ placer'.last = NewNode
      /\ UNCHANGED <<plan, mode, route, host, ended>>
  BY FixLegDoes
<1>2. /\ TypeOK /\ TreeOK(tree) /\ plan \in Plans
      /\ placer \in [current : NodeOrNone, last : NodeOrNone, stages : Seq(Node),
                    correct : BOOLEAN, trace : Trace, shoveMode : BOOLEAN]
      /\ placer.stages \in Seq(Node) /\ Len(placer.stages) \in Nat
      /\ shove \in [root : NodeOrNone, current : NodeOrNone, stack : Seq(Frame)]
      /\ n \in Nat /\ DOMAIN shove.stack = 1..n
  BY <1>1, FramesOf, StagesOf DEF AnySession, TypeOK
<1>3. /\ placer.last \in tree.live
      /\ placer.last \notin {Root, placer.current, shove.root, shove.current}
                              \cup ToSet(placer.stages) \cup FrameNodes
      /\ Subtree(tree, placer.last) = {placer.last}
  BY FixLegDoes
<1>4. /\ NewNode \in Node \ tree.live
      /\ NewNode \notin {Root, NoNode, placer.current, placer.last, shove.root, shove.current}
                          \cup ToSet(placer.stages) \cup FrameNodes
  BY FixLegDoes
<1>6. /\ TreeOK(tree') /\ tree'.live = tree.live \cup {NewNode}
      /\ \A m \in tree.live : tree'.chain[m] = tree.chain[m]
      /\ \A m \in tree.live \ {placer.last} : tree'.view[m] \ {Net} = tree.view[m] \ {Net}
  BY FixLegDoes
<1>8. /\ shove' \in [root : NodeOrNone, current : NodeOrNone, stack : Seq(Frame)]
      /\ shove'.root = shove.root /\ shove'.current = shove.current
      /\ Len(shove'.stack) = n + 1
      /\ \A i \in 1..n : shove'.stack[i] = shove.stack[i]
      /\ shove'.stack[n + 1].node = placer.last
  BY FixLegDoes
<1>8a. DOMAIN shove'.stack = 1..(n + 1)
  BY <1>8, LenProperties
<1>9. /\ placer'.stages \in Seq(Node) /\ Len(placer'.stages) = Len(placer.stages) + 1
      /\ ToSet(placer'.stages) = ToSet(placer.stages) \cup {placer.current}
  BY FixLegDoes
<1>10. TypeOK'
  <2>1. placer' \in [current : NodeOrNone, last : NodeOrNone, stages : Seq(Node),
                     correct : BOOLEAN, trace : Trace, shoveMode : BOOLEAN]
        /\ placer'.current \in Node /\ placer'.stages # <<>>
    <3>1. placer.last \in Node /\ placer'.stages # <<>>
      BY <1>2, <1>3, <1>9, EmptySeq DEF TreeOK, Tree
    <3>2. placer' = [current |-> placer.last, last |-> NewNode,
                     stages |-> Append(placer.stages, placer.current),
                     correct |-> TRUE, trace |-> "none", shoveMode |-> (mode = "shove")]
      BY DEF FixLeg
    <3> QED
      BY <1>1, <1>4, <1>9, <3>1, <3>2 DEF NodeOrNone, Trace
  <2>2. Len(placer'.stages) <= MaxFixes + 1
    <3>1. MaxFixes \in Nat /\ plan.fixes \in Nat /\ plan.fixes <= MaxFixes
      BY <1>2, PlanBounds
    <3> QED
      BY <1>1, <1>9, <3>1
  <2>3. fixes' \in Seq(BOOLEAN) /\ Len(fixes') <= MaxFixes
    BY <1>1, <1>2, FixesGrow
  <2>4. tree' \in Tree(Fact) /\ Root \in tree'.live
    BY <1>6 DEF TreeOK
  <2> QED
    BY <1>1, <1>2, <1>8, <2>1, <2>2, <2>3, <2>4 DEF TypeOK
<1>11. Untouched' /\ BoardWaits'
  <2>1. tree'.view[Root] \ {Net} = tree.view[Root] \ {Net} /\ tree.view[Root] \subseteq {Net}
    BY <1>1, <1>2, <1>3, <1>6 DEF TreeOK, Tree, AnySession, BoardWaits
  <2> QED
    BY <1>1, <2>1 DEF AnySession, Untouched, BoardWaits
<1>12. FrameNodes' = FrameNodes \cup {placer.last}
  BY <1>2, <1>8, <1>8a, SMTT(40) DEF FrameNodes, ToSet
<1>13. ScratchOwned'
  <2>1. Subtree(tree', NewNode) = {NewNode}
    BY <1>2, <1>4, <1>6, NewLeaf
  <2>2. placer'.last = NewNode /\ placer'.current = placer.last
        /\ ToSet(placer'.stages) = ToSet(placer.stages) \cup {placer.current}
    BY <1>1, <1>9
  <2> QED
    BY <1>1, <1>4, <1>6, <1>8, <1>12, <2>1, <2>2 DEF ScratchOwned, InSession
<1>14. FramesOrdered'
  <2>1. \A i \in 0..n : Ground(i)' = Ground(i)
    BY <1>8 DEF Ground
  <2>2. \A i \in 0..n : Ground(i) \in FrameNodes \cup {shove.root}
    BY <1>2, FramesOf DEF Ground
  <2>3. ASSUME NEW i \in 0..(n + 1), NEW j \in 1..(n + 1), i < j, Ground(i)' \in tree'.live
        PROVE  shove'.stack[j].node \notin tree'.chain[Ground(i)']
    <3>1. i \in 0..n /\ Ground(i)' = Ground(i) /\ Ground(i) \in tree.live
      BY <1>2, <1>4, <1>6, <2>1, <2>2, <2>3
    <3>2. tree'.chain[Ground(i)] = tree.chain[Ground(i)]
      BY <1>6, <3>1
    <3>3. CASE j = n + 1
      <4>1. Ground(i) \notin Subtree(tree, placer.last)
        BY <1>3, <2>2, <3>1
      <4> QED
        BY <1>8, <3>1, <3>2, <3>3, <4>1 DEF Subtree
    <3>4. CASE j \in 1..n
      <4>1. FramesOrdered
        BY DEF AnySession
      <4> QED
        BY <1>1, <1>2, <1>8, <2>3, <3>1, <3>2, <3>4, <4>1 DEF FramesOrdered, InSession
    <3> QED
      BY <1>2, <3>3, <3>4
  <2>4. Root \notin FrameNodes
    BY <1>1 DEF AnySession, FramesOrdered, InSession
  <2> QED
    BY <1>2, <1>3, <1>8, <1>8a, <1>12, <2>3, <2>4 DEF FramesOrdered
<1> QED
  BY <1>6, <1>10, <1>11, <1>13, <1>14 DEF AnySession

(* Undo rewinds the springback stack to below the frame of the node, or    *)
(* leaves it, when the node is not on it.                                  *)
LEMMA RewoundOK ==
  ASSUME shove \in [root : NodeOrNone, current : NodeOrNone, stack : Seq(Frame)], NEW n
  PROVE  \/ n \notin FrameNodes /\ Rewound(shove, n) = shove
         \/ \E k \in 0..(Len(shove.stack) - 1) :
              /\ shove.stack[k + 1].node = n
              /\ \A i \in 1..k : shove.stack[i].node # n
              /\ Rewound(shove, n) = [root |-> shove.root, current |-> Ground(k),
                                      stack |-> SubSeq(shove.stack, 1, k)]
<1> DEFINE at == {i \in DOMAIN shove.stack : shove.stack[i].node = n}
           k == Min(at) - 1
           frames == SubSeq(shove.stack, 1, k)
<1>1. /\ DOMAIN shove.stack = 1..Len(shove.stack) /\ Len(shove.stack) \in Nat
      /\ \A i \in 1..Len(shove.stack) : shove.stack[i].node \in FrameNodes
      /\ \A m \in FrameNodes : \E i \in 1..Len(shove.stack) : m = shove.stack[i].node
      /\ shove.stack \in Seq(Frame)
  BY FramesOf
<1>2. CASE at = {}
  <2>1. n \notin FrameNodes
    BY <1>1, <1>2
  <2>2. Rewound(shove, n) = shove
    BY <1>2 DEF Rewound
  <2> QED
    BY <2>1, <2>2
<1>3. CASE at # {}
  <2>1. at \in SUBSET Nat
    BY <1>1
  <2> DEFINE least == Min(at)
  <2>2. least \in at /\ \A i \in at : least <= i
    BY <1>3, <2>1, MinOfNat
  <2>3. /\ k \in 0..(Len(shove.stack) - 1) /\ least = k + 1
        /\ shove.stack[k + 1].node = n /\ \A i \in 1..k : shove.stack[i].node # n
    <3> HIDE DEF least
    <3>1. least \in 1..Len(shove.stack) /\ shove.stack[least].node = n
      BY <1>1, <2>2
    <3>2. \A i \in 1..(least - 1) : shove.stack[i].node # n
      BY <1>1, <2>2, <3>1
    <3> QED
      BY <1>1, <3>1, <3>2 DEF least
  <2>4. Rewound(shove, n) = [shove EXCEPT !.stack = frames,
                   !.current = IF frames = <<>> THEN shove.root ELSE Last(frames).node]
    BY <1>3 DEF Rewound
  <2> HIDE DEF at
  <2>5. (IF frames = <<>> THEN shove.root ELSE Last(frames).node) = Ground(k)
    <3> HIDE DEF k
    <3>1. /\ Len(frames) = k /\ frames \in Seq(Frame)
          /\ \A i \in 1..k : frames[i] = shove.stack[i]
      BY <1>1, <2>3, PrefixOf
    <3>2. CASE k = 0
      BY <3>1, <3>2, EmptySeq DEF Ground
    <3>3. CASE k # 0
      <4>1. frames # <<>>
        BY <3>1, <3>3, EmptySeq
      <4>2. Last(frames) = shove.stack[k]
        BY <2>3, <3>1, <3>3 DEF Last
      <4> QED
        BY <3>3, <4>1, <4>2 DEF Ground
    <3> QED
      BY <3>2, <3>3
  <2> HIDE DEF k, frames
  <2>6. Rewound(shove, n) = [root |-> shove.root, current |-> Ground(k), stack |-> frames]
    BY <2>4, <2>5
  <2> QED
    BY <2>3, <2>6 DEF frames
<1> QED
  BY <1>2, <1>3

LEMMA UnlockedOK ==
  ASSUME NEW s \in [root : NodeOrNone, current : NodeOrNone, stack : Seq(Frame)], NEW n
  PROVE  /\ Unlocked(s, n) \in [root : NodeOrNone, current : NodeOrNone, stack : Seq(Frame)]
         /\ Unlocked(s, n).root = s.root /\ Unlocked(s, n).current = s.current
         /\ Len(Unlocked(s, n).stack) = Len(s.stack)
         /\ \A i \in 1..Len(s.stack) : Unlocked(s, n).stack[i].node = s.stack[i].node
         /\ (\A i \in 1..Len(s.stack) : s.stack[i].node # n) => Unlocked(s, n) = s
<1> DEFINE at == {i \in DOMAIN s.stack : s.stack[i].node = n}
<1>1. /\ s.stack \in Seq(Frame) /\ Len(s.stack) \in Nat /\ DOMAIN s.stack = 1..Len(s.stack)
      /\ \A i \in 1..Len(s.stack) : s.stack[i] \in Frame
  BY LenProperties, ElementOfSeq
<1>2. CASE at = {}
  BY <1>2 DEF Unlocked
<1>3. CASE at # {}
  <2> DEFINE least == Min(at)
             freed == [s.stack[least] EXCEPT !.locked = FALSE]
  <2>1. least \in 1..Len(s.stack) /\ s.stack[least].node = n
    <3>1. at \in SUBSET Nat
      BY <1>1
    <3>2. least \in at
      BY <1>3, <3>1, MinOfNat
    <3> QED
      BY <1>1, <3>2
  <2>2. Unlocked(s, n) = [s EXCEPT !.stack = [s.stack EXCEPT ![least] = freed]]
    BY <1>3 DEF Unlocked
  <2> HIDE DEF least
  <2>3. freed \in Frame /\ freed.node = s.stack[least].node
    BY <1>1, <2>1 DEF Frame
  <2> HIDE DEF freed
  <2>4. /\ [s.stack EXCEPT ![least] = freed] \in Seq(Frame)
        /\ Len([s.stack EXCEPT ![least] = freed]) = Len(s.stack)
        /\ \A i \in 1..Len(s.stack) :
              [s.stack EXCEPT ![least] = freed][i] = IF i = least THEN freed ELSE s.stack[i]
    BY <1>1, <2>1, <2>3, ExceptSeq
  <2> QED
    BY <1>1, <2>1, <2>2, <2>3, <2>4
<1> QED
  BY <1>2, <1>3

(* What undo drops.                                                        *)
LEMMA UndoTreeOK ==
  ASSUME AnySession
  PROVE  LET stage == Last(placer.stages)
         IN  /\ TreeOK(UndoTree) /\ Pruned(tree, UndoTree)
             /\ \A m \in tree.live \ (Subtree(tree, UndoTarget) \ {UndoTarget}) :
                  (stage \in FrameNodes => m \notin Subtree(tree, stage) \ {stage})
                     => m \in UndoTree.live
<1> DEFINE stage == Last(placer.stages)
           rewound == RewoundTree(tree, shove, stage)
<1>1. /\ TreeOK(rewound) /\ Pruned(tree, rewound)
      /\ \A m \in tree.live :
           (stage \in FrameNodes => m \notin Subtree(tree, stage) \ {stage})
              => m \in rewound.live
  <2>1. CASE stage \in FrameNodes
    <3>1. rewound = KilledChildren(tree, stage)
      BY <2>1 DEF RewoundTree, FrameNodes
    <3> HIDE DEF rewound, stage
    <3>2. /\ TreeOK(rewound) /\ Pruned(tree, rewound)
          /\ rewound.live = tree.live \ (Subtree(tree, stage) \ {stage})
      BY <3>1, KilledOK DEF AnySession
    <3> QED
      BY <2>1, <3>2
  <2>2. CASE stage \notin FrameNodes
    <3>1. rewound = tree
      BY <2>2 DEF RewoundTree, FrameNodes
    <3> HIDE DEF rewound, stage
    <3> QED
      BY <3>1 DEF AnySession, Pruned
  <2> QED
    BY <2>1, <2>2
<1>2. UndoTree = KilledChildren(rewound, UndoTarget)
  BY DEF UndoTree
<1> HIDE DEF rewound, stage
<1>3. /\ TreeOK(UndoTree) /\ Pruned(rewound, UndoTree)
      /\ UndoTree.live = rewound.live \ (Subtree(rewound, UndoTarget) \ {UndoTarget})
  BY <1>1, <1>2, KilledOK
<1>4. Subtree(rewound, UndoTarget) \subseteq Subtree(tree, UndoTarget)
  BY <1>1 DEF Pruned, Subtree
<1> QED
  BY <1>1, <1>3, <1>4 DEF Pruned, stage

LEMMA PoppedOf ==
  ASSUME NEW S, NEW s \in Seq(S), s # <<>>
  PROVE  /\ Popped(s) \in Seq(S) /\ Popped(s) # <<>>
         /\ Len(Popped(s)) = IF Len(s) > 1 THEN Len(s) - 1 ELSE Len(s)
         /\ Len(Popped(s)) <= Len(s)
         /\ \A i \in 1..Len(Popped(s)) : Popped(s)[i] = s[i]
         /\ ToSet(Popped(s)) \subseteq ToSet(s)
<1>1. Len(s) \in Nat \ {0} /\ DOMAIN s = 1..Len(s)
  BY EmptySeq, LenProperties
<1>2. ASSUME Len(s) > 1
      PROVE  /\ Popped(s) \in Seq(S) /\ Len(Popped(s)) = Len(s) - 1
             /\ \A i \in 1..(Len(s) - 1) : Popped(s)[i] = s[i]
  <2>1. Len(s) - 1 \in 0..Len(s)
    BY <1>1, <1>2
  <2>2. Popped(s) = SubSeq(s, 1, Len(s) - 1)
    BY <1>2 DEF Popped, Front
  <2> QED
    BY <2>1, <2>2, PrefixOf
<1>3. CASE Len(s) > 1
  <2>1. DOMAIN Popped(s) = 1..(Len(s) - 1) /\ Len(Popped(s)) # 0
    BY <1>1, <1>2, <1>3, LenProperties
  <2>2. Popped(s) # <<>>
    BY <2>1
  <2>3. ToSet(Popped(s)) \subseteq ToSet(s)
    <3>1. \A i \in 1..(Len(s) - 1) : i \in 1..Len(s) /\ Popped(s)[i] = s[i]
      BY <1>1, <1>2, <1>3
    <3>2. ASSUME NEW x \in ToSet(Popped(s)) PROVE x \in ToSet(s)
      <4>1. PICK i \in 1..(Len(s) - 1) : x = Popped(s)[i]
        BY <2>1 DEF ToSet
      <4>2. i \in DOMAIN s /\ x = s[i]
        BY <1>1, <3>1, <4>1
      <4> QED
        BY <4>2 DEF ToSet
    <3> QED
      BY <3>2
  <2>4. /\ Len(Popped(s)) = IF Len(s) > 1 THEN Len(s) - 1 ELSE Len(s)
        /\ Len(Popped(s)) <= Len(s)
    <3>0. Len(Popped(s)) = Len(s) - 1
      BY <1>2, <1>3, Zenon
    <3>1. Len(Popped(s)) = Len(s) - 1 /\ Len(s) \in Int
      BY <1>1, <3>0
    <3>2. Len(s) - 1 <= Len(s)
      BY <3>1
    <3> QED
      BY <1>3, <3>1, <3>2
  <2>5. \A i \in 1..Len(Popped(s)) : Popped(s)[i] = s[i]
    BY <1>2, <1>3
  <2> QED
    BY <1>2, <1>3, <2>2, <2>3, <2>4, <2>5
<1>4. CASE ~(Len(s) > 1)
  <2>1. Popped(s) = s
    BY <1>4 DEF Popped
  <2> QED
    BY <1>1, <1>4, <2>1
<1> QED
  BY <1>3, <1>4

(* Undo drops what hangs from the stage's frame and from the node it comes *)
(* back to, which the frames below that of the stage, if it has one, and   *)
(* the stage give; the unlocking finds no frame any more.                  *)
LEMMA UndoDoes ==
  ASSUME AnySession, UndoLastSegment, NEW stage, stage = Last(placer.stages)
  PROVE  /\ phase = "placing" /\ phase' = "placing" /\ UndoTarget \in UndoTree.live
         /\ NewNode \in Node \ tree.live
         /\ NewNode \notin {Root, NoNode, placer.current, placer.last, shove.root, shove.current}
                             \cup ToSet(placer.stages) \cup FrameNodes
         /\ TreeOK(UndoTree) /\ Pruned(tree, UndoTree)
         /\ TreeOK(tree') /\ tree'.live = UndoTree.live \cup {NewNode}
         /\ \A m \in UndoTree.live : /\ m \in tree.live
                                     /\ tree'.chain[m] = tree.chain[m]
                                     /\ tree'.view[m] = tree.view[m]
         /\ tree'.chain[NewNode] = tree.chain[UndoTarget] \cup {NewNode}
         /\ tree'.view[NewNode] = tree.view[UndoTarget]
         /\ placer' = [current |-> UndoTarget, last |-> NewNode,
                       stages |-> Popped(placer.stages), correct |-> placer.correct,
                       trace |-> "none", shoveMode |-> placer.shoveMode]
         /\ \/ stage \notin FrameNodes /\ shove' = shove
            \/ \E k \in 0..(Len(shove.stack) - 1) :
                 /\ shove.stack[k + 1].node = stage
                 /\ \A i \in 1..k : shove.stack[i].node # stage
                 /\ shove' = [root |-> shove.root, current |-> Ground(k),
                              stack |-> SubSeq(shove.stack, 1, k)]
         /\ fixes' = IF fixes = <<>> THEN <<>> ELSE Front(fixes)
         /\ UNCHANGED <<plan, mode, route, host, ended>>
<1>1. /\ phase = "placing" /\ phase' = "placing" /\ Room(1) /\ UndoTarget \in UndoTree.live
      /\ shove' = Unlocked(Rewound(shove, stage), stage)
      /\ tree' = Branched(UndoTree, UndoTarget, NewNode)
      /\ placer' = [placer EXCEPT !.current = UndoTarget, !.last = NewNode,
                                  !.stages = Popped(placer.stages), !.trace = "none"]
      /\ fixes' = IF fixes = <<>> THEN <<>> ELSE Front(fixes)
      /\ UNCHANGED <<plan, mode, route, host, ended>>
  BY DEF UndoLastSegment
<1>2. /\ TypeOK /\ TreeOK(tree)
      /\ placer \in [current : NodeOrNone, last : NodeOrNone, stages : Seq(Node),
                    correct : BOOLEAN, trace : Trace, shoveMode : BOOLEAN]
      /\ shove \in [root : NodeOrNone, current : NodeOrNone, stack : Seq(Frame)]
      /\ shove.stack \in Seq(Frame) /\ Len(shove.stack) \in Nat
      /\ \A i \in 1..Len(shove.stack) : shove.stack[i].node \in FrameNodes
  BY <1>1, FramesOf DEF AnySession, TypeOK
<1>3. /\ NewNode \in Node \ tree.live
      /\ NewNode \notin {Root, NoNode, placer.current, placer.last, shove.root, shove.current}
                          \cup ToSet(placer.stages) \cup FrameNodes
  BY <1>1, <1>2, NewNodeFresh
<1>4. TreeOK(UndoTree) /\ Pruned(tree, UndoTree)
  BY UndoTreeOK
<1>5. NewNode \in Node \ UndoTree.live
  BY <1>3, <1>4 DEF Pruned
<1>6. /\ TreeOK(tree') /\ tree'.live = UndoTree.live \cup {NewNode}
      /\ \A m \in UndoTree.live : /\ m \in tree.live
                                  /\ tree'.chain[m] = tree.chain[m]
                                  /\ tree'.view[m] = tree.view[m]
      /\ tree'.chain[NewNode] = tree.chain[UndoTarget] \cup {NewNode}
      /\ tree'.view[NewNode] = tree.view[UndoTarget]
  BY <1>1, <1>4, <1>5, BranchedOK DEF Pruned
<1>7. placer' = [current |-> UndoTarget, last |-> NewNode, stages |-> Popped(placer.stages),
                 correct |-> placer.correct, trace |-> "none", shoveMode |-> placer.shoveMode]
  BY <1>1, <1>2
<1>8. \/ stage \notin FrameNodes /\ shove' = shove
      \/ \E k \in 0..(Len(shove.stack) - 1) :
           /\ shove.stack[k + 1].node = stage
           /\ \A i \in 1..k : shove.stack[i].node # stage
           /\ shove' = [root |-> shove.root, current |-> Ground(k),
                        stack |-> SubSeq(shove.stack, 1, k)]
  <2>1. CASE stage \notin FrameNodes /\ Rewound(shove, stage) = shove
    <3>1. shove' = shove
      BY <1>1, <1>2, <2>1, UnlockedOK
    <3> QED
      BY <2>1, <3>1
  <2>2. ASSUME NEW k \in 0..(Len(shove.stack) - 1),
               shove.stack[k + 1].node = stage, \A i \in 1..k : shove.stack[i].node # stage,
               Rewound(shove, stage) = [root |-> shove.root, current |-> Ground(k),
                                        stack |-> SubSeq(shove.stack, 1, k)]
        PROVE  shove' = Rewound(shove, stage)
    <3> DEFINE r == Rewound(shove, stage)
    <3>1. /\ SubSeq(shove.stack, 1, k) \in Seq(Frame) /\ Len(SubSeq(shove.stack, 1, k)) = k
          /\ \A i \in 1..k : SubSeq(shove.stack, 1, k)[i] = shove.stack[i]
      BY <1>2, PrefixOf
    <3>2. Ground(k) \in NodeOrNone
      BY <1>2, FramesOf DEF Ground, NodeOrNone
    <3> HIDE DEF r
    <3>3. /\ r \in [root : NodeOrNone, current : NodeOrNone, stack : Seq(Frame)]
          /\ \A i \in 1..Len(r.stack) : r.stack[i].node # stage
      BY <1>2, <2>2, <3>1, <3>2 DEF r
    <3> QED
      BY <1>1, <3>3, UnlockedOK DEF r
  <2>3. CASE \E k \in 0..(Len(shove.stack) - 1) :
               /\ shove.stack[k + 1].node = stage
               /\ \A i \in 1..k : shove.stack[i].node # stage
               /\ Rewound(shove, stage) = [root |-> shove.root, current |-> Ground(k),
                                           stack |-> SubSeq(shove.stack, 1, k)]
    <3>1. PICK k \in 0..(Len(shove.stack) - 1) :
               /\ shove.stack[k + 1].node = stage
               /\ \A i \in 1..k : shove.stack[i].node # stage
               /\ Rewound(shove, stage) = [root |-> shove.root, current |-> Ground(k),
                                           stack |-> SubSeq(shove.stack, 1, k)]
      BY <2>3
    <3>2. shove' = [root |-> shove.root, current |-> Ground(k),
                    stack |-> SubSeq(shove.stack, 1, k)]
      BY <2>2, <3>1
    <3> QED
      BY <3>1, <3>2
  <2>4. \/ stage \notin FrameNodes /\ Rewound(shove, stage) = shove
        \/ \E k \in 0..(Len(shove.stack) - 1) :
               /\ shove.stack[k + 1].node = stage
               /\ \A i \in 1..k : shove.stack[i].node # stage
               /\ Rewound(shove, stage) = [root |-> shove.root, current |-> Ground(k),
                                           stack |-> SubSeq(shove.stack, 1, k)]
    <3>1. shove \in [root : NodeOrNone, current : NodeOrNone, stack : Seq(Frame)]
      BY <1>2
    <3> QED
      BY <3>1, RewoundOK, Zenon
  <2> QED
    BY <2>1, <2>3, <2>4
<1> QED
  BY <1>1, <1>3, <1>4, <1>6, <1>7, <1>8

LEMMA UndoAny ==
  ASSUME AnySession, UndoLastSegment
  PROVE  AnySession'
<1> DEFINE stage == Last(placer.stages)
           n == Len(shove.stack)
<1>1. /\ phase = "placing" /\ phase' = "placing" /\ UndoTarget \in UndoTree.live
      /\ fixes' = IF fixes = <<>> THEN <<>> ELSE Front(fixes)
      /\ UNCHANGED <<plan, mode, route, host, ended>>
  BY UndoDoes
<1>2. /\ TypeOK /\ TreeOK(tree) /\ plan \in Plans
      /\ placer \in [current : NodeOrNone, last : NodeOrNone, stages : Seq(Node),
                    correct : BOOLEAN, trace : Trace, shoveMode : BOOLEAN]
      /\ placer.stages \in Seq(Node) /\ placer.stages # <<>>
      /\ Len(placer.stages) <= MaxFixes + 1 /\ MaxFixes \in Nat
      /\ shove \in [root : NodeOrNone, current : NodeOrNone, stack : Seq(Frame)]
      /\ shove.stack \in Seq(Frame) /\ n \in Nat /\ DOMAIN shove.stack = 1..n
      /\ fixes \in Seq(BOOLEAN) /\ Len(fixes) <= MaxFixes
  BY <1>1, PlanBounds, FramesOf DEF AnySession, TypeOK
<1>3. /\ NewNode \in Node \ tree.live
      /\ NewNode \notin {Root, NoNode, placer.current, placer.last, shove.root, shove.current}
                          \cup ToSet(placer.stages) \cup FrameNodes
  BY UndoDoes
<1>4. TreeOK(UndoTree) /\ Pruned(tree, UndoTree)
  BY UndoTreeOK
<1>5. NewNode \in Node \ UndoTree.live
  BY <1>3, <1>4 DEF Pruned
<1>6. /\ TreeOK(tree') /\ tree'.live = UndoTree.live \cup {NewNode}
      /\ \A m \in UndoTree.live : /\ m \in tree.live
                                  /\ tree'.chain[m] = tree.chain[m]
                                  /\ tree'.view[m] = tree.view[m]
  BY UndoDoes
<1>7. UndoTarget \in Node /\ UndoTarget # NewNode
  BY <1>1, <1>4, <1>5 DEF TreeOK, Tree
<1>8. /\ Popped(placer.stages) \in Seq(Node) /\ Popped(placer.stages) # <<>>
      /\ Len(Popped(placer.stages)) <= Len(placer.stages) /\ Len(placer.stages) \in Nat
      /\ ToSet(Popped(placer.stages)) \subseteq ToSet(placer.stages)
  BY <1>2, PoppedOf, StagesOf
<1>9. placer' = [current |-> UndoTarget, last |-> NewNode, stages |-> Popped(placer.stages),
                 correct |-> placer.correct, trace |-> "none", shoveMode |-> placer.shoveMode]
  BY UndoDoes
<1>10. PICK k \in 0..n :
          /\ shove' \in [root : NodeOrNone, current : NodeOrNone, stack : Seq(Frame)]
          /\ shove'.root = shove.root /\ Len(shove'.stack) = k
          /\ shove'.current \in {shove.current, Ground(k)}
          /\ \A i \in 1..k : shove'.stack[i].node = shove.stack[i].node
  <2>1. CASE shove' = shove
    BY <1>2, <2>1
  <2>2. CASE \E k \in 0..(n - 1) : shove' = [root |-> shove.root, current |-> Ground(k),
                                             stack |-> SubSeq(shove.stack, 1, k)]
    <3>1. PICK k \in 0..(n - 1) : shove' = [root |-> shove.root, current |-> Ground(k),
                                            stack |-> SubSeq(shove.stack, 1, k)]
      BY <2>2
    <3>2. /\ SubSeq(shove.stack, 1, k) \in Seq(Frame) /\ Len(SubSeq(shove.stack, 1, k)) = k
          /\ \A i \in 1..k : SubSeq(shove.stack, 1, k)[i] = shove.stack[i]
      BY <1>2, PrefixOf
    <3>3. Ground(k) \in NodeOrNone /\ k \in 0..n
      BY <1>2, FramesOf DEF Ground, NodeOrNone
    <3>4. shove' \in [root : NodeOrNone, current : NodeOrNone, stack : Seq(Frame)]
      BY <1>2, <3>1, <3>2, <3>3
    <3> QED
      BY <3>1, <3>2, <3>3, <3>4
  <2> QED
    BY <1>2, <2>1, <2>2, UndoDoes
<1> HIDE DEF stage, n
<1>11. TypeOK'
  <2>1. placer' \in [current : NodeOrNone, last : NodeOrNone, stages : Seq(Node),
                     correct : BOOLEAN, trace : Trace, shoveMode : BOOLEAN]
        /\ placer'.current \in Node /\ placer'.stages # <<>>
        /\ Len(placer'.stages) <= MaxFixes + 1
    <3>1. Len(Popped(placer.stages)) \in Nat
      BY <1>8, LenProperties
    <3> QED
      BY <1>2, <1>3, <1>7, <1>8, <1>9, <3>1 DEF NodeOrNone, Trace
  <2>2. fixes' \in Seq(BOOLEAN) /\ Len(fixes') <= MaxFixes
    <3>1. CASE fixes = <<>>
      BY <1>1, <1>2, <3>1
    <3>2. CASE fixes # <<>>
      <4>1. Len(fixes) \in Nat \ {0} /\ fixes' = SubSeq(fixes, 1, Len(fixes) - 1)
        BY <1>1, <1>2, <3>2, EmptySeq DEF Front
      <4>2. Len(fixes) - 1 \in 0..Len(fixes)
        BY <4>1
      <4>3. fixes' \in Seq(BOOLEAN) /\ Len(fixes') = Len(fixes) - 1
        BY <1>2, <4>1, <4>2, PrefixOf, ZenonT(60)
      <4> QED
        BY <1>2, <4>1, <4>3
    <3> QED
      BY <3>1, <3>2
  <2>3. tree' \in Tree(Fact) /\ Root \in tree'.live
    BY <1>6 DEF TreeOK
  <2> QED
    BY <1>1, <1>2, <1>10, <2>1, <2>2, <2>3 DEF TypeOK
<1>12. Untouched' /\ BoardWaits'
  <2>1. tree'.view[Root] = tree.view[Root]
    BY <1>4, <1>6 DEF TreeOK
  <2> QED
    BY <1>1, <2>1 DEF AnySession, Untouched, BoardWaits
<1>13. /\ shove'.stack \in Seq(Frame) /\ DOMAIN shove'.stack = 1..k
       /\ FrameNodes' \subseteq FrameNodes /\ \A i \in 0..k : Ground(i)' = Ground(i)
       /\ \A i \in 0..n : Ground(i) \in FrameNodes \cup {shove.root}
  <2>1. shove'.stack \in Seq(Frame)
    BY <1>10
  <2>2. DOMAIN shove'.stack = 1..k
    BY <1>10, <2>1, LenProperties
  <2>3. FrameNodes' \subseteq FrameNodes
    BY <1>2, <1>10, <2>2 DEF FrameNodes, ToSet, n
  <2>4. \A i \in 0..k : Ground(i)' = Ground(i)
    BY <1>10 DEF Ground
  <2>5. \A i \in 0..n : Ground(i) \in FrameNodes \cup {shove.root}
    BY <1>2, FramesOf DEF Ground, n
  <2> QED
    BY <2>1, <2>2, <2>3, <2>4, <2>5
<1>14. ScratchOwned'
  <2>1. Subtree(tree', NewNode) = {NewNode}
    BY <1>4, <1>5, <1>6, NewLeaf DEF Pruned
  <2>2. placer'.last = NewNode /\ placer'.current = UndoTarget
        /\ ToSet(placer'.stages) \subseteq ToSet(placer.stages)
    BY <1>8, <1>9
  <2>3. NewNode \notin {Root, UndoTarget, shove'.root, shove'.current}
    BY <1>2, <1>3, <1>7, <1>10, <1>13 DEF n
  <2> QED
    BY <1>1, <1>3, <1>6, <1>13, <2>1, <2>2, <2>3 DEF ScratchOwned, InSession
<1>15. FramesOrdered'
  <2>1. FramesOrdered
    BY DEF AnySession
  <2>2. ASSUME NEW i \in 0..k, NEW j \in 1..k, i < j, Ground(i)' \in tree'.live
        PROVE  shove'.stack[j].node \notin tree'.chain[Ground(i)']
    <3>1. Ground(i)' = Ground(i) /\ Ground(i) # NewNode /\ i \in 0..n /\ j \in 1..n
      BY <1>2, <1>3, <1>10, <1>13
    <3>2. Ground(i) \in tree.live /\ tree'.chain[Ground(i)] = tree.chain[Ground(i)]
      BY <1>6, <2>2, <3>1
    <3>3. shove.stack[j].node \notin tree.chain[Ground(i)]
      BY <1>1, <1>2, <2>1, <2>2, <3>1, <3>2 DEF FramesOrdered, InSession, n
    <3> QED
      BY <1>10, <3>1, <3>2, <3>3
  <2>3. Root \notin FrameNodes
    BY <1>1, <2>1 DEF FramesOrdered, InSession
  <2> QED
    BY <1>10, <1>13, <2>2, <2>3 DEF FramesOrdered
<1> QED
  BY <1>6, <1>11, <1>12, <1>14, <1>15 DEF AnySession

LEMMA StepAny == AnySession /\ [Next]_vars => AnySession'
<1> SUFFICES ASSUME AnySession, [Next]_vars PROVE AnySession'
  OBVIOUS
<1>1. CASE UNCHANGED vars
  BY <1>1 DEF vars, AnySession, TypeOK, TreeOK, Untouched, BoardWaits, ScratchOwned,
       FramesOrdered, InSession, FrameNodes, Ground
<1>2. CASE \E k \in Kept : ShovePanics(k)
  BY <1>2, PanicsAny DEF ShovePanics
<1>3. CASE MovePanics
  BY <1>3, PanicsAny DEF MovePanics
<1>4. CASE UndoPanics
  BY <1>4, PanicsAny DEF UndoPanics
<1> QED
  BY <1>1, <1>2, <1>3, <1>4, StartAny, SetModeAny, MoveToAny, RouteShoveAny, MoveEndsAny,
     FixNothingAny, FixEndAny, FixLegAny, UndoAny, StopAny, AbortAny DEF Next
----------------------------------------------------------------------------
(* Theorem.  Whatever a session goes through, including one that panics:   *)
(* its variables keep their types, its boards stay a tree, the board waits *)
(* for the end of the session, the scratch branch is the placer's alone,   *)
(* and no springback frame hangs from a frame above it.                    *)
THEOREM AnySessionHolds == Spec => []AnySession
<1>1. Init => AnySession
  BY InitAny
<1>2. AnySession /\ [Next]_vars => AnySession'
  BY StepAny
<1> QED
  BY <1>1, <1>2, PTL DEF Spec

(* A session is over by a stop, by a fix that ends it, or by an abort.     *)
LEMMA EndedBy ==
  ASSUME AnySession, [Next]_vars
  PROVE  \/ Stop \/ Abort
         \/ \E tidied \in SUBSET {Tidy(Pending)}, adopts \in BOOLEAN : FixEnd(tidied, adopts)
         \/ ended'.by = "none"
         \/ UNCHANGED <<tree, host, ended, placer, fixes, plan>>
<1>1. phase # "over" => ended.by = "none"
  BY DEF AnySession, BoardWaits
<1>2. CASE UNCHANGED vars
  BY <1>2 DEF vars
<1>3. CASE \/ \E cut \in SUBSET {Cut} : Start(cut)
           \/ \E m \in Mode : SetMode(m)
           \/ MoveTo \/ MovePanics \/ UndoLastSegment \/ UndoPanics
  BY <1>1, <1>3 DEF Start, SetMode, MoveTo, MovePanics, UndoLastSegment, UndoPanics
<1>4. CASE \/ \E k \in Kept : ShovePanics(k)
           \/ \E k \in Kept, outcome \in plan.outcomes \ {"blocked"},
                 pushed \in SUBSET {Push(Pending)} : RouteShove(k, outcome, pushed)
           \/ \E trace \in Trace, tidied \in SUBSET {Tidy(Pending)} : MoveEnds(trace, tidied)
  BY <1>1, <1>4 DEF ShovePanics, RouteShove, MoveEnds
<1>5. CASE \/ \E tidied \in SUBSET {Tidy(Pending)}, adopts \in BOOLEAN : FixNothing(tidied, adopts)
           \/ \E adopts \in BOOLEAN : FixLeg(adopts)
  BY <1>1, <1>5 DEF FixNothing, FixLeg
<1> QED
  BY <1>2, <1>3, <1>4, <1>5 DEF Next

(* An abort leaves the board alone, and the board waited.                  *)
LEMMA AbortStep == AnySession /\ AbortRestores /\ [Next]_vars => AbortRestores'
<1> SUFFICES ASSUME AnySession, AbortRestores, [Next]_vars PROVE AbortRestores'
  OBVIOUS
<1>1. CASE Abort
  <2>1. /\ tree' = KilledChildren(tree, Root) /\ tree.view[Root] \subseteq {Net} /\ TreeOK(tree)
    BY <1>1 DEF Abort, AnySession, BoardWaits
  <2>2. tree'.live = {Root} /\ tree'.view[Root] = tree.view[Root]
    BY <2>1, KilledRoot
  <2> QED
    BY <2>1, <2>2 DEF AbortRestores
<1>2. CASE ended'.by # "abort"
  BY <1>2 DEF AbortRestores
<1>3. CASE UNCHANGED <<tree, host, ended, placer, fixes, plan>>
  BY <1>3 DEF AbortRestores
<1>4. CASE Stop
  BY <1>2, <1>4 DEF Stop, StopRouting
<1>5. ASSUME NEW tidied \in SUBSET {Tidy(Pending)}, NEW adopts \in BOOLEAN, FixEnd(tidied, adopts)
      PROVE  ended'.by # "abort"
  BY <1>5 DEF FixEnd, StopRouting
<1>6. CASE ended'.by = "none"
  BY <1>2, <1>6
<1> QED
  BY <1>1, <1>2, <1>3, <1>4, <1>5, <1>6, EndedBy

(* What stop_routing does at the end of a step: the tree it is given has a *)
(* board like the session's, and the scratch branch is live when there is  *)
(* one.                                                                    *)
LEMMA StopRoutingMatches ==
  ASSUME AnySession, phase = "placing", NEW t, TreeOK(t), t.live = tree.live,
         t.view[Root] \subseteq {Net}, NEW placed, placer'.shoveMode \in BOOLEAN,
         NEW committed, placer'.shoveMode \/ committed = placer.last,
         StopRouting(t, committed, placed)
  PROVE  HostMatches' /\ tree'.live = {Root}
<1>1. /\ tree'.live = {Root}
      /\ tree'.view[Root] = IF committed \in t.live \ {Root} THEN t.view[committed]
                                                            ELSE t.view[Root]
      /\ host' = IF placed /\ placer.last \in t.live THEN t.view[placer.last] ELSE host
      /\ ended' = [by |-> "commit", placed |-> placed]
  BY StopRoutingOK DEF AnySession, TypeOK
<1>2. host = {} /\ (placer.last # NoNode => placer.last \in tree.live \ {Root})
  BY DEF AnySession, BoardWaits, ScratchOwned, InSession
<1>3. CASE placer.last \in tree.live /\ placer.last # NoNode
  BY <1>1, <1>2, <1>3 DEF HostMatches
<1>4. CASE ~(placer.last \in tree.live /\ placer.last # NoNode)
  <2>1. placer.last \notin tree.live
    BY <1>4, NodeType DEF AnySession, TypeOK, TreeOK, Tree
  <2> QED
    BY <1>1, <1>2, <2>1 DEF HostMatches
<1> QED
  BY <1>3, <1>4

LEMMA StopMatches ==
  ASSUME AnySession,
         \/ Stop
         \/ \E tidied \in SUBSET {Tidy(Pending)}, adopts \in BOOLEAN : FixEnd(tidied, adopts)
  PROVE  HostMatches' /\ tree'.live = {Root}
<1>1. CASE Stop
  <2>1. /\ phase = "placing" /\ placer' = placer /\ StopRouting(tree, CommitNode, HasPlaced)
        /\ TreeOK(tree) /\ tree.view[Root] \subseteq {Net}
        /\ placer'.shoveMode \in BOOLEAN
        /\ placer'.shoveMode \/ CommitNode = placer.last
    BY <1>1 DEF Stop, AnySession, BoardWaits, TypeOK, CommitNode
  <2> QED
    BY <2>1, StopRoutingMatches
<1>2. ASSUME NEW tidied \in SUBSET {Tidy(Pending)}, NEW adopts \in BOOLEAN, FixEnd(tidied, adopts)
      PROVE  HostMatches' /\ tree'.live = {Root}
  <2> DEFINE facts == NewLeg \cup tidied
             placed == Written(Adopted(tree, adopts), FixedInto, facts)
             committed == IF mode = "shove" THEN LastLocked(shove') ELSE placer.last
  <2>1. /\ phase = "placing" /\ placer.last # NoNode
        /\ placer' = [placer EXCEPT !.shoveMode = (mode = "shove")]
        /\ StopRouting(placed, committed, TRUE)
    BY <1>2 DEF FixEnd
  <2>2. facts \in SUBSET Fact
    BY FactType DEF AnySession, NewLeg
  <2>3. /\ placer \in [current : NodeOrNone, last : NodeOrNone, stages : Seq(Node),
                      correct : BOOLEAN, trace : Trace, shoveMode : BOOLEAN]
        /\ tree.view[Root] \subseteq {Net} /\ Root \in Node
    BY <2>1, NodeType DEF AnySession, TypeOK, BoardWaits
  <2>4. placer'.shoveMode = (mode = "shove")
    BY <2>1, <2>3
  <2> HIDE DEF facts
  <2>5. /\ TreeOK(placed) /\ placed.live = tree.live
        /\ placed.view[Root] \ {Net} = tree.view[Root] \ {Net}
    <3>1. /\ TreeOK(placed) /\ placed.live = tree.live
          /\ \A m \in Node \ {placer.last} : placed.view[m] \ {Net} = tree.view[m] \ {Net}
          /\ placer.last \in Node \ {Root}
      BY <2>1, <2>2, FixWrites, ZenonT(60)
    <3> HIDE DEF placed
    <3> QED
      BY <2>3, <3>1
  <2>6. placer'.shoveMode \/ committed = placer.last
    BY <2>4
  <2> HIDE DEF placed, committed
  <2>7. placed.view[Root] \subseteq {Net}
    BY <2>3, <2>5
  <2> QED
    BY <2>1, <2>4, <2>5, <2>6, <2>7, StopRoutingMatches
<1> QED
  BY <1>1, <1>2

LEMMA HostStep == AnySession /\ HostMatches /\ [Next]_vars => HostMatches'
<1> SUFFICES ASSUME AnySession, HostMatches, [Next]_vars PROVE HostMatches'
  OBVIOUS
<1>1. CASE ended'.by # "commit"
  BY <1>1 DEF HostMatches
<1>2. CASE UNCHANGED <<tree, host, ended, placer, fixes, plan>>
  BY <1>2 DEF HostMatches
<1> QED
  BY <1>1, <1>2, EndedBy, StopMatches DEF Abort

(* Theorem.  An aborted session leaves the board as it was, but for the    *)
(* net an end item was given, and no branch: Router::abort_routing.        *)
THEOREM AbortRestoresHolds == Spec => []AbortRestores
<1>1. Init => AbortRestores
  BY DEF Init, AbortRestores
<1> QED
  BY <1>1, AbortStep, AnySessionHolds, PTL DEF Spec

(* Theorem.  Out of shove mode, what stop_routing told the host through    *)
(* the diff of the scratch branch is what the commit folded into the       *)
(* board.                                                                  *)
THEOREM HostMatchesHolds == Spec => []HostMatches
<1>1. Init => HostMatches
  BY DEF Init, HostMatches
<1> QED
  BY <1>1, HostStep, AnySessionHolds, PTL DEF Spec
----------------------------------------------------------------------------
(* What a step may never do.                                               *)

LEMMA RoutingStep ==
  ASSUME AnySession, [Next]_vars, phase = "routing",
         NEW f \in ToSet(shove.stack), f.locked, f.node \in tree.live
  PROVE  f.node \in tree'.live
<1>1. ASSUME NEW k \in Kept, NEW outcome \in plan.outcomes \ {"blocked"},
             NEW pushed \in SUBSET {Push(Pending)}, RouteShove(k, outcome, pushed)
      PROVE  f.node \in tree'.live
  <2>1. /\ shove.stack \in Seq(Frame) /\ Len(shove.stack) \in Nat
        /\ DOMAIN shove.stack = 1..Len(shove.stack) /\ k \in 0..Len(shove.stack)
    BY FramesOf, KeptIndex DEF AnySession, TypeOK
  <2>2. PICK i \in 1..Len(shove.stack) : f = shove.stack[i]
    BY <2>1 DEF ToSet
  <2>3. i <= k
    BY <2>1, <2>2 DEF Kept
  <2>4. Ground(i) = f.node /\ i \in 0..k
    BY <2>1, <2>2, <2>3 DEF Ground
  <2>5. f.node \in Reduced(k).live
    BY <2>1, <2>4, GroundKept DEF InSession
  <2> QED
    BY <1>1, <2>5, ShovePassed
<1>2. ASSUME NEW trace \in Trace, NEW tidied \in SUBSET {Tidy(Pending)}, MoveEnds(trace, tidied)
      PROVE  f.node \in tree'.live
  BY <1>2, MoveEndsDoes
<1>3. CASE \/ UNCHANGED vars \/ MovePanics
           \/ \E m \in Mode : SetMode(m)
           \/ \E k \in Kept : ShovePanics(k)
  BY <1>3 DEF MovePanics, ShovePanics, SetMode, vars
<1>4. /\ \A cut \in SUBSET {Cut} : ~Start(cut)
      /\ ~MoveTo /\ ~UndoLastSegment /\ ~UndoPanics /\ ~Stop /\ ~Abort
      /\ \A tidied \in SUBSET {Tidy(Pending)}, adopts \in BOOLEAN :
            ~FixNothing(tidied, adopts) /\ ~FixEnd(tidied, adopts)
      /\ \A adopts \in BOOLEAN : ~FixLeg(adopts)
  BY DEF Start, MoveTo, UndoLastSegment, UndoPanics, Stop, Abort, FixNothing, FixEnd, FixLeg
<1> QED
  BY <1>1, <1>2, <1>3, <1>4 DEF Next

(* What a fix that writes and goes on writes into is the scratch branch.   *)
LEMMA FixNothingDoes ==
  ASSUME AnySession, NEW tidied \in SUBSET {Tidy(Pending)}, NEW adopts \in BOOLEAN,
         FixNothing(tidied, adopts)
  PROVE  /\ TreeOK(tree') /\ tree'.live = tree.live /\ tree'.chain = tree.chain
         /\ tree'.view[placer.last] \ {Net} = (tree.view[placer.last] \cup tidied) \ {Net}
         /\ \A m \in Node \ {placer.last} : tree'.view[m] \ {Net} = tree.view[m] \ {Net}
         /\ placer.last \in Node \ {Root} /\ phase = "placing" /\ phase' = "placing"
         /\ placer.last # NoNode
         /\ placer' = [current |-> placer.current, last |-> placer.last,
                       stages |-> placer.stages, correct |-> placer.correct,
                       trace |-> placer.trace, shoveMode |-> (mode = "shove")]
         /\ UNCHANGED <<plan, mode, shove, route, fixes, host, ended>>
<1>1. /\ phase = "placing" /\ phase' = "placing" /\ placer.last # NoNode
      /\ tree' = Written(Adopted(tree, adopts), FixedInto, tidied)
      /\ placer' = [placer EXCEPT !.shoveMode = (mode = "shove")]
      /\ UNCHANGED <<plan, mode, shove, route, fixes, host, ended>>
  BY DEF FixNothing
<1>2. /\ tidied \in SUBSET Fact
      /\ placer \in [current : NodeOrNone, last : NodeOrNone, stages : Seq(Node),
                    correct : BOOLEAN, trace : Trace, shoveMode : BOOLEAN]
  BY FactType DEF AnySession, TypeOK
<1>3. placer' = [current |-> placer.current, last |-> placer.last, stages |-> placer.stages,
                 correct |-> placer.correct, trace |-> placer.trace,
                 shoveMode |-> (mode = "shove")]
  BY <1>1, <1>2
<1>4. /\ TreeOK(tree') /\ tree'.live = tree.live /\ tree'.chain = tree.chain
      /\ tree'.view[placer.last] \ {Net} = (tree.view[placer.last] \cup tidied) \ {Net}
      /\ \A m \in Node \ {placer.last} : tree'.view[m] \ {Net} = tree.view[m] \ {Net}
      /\ placer.last \in Node \ {Root}
  BY <1>1, <1>2, FixWrites, ZenonT(60)
<1> QED
  BY <1>1, <1>3, <1>4

LEMMA WriteStep ==
  ASSUME AnySession, [Next]_vars, NEW n \in (tree.live \cap tree'.live) \ {Root},
         Subtree(tree, n) # {n}
  PROVE  tree'.view[n] \ {Net} = tree.view[n] \ {Net}
<1>1. n \in Node /\ (InSession /\ placer.last # NoNode => n # placer.last)
  BY DEF AnySession, ScratchOwned, TreeOK, Tree
<1>2. CASE \E cut \in SUBSET {Cut} : Start(cut)
  BY <1>2 DEF Start, AnySession, Untouched, NewTree
<1>3. CASE \/ UNCHANGED vars \/ MovePanics \/ UndoPanics
           \/ \E m \in Mode : SetMode(m)
           \/ \E k \in Kept : ShovePanics(k)
  BY <1>3 DEF SetMode, MovePanics, UndoPanics, ShovePanics, vars
<1>4. CASE MoveTo
  <2>1. tree' = Dropped(tree, placer.last)
    BY <1>4 DEF MoveTo
  <2>2. Pruned(tree, tree')
    BY <2>1, DroppedOK DEF AnySession
  <2> QED
    BY <2>2 DEF Pruned
<1>5. ASSUME NEW k \in Kept, NEW outcome \in plan.outcomes \ {"blocked"},
             NEW pushed \in SUBSET {Push(Pending)}, RouteShove(k, outcome, pushed)
      PROVE  tree'.view[n] = tree.view[n]
  BY <1>5, ShovePassed DEF Pruned
<1>6. ASSUME NEW trace \in Trace, NEW tidied \in SUBSET {Tidy(Pending)}, MoveEnds(trace, tidied)
      PROVE  tree'.view[n] = tree.view[n]
  BY <1>6, MoveEndsDoes
<1>7. ASSUME NEW tidied \in SUBSET {Tidy(Pending)}, NEW adopts \in BOOLEAN,
             FixNothing(tidied, adopts)
      PROVE  tree'.view[n] \ {Net} = tree.view[n] \ {Net}
  BY <1>1, <1>7, FixNothingDoes DEF InSession
<1>8. ASSUME NEW adopts \in BOOLEAN, FixLeg(adopts)
      PROVE  tree'.view[n] \ {Net} = tree.view[n] \ {Net}
  BY <1>1, <1>8, FixLegDoes DEF InSession
<1>9. CASE UndoLastSegment
  BY <1>9, UndoDoes
<1>10. ASSUME \/ Stop
              \/ \E tidied \in SUBSET {Tidy(Pending)}, adopts \in BOOLEAN : FixEnd(tidied, adopts)
       PROVE  FALSE
  BY <1>10, StopMatches
<1>11. CASE Abort
  BY <1>11, KilledRoot DEF Abort, AnySession
<1> QED
  BY <1>2, <1>3, <1>4, <1>5, <1>6, <1>7, <1>8, <1>9, <1>10, <1>11 DEF Next

(* Theorem.  A shove run takes back no locked springback frame, and so no  *)
(* fixed leg: Shove::reduce_springback stops at the last locked one.       *)
THEOREM RoutingKeepsFixesHolds == Spec => RoutingKeepsFixes
<1>1. AnySession /\ [Next]_vars =>
        [phase = "routing" => \A f \in ToSet(shove.stack) :
            f.locked /\ f.node \in tree.live => f.node \in tree'.live]_vars
  BY RoutingStep
<1> QED
  BY <1>1, AnySessionHolds, PTL DEF Spec, RoutingKeepsFixes

(* Theorem.  Nothing is written into a node that something was branched    *)
(* from.                                                                   *)
THEOREM LeafWritesHolds == Spec => LeafWrites
<1>1. AnySession /\ [Next]_vars =>
        [\A n \in (tree.live \cap tree'.live) \ {Root} :
            Subtree(tree, n) # {n} => tree'.view[n] \ {Net} = tree.view[n] \ {Net}]_vars
  BY WriteStep
<1> QED
  BY <1>1, AnySessionHolds, PTL DEF Spec, LeafWrites
----------------------------------------------------------------------------
(* A steady session.                                                       *)

(* Which facts are legs.                                                   *)
LEMMA LegsInSame ==
  ASSUME NEW S, NEW T, NEW extra, S \ {Net} = (T \cup extra) \ {Net},
         extra \subseteq {Net, Cut} \cup {Push(Pending), Tidy(Pending)}
  PROVE  LegsIn(S) = LegsIn(T)
<1>1. ASSUME NEW k PROVE Leg(k) \notin extra \cup {Net}
  BY DEF Leg, Net, Cut, Push, Tidy
<1>2. ASSUME NEW k PROVE Leg(k) \in S <=> Leg(k) \in T
  BY <1>1
<1> QED
  BY <1>2 DEF LegsIn

LEMMA LegsInKept ==
  ASSUME NEW S, NEW T, S \ {Net} = T \ {Net}
  PROVE  LegsIn(S) = LegsIn(T)
<1>1. ASSUME NEW k PROVE Leg(k) # Net
  BY DEF Leg, Net
<1>2. ASSUME NEW k PROVE Leg(k) \in S <=> Leg(k) \in T
  BY <1>1
<1> QED
  BY <1>2 DEF LegsIn

LEMMA LegsInAdd ==
  ASSUME NEW S, NEW T, NEW p \in 1..(MaxFixes + 1), S \ {Net} = (T \cup {Leg(p)}) \ {Net}
  PROVE  LegsIn(S) = LegsIn(T) \cup {p}
<1>1. ASSUME NEW k PROVE Leg(k) # Net /\ (Leg(k) = Leg(p) <=> k = p)
  BY DEF Leg, Net
<1>2. ASSUME NEW k PROVE Leg(k) \in S <=> Leg(k) \in T \/ k = p
  BY <1>1
<1> QED
  BY <1>2 DEF LegsIn

LEMMA LegsInNone ==
  ASSUME NEW S, S \subseteq {Net, Cut}
  PROVE  LegsIn(S) = {}
<1>1. ASSUME NEW k PROVE Leg(k) \notin S
  BY DEF Leg, Net, Cut
<1> QED
  BY <1>1 DEF LegsIn

LEMMA WrittenAt ==
  ASSUME NEW t, TreeOK(t), NEW n \in Node, NEW facts \in SUBSET Fact,
         NEW u, u = Written(t, n, facts)
  PROVE  /\ TreeOK(u) /\ u.live = t.live /\ u.chain = t.chain
         /\ u.view[n] = t.view[n] \cup facts
BY WrittenOK

(* The shape of a session under way.                                       *)
LEMMA SessionShape ==
  ASSUME AnySession, InSession
  PROVE  /\ plan \in Plans /\ TypeOK /\ TreeOK(tree)
         /\ placer.stages \in Seq(Node) /\ Len(placer.stages) \in Nat \ {0}
         /\ \A m \in 1..Len(placer.stages) : placer.stages[m] \in ToSet(placer.stages)
         /\ Len(shove.stack) \in Nat /\ shove.stack \in Seq(Frame)
         /\ Ground(0) = shove.root
         /\ \A i \in 1..Len(shove.stack) : /\ Ground(i) = shove.stack[i].node
                                           /\ Ground(i) \in FrameNodes
                                           /\ shove.stack[i].locked \in BOOLEAN
         /\ Len(fixes) \in Nat /\ DOMAIN fixes = 1..Len(fixes)
         /\ \A i \in 0..Len(shove.stack), j \in 1..Len(shove.stack) :
              i < j /\ Ground(i) \in tree.live => Ground(j) \notin tree.chain[Ground(i)]
<1>1. plan \in Plans /\ TypeOK /\ TreeOK(tree) /\ placer.stages \in Seq(Node)
  BY DEF AnySession, TypeOK
<1>2. /\ Len(placer.stages) \in Nat \ {0}
      /\ \A m \in 1..Len(placer.stages) : placer.stages[m] \in ToSet(placer.stages)
  <2>1. placer.stages # <<>>
    BY <1>1 DEF TypeOK, InSession
  <2> QED
    BY <1>1, <2>1, StagesOf, EmptySeq
<1>3. /\ Len(shove.stack) \in Nat /\ shove.stack \in Seq(Frame)
      /\ DOMAIN shove.stack = 1..Len(shove.stack)
      /\ \A i \in 1..Len(shove.stack) : shove.stack[i] \in Frame /\ shove.stack[i].node \in FrameNodes
  BY <1>1, FramesOf DEF TypeOK
<1>4. Ground(0) = shove.root
  BY DEF Ground
<1>5. \A i \in 1..Len(shove.stack) : /\ Ground(i) = shove.stack[i].node
                                     /\ Ground(i) \in FrameNodes
                                     /\ shove.stack[i].locked \in BOOLEAN
  BY <1>3 DEF Ground, Frame
<1>6. Len(fixes) \in Nat /\ DOMAIN fixes = 1..Len(fixes)
  <2>1. fixes \in Seq(BOOLEAN)
    BY <1>1 DEF TypeOK
  <2> QED
    BY <2>1, LenProperties
<1>7. \A i \in 0..Len(shove.stack), j \in 1..Len(shove.stack) :
         i < j /\ Ground(i) \in tree.live => Ground(j) \notin tree.chain[Ground(i)]
  <2>1. FramesOrdered
    BY DEF AnySession
  <2> QED
    BY <1>3, <1>5, <2>1 DEF FramesOrdered
<1> QED
  BY <1>1, <1>2, <1>3, <1>4, <1>5, <1>6, <1>7

(* Two live frames are two nodes.                                          *)
LEMMA FramesDistinct ==
  ASSUME AnySession, InSession, \A i \in 0..Len(shove.stack) : Ground(i) \in tree.live
  PROVE  \A i \in 1..Len(shove.stack), j \in 1..Len(shove.stack) :
            shove.stack[i].node = shove.stack[j].node => i = j
<1>1. ASSUME NEW i \in 1..Len(shove.stack), NEW j \in 1..Len(shove.stack), i < j
      PROVE  shove.stack[i].node # shove.stack[j].node
  <2>1. Ground(j) \notin tree.chain[Ground(i)] /\ Ground(i) \in tree.live
    BY <1>1, SessionShape
  <2>2. Ground(i) \in tree.chain[Ground(i)]
    BY <2>1 DEF AnySession, TreeOK
  <2> QED
    BY <2>1, <2>2, SessionShape
<1>2. Len(shove.stack) \in Nat
  BY SessionShape
<1> QED
  BY <1>1, <1>2

(* What a step keeps that leaves the stages and the frames where they are  *)
(* and none of them loses its board or the legs on it.                     *)
LEMMA SessionKept ==
  ASSUME AnySession, InSession, Standing,
         placer'.stages = placer.stages, shove'.stack = shove.stack, shove'.root = shove.root,
         fixes' = fixes, (mode' = "shove") = (mode = "shove"),
         placer'.shoveMode = (mode' = "shove"),
         \A m \in ToSet(placer.stages) \cup FrameNodes \cup {shove.root} :
            m \in tree.live => /\ m \in tree'.live /\ tree'.chain[m] = tree.chain[m]
                               /\ LegsIn(tree'.view[m]) = LegsIn(tree.view[m])
  PROVE  /\ StagesStand' /\ LegsInForce' = LegsInForce
         /\ mode # "shove" => StagesOrdered'
         /\ mode = "shove" => FramesStand' /\ StagesFramed'
         /\ \A i : Ground(i)' = Ground(i)
<1>1. \A m \in 1..Len(placer.stages) :
         /\ placer.stages[m] \in tree'.live
         /\ tree'.chain[placer.stages[m]] = tree.chain[placer.stages[m]]
         /\ LegsIn(tree'.view[placer.stages[m]]) = LegsAt(m)
  BY SessionShape DEF Standing, StagesStand, LegsOf
<1>2. /\ LegsInForce' = LegsInForce /\ \A m : LegsAt(m)' = LegsAt(m)
      /\ \A i : Ground(i)' = Ground(i)
  BY DEF LegsInForce, LegsAt, Ground
<1>3. StagesStand'
  BY <1>1, <1>2 DEF Standing, StagesStand, LegsOf
<1>4. ASSUME mode # "shove" PROVE StagesOrdered'
  BY <1>1, <1>4 DEF Standing, StagesOrdered
<1>5. ASSUME mode = "shove" PROVE FramesStand' /\ StagesFramed'
  <2>1. StagesFramed'
    <3>1. StagesFramed
      BY <1>5 DEF Standing
    <3> QED
      BY <3>1 DEF StagesFramed
  <2>2. \A i \in 0..Len(shove.stack) :
           /\ Ground(i) \in tree'.live /\ LegsIn(tree'.view[Ground(i)]) = LegsOf(Ground(i))
    <3>1. \A i \in 0..Len(shove.stack) : Ground(i) \in tree.live
      BY <1>5 DEF Standing, FramesStand
    <3>2. \A i \in 0..Len(shove.stack) : Ground(i) \in FrameNodes \cup {shove.root}
      BY SessionShape
    <3> QED
      BY <3>1, <3>2 DEF LegsOf
  <2>3. tree'.chain[shove.root] = tree.chain[shove.root]
    <3>1. Ground(0) \in tree.live /\ Ground(0) = shove.root
      BY <1>5, SessionShape DEF Standing, FramesStand
    <3> QED
      BY <3>1
  <2>4. Len(shove.stack) \in Nat
    BY SessionShape
  <2>5. \A i \in 0..Len(shove.stack) : LegsOf(Ground(i))' = LegsOf(Ground(i))
    BY <1>2, <2>2 DEF LegsOf
  <2> QED
    BY <1>2, <1>5, <2>1, <2>2, <2>3, <2>4, <2>5 DEF Standing, FramesStand
<1> QED
  BY <1>2, <1>3, <1>4, <1>5
----------------------------------------------------------------------------
(* The steps of a steady session, one lemma each.                          *)
LEMMA StartStands ==
  ASSUME AnySession, NEW cut \in SUBSET {Cut}, Start(cut)
  PROVE  Standing'
<1> DEFINE branch == NewNode
           bed == SecondNewNode
           pruned == KilledChildren(tree, Root)
           grown == Branched(pruned, Root, branch)
           cutTree == Written(grown, branch, cut)
<1>1. /\ branch \in Node \ {Root, NoNode} /\ bed \in Node \ {Root, NoNode} /\ branch # bed
      /\ tree = NewTree /\ plan \in Plans /\ fixes = <<>> /\ route = NoRoute
  BY StartNodesFresh DEF AnySession, TypeOK, Start, Untouched
<1>2. TreeOK(pruned) /\ pruned.live = {Root} /\ pruned.view[Root] = {}
  BY <1>1, NewTreeOK, NodeType, KilledOK, KilledRoot
<1>3. /\ TreeOK(grown) /\ grown.live = {Root, branch}
      /\ grown.chain[branch] = {Root, branch} /\ grown.view[branch] = {}
  <2> HIDE DEF branch, pruned
  <2>1. pruned.chain[Root] = {Root}
    BY <1>2 DEF TreeOK
  <2> QED
    BY <1>1, <1>2, <2>1, BranchedOK
<1>4. /\ TreeOK(cutTree) /\ cutTree.live = {Root, branch}
      /\ cutTree.chain[branch] = {Root, branch} /\ cutTree.view[branch] = cut
  <2>1. cut \in SUBSET Fact /\ Root \in Node
    BY <1>1, NodeType DEF Fact
  <2> HIDE DEF branch, grown
  <2>2. cutTree = Written(grown, branch, cut)
    OBVIOUS
  <2> HIDE DEF cutTree
  <2>3. /\ TreeOK(cutTree) /\ cutTree.live = grown.live /\ cutTree.chain = grown.chain
        /\ cutTree.view[branch] = grown.view[branch] \cup cut
    <3>1. /\ TreeOK(grown) /\ branch \in Node /\ cut \in SUBSET Fact
          /\ cutTree = Written(grown, branch, cut)
      BY <1>1, <1>3, <2>1, <2>2
    <3> HIDE DEF bed, pruned
    <3>2. TreeOK(cutTree)
      BY <3>1, WrittenAt
    <3>3. cutTree.live = grown.live
      BY <3>1, WrittenAt
    <3>4. cutTree.chain = grown.chain
      BY <3>1, WrittenAt
    <3>5. cutTree.view[branch] = grown.view[branch] \cup cut
      BY <3>1, WrittenAt
    <3> QED
      BY <3>2, <3>3, <3>4, <3>5
  <2> QED
    BY <1>3, <2>3
<1>5. /\ TreeOK(tree') /\ tree'.live = {Root, branch, bed}
      /\ tree'.chain[branch] = {Root, branch} /\ tree'.view[branch] = cut
      /\ tree'.chain[bed] = {Root, branch, bed} /\ tree'.view[bed] = cut
  <2>1. tree' = Branched(cutTree, branch, bed)
    BY DEF Start
  <2> HIDE DEF branch, bed, cutTree
  <2>2. /\ TreeOK(tree') /\ tree'.live = cutTree.live \cup {bed}
        /\ tree'.chain[bed] = cutTree.chain[branch] \cup {bed}
        /\ tree'.view[bed] = cutTree.view[branch]
        /\ tree'.chain[branch] = cutTree.chain[branch]
        /\ tree'.view[branch] = cutTree.view[branch]
    BY <1>1, <1>4, <2>1, BranchedOK
  <2> QED
    BY <1>4, <2>2
<1>6. /\ placer' = [current |-> branch, last |-> NoNode, stages |-> <<branch>>,
                    correct |-> FALSE, trace |-> "none", shoveMode |-> (mode = "shove")]
      /\ shove' = [root |-> bed, current |-> bed, stack |-> <<>>]
      /\ phase' = "placing" /\ UNCHANGED <<mode, fixes>>
  BY DEF Start, NoPlacer, NoShove
<1> HIDE DEF branch, bed, pruned, grown, cutTree
<1>7. /\ placer'.current = branch /\ placer'.last = NoNode /\ placer'.trace = "none"
      /\ placer'.stages = <<branch>> /\ Len(placer'.stages) = 1 /\ placer'.stages[1] = branch
      /\ placer'.shoveMode = (mode' = "shove")
      /\ shove'.root = bed /\ shove'.current = bed /\ shove'.stack = <<>>
      /\ Len(shove'.stack) = 0 /\ fixes' = <<>> /\ Len(fixes') = 0 /\ DOMAIN fixes' = {}
  BY <1>1, <1>6
<1>8. LegsIn(tree'.view[branch]) = {} /\ LegsIn(tree'.view[bed]) = {}
  BY <1>5, LegsInNone
<1>9. LegsInForce' = {} /\ LegsAt(1)' = {} /\ Ground(0)' = bed
  <2>1. LegsInForce' = {}
    BY <1>7 DEF LegsInForce
  <2>2. LegsAt(1)' = {}
    BY DEF LegsAt
  <2>3. Ground(0)' = bed
    BY <1>7 DEF Ground
  <2> QED
    BY <2>1, <2>2, <2>3
<1>10. StagesStand'
  <2>1. \A m \in 1..Len(placer'.stages) : m = 1
    BY <1>7
  <2>2. branch \in tree'.live
    BY <1>5
  <2>3. \A m \in 1..Len(placer'.stages) : /\ placer'.stages[m] = branch
                                          /\ LegsAt(m)' = {}
    BY <1>7, <1>9, <2>1
  <2>4. Len(placer'.stages) = Len(fixes') + 1
    BY <1>7
  <2> QED
    BY <1>7, <1>8, <2>2, <2>3, <2>4 DEF StagesStand, LegsOf
<1>11. HeadStands'
  BY <1>5, <1>6, <1>7, <1>8, <1>9 DEF HeadStands, LegsOf
<1>12. StagesOrdered' /\ HeadOrdered'
  BY <1>5, <1>6, <1>7 DEF StagesOrdered, HeadOrdered
<1>13. FramesStand'
  <2>1. \A i \in 0..Len(shove'.stack) : i = 0
    BY <1>7
  <2> QED
    BY <1>1, <1>5, <1>7, <1>8, <1>9, <2>1 DEF FramesStand, LegsOf
<1>14. StagesFramed'
  BY <1>7 DEF StagesFramed
<1>15. ShoveStands'
  BY <1>6, <1>7, <1>9 DEF ShoveStands
<1> QED
  BY <1>10, <1>11, <1>12, <1>13, <1>14, <1>15 DEF Standing

(* The mode is not changed from or to shove.                               *)
LEMMA SetModeStands ==
  ASSUME AnySession, InSession, Standing, Steady, NEW m \in Mode, SetMode(m)
  PROVE  Standing'
<1>1. /\ phase = "placing" /\ (mode' = "shove") = (mode = "shove")
      /\ UNCHANGED <<plan, tree, phase, placer, shove, route, fixes, host, ended>>
  <2>1. <<mode, m>> \in plan.switches /\ mode' = m
    BY DEF SetMode
  <2>2. "shove" \in {mode, m} => mode = m
    BY <2>1 DEF Steady
  <2> QED
    BY <2>1, <2>2 DEF SetMode, InSession
<1>2. /\ StagesStand' /\ LegsInForce' = LegsInForce
      /\ mode # "shove" => StagesOrdered'
      /\ mode = "shove" => FramesStand' /\ StagesFramed'
      /\ \A i : Ground(i)' = Ground(i)
  BY <1>1, SessionKept DEF Standing, StagesStand
<1>3. HeadStands' /\ (mode # "shove" => HeadOrdered')
  BY <1>1, <1>2 DEF Standing, HeadStands, HeadOrdered, LegsOf
<1>4. mode = "shove" => ShoveStands'
  BY <1>1, <1>2 DEF Standing, ShoveStands, OnTop
<1> QED
  BY <1>1, <1>2, <1>3, <1>4 DEF Standing

(* The scratch branch goes, which nothing else refers to.                  *)
LEMMA MoveToStands ==
  ASSUME AnySession, InSession, Standing, Steady, MoveTo
  PROVE  Standing'
<1>1. /\ phase = "placing" /\ phase' = "routing" /\ tree' = Dropped(tree, placer.last)
      /\ placer' = [placer EXCEPT !.last = NoNode, !.shoveMode = (mode = "shove")]
      /\ route' = [node |-> placer.current, rounds |-> plan.rounds, found |-> FALSE]
      /\ UNCHANGED <<plan, mode, shove, fixes>>
  BY DEF MoveTo
<1>2. /\ placer'.stages = placer.stages /\ placer'.current = placer.current
      /\ placer'.shoveMode = (mode' = "shove") /\ placer'.trace = placer.trace
      /\ placer'.last = NoNode
  BY <1>1 DEF AnySession, TypeOK
<1>3. \A m \in tree.live \ {placer.last} :
         m \in tree'.live /\ tree'.chain[m] = tree.chain[m] /\ tree'.view[m] = tree.view[m]
  <2>1. /\ Pruned(tree, tree')
        /\ tree'.live = IF placer.last = Root THEN tree.live
                        ELSE tree.live \ Subtree(tree, placer.last)
    BY <1>1, DroppedOK DEF AnySession
  <2>2. Subtree(tree, placer.last) \subseteq {placer.last}
    <3>1. CASE placer.last = NoNode
      <4>1. \A m \in tree.live : placer.last \notin tree.chain[m]
        BY <3>1, SessionShape, NodeType DEF TreeOK, Tree
      <4> QED
        BY <4>1 DEF Subtree
    <3>2. CASE placer.last # NoNode
      BY <3>2 DEF AnySession, ScratchOwned
    <3> QED
      BY <3>1, <3>2
  <2> QED
    BY <2>1, <2>2 DEF Pruned
<1>4. \A m \in ToSet(placer.stages) \cup FrameNodes \cup {shove.root, placer.current} :
         m \in tree.live => m # placer.last
  <2>1. NoNode \notin tree.live
    BY SessionShape, NodeType DEF TreeOK, Tree
  <2> QED
    BY <2>1 DEF AnySession, ScratchOwned
<1>5. /\ StagesStand' /\ LegsInForce' = LegsInForce
      /\ mode # "shove" => StagesOrdered'
      /\ mode = "shove" => FramesStand' /\ StagesFramed'
      /\ \A i : Ground(i)' = Ground(i)
  BY <1>1, <1>2, <1>3, <1>4, SessionKept
<1>6. /\ placer.current \in tree.live /\ LegsOf(placer.current) = LegsInForce
      /\ placer.current # placer.last
  BY <1>1, <1>4 DEF Standing, HeadStands
<1>7. HeadStands'
  BY <1>1, <1>3, <1>5, <1>6, <1>2 DEF HeadStands, LegsOf
<1>8. ASSUME mode # "shove" PROVE HeadOrdered'
  BY <1>1, <1>2, <1>3, <1>6, <1>8 DEF Standing, HeadOrdered
<1>9. ASSUME mode = "shove" PROVE ShoveStands'
  <2>1. plan.rounds > 0
    BY SessionShape, PlanBounds
  <2> QED
    BY <1>1, <1>5, <1>9, <2>1 DEF Standing, ShoveStands
<1> QED
  BY <1>1, <1>5, <1>7, <1>8, <1>9 DEF Standing

(* A pass that pushes: the frames that are dropped are not locked, so none *)
(* of them is a stage's or was branched before one, and the pass works on  *)
(* the legs of the frames that are kept.                                   *)
LEMMA RouteShoveStands ==
  ASSUME AnySession, InSession, Standing, Steady,
         NEW k \in Kept, NEW outcome \in plan.outcomes \ {"blocked"},
         NEW pushed \in SUBSET {Push(Pending)}, RouteShove(k, outcome, pushed)
  PROVE  Standing'
<1> DEFINE n == Len(shove.stack)
           frames == SubSeq(shove.stack, 1, k)
           pass == [node |-> NewNode, locked |-> FALSE]
<1>1. /\ phase = "routing" /\ phase' = "routing" /\ mode = "shove"
      /\ UNCHANGED <<plan, mode, placer, fixes>>
      /\ FramesStand /\ StagesFramed /\ StagesStand /\ HeadStands
  BY DEF RouteShove, Standing
<1>2. /\ shove.stack \in Seq(Frame) /\ n \in Nat /\ k \in 0..n
      /\ \A i \in (k + 1)..n : ~shove.stack[i].locked
  <2>1. shove.stack \in Seq(Frame) /\ n \in Nat /\ k \in 0..n
    BY SessionShape, KeptIndex DEF AnySession
  <2> QED
    BY <2>1 DEF Kept
<1>3. /\ frames \in Seq(Frame) /\ Len(frames) = k
      /\ \A i \in 1..k : frames[i] = shove.stack[i]
  BY <1>2, PrefixOf
<1>4. /\ NewNode \in Node \ tree.live
      /\ tree'.live = Reduced(k).live \cup {NewNode}
      /\ tree'.view[NewNode] = tree.view[Ground(k)] \cup pushed
      /\ \A m \in Reduced(k).live : /\ tree'.chain[m] = tree.chain[m]
                                    /\ tree'.view[m] = tree.view[m]
      /\ shove' = [root |-> shove.root, current |-> NewNode, stack |-> Append(frames, pass)]
      /\ route' = [node |-> NewNode, rounds |-> route.rounds - 1, found |-> TRUE]
  <2>1. outcome = "moved"
    BY DEF Steady
  <2> QED
    BY <2>1, ShovePassed
<1>5. pass \in Frame /\ pass.node = NewNode /\ ~pass.locked
  BY <1>4 DEF Frame
<1> HIDE DEF frames, pass, n
<1>6. /\ Len(shove'.stack) = k + 1 /\ shove'.root = shove.root /\ shove'.current = NewNode
      /\ \A i \in 1..k : shove'.stack[i] = shove.stack[i]
      /\ shove'.stack[k + 1] = pass /\ shove'.stack # <<>>
  <2>1. /\ Append(frames, pass) \in Seq(Frame) /\ Len(Append(frames, pass)) = k + 1
        /\ \A i \in 1..k : Append(frames, pass)[i] = frames[i]
        /\ Append(frames, pass)[k + 1] = pass
    BY <1>3, <1>5, AppendProperties
  <2>2. Append(frames, pass) # <<>>
    BY <1>2, <2>1, EmptySeq
  <2> QED
    BY <1>3, <1>4, <2>1, <2>2
<1>7. /\ \A i \in 0..k : Ground(i)' = Ground(i)
      /\ Ground(k + 1)' = NewNode
  <2>1. \A i \in 1..k : Ground(i)' = Ground(i)
    BY <1>2, <1>6 DEF Ground
  <2>2. Ground(0)' = Ground(0) /\ Ground(k + 1)' = NewNode
    BY <1>2, <1>5, <1>6 DEF Ground
  <2> QED
    BY <1>2, <2>1, <2>2
<1>8. \A i \in 0..n : Ground(i) \in tree.live
  BY <1>1 DEF FramesStand, n
<1>9. \A i \in 0..k : /\ Ground(i) \in Reduced(k).live /\ Ground(i) \in tree'.live
                      /\ LegsOf(Ground(i))' = LegsOf(Ground(i))
  <2>1. \A i \in 0..k : Ground(i) \in Reduced(k).live
    BY <1>2, <1>8, GroundKept DEF n
  <2> QED
    BY <1>4, <1>7, <2>1 DEF LegsOf
<1>10. LegsOf(Ground(k)) = LegsInForce
  <2>1. CASE k = n
    BY <1>1, <2>1 DEF FramesStand, n
  <2>2. CASE k # n
    <3>1. k < n /\ k \in 0..n /\ n \in 0..n
      BY <1>2, <2>2
    <3>2. LegsOf(Ground(k)) = LegsOf(Ground(n))
      BY <1>1, <1>2, <3>1 DEF FramesStand, n
    <3> QED
      BY <1>1, <3>2 DEF FramesStand, n
  <2> QED
    BY <2>1, <2>2
<1>11. LegsOf(Ground(k + 1))' = LegsInForce /\ LegsInForce' = LegsInForce
  <2>1. LegsIn(tree.view[Ground(k)] \cup pushed) = LegsIn(tree.view[Ground(k)])
    BY LegsInSame
  <2> QED
    BY <1>1, <1>4, <1>7, <1>10, <2>1 DEF LegsOf, LegsInForce
<1>12. \A m \in 1..Len(placer.stages) : placer.stages[m] \in Reduced(k).live
  <2>1. ASSUME NEW m \in 2..Len(placer.stages) PROVE placer.stages[m] \in Reduced(k).live
    <3>1. PICK f \in 1..(n - 1) : /\ shove.stack[f].node = placer.stages[m]
                                  /\ shove.stack[f + 1].locked
      BY <1>1 DEF StagesFramed, n
    <3>2. f \in 0..k /\ Ground(f) = placer.stages[m]
      BY <1>2, <3>1 DEF Ground
    <3> QED
      BY <1>9, <3>2
  <2>2. placer.stages[1] \in Reduced(k).live
    <3>1. placer.stages[1] \in tree.chain[shove.root] /\ Ground(0) = shove.root
      BY <1>1, SessionShape DEF FramesStand
    <3>2. placer.stages[1] \in tree.live
      BY <1>1, SessionShape DEF StagesStand
    <3>3. tree.chain[placer.stages[1]] \subseteq tree.chain[shove.root]
      BY <1>2, <1>8, <3>1 DEF AnySession, TreeOK
    <3>4. \A j \in (k + 1)..n : shove.stack[j].node \notin tree.chain[placer.stages[1]]
      BY <1>2, <1>8, <3>1, <3>3, SessionShape DEF n
    <3> QED
      BY <1>2, <3>2, <3>4, ReducedOK DEF AnySession, FramesOrdered, n
  <2>3. Len(placer.stages) \in Nat
    BY SessionShape
  <2> QED
    BY <2>1, <2>2, <2>3
<1>13. StagesStand'
  <2>1. \A m \in 1..Len(placer.stages) :
           /\ placer.stages[m] \in tree'.live
           /\ LegsIn(tree'.view[placer.stages[m]]) = LegsAt(m)
    BY <1>1, <1>4, <1>12 DEF StagesStand, LegsOf
  <2>2. \A m : LegsAt(m)' = LegsAt(m)
    BY <1>1 DEF LegsAt
  <2> QED
    BY <1>1, <2>1, <2>2 DEF StagesStand, LegsOf
<1>14. HeadStands'
  BY <1>1, <1>4, <1>7, <1>11 DEF HeadStands, LegsOf
<1>15. FramesStand'
  <2>1. \A i \in 0..(k + 1) : Ground(i)' \in tree'.live
    BY <1>2, <1>4, <1>7, <1>9
  <2>2. placer.stages[1] \in tree'.chain[shove.root] \ {shove.root}
    <3>1. shove.root \in Reduced(k).live
      BY <1>2, <1>9, SessionShape
    <3> QED
      BY <1>1, <1>4, <3>1 DEF FramesStand
  <2>3. ASSUME NEW i \in 0..(k + 1), NEW j \in 0..(k + 1), i < j,
               \A l \in (i + 1)..j : ~shove'.stack[l].locked
        PROVE  LegsOf(Ground(i))' = LegsOf(Ground(j))'
    <3>1. i \in 0..k /\ i \in 0..n
      BY <1>2, <2>3
    <3>2. CASE j \in 0..k
      <4>1. \A l \in (i + 1)..j : ~shove.stack[l].locked
        BY <1>2, <1>6, <2>3, <3>1, <3>2
      <4>2. LegsOf(Ground(i)) = LegsOf(Ground(j))
        BY <1>1, <1>2, <2>3, <3>1, <3>2, <4>1 DEF FramesStand, n
      <4> QED
        BY <1>9, <3>1, <3>2, <4>2
    <3>3. CASE j = k + 1
      <4>1. LegsOf(Ground(i)) = LegsOf(Ground(k))
        <5>1. CASE i = k
          BY <5>1
        <5>2. CASE i # k
          <6>1. i < k /\ k \in 0..n
            BY <1>2, <3>1, <5>2
          <6>2. \A l \in (i + 1)..k : ~shove.stack[l].locked
            BY <1>2, <1>6, <2>3, <3>1, <3>3
          <6> QED
            BY <1>1, <3>1, <6>1, <6>2 DEF FramesStand, n
        <5> QED
          BY <5>1, <5>2
      <4>2. LegsOf(Ground(i))' = LegsOf(Ground(i))
        BY <1>9, <3>1
      <4> QED
        BY <1>10, <1>11, <3>3, <4>1, <4>2
    <3> QED
      BY <1>2, <3>2, <3>3
  <2> QED
    BY <1>1, <1>6, <1>11, <2>1, <2>2, <2>3 DEF FramesStand
<1>16. StagesFramed'
  <2>1. NewNode \notin ToSet(placer.stages)
    <3>1. \A m \in ToSet(placer.stages) : m \in tree.live
      <4>1. placer.stages \in Seq(Node)
        BY SessionShape
      <4>2. \A i \in 1..Len(placer.stages) : placer.stages[i] \in tree.live
        BY <1>1 DEF StagesStand
      <4> QED
        BY <4>1, <4>2, StagesOf
    <3> QED
      BY <1>4, <3>1
  <2>2. ASSUME NEW m \in 2..Len(placer.stages)
        PROVE  \E f \in 1..k : /\ shove'.stack[f].node = placer.stages[m]
                               /\ ~shove'.stack[f].locked /\ shove'.stack[f + 1].locked
    <3>1. PICK f \in 1..(n - 1) : /\ shove.stack[f].node = placer.stages[m]
                                  /\ ~shove.stack[f].locked /\ shove.stack[f + 1].locked
      BY <1>1 DEF StagesFramed, n
    <3>2. f \in 1..k /\ f + 1 \in 1..k
      BY <1>2, <3>1
    <3> QED
      BY <1>6, <3>1, <3>2
  <2>3. ASSUME NEW i \in 1..(k + 1), shove'.stack[i].locked
        PROVE  \E m \in 2..Len(placer.stages) :
                  i > 1 /\ shove'.stack[i - 1].node = placer.stages[m]
    <3>1. i \in 1..k /\ i \in 1..n /\ shove.stack[i].locked
      BY <1>2, <1>5, <1>6, <2>3
    <3>2. PICK m \in 2..Len(placer.stages) : i > 1 /\ shove.stack[i - 1].node = placer.stages[m]
      BY <1>1, <3>1 DEF StagesFramed, n
    <3>3. i - 1 \in 1..k
      BY <1>2, <3>1, <3>2
    <3> QED
      BY <1>6, <3>2, <3>3
  <2>4. ASSUME NEW m \in 2..Len(placer.stages), NEW f \in 1..(k + 1), NEW g \in 1..(k + 1),
               shove'.stack[f].node = placer.stages[m],
               NEW l \in (m + 1)..Len(placer.stages), shove'.stack[g].node = placer.stages[l]
        PROVE  f + 1 < g
    <3>1. Len(placer.stages) \in Nat /\ m \in 1..Len(placer.stages) /\ l \in 1..Len(placer.stages)
      BY SessionShape
    <3>2. f # k + 1 /\ g # k + 1
      BY <1>5, <1>6, <2>1, <2>4, <3>1, SessionShape
    <3>3. f \in 1..k /\ g \in 1..k /\ f \in 1..n /\ g \in 1..n
      BY <1>2, <3>2
    <3>4. shove.stack[f].node = placer.stages[m] /\ shove.stack[g].node = placer.stages[l]
      BY <1>6, <2>4, <3>3
    <3> QED
      BY <1>1, <3>3, <3>4 DEF StagesFramed, n
  <2>5. Len(shove'.stack) = k + 1 /\ Len(shove'.stack) - 1 = k /\ placer' = placer
    BY <1>1, <1>2, <1>6
  <2> QED
    BY <2>2, <2>3, <2>4, <2>5, SMTT(40) DEF StagesFramed
<1>17. ShoveStands'
  <2>1. Last(shove'.stack) = pass
    BY <1>6 DEF Last
  <2> QED
    BY <1>1, <1>4, <1>5, <1>6, <1>7, <2>1 DEF ShoveStands, OnTop
<1> QED
  BY <1>1, <1>13, <1>14, <1>15, <1>16, <1>17 DEF Standing

(* The move ends on the node that was routed on; in shove mode that is the *)
(* one the last pass pushed on.                                            *)
LEMMA MoveEndsStands ==
  ASSUME AnySession, InSession, Standing, Steady,
         NEW trace \in Trace, NEW tidied \in SUBSET {Tidy(Pending)}, MoveEnds(trace, tidied)
  PROVE  Standing'
<1>1. /\ phase = "routing" /\ phase' = "placing" /\ route.node \in tree.live
      /\ NewNode \in Node \ tree.live /\ NewNode # NoNode
      /\ tree'.live = tree.live \cup {NewNode}
      /\ \A m \in tree.live : tree'.chain[m] = tree.chain[m] /\ tree'.view[m] = tree.view[m]
      /\ tree'.chain[NewNode] = tree.chain[route.node] \cup {NewNode}
      /\ tree'.view[NewNode] = tree.view[route.node] \cup tidied
      /\ UNCHANGED <<plan, mode, shove, fixes>>
  BY MoveEndsDoes
<1>2. /\ placer'.current = route.node /\ placer'.last = NewNode
      /\ placer'.stages = placer.stages /\ placer'.trace = trace
      /\ placer'.shoveMode = placer.shoveMode
  BY MoveEndsDoes
<1>3. /\ StagesStand' /\ LegsInForce' = LegsInForce
      /\ mode # "shove" => StagesOrdered'
      /\ mode = "shove" => FramesStand' /\ StagesFramed'
      /\ \A i : Ground(i)' = Ground(i)
  BY <1>1, <1>2, SessionKept DEF Standing, StagesStand
<1>4. LegsIn(tree.view[route.node]) = LegsInForce
  BY <1>1 DEF Standing, HeadStands, LegsOf
<1>5. LegsIn(tree.view[route.node] \cup tidied) = LegsInForce
  BY <1>4, LegsInSame
<1>6. HeadStands'
  <2>1. route.node \in tree.chain[route.node]
    BY <1>1 DEF AnySession, TreeOK
  <2> QED
    BY <1>1, <1>2, <1>3, <1>4, <1>5, <2>1 DEF HeadStands, LegsOf
<1>7. ASSUME mode # "shove" PROVE HeadOrdered'
  <2>1. route.node = placer.current
    BY <1>1, <1>7 DEF Standing, HeadOrdered, HeadStands
  <2> QED
    BY <1>1, <1>2, <1>7, <2>1 DEF Standing, HeadOrdered
<1>8. ASSUME mode = "shove" PROVE ShoveStands'
  <2>1. ShoveStands
    BY <1>8 DEF Standing
  <2>2. route.found
    <3>1. ~route.found => route.rounds = 0
      BY <1>8 DEF MoveEnds, Steady
    <3> QED
      BY <1>1, <2>1, <3>1 DEF ShoveStands
  <2>3. OnTop /\ route.node = shove.current
    BY <1>1, <2>1, <2>2 DEF ShoveStands
  <2> QED
    BY <1>1, <1>2, <1>3, <2>1, <2>3 DEF ShoveStands, OnTop
<1> QED
  BY <1>1, <1>3, <1>6, <1>7, <1>8 DEF Standing

(* Tidying and the net an item is given are not legs.                      *)
LEMMA FixNothingStands ==
  ASSUME AnySession, InSession, Standing, Steady,
         NEW tidied \in SUBSET {Tidy(Pending)}, NEW adopts \in BOOLEAN,
         FixNothing(tidied, adopts)
  PROVE  Standing'
<1>1. /\ tree'.live = tree.live /\ tree'.chain = tree.chain
      /\ tree'.view[placer.last] \ {Net} = (tree.view[placer.last] \cup tidied) \ {Net}
      /\ \A m \in Node \ {placer.last} : tree'.view[m] \ {Net} = tree.view[m] \ {Net}
      /\ placer.last \in Node \ {Root} /\ phase = "placing" /\ phase' = "placing"
      /\ UNCHANGED <<plan, mode, shove, route, fixes>>
  BY FixNothingDoes
<1>2. /\ placer'.current = placer.current /\ placer'.last = placer.last
      /\ placer'.stages = placer.stages /\ placer'.trace = placer.trace
      /\ placer'.shoveMode = (mode = "shove")
  BY FixNothingDoes
<1>3. \A m \in Node : LegsIn(tree'.view[m]) = LegsIn(tree.view[m])
  <2>1. LegsIn(tree'.view[placer.last]) = LegsIn(tree.view[placer.last])
    <3>1. /\ tree'.view[placer.last] \ {Net} = (tree.view[placer.last] \cup tidied) \ {Net}
          /\ tidied \subseteq {Net, Cut} \cup {Push(Pending), Tidy(Pending)}
      BY <1>1
    <3> QED
      BY <3>1, LegsInSame, ZenonT(60)
  <2>2. ASSUME NEW m \in Node \ {placer.last} PROVE LegsIn(tree'.view[m]) = LegsIn(tree.view[m])
    BY <1>1, LegsInKept
  <2> QED
    BY <2>1, <2>2
<1>4. tree.live \subseteq Node
  BY DEF AnySession, TreeOK, Tree
<1>5. /\ StagesStand' /\ LegsInForce' = LegsInForce
      /\ mode # "shove" => StagesOrdered'
      /\ mode = "shove" => FramesStand' /\ StagesFramed'
      /\ \A i : Ground(i)' = Ground(i)
  BY <1>1, <1>2, <1>3, <1>4, SessionKept
<1>6. HeadStands'
  BY <1>1, <1>2, <1>3, <1>4, <1>5 DEF Standing, HeadStands, LegsOf
<1>7. (mode # "shove" => HeadOrdered') /\ (mode = "shove" => ShoveStands')
  BY <1>1, <1>2, <1>5 DEF Standing, HeadOrdered, ShoveStands, OnTop
<1> QED
  BY <1>1, <1>5, <1>6, <1>7 DEF Standing

(* A leg that is fixed is in force.                                        *)
LEMMA LegAdded ==
  ASSUME AnySession, InSession, Standing, phase = "placing", placer.last # NoNode,
         Len(fixes) < plan.fixes, fixes' = Append(fixes, placer.trace # "dot"),
         NEW S, S \ {Net} = (tree.view[placer.last] \cup NewLeg) \ {Net}
  PROVE  LegsIn(S) = LegsInForce'
<1>a. PICK b \in Nat : b = Len(fixes)
  BY SessionShape
<1>0. LegsIn(tree.view[placer.last]) = LegsInForce
  BY DEF Standing, HeadStands, LegsOf
<1>1. /\ Len(fixes') = b + 1 /\ DOMAIN fixes' = 1..(b + 1) /\ DOMAIN fixes = 1..b
      /\ \A k \in 1..b : fixes'[k] = fixes[k]
      /\ fixes'[b + 1] = (placer.trace # "dot")
  <2>1. /\ TypeOK /\ fixes' = Append(fixes, placer.trace # "dot")
        /\ (placer.trace # "dot") \in BOOLEAN
    BY DEF AnySession
  <2>2. /\ fixes' \in Seq(BOOLEAN) /\ Len(fixes') = b + 1
        /\ \A k \in 1..b : fixes'[k] = fixes[k]
        /\ fixes'[b + 1] = (placer.trace # "dot")
    BY <1>a, <2>1, FixesGrow
  <2>3. DOMAIN fixes' = 1..(b + 1) /\ DOMAIN fixes = 1..b
    BY <1>a, <2>2, SessionShape, LenProperties
  <2> QED
    BY <2>2, <2>3
<1>2. LegsInForce' = LegsInForce \cup (IF placer.trace = "dot" THEN {} ELSE {b + 1})
  <3>1. \A k : k \in 1..(b + 1) <=> k \in 1..b \/ k = b + 1
    OBVIOUS
  <3>2. b + 1 \notin 1..b
    OBVIOUS
  <3>3. LegsInForce' = {k \in 1..(b + 1) : fixes'[k]} /\ LegsInForce = {k \in 1..b : fixes[k]}
    BY <1>1 DEF LegsInForce
  <3> QED
    BY <1>1, <3>1, <3>2, <3>3
<1>3. CASE placer.trace = "dot"
  <3>1. NewLeg = {}
    BY <1>3 DEF NewLeg
  <3>2. LegsIn(S) = LegsIn(tree.view[placer.last])
    <4>1. S \ {Net} = tree.view[placer.last] \ {Net}
      BY <3>1
    <4> QED
      BY <4>1, LegsInKept
  <3> QED
    BY <1>0, <1>2, <1>3, <3>2
<1>4. CASE placer.trace # "dot"
  <3>1. NewLeg = {Leg(b + 1)} /\ b + 1 \in 1..(MaxFixes + 1)
    BY <1>a, <1>4, FactType DEF NewLeg, Pending, AnySession
  <3>2. LegsIn(S) = LegsIn(tree.view[placer.last]) \cup {b + 1}
    BY <3>1, LegsInAdd
  <3> QED
    BY <1>0, <1>2, <1>4, <3>2
<1> QED
  BY <1>3, <1>4

(* A fix of a leg: the stage it pushes is the node the leg was routed on,  *)
(* which in shove mode is the top frame, and the frame it locks above that *)
(* has the leg.                                                            *)
LEMMA FixLegStands ==
  ASSUME AnySession, InSession, Standing, Steady, NEW adopts \in BOOLEAN, FixLeg(adopts)
  PROVE  Standing'
<1>a. PICK n \in Nat, s \in Nat \ {0}, b \in Nat :
             n = Len(shove.stack) /\ s = Len(placer.stages) /\ b = Len(fixes)
  BY SessionShape
<1>1. /\ phase = "placing" /\ phase' = "placing" /\ placer.last # NoNode
      /\ placer.trace \in {"dot", "line"} /\ Len(fixes) < plan.fixes
      /\ placer.last \in tree.live
      /\ placer.last \notin {Root, placer.current, shove.root, shove.current}
                              \cup ToSet(placer.stages) \cup FrameNodes
      /\ UNCHANGED <<plan, mode, route>>
  BY FixLegDoes
<1>2. /\ NewNode \in Node \ tree.live /\ NewNode # NoNode
      /\ tree'.live = tree.live \cup {NewNode}
      /\ \A m \in tree.live : tree'.chain[m] = tree.chain[m]
      /\ tree'.chain[NewNode] = tree.chain[placer.last] \cup {NewNode}
      /\ tree'.view[NewNode] = tree'.view[placer.last]
      /\ tree'.view[placer.last] \ {Net} = (tree.view[placer.last] \cup NewLeg) \ {Net}
      /\ \A m \in tree.live \ {placer.last} : tree'.view[m] \ {Net} = tree.view[m] \ {Net}
  BY FixLegDoes
<1>3. /\ placer'.current = placer.last /\ placer'.last = NewNode /\ placer'.trace = "none"
      /\ placer'.shoveMode = (mode = "shove") /\ Len(placer'.stages) = s + 1
      /\ \A i \in 1..s : placer'.stages[i] = placer.stages[i]
      /\ placer'.stages[s + 1] = placer.current
  BY <1>a, FixLegDoes
<1>4. /\ shove'.root = shove.root /\ shove'.current = shove.current
      /\ Len(shove'.stack) = n + 1
      /\ \A i \in 1..n : shove'.stack[i] = shove.stack[i]
      /\ shove'.stack[n + 1].node = placer.last /\ shove'.stack[n + 1].locked
  BY <1>a, FixLegDoes
<1>5. /\ n \in Nat /\ s \in Nat \ {0} /\ b \in Nat /\ s = b + 1
      /\ \A m \in 1..s : placer.stages[m] \in ToSet(placer.stages) /\ placer.stages[m] \in tree.live
      /\ placer.current \in tree.live /\ LegsOf(placer.current) = LegsInForce
      /\ LegsOf(placer.last) = LegsInForce /\ placer.current \in tree.chain[placer.last]
  BY <1>1, <1>a, SessionShape DEF Standing, StagesStand, HeadStands
<1>0. n \in Nat /\ s \in Nat \ {0} /\ b \in Nat /\ s = b + 1
  BY <1>5
<1>6. /\ Len(fixes') = b + 1 /\ DOMAIN fixes' = 1..(b + 1) /\ DOMAIN fixes = 1..b
      /\ \A k \in 1..b : fixes'[k] = fixes[k]
      /\ fixes'[b + 1] = (placer.trace # "dot")
  <2>1. /\ TypeOK /\ fixes' = Append(fixes, placer.trace # "dot")
        /\ (placer.trace # "dot") \in BOOLEAN
    BY FixLegDoes DEF AnySession
  <2>2. /\ fixes' \in Seq(BOOLEAN) /\ Len(fixes') = b + 1
        /\ \A k \in 1..b : fixes'[k] = fixes[k]
        /\ fixes'[b + 1] = (placer.trace # "dot")
    BY <1>a, <1>1, <2>1, FixesGrow
  <2>3. DOMAIN fixes' = 1..(b + 1) /\ DOMAIN fixes = 1..b
    BY <1>a, <2>2, SessionShape, LenProperties
  <2> QED
    BY <2>2, <2>3
<1>7. LegsIn(tree'.view[placer.last]) = LegsInForce'
  <2>1. fixes' = Append(fixes, placer.trace # "dot")
    BY FixLegDoes
  <2> QED
    BY <1>1, <1>2, <2>1, LegAdded
<1>8. \A m \in tree.live \ {placer.last} : LegsIn(tree'.view[m]) = LegsIn(tree.view[m])
  BY <1>2, LegsInKept
<1>9. StagesStand'
  <2>1. ASSUME NEW m \in 1..s
        PROVE  /\ placer'.stages[m] \in tree'.live
               /\ LegsIn(tree'.view[placer'.stages[m]]) = LegsAt(m)'
    <3>1. placer'.stages[m] = placer.stages[m] /\ placer.stages[m] # placer.last
      BY <1>1, <1>3, <1>5
    <3>2. LegsIn(tree.view[placer.stages[m]]) = LegsAt(m)
      BY <1>a DEF Standing, StagesStand, LegsOf
    <3>3. LegsAt(m)' = LegsAt(m)
      <4>1. \A k \in 1..(m - 2) : k \in 1..b
        BY <1>5
      <4> QED
        BY <1>6, <4>1 DEF LegsAt
    <3> QED
      BY <1>2, <1>5, <1>8, <3>1, <3>2, <3>3
  <2>2. LegsIn(tree'.view[placer.current]) = LegsAt(s + 1)'
    <3>1. LegsAt(s + 1)' = LegsInForce
      <4>1. 1..((s + 1) - 2) = 1..b
        BY <1>0
      <4>2. LegsAt(s + 1)' = {k \in 1..b : fixes'[k]}
        BY <4>1 DEF LegsAt
      <4>3. LegsInForce = {k \in 1..b : fixes[k]}
        BY <1>6 DEF LegsInForce
      <4> QED
        BY <1>6, <4>2, <4>3
    <3> QED
      BY <1>1, <1>5, <1>8, <3>1 DEF LegsOf
  <2>3. placer.current \in tree'.live
    BY <1>2, <1>5
  <2>4. \A m \in 1..(s + 1) : m \in 1..s \/ m = s + 1
    BY <1>5
  <2>5. Len(placer'.stages) = Len(fixes') + 1 /\ placer'.shoveMode = (mode' = "shove")
    BY <1>1, <1>3, <1>5, <1>6
  <2>6. ASSUME NEW m \in 1..(s + 1)
        PROVE  /\ placer'.stages[m] \in tree'.live
               /\ LegsIn(tree'.view[placer'.stages[m]]) = LegsAt(m)'
    <3>1. CASE m \in 1..s
      BY <2>1, <3>1
    <3>2. CASE m = s + 1
      BY <1>3, <2>2, <2>3, <3>2
    <3> QED
      BY <2>4, <3>1, <3>2
  <2> QED
    BY <1>3, <1>a, <2>5, <2>6 DEF StagesStand, LegsOf
<1>10. HeadStands'
  <2>1. placer.last \in tree'.chain[NewNode]
    BY <1>1, <1>2 DEF AnySession, TreeOK
  <2> QED
    BY <1>1, <1>2, <1>3, <1>7, <2>1 DEF HeadStands, LegsOf
<1>11. ASSUME mode # "shove" PROVE StagesOrdered' /\ HeadOrdered'
  <2>1. /\ \A j \in 1..s : placer.stages[j] \in tree.chain[placer.current]
        /\ \A j \in 1..s : \A i \in 1..j : placer.stages[i] \in tree.chain[placer.stages[j]]
    BY <1>a, <1>11 DEF Standing, StagesOrdered, HeadOrdered
  <2>2. /\ tree.chain[placer.current] \subseteq tree.chain[placer.last]
        /\ placer.current \in tree.chain[placer.current]
    BY <1>1, <1>5 DEF AnySession, TreeOK
  <2>3. \A j \in 1..(s + 1) : j \in 1..s \/ j = s + 1
    BY <1>5
  <2>4. HeadOrdered'
    BY <1>1, <1>2, <1>3, <1>5, <2>1, <2>2, <2>3 DEF HeadOrdered
  <2>5. ASSUME NEW j \in 1..(s + 1), NEW i \in 1..j
        PROVE  placer'.stages[i] \in tree'.chain[placer'.stages[j]]
    <3>1. CASE j \in 1..s
      <4>1. i \in 1..s
        BY <1>5, <3>1
      <4> QED
        BY <1>2, <1>3, <1>5, <2>1, <3>1, <4>1
    <3>2. CASE j = s + 1
      BY <1>2, <1>3, <1>5, <2>1, <2>2, <2>3, <3>2
    <3> QED
      BY <2>3, <3>1, <3>2
  <2> QED
    BY <1>3, <2>4, <2>5 DEF StagesOrdered
<1>12. ASSUME mode = "shove" PROVE FramesStand' /\ StagesFramed' /\ ShoveStands'
  <2>1. /\ FramesStand /\ StagesFramed
        /\ OnTop /\ placer.current = shove.current
    BY <1>1, <1>12 DEF Standing, ShoveStands
  <2>2. /\ n \in 1..n /\ n # 0 /\ shove.stack[n].node = placer.current /\ ~shove.stack[n].locked
    <3>1. n # 0
      BY <1>a, <2>1, SessionShape, EmptySeq DEF OnTop
    <3> QED
      BY <1>a, <1>5, <2>1, <3>1 DEF OnTop, Last
  <2>3. /\ \A i \in 0..n : Ground(i)' = Ground(i) /\ Ground(i) \in tree.live
        /\ Ground(n + 1)' = placer.last
    <3>1. \A i \in 1..n : Ground(i)' = Ground(i)
      BY <1>4, <1>5 DEF Ground
    <3>2. Ground(0)' = Ground(0) /\ Ground(n + 1)' = placer.last
      <4>1. n + 1 # 0
        BY <1>0
      <4> QED
        BY <1>4, <4>1 DEF Ground
    <3> QED
      BY <1>a, <1>5, <2>1, <3>1, <3>2 DEF FramesStand
  <2>4. \A i \in 0..n : Ground(i) # placer.last /\ LegsOf(Ground(i))' = LegsOf(Ground(i))
    <3>1. \A i \in 0..n : Ground(i) # placer.last
      BY <1>a, <1>1, <1>5, SessionShape
    <3> QED
      BY <1>8, <2>3, <3>1 DEF LegsOf
  <2>5. FramesStand'
    <3>1. \A i \in 0..(n + 1) : Ground(i)' \in tree'.live
      <4>1. \A i \in 0..(n + 1) : i \in 0..n \/ i = n + 1
        BY <1>0
      <4> QED
        BY <1>1, <1>2, <2>3, <4>1
    <3>2. placer'.stages[1] \in tree'.chain[shove'.root] \ {shove'.root}
      <4>1. shove.root \in tree.live /\ placer'.stages[1] = placer.stages[1]
        BY <1>a, <1>3, <1>5, <2>3, SessionShape
      <4> QED
        BY <1>2, <1>4, <2>1, <4>1 DEF FramesStand
    <3>3. LegsOf(Ground(n + 1))' = LegsInForce'
      BY <1>7, <2>3 DEF LegsOf
    <3>4. ASSUME NEW i \in 0..(n + 1), NEW j \in 0..(n + 1), i < j,
                 \A l \in (i + 1)..j : ~shove'.stack[l].locked
          PROVE  LegsOf(Ground(i))' = LegsOf(Ground(j))'
      <4>1. j \in 0..n /\ i \in 0..n
        BY <1>4, <1>5, <3>4
      <4>2. \A l \in (i + 1)..j : ~shove.stack[l].locked
        BY <1>4, <1>5, <3>4, <4>1
      <4>3. LegsOf(Ground(i)) = LegsOf(Ground(j))
        BY <1>a, <2>1, <3>4, <4>1, <4>2 DEF FramesStand
      <4> QED
        BY <2>4, <4>1, <4>3
    <3> QED
      BY <1>4, <3>1, <3>2, <3>3, <3>4 DEF FramesStand
  <2>6. \A f \in 1..n, g \in 1..n : shove.stack[f].node = shove.stack[g].node => f = g
    BY <1>a, <2>3, FramesDistinct
  <2>7. ASSUME NEW m \in 2..(s + 1)
        PROVE  \E f \in 1..n : /\ shove'.stack[f].node = placer'.stages[m]
                               /\ ~shove'.stack[f].locked /\ shove'.stack[f + 1].locked
    <3>1. CASE m \in 2..s
      <4>1. PICK f \in 1..(n - 1) : /\ shove.stack[f].node = placer.stages[m]
                                    /\ ~shove.stack[f].locked /\ shove.stack[f + 1].locked
        BY <1>a, <2>1, <3>1 DEF StagesFramed
      <4>2. f \in 1..n /\ f + 1 \in 1..n /\ m \in 1..s
        BY <1>5, <3>1, <4>1
      <4> QED
        BY <1>3, <1>4, <4>1, <4>2
    <3>2. CASE m = s + 1
      BY <1>3, <1>4, <2>2, <3>2
    <3> QED
      BY <1>5, <3>1, <3>2
  <2>8. ASSUME NEW i \in 1..(n + 1), shove'.stack[i].locked
        PROVE  \E m \in 2..(s + 1) : i > 1 /\ shove'.stack[i - 1].node = placer'.stages[m]
    <3>1. CASE i \in 1..n
      <4>1. PICK m \in 2..s : i > 1 /\ shove.stack[i - 1].node = placer.stages[m]
        BY <1>a, <1>4, <2>1, <2>8, <3>1 DEF StagesFramed
      <4>2. i - 1 \in 1..n /\ m \in 1..s /\ m \in 2..(s + 1)
        BY <1>5, <3>1, <4>1
      <4> QED
        BY <1>3, <1>4, <4>1, <4>2
    <3>2. CASE i = n + 1
      <4>1. i > 1 /\ i - 1 = n /\ s + 1 \in 2..(s + 1)
        BY <1>5, <2>2, <3>2
      <4> QED
        BY <1>3, <1>4, <2>2, <4>1
    <3> QED
      BY <1>5, <3>1, <3>2
  <2>9. ASSUME NEW m \in 2..(s + 1), NEW f \in 1..(n + 1), NEW g \in 1..(n + 1),
               shove'.stack[f].node = placer'.stages[m],
               NEW l \in (m + 1)..(s + 1), shove'.stack[g].node = placer'.stages[l]
        PROVE  f + 1 < g
    <3>1. m \in 2..s /\ m \in 1..s /\ l \in 1..(s + 1) /\ (l = s + 1 \/ l \in 1..s)
      BY <1>5, <2>9
    <3>2. placer'.stages[m] # placer.last /\ placer'.stages[l] # placer.last
      BY <1>1, <1>3, <1>5, <3>1
    <3>3. f \in 1..n /\ g \in 1..n
      BY <1>4, <1>5, <2>9, <3>2
    <3>4. shove.stack[f].node = placer.stages[m] /\ shove.stack[g].node = placer'.stages[l]
      BY <1>3, <1>4, <2>9, <3>1, <3>3
    <3>5. CASE l \in 1..s
      <4>1. l \in (m + 1)..s /\ shove.stack[g].node = placer.stages[l]
        BY <1>3, <1>5, <2>9, <3>1, <3>4, <3>5
      <4> QED
        BY <1>a, <2>1, <3>1, <3>3, <3>4, <4>1 DEF StagesFramed
    <3>6. CASE l = s + 1
      <4>1. g = n
        BY <1>3, <2>2, <2>6, <3>3, <3>4, <3>6
      <4>2. PICK e \in 1..(n - 1) : /\ shove.stack[e].node = placer.stages[m]
                                    /\ shove.stack[e + 1].locked
        BY <1>a, <2>1, <3>1 DEF StagesFramed
      <4>3. e \in 1..n /\ e = f
        BY <1>5, <2>6, <3>3, <3>4, <4>2
      <4>4. f + 1 # n
        BY <2>2, <4>2, <4>3
      <4> QED
        BY <1>5, <4>1, <4>2, <4>3, <4>4
    <3> QED
      BY <3>1, <3>5, <3>6
  <2>10. StagesFramed'
    <3>1. Len(shove'.stack) = n + 1 /\ Len(shove'.stack) - 1 = n /\ Len(placer'.stages) = s + 1
      BY <1>3, <1>4, <1>5
    <3>2. \A m \in 2..Len(placer'.stages) : \E f \in 1..(Len(shove'.stack) - 1) :
             /\ shove'.stack[f].node = placer'.stages[m]
             /\ ~shove'.stack[f].locked /\ shove'.stack[f + 1].locked
      BY <2>7, <3>1
    <3>3. \A i \in 1..Len(shove'.stack) : shove'.stack[i].locked =>
             \E m \in 2..Len(placer'.stages) :
                i > 1 /\ shove'.stack[i - 1].node = placer'.stages[m]
      BY <2>8, <3>1
    <3>4. \A m \in 2..Len(placer'.stages), f, g \in 1..Len(shove'.stack) :
             (/\ shove'.stack[f].node = placer'.stages[m]
              /\ \E l \in (m + 1)..Len(placer'.stages) : shove'.stack[g].node = placer'.stages[l])
                => f + 1 < g
      BY <2>9, <3>1
    <3> QED
      BY <3>2, <3>3, <3>4 DEF StagesFramed
  <2>11. ShoveStands'
    <3>1. shove'.stack # <<>> /\ Last(shove'.stack).locked
      <4>1. shove'.stack # <<>>
        BY <1>4, <1>5, EmptySeq
      <4> QED
        BY <1>4, <4>1 DEF Last
    <3>2. Len(shove'.stack) - 1 = n /\ n \in 0..n
      BY <1>0, <1>4
    <3>3. shove'.current = Ground(n)
      BY <1>4, <2>1, <2>2 DEF Ground
    <3>4. shove'.current = Ground(n)'
      BY <2>3, <3>2, <3>3
    <3> QED
      BY <1>1, <1>3, <3>1, <3>2, <3>4 DEF ShoveStands
  <2> QED
    BY <2>5, <2>10, <2>11
<1> QED
  BY <1>1, <1>9, <1>10, <1>11, <1>12 DEF Standing
(* Where undo comes back to in shove mode: Ground(k), below the frame the  *)
(* last fix was routed on, or the top when nothing is fixed.  That node,   *)
(* the frames below it and the stages that are left are all kept.          *)
UndoLands(L, n) ==
  \E k \in 0..n :
    /\ UndoTarget = Ground(k)
    /\ \/ k = n /\ Last(placer.stages) \notin FrameNodes /\ L = 1 /\ shove.current = Ground(n)
       \/ k < n /\ L > 1 /\ shove.stack[k + 1].node = Last(placer.stages)
    /\ LegsOf(Ground(k)) = LegsAt(L)
    /\ \A i \in 0..k : Ground(i) \in UndoTree.live
    /\ \A m \in 1..L : m = 1 \/ m < L => placer.stages[m] \in UndoTree.live
    /\ \A m \in 2..(L - 1) : \E f \in 1..(k - 1) :
         /\ shove.stack[f].node = placer.stages[m]
         /\ ~shove.stack[f].locked /\ shove.stack[f + 1].locked
    /\ \A i \in 1..k : shove.stack[i].locked =>
         \E m \in 2..(L - 1) : i > 1 /\ shove.stack[i - 1].node = placer.stages[m]

LEMMA UndoShove ==
  ASSUME AnySession, InSession, Standing, phase = "placing", mode = "shove"
  PROVE  UndoLands(Len(placer.stages), Len(shove.stack))
<1>a. PICK L \in Nat \ {0}, n \in Nat : L = Len(placer.stages) /\ n = Len(shove.stack)
  BY SessionShape
<1>b. PICK stage : stage = Last(placer.stages)
  OBVIOUS
<1> SUFFICES UndoLands(L, n)
  BY <1>a
<1>1. /\ FramesStand /\ StagesFramed /\ ShoveStands /\ StagesStand
      /\ TreeOK(tree) /\ FramesOrdered
      /\ Ground(0) = shove.root
      /\ \A i \in 1..n : Ground(i) = shove.stack[i].node /\ Ground(i) \in FrameNodes
      /\ \A i \in 0..n, j \in 1..n : i < j => Ground(j) \notin tree.chain[Ground(i)]
  <2>1. \A i \in 0..n : Ground(i) \in tree.live
    BY <1>a DEF Standing, FramesStand
  <2> QED
    BY <1>a, <2>1, SessionShape DEF Standing, AnySession
<1>2. /\ \A i \in 0..n : Ground(i) \in tree.live
      /\ placer.stages[1] \in tree.chain[Ground(0)] /\ placer.stages[1] # Ground(0)
      /\ LegsOf(Ground(n)) = LegsInForce
      /\ \A i \in 0..n, j \in 0..n :
           i < j /\ (\A l \in (i + 1)..j : ~shove.stack[l].locked)
             => LegsOf(Ground(i)) = LegsOf(Ground(j))
  BY <1>a, <1>1 DEF FramesStand
<1>3. /\ \A m \in 1..L : placer.stages[m] \in tree.live /\ LegsOf(placer.stages[m]) = LegsAt(m)
      /\ L = Len(fixes) + 1
  BY <1>a, <1>1 DEF StagesStand
<1>4. /\ \A m \in 2..L : \E f \in 1..(n - 1) :
            /\ shove.stack[f].node = placer.stages[m]
            /\ ~shove.stack[f].locked /\ shove.stack[f + 1].locked
      /\ \A i \in 1..n : shove.stack[i].locked =>
            \E m \in 2..L : i > 1 /\ shove.stack[i - 1].node = placer.stages[m]
      /\ \A m \in 2..L, f, g \in 1..n :
            (/\ shove.stack[f].node = placer.stages[m]
             /\ \E l \in (m + 1)..L : shove.stack[g].node = placer.stages[l])
               => f + 1 < g
  BY <1>a, <1>1 DEF StagesFramed
<1>5. \A j \in 0..n : Ground(j) \notin tree.chain[placer.stages[1]]
  <2>1. tree.chain[placer.stages[1]] \subseteq tree.chain[Ground(0)]
    BY <1>1, <1>2 DEF TreeOK
  <2>2. \A j \in 1..n : Ground(j) \notin tree.chain[Ground(0)]
    BY <1>1
  <2>3. Ground(0) \notin tree.chain[placer.stages[1]]
    BY <1>1, <1>2 DEF TreeOK
  <2>4. \A j \in 0..n : j = 0 \/ j \in 1..n
    OBVIOUS
  <2> QED
    BY <2>1, <2>2, <2>3, <2>4
<1>6. \A m \in tree.live :
         (/\ UndoTarget \in tree.chain[m] => m = UndoTarget
          /\ stage \in FrameNodes /\ stage \in tree.chain[m] => m = stage)
           => m \in UndoTree.live
  BY <1>b, UndoTreeOK DEF Subtree
<1>7. UndoTarget = Rewound(shove, stage).current
  BY <1>b DEF UndoTarget
<1>0. stage = placer.stages[L]
  BY <1>a, <1>b DEF Last
<1>8. CASE L = 1
  <2>1. stage \notin FrameNodes
    <3>1. stage \in tree.chain[stage]
      BY <1>0, <1>1, <1>3, <1>8 DEF TreeOK
    <3>2. \A f \in FrameNodes : \E i \in 1..n : f = Ground(i)
      <4>1. \A f \in FrameNodes : \E i \in 1..Len(shove.stack) : f = shove.stack[i].node
        BY FramesOf DEF AnySession, TypeOK
      <4> QED
        BY <1>a, <1>1, <4>1
    <3>3. \A i \in 1..n : Ground(i) # stage
      BY <1>0, <1>1, <1>5, <1>8, <3>1
    <3> QED
      BY <3>2, <3>3
  <2>2. Rewound(shove, stage) = shove
    <3>1. shove \in [root : NodeOrNone, current : NodeOrNone, stack : Seq(Frame)]
      BY DEF AnySession, TypeOK
    <3>2. \A i \in 1..n : shove.stack[i].node # stage
      BY <1>1, <2>1
    <3>3. \A i : i \in 0..(n - 1) => i + 1 \in 1..n
      OBVIOUS
    <3> QED
      BY <1>a, <2>1, <3>1, <3>2, <3>3, RewoundOK
  <2>3. \A i \in 1..n : ~shove.stack[i].locked
    BY <1>4, <1>8
  <2>4. shove.current = Ground(n)
    <3>1. shove.stack # <<>> => Last(shove.stack) = shove.stack[n] /\ n \in 1..n
      BY <1>a, SessionShape, EmptySeq DEF Last
    <3> QED
      BY <1>a, <1>1, <2>3, <3>1 DEF ShoveStands
  <2>5. LegsOf(Ground(n)) = LegsAt(L)
    <3>1. LegsInForce = {} /\ LegsAt(L) = {}
      BY <1>a, <1>3, <1>8, SessionShape DEF LegsInForce, LegsAt
    <3> QED
      BY <1>2, <3>1
  <2>6. \A i \in 0..n : Ground(i) \in UndoTree.live
    <3>1. \A i \in 0..n : Ground(n) \in tree.chain[Ground(i)] => Ground(i) = Ground(n)
      <4>1. \A i \in 0..n : i = n \/ (i < n /\ n \in 1..n)
        OBVIOUS
      <4> QED
        BY <1>1, <4>1
    <3> QED
      BY <1>2, <1>6, <1>7, <2>1, <2>2, <2>4, <3>1
  <2>7. placer.stages[1] \in UndoTree.live
    <3>1. Ground(n) \notin tree.chain[placer.stages[1]] /\ placer.stages[1] \in tree.live
      BY <1>3, <1>5, <1>8
    <3> QED
      BY <1>6, <1>7, <2>1, <2>2, <2>4, <3>1
  <2>8. n \in 0..n /\ UndoTarget = Ground(n)
    BY <1>7, <2>2, <2>4
  <2>9. \A m \in 1..L : placer.stages[m] \in UndoTree.live
    BY <1>8, <2>7
  <2>10. /\ \A m \in 2..(L - 1) : FALSE
    BY <1>8
  <2> QED
    BY <1>b, <1>8, <2>1, <2>3, <2>4, <2>5, <2>6, <2>8, <2>9, <2>10 DEF UndoLands
<1>9. CASE L # 1
  <2>0. L > 1 /\ L \in 2..L
    BY <1>9
  <2>1. PICK f \in 1..(n - 1) : shove.stack[f].node = stage /\ ~shove.stack[f].locked
    BY <1>0, <1>4, <2>0
  <2>2. stage \in FrameNodes /\ f \in 1..n
    BY <1>1, <2>1
  <2>3. PICK k \in 0..(n - 1) : /\ shove.stack[k + 1].node = stage
                                /\ Rewound(shove, stage).current = Ground(k)
    BY <1>a, <2>2, RewoundOK DEF AnySession, TypeOK
  <2>4. \A i \in 1..n, j \in 1..n : shove.stack[i].node = shove.stack[j].node => i = j
    BY <1>a, <1>2, FramesDistinct
  <2>5. k + 1 \in 1..n /\ k \in 0..n /\ k < n /\ k + 1 \in 0..n /\ k < k + 1
    BY <2>3
  <2>6. f = k + 1 /\ Ground(k + 1) = stage
    BY <1>1, <2>1, <2>2, <2>3, <2>4, <2>5
  <2>7. LegsOf(Ground(k)) = LegsAt(L)
    <3>1. LegsOf(Ground(k)) = LegsOf(Ground(k + 1))
      <4>1. \A l \in (k + 1)..(k + 1) : ~shove.stack[l].locked
        BY <2>1, <2>6
      <4> QED
        BY <1>2, <2>5, <4>1
    <3> QED
      BY <1>0, <1>3, <2>0, <2>6, <3>1
  <2>8. \A i \in 0..k : Ground(i) \in UndoTree.live
    <3>1. ASSUME NEW i \in 0..k PROVE Ground(i) \in UndoTree.live
      <4>1. i \in 0..n /\ i < k + 1 /\ (i = k \/ (i < k /\ k \in 1..n))
        BY <2>5
      <4>2. Ground(k + 1) \notin tree.chain[Ground(i)]
        BY <1>1, <2>5, <4>1
      <4>3. Ground(k) \in tree.chain[Ground(i)] => Ground(i) = Ground(k)
        BY <1>1, <4>1
      <4> QED
        BY <1>2, <1>6, <1>7, <2>3, <2>6, <4>1, <4>2, <4>3
    <3> QED
      BY <3>1
  <2>9. \A m \in 2..(L - 1) : \E e \in 1..(k - 1) :
           /\ shove.stack[e].node = placer.stages[m]
           /\ ~shove.stack[e].locked /\ shove.stack[e + 1].locked
    <3>1. ASSUME NEW m \in 2..(L - 1)
          PROVE  \E e \in 1..(k - 1) : /\ shove.stack[e].node = placer.stages[m]
                                       /\ ~shove.stack[e].locked /\ shove.stack[e + 1].locked
      <4>1. m \in 2..L /\ L \in (m + 1)..L
        OBVIOUS
      <4>2. PICK e \in 1..(n - 1) : /\ shove.stack[e].node = placer.stages[m]
                                    /\ ~shove.stack[e].locked /\ shove.stack[e + 1].locked
        BY <1>4, <4>1
      <4>3. e \in 1..n
        BY <4>2
      <4>4. e + 1 < k + 1
        BY <1>0, <1>4, <2>3, <2>5, <4>1, <4>2, <4>3
      <4>5. e \in 1..(k - 1)
        BY <2>5, <4>3, <4>4
      <4> QED
        BY <4>2, <4>5
    <3> QED
      BY <3>1
  <2>10. \A m \in 1..L : m = 1 \/ m < L => placer.stages[m] \in UndoTree.live
    <3>1. ASSUME NEW m \in 2..(L - 1) PROVE placer.stages[m] \in UndoTree.live
      <4>1. PICK e \in 1..(k - 1) : shove.stack[e].node = placer.stages[m]
        BY <2>9
      <4>2. e \in 0..k /\ e \in 1..n
        BY <2>5, <4>1
      <4> QED
        BY <1>1, <2>8, <4>1, <4>2
    <3>2. placer.stages[1] \in UndoTree.live
      <4>1. Ground(k) \notin tree.chain[placer.stages[1]] /\ stage \notin tree.chain[placer.stages[1]]
        BY <1>5, <2>5, <2>6
      <4> QED
        BY <1>3, <1>6, <1>7, <2>3, <4>1
    <3>3. \A m \in 1..L : m = 1 \/ m < L => m = 1 \/ m \in 2..(L - 1)
      OBVIOUS
    <3> QED
      BY <3>1, <3>2, <3>3
  <2>11. \A i \in 1..k : shove.stack[i].locked =>
            \E m \in 2..(L - 1) : i > 1 /\ shove.stack[i - 1].node = placer.stages[m]
    <3>1. ASSUME NEW i \in 1..k, shove.stack[i].locked
          PROVE  \E m \in 2..(L - 1) : i > 1 /\ shove.stack[i - 1].node = placer.stages[m]
      <4>1. i \in 1..n
        BY <2>5
      <4>2. PICK m \in 2..L : i > 1 /\ shove.stack[i - 1].node = placer.stages[m]
        BY <1>4, <3>1, <4>1
      <4>3. m # L
        <5>1. i - 1 \in 1..n /\ i - 1 # k + 1
          BY <2>5, <4>1, <4>2
        <5> QED
          BY <1>0, <2>3, <2>4, <2>5, <4>2, <5>1
      <4>4. m \in 2..(L - 1)
        BY <4>2, <4>3
      <4> QED
        BY <4>2, <4>4
    <3> QED
      BY <3>1
  <2>12. UndoTarget = Ground(k)
    BY <1>7, <2>3
  <2> QED
    BY <1>b, <2>0, <2>3, <2>5, <2>7, <2>8, <2>9, <2>10, <2>11, <2>12 DEF UndoLands
<1> QED
  BY <1>8, <1>9

(* Out of shove mode undo comes back to the node of the top stage, and     *)
(* every stage was branched before it.                                     *)
LEMMA UndoStage ==
  ASSUME AnySession, InSession, Standing, phase = "placing", mode # "shove"
  PROVE  /\ UndoTarget = placer.stages[Len(placer.stages)]
         /\ \A m \in 1..Len(placer.stages) : placer.stages[m] \in UndoTree.live
<1>a. PICK L \in Nat \ {0} : L = Len(placer.stages)
  BY SessionShape
<1>1. UndoTarget = Last(placer.stages) /\ UndoTarget = placer.stages[L]
  BY <1>a DEF UndoTarget, Last
<1>2. /\ \A m \in 1..L : placer.stages[m] \in tree.live
      /\ \A m \in 1..L : placer.stages[m] \in tree.chain[placer.stages[L]]
      /\ TreeOK(tree)
  <2>1. L \in 1..L
    OBVIOUS
  <2> QED
    BY <1>a, <2>1 DEF Standing, StagesStand, StagesOrdered, AnySession
<1>3. \A m \in 1..L : UndoTarget \in tree.chain[placer.stages[m]] => placer.stages[m] = UndoTarget
  <2>1. L \in 1..L
    OBVIOUS
  <2>2. \A n \in tree.live : \A m \in tree.chain[n] : n \in tree.chain[m] => m = n
    BY <1>2 DEF TreeOK
  <2> QED
    BY <1>1, <1>2, <2>1, <2>2
<1>4. \A m \in tree.live :
         (UndoTarget \in tree.chain[m] => m = UndoTarget) => m \in UndoTree.live
  BY <1>1, UndoTreeOK DEF Subtree
<1> QED
  BY <1>a, <1>1, <1>2, <1>3, <1>4

(* What undo makes of the fixes.                                           *)
LEMMA UndoFixes ==
  ASSUME AnySession, InSession, Standing, UndoLastSegment
  PROVE  /\ LegsInForce' = LegsAt(Len(placer.stages))
         /\ Len(Popped(placer.stages)) = Len(fixes') + 1
         /\ Len(Popped(placer.stages)) =
              IF Len(placer.stages) > 1 THEN Len(placer.stages) - 1 ELSE 1
         /\ \A m \in 1..Len(Popped(placer.stages)) :
              /\ Popped(placer.stages)[m] = placer.stages[m]
              /\ LegsAt(m)' = LegsAt(m)
<1>a. PICK L \in Nat \ {0}, b \in Nat : L = Len(placer.stages) /\ b = Len(fixes)
  BY SessionShape
<1>1. L = b + 1
  BY <1>a DEF Standing, StagesStand
<1>2. /\ fixes \in Seq(BOOLEAN) /\ DOMAIN fixes = 1..b
      /\ fixes' = IF fixes = <<>> THEN <<>> ELSE Front(fixes)
  BY <1>a, SessionShape DEF TypeOK, UndoLastSegment
<1>3. /\ Len(Popped(placer.stages)) = IF L > 1 THEN L - 1 ELSE L
      /\ \A m \in 1..Len(Popped(placer.stages)) : Popped(placer.stages)[m] = placer.stages[m]
  BY <1>a, SessionShape, EmptySeq, PoppedOf
<1>4. CASE b = 0
  <2>1. fixes' = <<>>
    BY <1>a, <1>2, <1>4, EmptySeq
  <2>2. LegsInForce' = {}
    BY <2>1 DEF LegsInForce
  <2>3. L = 1 /\ Len(Popped(placer.stages)) = 1 /\ Len(fixes') = 0
    BY <1>1, <1>3, <1>4, <2>1
  <2>4. LegsAt(1) = {} /\ LegsAt(1)' = {}
    BY DEF LegsAt
  <2>5. LegsInForce' = LegsAt(Len(placer.stages))
    BY <1>a, <2>2, <2>3, <2>4
  <2>6. \A m \in 1..Len(Popped(placer.stages)) : m = 1
    BY <2>3
  <2>7. \A m \in 1..Len(Popped(placer.stages)) :
           /\ Popped(placer.stages)[m] = placer.stages[m]
           /\ LegsAt(m)' = LegsAt(m)
    BY <1>3, <2>4, <2>6
  <2>8. Len(placer.stages) = 1
    BY <1>a, <2>3
  <2> QED
    BY <2>3, <2>5, <2>7, <2>8
<1>5. CASE b # 0
  <2>1. fixes' = SubSeq(fixes, 1, b - 1) /\ b - 1 \in 0..b
    <3>1. fixes # <<>>
      BY <1>a, <1>5
    <3> QED
      BY <1>a, <1>2, <1>5, <3>1 DEF Front
  <2>2. /\ fixes' \in Seq(BOOLEAN) /\ Len(fixes') = b - 1
        /\ \A k \in 1..(b - 1) : fixes'[k] = fixes[k]
    BY <1>a, <1>2, <2>1, PrefixOf
  <2>3. DOMAIN fixes' = 1..(b - 1)
    BY <2>2, LenProperties
  <2>4. L > 1 /\ Len(Popped(placer.stages)) = L - 1 /\ L - 1 = Len(fixes') + 1 /\ L - 2 = b - 1
    BY <1>1, <1>3, <1>5, <2>2
  <2>5. LegsInForce' = LegsAt(L)
    BY <2>2, <2>3, <2>4 DEF LegsInForce, LegsAt
  <2>6. ASSUME NEW m \in 1..(L - 1) PROVE LegsAt(m)' = LegsAt(m)
    <3>1. \A k \in 1..(m - 2) : k \in 1..(b - 1)
      BY <2>4
    <3> QED
      BY <2>2, <3>1 DEF LegsAt
  <2> QED
    BY <1>a, <1>3, <2>4, <2>5, <2>6
<1> QED
  BY <1>4, <1>5

(* Undo never comes back to a node that is gone.                           *)
LEMMA UndoFinds ==
  ASSUME AnySession, InSession, Standing, phase = "placing"
  PROVE  UndoTarget \in UndoTree.live
<1>1. CASE mode # "shove"
  <2>1. Len(placer.stages) \in 1..Len(placer.stages)
    BY SessionShape
  <2> QED
    BY <1>1, <2>1, UndoStage
<1>2. CASE mode = "shove"
  <2>1. PICK k \in 0..Len(shove.stack) :
           UndoTarget = Ground(k) /\ \A i \in 0..k : Ground(i) \in UndoTree.live
    BY <1>2, UndoShove DEF UndoLands
  <2>2. k \in 0..k
    BY <2>1, SessionShape
  <2> QED
    BY <2>1, <2>2
<1> QED
  BY <1>1, <1>2

(* Undo: the fixes lose their last, the stages theirs but for the bottom   *)
(* one, and the node the placer comes back to has the legs that are left.  *)
LEMMA UndoStands ==
  ASSUME AnySession, InSession, Standing, Steady, UndoLastSegment
  PROVE  Standing'
<1>a. PICK L \in Nat \ {0}, n \in Nat : L = Len(placer.stages) /\ n = Len(shove.stack)
  BY SessionShape
<1>b. PICK M : M = Len(placer'.stages)
  OBVIOUS
<1>1. /\ phase = "placing" /\ phase' = "placing" /\ UndoTarget \in UndoTree.live
      /\ NewNode \in Node \ tree.live /\ NewNode # NoNode
      /\ tree'.live = UndoTree.live \cup {NewNode}
      /\ \A m \in UndoTree.live : /\ m \in tree.live
                                  /\ tree'.chain[m] = tree.chain[m]
                                  /\ tree'.view[m] = tree.view[m]
      /\ tree'.chain[NewNode] = tree.chain[UndoTarget] \cup {NewNode}
      /\ tree'.view[NewNode] = tree.view[UndoTarget]
      /\ UNCHANGED <<plan, mode, route>>
  BY UndoDoes
<1>2. /\ placer'.current = UndoTarget /\ placer'.last = NewNode
      /\ placer'.stages = Popped(placer.stages) /\ placer'.trace = "none"
      /\ placer'.shoveMode = placer.shoveMode
  BY UndoDoes
<1>3. /\ LegsInForce' = LegsAt(L) /\ M = Len(fixes') + 1
      /\ M = IF L > 1 THEN L - 1 ELSE 1
      /\ \A m \in 1..M : placer'.stages[m] = placer.stages[m] /\ LegsAt(m)' = LegsAt(m)
  BY <1>a, <1>b, <1>2, UndoFixes
<1>4. M \in 1..L /\ \A m \in 1..M : m \in 1..L /\ (m = 1 \/ m < L)
  BY <1>3
<1>5. /\ \A m \in 1..M : placer.stages[m] \in UndoTree.live
      /\ LegsIn(tree.view[UndoTarget]) = LegsAt(L)
  <2>1. CASE mode # "shove"
    <3>1. /\ UndoTarget = placer.stages[L]
          /\ \A m \in 1..L : placer.stages[m] \in UndoTree.live
      BY <1>a, <1>1, <2>1, UndoStage
    <3>2. LegsOf(placer.stages[L]) = LegsAt(L)
      <4>1. L \in 1..L
        OBVIOUS
      <4> QED
        BY <1>a, <4>1 DEF Standing, StagesStand
    <3> QED
      BY <1>4, <3>1, <3>2 DEF LegsOf
  <2>2. CASE mode = "shove"
    <3>1. PICK k \in 0..n :
             /\ UndoTarget = Ground(k) /\ LegsOf(Ground(k)) = LegsAt(L)
             /\ \A m \in 1..L : m = 1 \/ m < L => placer.stages[m] \in UndoTree.live
      BY <1>a, <1>1, <2>2, UndoShove DEF UndoLands
    <3> QED
      BY <1>4, <3>1 DEF LegsOf
  <2> QED
    BY <2>1, <2>2
<1>6. \A m \in 1..M : /\ placer.stages[m] \in tree'.live
                      /\ tree'.chain[placer.stages[m]] = tree.chain[placer.stages[m]]
                      /\ LegsIn(tree'.view[placer.stages[m]]) = LegsAt(m)
  <2>1. \A m \in 1..L : LegsIn(tree.view[placer.stages[m]]) = LegsAt(m)
    BY <1>a DEF Standing, StagesStand, LegsOf
  <2> QED
    BY <1>1, <1>4, <1>5, <2>1
<1>7. StagesStand'
  <2>1. placer'.shoveMode = (mode' = "shove")
    BY <1>1, <1>2 DEF Standing, StagesStand
  <2> QED
    BY <1>b, <1>3, <1>6, <2>1 DEF StagesStand, LegsOf
<1>8. HeadStands'
  <2>1. UndoTarget \in tree.chain[UndoTarget]
    BY <1>1 DEF AnySession, TreeOK
  <2> QED
    BY <1>1, <1>2, <1>3, <1>5, <2>1 DEF HeadStands, LegsOf
<1>9. ASSUME mode # "shove" PROVE StagesOrdered' /\ HeadOrdered'
  <2>1. /\ \A j \in 1..L : \A i \in 1..j : placer.stages[i] \in tree.chain[placer.stages[j]]
        /\ UndoTarget = placer.stages[L]
    BY <1>a, <1>1, <1>9, UndoStage DEF Standing, StagesOrdered
  <2>2. ASSUME NEW j \in 1..M, NEW i \in 1..j
        PROVE  placer'.stages[i] \in tree'.chain[placer'.stages[j]]
    <3>1. i \in 1..M /\ j \in 1..L
      BY <1>4
    <3> QED
      BY <1>3, <1>6, <2>1, <3>1
  <2>3. ASSUME NEW j \in 1..M PROVE placer'.stages[j] \in tree'.chain[UndoTarget]
    <3>1. L \in 1..L /\ j \in 1..L
      BY <1>4
    <3> QED
      BY <1>1, <1>3, <2>1, <3>1
  <2> QED
    BY <1>b, <1>1, <1>2, <2>2, <2>3 DEF StagesOrdered, HeadOrdered
<1>10. ASSUME mode = "shove" PROVE FramesStand' /\ StagesFramed' /\ ShoveStands'
  <2>1. PICK k \in 0..n :
           /\ UndoTarget = Ground(k)
           /\ \/ k = n /\ Last(placer.stages) \notin FrameNodes /\ shove.current = Ground(n)
              \/ k < n /\ shove.stack[k + 1].node = Last(placer.stages)
           /\ \A i \in 0..k : Ground(i) \in UndoTree.live
           /\ \A m \in 2..(L - 1) : \E f \in 1..(k - 1) :
                /\ shove.stack[f].node = placer.stages[m]
                /\ ~shove.stack[f].locked /\ shove.stack[f + 1].locked
           /\ \A i \in 1..k : shove.stack[i].locked =>
                \E m \in 2..(L - 1) : i > 1 /\ shove.stack[i - 1].node = placer.stages[m]
    <3>1. UndoLands(L, n)
      BY <1>a, <1>1, <1>10, UndoShove
    <3> QED
      BY <3>1, Zenon DEF UndoLands
  <2>2. /\ FramesStand /\ StagesFramed
        /\ \A i \in 1..n, j \in 1..n : shove.stack[i].node = shove.stack[j].node => i = j
        /\ \A i \in 1..n : shove.stack[i].node \in FrameNodes
    <3>1. FramesStand /\ StagesFramed
      BY <1>10 DEF Standing
    <3> QED
      BY <1>a, <3>1, SessionShape, FramesDistinct DEF FramesStand
  <2>3. /\ Len(shove'.stack) = k /\ shove'.root = shove.root /\ shove'.current = Ground(k)
        /\ \A i \in 1..k : shove'.stack[i] = shove.stack[i]
    <3>0. PICK stage : stage = Last(placer.stages)
      OBVIOUS
    <3>1. CASE stage \notin FrameNodes /\ shove' = shove
      <4>1. k = n /\ shove.current = Ground(n)
        <5>1. k < n => k + 1 \in 1..n
          OBVIOUS
        <5> QED
          BY <2>1, <2>2, <3>0, <3>1, <5>1
      <4> QED
        BY <1>a, <3>1, <4>1
    <3>2. CASE \E e \in 0..(n - 1) :
                 /\ shove.stack[e + 1].node = stage
                 /\ shove' = [root |-> shove.root, current |-> Ground(e),
                              stack |-> SubSeq(shove.stack, 1, e)]
      <4>1. PICK e \in 0..(n - 1) :
                 /\ shove.stack[e + 1].node = stage
                 /\ shove' = [root |-> shove.root, current |-> Ground(e),
                              stack |-> SubSeq(shove.stack, 1, e)]
        BY <3>2
      <4>2. e + 1 \in 1..n /\ (k < n => k + 1 \in 1..n)
        OBVIOUS
      <4>3. k + 1 = e + 1
        BY <2>1, <2>2, <3>0, <4>1, <4>2
      <4>4. e = k /\ e \in 0..Len(shove.stack)
        BY <1>a, <4>3
      <4>5. /\ Len(SubSeq(shove.stack, 1, e)) = e
            /\ \A i \in 1..e : SubSeq(shove.stack, 1, e)[i] = shove.stack[i]
        BY <4>4, SessionShape, PrefixOf
      <4> QED
        BY <4>1, <4>4, <4>5
    <3>3. \/ stage \notin FrameNodes /\ shove' = shove
          \/ \E e \in 0..(n - 1) :
                 /\ shove.stack[e + 1].node = stage
                 /\ shove' = [root |-> shove.root, current |-> Ground(e),
                              stack |-> SubSeq(shove.stack, 1, e)]
      BY <1>a, <3>0, UndoDoes
    <3> QED
      BY <3>1, <3>2, <3>3
  <2>4. \A i \in 0..k : Ground(i)' = Ground(i)
    BY <2>3 DEF Ground
  <2>5. \A i \in 0..k : /\ Ground(i) \in tree'.live
                        /\ LegsIn(tree'.view[Ground(i)]) = LegsOf(Ground(i))
    BY <1>1, <2>1 DEF LegsOf
  <2>6. FramesStand'
    <3>1. \A i \in 0..k : Ground(i)' \in tree'.live
      BY <2>4, <2>5
    <3>2. placer'.stages[1] \in tree'.chain[shove'.root] \ {shove'.root}
      <4>1. Ground(0) \in UndoTree.live /\ Ground(0) = shove.root
        BY <2>1, SessionShape
      <4>2. placer'.stages[1] = placer.stages[1]
        BY <1>3, <1>4
      <4> QED
        BY <1>1, <2>2, <2>3, <4>1, <4>2 DEF FramesStand
    <3>3. LegsOf(Ground(k))' = LegsInForce'
      <4>1. k \in 0..k
        OBVIOUS
      <4> QED
        BY <1>1, <1>3, <1>5, <2>1, <2>4, <4>1 DEF LegsOf
    <3>4. ASSUME NEW i \in 0..k, NEW j \in 0..k, i < j,
                 \A l \in (i + 1)..j : ~shove'.stack[l].locked
          PROVE  LegsOf(Ground(i))' = LegsOf(Ground(j))'
      <4>1. \A l \in (i + 1)..j : ~shove.stack[l].locked
        <5>1. \A l \in (i + 1)..j : l \in 1..k
          OBVIOUS
        <5> QED
          BY <2>3, <3>4, <5>1
      <4>2. i \in 0..n /\ j \in 0..n
        OBVIOUS
      <4>3. LegsOf(Ground(i)) = LegsOf(Ground(j))
        BY <1>a, <2>2, <3>4, <4>1, <4>2 DEF FramesStand
      <4> QED
        BY <2>4, <2>5, <4>3 DEF LegsOf
    <3> QED
      BY <2>3, <3>1, <3>2, <3>3, <3>4 DEF FramesStand
  <2>7. /\ \A m \in 2..M : m \in 2..(L - 1) /\ m \in 1..M
        /\ \A m \in 2..(L - 1) : m \in 2..M
    BY <1>3
  <2>8. StagesFramed'
    <3>1. ASSUME NEW m \in 2..M
          PROVE  \E f \in 1..(k - 1) :
                    /\ shove'.stack[f].node = placer'.stages[m]
                    /\ ~shove'.stack[f].locked /\ shove'.stack[f + 1].locked
      <4>1. PICK f \in 1..(k - 1) :
                    /\ shove.stack[f].node = placer.stages[m]
                    /\ ~shove.stack[f].locked /\ shove.stack[f + 1].locked
        BY <2>1, <2>7
      <4>2. f \in 1..k /\ f + 1 \in 1..k
        OBVIOUS
      <4> QED
        BY <1>3, <2>3, <2>7, <4>1, <4>2
    <3>2. ASSUME NEW i \in 1..k, shove'.stack[i].locked
          PROVE  \E m \in 2..M : i > 1 /\ shove'.stack[i - 1].node = placer'.stages[m]
      <4>1. PICK m \in 2..(L - 1) : i > 1 /\ shove.stack[i - 1].node = placer.stages[m]
        BY <2>1, <2>3, <3>2
      <4>2. i - 1 \in 1..k /\ m \in 2..M /\ m \in 1..M
        BY <2>7, <4>1
      <4> QED
        BY <1>3, <2>3, <4>1, <4>2
    <3>3. ASSUME NEW m \in 2..M, NEW f \in 1..k, NEW g \in 1..k,
                 shove'.stack[f].node = placer'.stages[m],
                 NEW l \in (m + 1)..M, shove'.stack[g].node = placer'.stages[l]
          PROVE  f + 1 < g
      <4>1. /\ m \in 1..M /\ l \in 1..M /\ m \in 2..L /\ l \in (m + 1)..L
            /\ f \in 1..n /\ g \in 1..n
        BY <1>4
      <4>2. shove.stack[f].node = placer.stages[m] /\ shove.stack[g].node = placer.stages[l]
        BY <1>3, <2>3, <3>3, <4>1
      <4> QED
        BY <1>a, <2>2, <4>1, <4>2 DEF StagesFramed
    <3>4. \A m \in 2..M, f \in 1..k, g \in 1..k :
             (/\ shove'.stack[f].node = placer'.stages[m]
              /\ \E l \in (m + 1)..M : shove'.stack[g].node = placer'.stages[l])
                => f + 1 < g
      BY <3>3
    <3>5. Len(shove'.stack) = k /\ Len(placer'.stages) = M
      BY <1>b, <2>3
    <3>6. \A i \in 1..k : shove'.stack[i].locked =>
             \E m \in 2..M : i > 1 /\ shove'.stack[i - 1].node = placer'.stages[m]
      BY <3>2
    <3> QED
      BY <3>1, <3>4, <3>5, <3>6 DEF StagesFramed
  <2>9. ShoveStands'
    <3>1. k \in 0..k
      OBVIOUS
    <3> QED
      BY <1>1, <1>2, <2>3, <2>4, <3>1 DEF ShoveStands
  <2> QED
    BY <2>6, <2>8, <2>9
<1> QED
  BY <1>1, <1>7, <1>8, <1>9, <1>10 DEF Standing

(* No call of a steady session finds a node gone.                          *)
LEMMA NoPanics ==
  ASSUME AnySession, InSession, Standing, Steady
  PROVE  ~MovePanics /\ ~UndoPanics /\ \A k \in Kept : ~ShovePanics(k)
<1>1. ~MovePanics
  BY DEF MovePanics, Standing, HeadStands
<1>2. ~UndoPanics
  BY UndoFinds DEF UndoPanics
<1>3. ASSUME NEW k \in Kept PROVE ~ShovePanics(k)
  <2>1. SUFFICES ASSUME mode = "shove" PROVE Ground(k) \in Reduced(k).live
    BY DEF ShovePanics
  <2>2. k \in 0..Len(shove.stack) /\ k \in 0..k
    BY KeptIndex DEF AnySession
  <2>3. Ground(k) \in tree.live
    BY <2>1, <2>2 DEF Standing, FramesStand
  <2> QED
    BY <2>2, <2>3, GroundKept
<1> QED
  BY <1>1, <1>2, <1>3

(* A step begins a session, leaves it as it was, ends it, or is one of the *)
(* steps above.                                                            *)
LEMMA StepSteady == AnySession /\ SteadySession /\ [Next]_vars => SteadySession'
<1> SUFFICES ASSUME AnySession, SteadySession, [Next]_vars PROVE SteadySession'
  OBVIOUS
<1>1. CASE UNCHANGED vars
  <2>0. UNCHANGED <<plan, tree, phase, mode, placer, shove, route, fixes>>
    BY <1>1 DEF vars
  <2>1. Steady' = Steady /\ InSession' = InSession
    BY <2>0 DEF Steady, InSession
  <2>2. /\ LegsInForce' = LegsInForce
        /\ \A m : LegsAt(m)' = LegsAt(m) /\ LegsOf(m)' = LegsOf(m) /\ Ground(m)' = Ground(m)
    BY <2>0 DEF LegsInForce, LegsAt, LegsOf, Ground
  <2>3. ASSUME Standing PROVE Standing'
    <3>1. StagesStand'
      BY <2>0, <2>2, <2>3 DEF Standing, StagesStand
    <3>2. HeadStands'
      BY <2>0, <2>2, <2>3 DEF Standing, HeadStands
    <3>3. mode # "shove" => StagesOrdered' /\ HeadOrdered'
      BY <2>0, <2>3 DEF Standing, StagesOrdered, HeadOrdered
    <3>4. mode = "shove" => FramesStand'
      BY <2>0, <2>2, <2>3 DEF Standing, FramesStand
    <3>5. mode = "shove" => StagesFramed'
      BY <2>0, <2>3 DEF Standing, StagesFramed
    <3>6. mode = "shove" => ShoveStands'
      BY <2>0, <2>2, <2>3 DEF Standing, ShoveStands, OnTop
    <3> QED
      BY <2>0, <3>1, <3>2, <3>3, <3>4, <3>5, <3>6 DEF Standing
  <2> QED
    BY <2>0, <2>1, <2>3 DEF SteadySession
<1>2. CASE phase' \in {"idle", "over"}
  BY <1>2 DEF SteadySession, InSession
<1>3. CASE /\ Next
           /\ phase' \notin {"idle", "over"}
  <2>1. Steady' = Steady
    <3>1. plan' = plan
      BY <1>3 DEF Next, Start, SetMode, MoveTo, ShovePanics, RouteShove, MoveEnds, MovePanics,
           FixNothing, FixEnd, FixLeg, UndoLastSegment, UndoPanics, Stop, Abort
    <3> QED
      BY <3>1 DEF Steady
  <2>2. SUFFICES ASSUME Steady PROVE phase' # "panicked" /\ (InSession' => Standing')
    BY <2>1 DEF SteadySession
  <2>3. CASE \E cut \in SUBSET {Cut} : Start(cut)
    BY <2>3, StartStands DEF Start
  <2>4. CASE ~(\E cut \in SUBSET {Cut} : Start(cut))
    <3>1. InSession
      BY <1>3, <2>4 DEF Next, SetMode, MoveTo, ShovePanics, RouteShove, MoveEnds, MovePanics,
           FixNothing, FixEnd, StopRouting, FixLeg, UndoLastSegment, UndoPanics, Stop, Abort,
           InSession
    <3>2. Standing
      BY <2>2, <3>1 DEF SteadySession
    <3>3. ~MovePanics /\ ~UndoPanics /\ \A k \in Kept : ~ShovePanics(k)
      BY <2>2, <3>1, <3>2, NoPanics
    <3>4. CASE \E m \in Mode : SetMode(m)
      BY <2>2, <3>1, <3>2, <3>4, SetModeStands DEF SetMode, InSession
    <3>5. CASE MoveTo
      BY <2>2, <3>1, <3>2, <3>5, MoveToStands DEF MoveTo
    <3>6. CASE \E k \in Kept, outcome \in plan.outcomes \ {"blocked"},
                  pushed \in SUBSET {Push(Pending)} : RouteShove(k, outcome, pushed)
      BY <2>2, <3>1, <3>2, <3>6, RouteShoveStands, ZenonT(60) DEF RouteShove
    <3>7. CASE \E trace \in Trace, tidied \in SUBSET {Tidy(Pending)} : MoveEnds(trace, tidied)
      BY <2>2, <3>1, <3>2, <3>7, MoveEndsStands DEF MoveEnds
    <3>8. CASE \E tidied \in SUBSET {Tidy(Pending)}, adopts \in BOOLEAN :
                  FixNothing(tidied, adopts)
      BY <2>2, <3>1, <3>2, <3>8, FixNothingStands DEF FixNothing
    <3>9. CASE \E adopts \in BOOLEAN : FixLeg(adopts)
      BY <2>2, <3>1, <3>2, <3>9, FixLegStands DEF FixLeg
    <3>10. CASE UndoLastSegment
      BY <2>2, <3>1, <3>2, <3>10, UndoStands DEF UndoLastSegment
    <3>11. CASE \/ Stop \/ Abort
                \/ \E tidied \in SUBSET {Tidy(Pending)}, adopts \in BOOLEAN :
                     FixEnd(tidied, adopts)
      BY <1>3, <3>11 DEF Stop, Abort, FixEnd, StopRouting
    <3> QED
      BY <1>3, <2>4, <3>3, <3>4, <3>5, <3>6, <3>7, <3>8, <3>9, <3>10, <3>11 DEF Next
  <2> QED
    BY <2>3, <2>4
<1> QED
  BY <1>1, <1>2, <1>3

(* What the commit puts on the board, in whichever mode, shows the legs in *)
(* force: the scratch branch does, and so does the last locked frame, as   *)
(* every frame above it is unlocked.                                       *)
LEMMA LastLockedStands ==
  ASSUME AnySession, InSession, Standing, mode = "shove"
  PROVE  /\ LastLocked(shove) \in tree.live \ {Root}
         /\ LegsOf(LastLocked(shove)) = LegsInForce
<1>a. PICK n \in Nat : n = Len(shove.stack)
  BY SessionShape
<1>1. FramesStand /\ ShoveStands
  BY DEF Standing
<1>2. /\ \A i \in 0..n : Ground(i) \in tree.live
      /\ LegsOf(Ground(n)) = LegsInForce
      /\ \A i \in 0..n, j \in 0..n :
           i < j /\ (\A l \in (i + 1)..j : ~shove.stack[l].locked)
             => LegsOf(Ground(i)) = LegsOf(Ground(j))
  BY <1>a, <1>1 DEF FramesStand
<1>3. CASE shove.stack = <<>>
  <2>1. LastLocked(shove) = shove.current /\ n = 0
    BY <1>a, <1>3 DEF LastLocked
  <2>2. shove.current = Ground(0) /\ Ground(0) = shove.root
    BY <1>a, <1>1, <1>3, <2>1, SessionShape DEF ShoveStands
  <2>3. shove.root # Root
    <3>1. placer.stages[1] \in tree.chain[shove.root] \ {shove.root}
      BY <1>1 DEF FramesStand
    <3>2. tree.chain[Root] = {Root}
      BY DEF AnySession, TreeOK
    <3> QED
      BY <3>1, <3>2
  <2> QED
    BY <1>2, <2>1, <2>2, <2>3
<1>4. CASE shove.stack # <<>>
  <2> DEFINE locked == {i \in DOMAIN shove.stack : shove.stack[i].locked}
  <2>1. DOMAIN shove.stack = 1..n /\ n \in 1..n
    BY <1>a, <1>4, SessionShape, EmptySeq, LenProperties
  <2>2. PICK top : top = Max(locked \cup {1})
    OBVIOUS
  <2>3. top \in locked \cup {1} /\ \A i \in locked : i <= top
    <3>1. locked \cup {1} \in SUBSET Nat /\ \A i \in locked \cup {1} : i <= n
      BY <2>1
    <3> HIDE DEF locked
    <3> QED
      BY <2>2, <3>1, MaxOfNat
  <2>4. top \in 1..n /\ \A l \in (top + 1)..n : ~shove.stack[l].locked
    BY <2>1, <2>3
  <2>5. LastLocked(shove) = shove.stack[top].node
    BY <1>4, <2>2 DEF LastLocked
  <2>6. /\ LastLocked(shove) = Ground(top)
        /\ Ground(top) \in FrameNodes /\ Root \notin FrameNodes
    BY <1>a, <2>4, <2>5, SessionShape DEF AnySession, FramesOrdered
  <2>7. LegsOf(Ground(top)) = LegsInForce
    <3>1. top \in 0..n /\ n \in 0..n /\ (top = n \/ top < n)
      BY <2>4
    <3> QED
      BY <1>2, <2>4, <3>1
  <2>8. Ground(top) \in tree.live
    BY <1>2, <2>4
  <2> QED
    BY <2>6, <2>7, <2>8
<1> QED
  BY <1>3, <1>4

(* After a fix the last locked frame is the one it pushed.                 *)
LEMMA LockedLast ==
  ASSUME NEW n \in Node, NEW s \in [root : NodeOrNone, current : NodeOrNone, stack : Seq(Frame)]
  PROVE  LastLocked(Locked(s, n)) = n
<1> DEFINE top == [node |-> n, locked |-> TRUE]
           t == Locked(s, n)
           locked == {i \in DOMAIN t.stack : t.stack[i].locked}
<1>1. PICK b \in Nat : b = Len(s.stack)
  BY LenProperties
<1>2. /\ t.stack \in Seq(Frame) /\ Len(t.stack) = b + 1 /\ t.stack[b + 1] = top
  <2>1. t.stack = Append(s.stack, top)
    BY LockedOK
  <2> HIDE DEF t
  <2> QED
    BY <1>1, <2>1, LockedOK
<1> HIDE DEF t
<1>3. DOMAIN t.stack = 1..(b + 1) /\ t.stack # <<>>
  <2>1. DOMAIN t.stack = 1..(b + 1)
    BY <1>2, LenProperties
  <2> QED
    BY <1>2, <2>1, EmptySeq
<1>4. b + 1 \in locked /\ \A i \in locked : i \in Nat /\ i <= b + 1
  BY <1>2, <1>3
<1>5. Max(locked \cup {1}) = b + 1
  <2>1. PICK S : S = locked \cup {1}
    OBVIOUS
  <2>2. S \in SUBSET Nat /\ S # {} /\ b + 1 \in S /\ \A i \in S : i <= b + 1
    BY <1>4, <2>1
  <2> HIDE DEF locked
  <2>3. Max(S) \in S /\ \A i \in S : i <= Max(S)
    <3>1. b + 1 \in Nat
      OBVIOUS
    <3> QED
      BY <2>2, <3>1, MaxOfNat
  <2>4. Max(S) = b + 1
    <3>1. Max(S) \in Nat
      BY <2>2, <2>3
    <3>2. b + 1 <= Max(S) /\ Max(S) <= b + 1
      BY <2>2, <2>3
    <3> QED
      BY <3>1, <3>2
  <2> QED
    BY <2>1, <2>4
<1>6. LastLocked(t) = t.stack[Max(locked \cup {1})].node
  BY <1>3 DEF LastLocked
<1> HIDE DEF locked
<1>7. LastLocked(t) = n
  BY <1>2, <1>5, <1>6
<1> QED
  BY <1>7 DEF t

(* A stop commits the scratch branch or the last locked frame.             *)
LEMMA StopKeeps ==
  ASSUME AnySession, SteadySession, Steady, Stop
  PROVE  LegsOf(Root)' = LegsInForce'
<1>1. /\ phase = "placing" /\ placer' = placer /\ StopRouting(tree, CommitNode, HasPlaced)
      /\ fixes' = fixes /\ host \subseteq Fact
  BY DEF Stop, AnySession, TypeOK
<1>2. InSession /\ Standing
  BY <1>1 DEF InSession, SteadySession
<1>3. tree'.view[Root] = IF CommitNode \in tree.live \ {Root} THEN tree.view[CommitNode]
                                                              ELSE tree.view[Root]
  BY <1>1, StopRoutingOK DEF AnySession
<1>4. LegsInForce' = LegsInForce
  BY <1>1 DEF LegsInForce
<1>5. CASE mode = "shove"
  <2>1. CommitNode = LastLocked(shove)
    BY <1>2, <1>5 DEF CommitNode, Standing, StagesStand
  <2> QED
    BY <1>2, <1>3, <1>4, <1>5, <2>1, LastLockedStands DEF LegsOf
<1>6. CASE mode # "shove"
  <2>1. CommitNode = placer.last
    BY <1>2, <1>6 DEF CommitNode, Standing, StagesStand
  <2>2. CASE placer.last = NoNode
    <3>1. NoNode \notin tree.live
      BY <1>2, SessionShape, NodeType DEF TreeOK, Tree
    <3>2. LegsIn(tree.view[Root]) = {}
      <4>1. tree.view[Root] \subseteq {Net, Cut}
        BY <1>1 DEF AnySession, BoardWaits
      <4> QED
        BY <4>1, LegsInNone
    <3>3. LegsInForce = {}
      BY <1>1, <1>2, <2>2 DEF Standing, HeadStands, LegsInForce
    <3> QED
      BY <1>3, <1>4, <2>1, <2>2, <3>1, <3>2, <3>3 DEF LegsOf
  <2>3. CASE placer.last # NoNode
    <3>1. placer.last \in tree.live \ {Root}
      BY <1>2, <2>3 DEF AnySession, ScratchOwned
    <3>2. LegsOf(placer.last) = LegsInForce
      BY <1>1, <1>2, <2>3 DEF Standing, HeadStands
    <3> QED
      BY <1>3, <1>4, <2>1, <3>1, <3>2 DEF LegsOf
  <2> QED
    BY <2>2, <2>3
<1> QED
  BY <1>5, <1>6

(* A fix that ends the session commits the scratch branch it has written   *)
(* the last leg into, in either mode.                                      *)
LEMMA FixEndKeeps ==
  ASSUME AnySession, SteadySession, Steady, NEW tidied \in SUBSET {Tidy(Pending)},
         NEW adopts \in BOOLEAN, FixEnd(tidied, adopts)
  PROVE  LegsOf(Root)' = LegsInForce'
<1>1. PICK placed : placed = Written(Adopted(tree, adopts), FixedInto, NewLeg \cup tidied)
  OBVIOUS
<1>2. PICK committed : committed = IF mode = "shove" THEN LastLocked(shove') ELSE placer.last
  OBVIOUS
<1>3. /\ phase = "placing" /\ placer.last # NoNode /\ Len(fixes) < plan.fixes
      /\ shove' = Locked(shove, placer.last) /\ StopRouting(placed, committed, TRUE)
      /\ fixes' = Append(fixes, placer.trace # "dot")
  BY <1>1, <1>2 DEF FixEnd
<1>4. /\ InSession /\ Standing /\ NewLeg \cup tidied \in SUBSET Fact /\ host \subseteq Fact
      /\ shove \in [root : NodeOrNone, current : NodeOrNone, stack : Seq(Frame)]
  BY <1>3, FactType DEF InSession, SteadySession, AnySession, TypeOK, NewLeg
<1>5. /\ TreeOK(placed) /\ placed.live = tree.live
      /\ placed.view[placer.last] \ {Net}
           = (tree.view[placer.last] \cup (NewLeg \cup tidied)) \ {Net}
      /\ placer.last \in Node \ {Root}
  BY <1>1, <1>3, <1>4, FixWrites
<1>6. committed = placer.last
  BY <1>2, <1>3, <1>4, <1>5, LockedLast
<1>7. placer.last \in placed.live \ {Root}
  BY <1>3, <1>4, <1>5 DEF AnySession, ScratchOwned
<1>8. tree'.view[Root] = placed.view[placer.last]
  BY <1>3, <1>4, <1>5, <1>6, <1>7, StopRoutingOK
<1>9. LegsIn(placed.view[placer.last]) = LegsInForce'
  <2>1. PICK S : S = tree.view[placer.last] \cup NewLeg
    OBVIOUS
  <2>2. LegsIn(S) = LegsInForce'
    BY <1>3, <1>4, <2>1, LegAdded
  <2>3. PICK T : T = placed.view[placer.last]
    OBVIOUS
  <2>4. T \ {Net} = (S \cup tidied) \ {Net}
    BY <1>5, <2>1, <2>3
  <2>5. tidied \subseteq {Net, Cut} \cup {Push(Pending), Tidy(Pending)}
    OBVIOUS
  <2>6. LegsIn(T) = LegsIn(S)
    BY <2>4, <2>5, LegsInSame, Zenon
  <2> QED
    BY <2>2, <2>3, <2>6
<1> QED
  BY <1>8, <1>9 DEF LegsOf

LEMMA CommitStep ==
  AnySession /\ SteadySession /\ CommitKeepsFixes /\ [Next]_vars => CommitKeepsFixes'
<1> SUFFICES ASSUME AnySession, SteadySession, CommitKeepsFixes, [Next]_vars
             PROVE  CommitKeepsFixes'
  OBVIOUS
<1>1. CASE ended'.by # "commit"
  BY <1>1 DEF CommitKeepsFixes
<1>2. CASE UNCHANGED <<tree, host, ended, placer, fixes, plan>>
  BY <1>2 DEF CommitKeepsFixes, Steady, LegsOf, LegsInForce
<1>3. CASE Stop
  <2>1. Steady' = Steady
    BY <1>3 DEF Stop, Steady
  <2> QED
    BY <1>3, <2>1, StopMatches, StopKeeps DEF CommitKeepsFixes
<1>4. ASSUME NEW tidied \in SUBSET {Tidy(Pending)}, NEW adopts \in BOOLEAN,
             FixEnd(tidied, adopts)
      PROVE  CommitKeepsFixes'
  <2>1. Steady' = Steady
    BY <1>4 DEF FixEnd, Steady
  <2>2. tree'.live = {Root}
    BY <1>4, StopMatches
  <2>3. Steady => LegsOf(Root)' = LegsInForce'
    BY <1>4, FixEndKeeps
  <2> QED
    BY <2>1, <2>2, <2>3 DEF CommitKeepsFixes
<1> QED
  BY <1>1, <1>2, <1>3, <1>4, EndedBy DEF Abort
----------------------------------------------------------------------------
(* Theorem.  A steady session never panics, and while it is under way its  *)
(* stages, its head and its springback frames stand as the code takes for  *)
(* granted: the inductive invariant behind the theorems below.             *)
THEOREM SteadySessionHolds == Spec => []SteadySession
<1>1. Init => SteadySession
  BY DEF Init, SteadySession, InSession
<1>2. AnySession /\ SteadySession /\ [Next]_vars => SteadySession'
  BY StepSteady
<1> QED
  BY <1>1, <1>2, AnySessionHolds, PTL DEF Spec

(* Theorem.  In a steady session every handle the placer or the shove may  *)
(* come back to between two events is live, and no call branches off a     *)
(* node that is gone: LinePlacer::undo_last_segment, move_to, Shove::run.  *)
THEOREM NoStaleHandleHolds == Spec => []NoStaleHandle
<1>1. AnySession /\ SteadySession => NoStaleHandle
  <2> SUFFICES ASSUME AnySession, SteadySession, Steady, phase = "placing"
               PROVE  /\ placer.current \in tree.live
                      /\ placer.last \in tree.live \cup {NoNode}
                      /\ ToSet(placer.stages) \subseteq tree.live
                      /\ mode = "shove" =>
                           FrameNodes \cup {shove.root, shove.current} \subseteq tree.live
    BY DEF NoStaleHandle, SteadySession
  <2>1. InSession /\ Standing
    BY DEF SteadySession, InSession
  <2>2. placer.current \in tree.live
    BY <2>1 DEF Standing, HeadStands
  <2>3. placer.last \in tree.live \cup {NoNode}
    BY <2>1 DEF AnySession, ScratchOwned
  <2>4. ToSet(placer.stages) \subseteq tree.live
    BY <2>1, StagesOf DEF AnySession, TypeOK, Standing, StagesStand
  <2>5. ASSUME mode = "shove"
        PROVE  FrameNodes \cup {shove.root, shove.current} \subseteq tree.live
    <3>a. PICK n \in Nat : n = Len(shove.stack)
      BY <2>1, SessionShape
    <3>1. (\A i \in 0..n : Ground(i) \in tree.live) /\ ShoveStands
      BY <2>1, <2>5, <3>a DEF Standing, FramesStand
    <3>2. shove.root \in tree.live
      <4>1. 0 \in 0..n /\ Ground(0) = shove.root
        BY <2>1, SessionShape
      <4> QED
        BY <3>1, <4>1
    <3>3. FrameNodes \subseteq tree.live
      <4>1. \A f \in FrameNodes : \E i \in 1..Len(shove.stack) : f = shove.stack[i].node
        BY FramesOf DEF AnySession, TypeOK
      <4>2. \A i \in 1..n : Ground(i) = shove.stack[i].node /\ i \in 0..n
        BY <2>1, <3>a, SessionShape
      <4> QED
        BY <3>1, <3>a, <4>1, <4>2
    <3>4. shove.current \in tree.live
      <4>1. n \in 0..n /\ (shove.stack # <<>> => n - 1 \in 0..n)
        <5>1. shove.stack # <<>> => n # 0
          BY <2>1, <3>a, SessionShape, EmptySeq
        <5> QED
          BY <5>1
      <4> QED
        BY <3>1, <3>a, <4>1 DEF ShoveStands
    <3> QED
      BY <3>2, <3>3, <3>4
  <2> QED
    BY <2>2, <2>3, <2>4, <2>5
<1> QED
  BY <1>1, AnySessionHolds, SteadySessionHolds, PTL

(* Theorem.  In a steady session the board the user routes on shows the    *)
(* legs that were fixed and not undone, neither more nor fewer:            *)
(* LinePlacer::fix_route, undo_last_segment and the passes between them.   *)
THEOREM FixesStandHolds == Spec => []FixesStand
<1>1. SteadySession => FixesStand
  BY DEF SteadySession, FixesStand, InSession, Standing, HeadStands
<1> QED
  BY <1>1, SteadySessionHolds, PTL

(* Theorem.  A commit leaves the root alone in the world, and in a steady  *)
(* session it has put exactly the legs in force on the board, whether the  *)
(* scratch branch or the last locked springback frame was committed.       *)
THEOREM CommitKeepsFixesHolds == Spec => []CommitKeepsFixes
<1>1. Init => CommitKeepsFixes
  BY DEF Init, CommitKeepsFixes
<1>2. AnySession /\ SteadySession /\ CommitKeepsFixes /\ [Next]_vars => CommitKeepsFixes'
  BY CommitStep
<1> QED
  BY <1>1, <1>2, AnySessionHolds, SteadySessionHolds, PTL DEF Spec

=============================================================================
