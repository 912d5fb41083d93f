------------------------------ MODULE JointMap ------------------------------
(***************************************************************************)
(* The joints under one key, a position and a net, in every node of the    *)
(* branching world: JointMap of src/src/joint.rs as src/src/node.rs uses   *)
(* it.  Keys do not affect each other, so one key stands for all.  A       *)
(* branch owns nothing under the key until it touches it; from then on its *)
(* own bucket, be it empty, hides the root's.  A layer range is the set of *)
(* its layers, the undefined one the empty set.                            *)
(***************************************************************************)
EXTENDS Integers, SequencesExt, FiniteSetsExt

CONSTANTS Item,     \* what may end at the key's position
          Layers,   \* the layers of each item
          Through,  \* the vias and routable solids among them
          Node,     \* node handles
          Root,
          MaxLayer, \* layers are 0..MaxLayer
          MaxJoints \* bound: joints in a bucket after an item was added

Ranges == {a..b : a \in 0..MaxLayer, b \in -1..MaxLayer}

ASSUME AssumeItems == /\ Layers \in [Item -> Ranges \ {{}}]
                      /\ Through \subseteq Item /\ IsFiniteSet(Item)
                      /\ Root \in Node
                      /\ {MaxLayer, MaxJoints} \subseteq Nat

VARIABLES live,    \* nodes alive
          chain,   \* a node, the branches it was taken from, not the root
          shows,   \* the items each node shows
          has,     \* nodes whose own map has the key
          bucket   \* their joints under it

vars == <<live, chain, shows, has, bucket>>

Joint == [layers : Ranges, links : Seq(Item), locked : BOOLEAN]

TypeOK == /\ live \subseteq Node /\ Root \in live
          /\ chain \in [Node -> SUBSET (Node \ {Root})]
          /\ shows \in [Node -> SUBSET Item]
          /\ has \subseteq live
          /\ bucket \in [Node -> Seq(Joint)]

Init == /\ live = {Root}
        /\ chain = [n \in Node |-> {}]
        /\ shows = [n \in Node |-> {}]
        /\ has = {}
        /\ bucket = [n \in Node |-> <<>>]

Leaf(n) == n \in live /\ \A m \in live \ {n, Root} : n # Root /\ n \notin chain[m]
----------------------------------------------------------------------------
Overlapping(b, layers) == {i \in DOMAIN b : b[i].layers \cap layers # {}}

(* Mutant of Touched: only the first joint the layers overlap is merged.   *)
TouchedOne(b, layers) ==
    IF Overlapping(b, layers) = {}
    THEN Append(b, [layers |-> layers, links |-> <<>>, locked |-> FALSE])
    ELSE [b EXCEPT ![Min(Overlapping(b, layers))].layers = @ \cup layers]

Merged(j, other) == [layers |-> j.layers \cup other.layers,
                     links  |-> j.links \o other.links,
                     locked |-> j.locked \/ other.locked]

(* JointMap::touch_joint: the first joint the layers overlap absorbs the   *)
(* layers and the others they overlap.  Taken(k, t) is what has become of  *)
(* the first k joints if t is what became of those before the k-th.        *)
Taken(b, layers, k, t) ==
    LET first == Min(Overlapping(b, layers))
    IN  IF k \in Overlapping(b, layers) \ {first}
        THEN [t EXCEPT ![first] = Merged(@, b[k])]
        ELSE Append(t, IF k = first THEN [b[k] EXCEPT !.layers = @ \cup layers] ELSE b[k])

Touched(b, layers) ==
    LET taken[k \in 0..Len(b)] == IF k = 0 THEN <<>> ELSE Taken(b, layers, k, taken[k - 1])
    IN  IF Overlapping(b, layers) = {}
        THEN Append(b, [layers |-> layers, links |-> <<>>, locked |-> FALSE])
        ELSE taken[Len(b)]

(* touch_joint, and then something done to the joint it returned.          *)
Changed(b, layers, Change(_)) ==
    LET t == Touched(b, layers)
        at == Min(Overlapping(t, layers))
    IN  [t EXCEPT ![at] = Change(@)]

(* JointMap::link_joint *)
Linked(b, item) ==
    Changed(b, Layers[item], LAMBDA j :
        IF item \in ToSet(j.links) THEN j ELSE [j EXCEPT !.links = Append(@, item)])

(* JointMap::unlink_joint: a joint without links belongs to no layer.      *)
Unlinked(b, item) ==
    Changed(b, Layers[item], LAMBDA j :
        LET links == IF item \in ToSet(j.links) THEN RemoveFirst(j.links, item) ELSE j.links
        IN  [j EXCEPT !.links = links, !.layers = IF links = <<>> THEN {} ELSE @])

(* JointMap::lock_joint; the program only ever locks.                      *)
Locked(b, item) == Changed(b, Layers[item], LAMBDA j : [j EXCEPT !.locked = TRUE])

(* The joints that the layers do not overlap.                              *)
Kept(b, layers, k, t) == IF k \in Overlapping(b, layers) THEN t ELSE Append(t, b[k])

Apart(b, layers) ==
    LET kept[k \in 0..Len(b)] == IF k = 0 THEN <<>> ELSE Kept(b, layers, k, kept[k - 1])
    IN  kept[Len(b)]

(* JointMap::rebuild_joint on the node's own bucket: the joints the item's *)
(* layers overlap go, and what was linked to its joint is linked anew in   *)
(* order.  In a branch with nothing left the empty bucket stays, to hide   *)
(* the root's, and the item is not unlinked.                               *)
Relinked(b, link, item, erased) ==
    IF link # item THEN Linked(b, link) ELSE IF erased THEN b ELSE Unlinked(b, item)

Rebuilt(own, inBranch, links, item) ==
    LET kept == Apart(own, Layers[item])
        erased == inBranch /\ kept = <<>>
        made[k \in 0..Len(links)] ==
            IF k = 0 THEN kept ELSE Relinked(made[k - 1], links[k], item, erased)
    IN  made[Len(links)]

(* Mutant of Seen: an empty bucket does not hide the root's.               *)
SeenThrough(n) == IF n \in has /\ bucket[n] # <<>> THEN bucket[n] ELSE bucket[Root]

(* World::find_joint: the joints a node sees under the key.                *)
Seen(n) == IF n \in has THEN bucket[n] ELSE bucket[Root]

JointOf(b, item) == {i \in DOMAIN b : Min(Layers[item]) \in b[i].layers}

(* Mutant of Removed: vias are unlinked the way tracks are.                *)
RemovedPlain(own, seen, inBranch, item) == Unlinked(seen, item)

(* World::remove, the joint's part of it: own is the node's own bucket,    *)
(* seen what it sees.                                                      *)
Removed(own, seen, inBranch, item) ==
    IF item \notin Through THEN Unlinked(seen, item)
    ELSE IF JointOf(seen, item) = {} THEN own
    ELSE Rebuilt(own, inBranch, seen[Min(JointOf(seen, item))].links, item)
----------------------------------------------------------------------------
(* World::branch: a branch of the root has no joints of its own, a branch  *)
(* of a branch a copy.                                                     *)
Branch(n, c) ==
    /\ n \in live /\ c \in Node \ live
    /\ live' = live \cup {c}
    /\ chain' = [chain EXCEPT ![c] = (chain[n] \cup {c}) \ {Root}]
    /\ shows' = [shows EXCEPT ![c] = shows[n]]
    /\ has' = IF n \in has \ {Root} THEN has \cup {c} ELSE has
    /\ bucket' = [bucket EXCEPT ![c] = IF n = Root THEN <<>> ELSE bucket[n]]

(* World::add *)
AddItem(n, item) ==
    /\ Leaf(n)
    /\ Len(Linked(Seen(n), item)) <= MaxJoints
    /\ \A m \in Node : item \notin shows[m]
    /\ shows' = [shows EXCEPT ![n] = @ \cup {item}]
    /\ has' = has \cup {n}
    /\ bucket' = [bucket EXCEPT ![n] = Linked(Seen(n), item)]
    /\ UNCHANGED <<live, chain>>

(* World::remove *)
RemoveItem(n, item) ==
    /\ Leaf(n) /\ item \in shows[n]
    /\ shows' = [shows EXCEPT ![n] = @ \ {item}]
    /\ has' = IF item \in Through /\ JointOf(Seen(n), item) = {} THEN has
              ELSE has \cup {n}
    /\ bucket' = [bucket EXCEPT ![n] = Removed(bucket[n], Seen(n), n # Root, item)]
    /\ UNCHANGED <<live, chain>>

(* World::lock_joint *)
LockJoint(n, item) ==
    /\ Leaf(n) /\ item \in shows[n]
    /\ has' = has \cup {n}
    /\ bucket' = [bucket EXCEPT ![n] = Locked(Seen(n), item)]
    /\ UNCHANGED <<live, chain, shows>>

Subtree(n) == {m \in live \ {Root} : n \in chain[m] \/ n = Root}

(* Mutant of Forget: the joints of the dropped nodes stay.                 *)
ForgetNodes(gone) == /\ live' = live \ gone
                     /\ has' = has
                     /\ chain' = [n \in Node |-> IF n \in gone THEN {} ELSE chain[n]]

(* World::release_node *)
Forget(gone) == /\ live' = live \ gone
                /\ has' = has \ gone
                /\ chain' = [n \in Node |-> IF n \in gone THEN {} ELSE chain[n]]

(* World::drop_node; World::kill_children is a drop of every child.        *)
DropNode(n) ==
    /\ n \in live \ {Root}
    /\ Forget(Subtree(n))
    /\ shows' = [m \in Node |-> IF m \in Subtree(n) THEN {} ELSE shows[m]]
    /\ bucket' = [m \in Node |-> IF m \in Subtree(n) THEN <<>> ELSE bucket[m]]

(* The root's bucket after each of the items was removed, or added.        *)
RootWithout(b, item) == Removed(b, b, FALSE, item)

AllRemoved(b, items) ==
    LET left[k \in 0..Len(items)] ==
            IF k = 0 THEN b ELSE RootWithout(left[k - 1], items[k])
    IN  left[Len(items)]

AllLinked(b, items) ==
    LET made[k \in 0..Len(items)] == IF k = 0 THEN b ELSE Linked(made[k - 1], items[k])
    IN  made[Len(items)]

(* World::commit: what the branch hides is removed from the root one item  *)
(* after the other, then what it added is added.                           *)
Commit(n) ==
    /\ n \in live \ {Root}
    /\ \E out \in SetToSeqs(shows[Root] \ shows[n]), in \in SetToSeqs(shows[n] \ shows[Root]) :
         LET filled == AllLinked(AllRemoved(bucket[Root], out), in)
         IN  bucket' = [m \in Node |-> IF m = Root THEN filled ELSE <<>>]
    /\ shows' = [m \in Node |-> IF m = Root THEN shows[n] ELSE {}]
    /\ Forget(Subtree(Root))

Next == \/ \E n, c \in Node : Branch(n, c)
        \/ \E n \in Node, i \in Item :
             AddItem(n, i) \/ RemoveItem(n, i) \/ LockJoint(n, i)
        \/ \E n \in Node : DropNode(n) \/ Commit(n)

Spec == Init /\ [][Next]_vars
----------------------------------------------------------------------------
(* Whatever node is asked, no layer belongs to two of its joints, so that  *)
(* find_joint has at most one answer.                                      *)
LayersDisjoint ==
    \A n \in live : \A i, j \in DOMAIN Seen(n) :
        i # j => Seen(n)[i].layers \cap Seen(n)[j].layers = {}

(* The joints a node sees hold the items the node shows, each once, in a   *)
(* joint that spans its layers, and nothing else.                          *)
JointsHoldItems ==
    \A n \in live :
        LET b == Seen(n)
        IN  /\ UNION {ToSet(b[i].links) : i \in DOMAIN b} = shows[n]
            /\ \A i \in DOMAIN b :
                 /\ IsInjective(b[i].links)
                 /\ \A j \in DOMAIN b \ {i} : ToSet(b[i].links) \cap ToSet(b[j].links) = {}
                 /\ \A item \in ToSet(b[i].links) : Layers[item] \subseteq b[i].layers

(* Items that hang together by the layers they share.                      *)
Bound(items) ==
    \A part \in SUBSET items \ {{}, items} :
        \E a \in part, b \in items \ part : Layers[a] \cap Layers[b] # {}

(* Taking a via or a pad out of a joint splits it into joints that hang    *)
(* together, when it was the first to be linked.                           *)
SplitsPerLayer ==
    [][shows' # shows => \A n \in live \cap live', item \in Through :
         item \in shows[n] /\ shows' = [shows EXCEPT ![n] = @ \ {item}] =>
           \A i \in DOMAIN Seen(n) :
             Seen(n)[i].links # <<>> /\ Head(Seen(n)[i].links) = item =>
               \A j \in DOMAIN Seen(n)' :
                  LET links == ToSet(Seen(n)'[j].links)
                  IN  links \subseteq ToSet(Seen(n)[i].links) => Bound(links)]_vars
----------------------------------------------------------------------------
(* The inductive invariant behind LayersDisjoint and JointsHoldItems       *)
(* (JointMapProofs).  No layer belongs to two joints of a bucket:          *)
Separate(b) ==
    \A i, j \in DOMAIN b : i # j => b[i].layers \cap b[j].layers = {}

(* A bucket links the items, each once in a joint that spans its layers:   *)
Holds(b, items) ==
    /\ \A x \in items : \E i \in DOMAIN b : x \in ToSet(b[i].links)
    /\ \A i \in DOMAIN b :
         /\ IsInjective(b[i].links)
         /\ \A x \in ToSet(b[i].links) : x \in items /\ Layers[x] \subseteq b[i].layers

BucketsSeparate == TypeOK /\ \A n \in Node : Separate(bucket[n])

(* A branch that does not own the key has no joints under it, so a rebuild *)
(* there begins with nothing.                                              *)
BucketsHold == /\ BucketsSeparate
               /\ \A n \in live : Holds(Seen(n), shows[n])
               /\ \A n \in Node \ (has \cup {Root}) : bucket[n] = <<>>

(* Every via or pad reaches every item that can meet it: no blind vias.    *)
ViasReachAll == \A v \in Through, i \in Item : Layers[v] \cap Layers[i] # {}
=============================================================================
