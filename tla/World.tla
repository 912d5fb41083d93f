------------------------------- MODULE World -------------------------------
(***************************************************************************)
(* The branching world of src/src/node.rs: the node tree, the two level    *)
(* overlay it is read through, and the ownership of the items.             *)
(*                                                                         *)
(* A branch keeps only its own index and the set of root items it hides    *)
(* ("overrides"); it copies both from its parent unless the parent is the  *)
(* root.  No read ever walks the parent chain: a node sees its own index   *)
(* plus the root's index minus its overrides.  Every item is homed in      *)
(* exactly one node and dies with it.                                      *)
(*                                                                         *)
(* Handles are never reissued (module Arena), so the nodes and items here  *)
(* are used once: "issuedNodes" and "issuedItems" stand for the arenas'    *)
(* history.  A pad or via carries its hole: Drill[i] is the set (empty or  *)
(* one item) that enters and leaves the world together with i.             *)
(*                                                                         *)
(* Clients write only to nodes nothing has been branched from: the placer  *)
(* and the shove write into the node they branched last, and the root is   *)
(* written only by the import and by commit.  Leaf states that discipline, *)
(* and module LinePlacement checks it for the code that places lines.      *)
(***************************************************************************)
CONSTANTS Node,   \* node handles
          Root,   \* the root's handle
          Item,   \* item handles
          Body,   \* the items that are added in their own right
          Drill   \* body -> the hole drilled with it, as a set

ASSUME AssumeRoot == Root \in Node
ASSUME AssumeDrill ==
    /\ Body \subseteq Item
    /\ Drill \in [Body -> SUBSET (Item \ Body)]
    /\ \A i, j \in Body : i # j => Drill[i] \cap Drill[j] = {}

VARIABLES live,         \* the nodes that exist
          chain,        \* node -> itself and its ancestors (Node::parent)
          index,        \* node -> items of its own spatial index
          overrides,    \* node -> root items it hides
          home,         \* node -> items it owns
          stored,       \* items in the arena
          cached,       \* items some cached clearance or hull is keyed on
          issuedNodes,  \* node handles used up
          issuedItems   \* item handles used up

tree == <<live, chain, issuedNodes>>
vars == <<live, chain, index, overrides, home, stored, cached,
          issuedNodes, issuedItems>>

TypeOK == /\ live \subseteq Node /\ Root \in live
          /\ issuedNodes \subseteq Node
          /\ chain \in [Node -> SUBSET Node]
          /\ index \in [Node -> SUBSET Item]
          /\ overrides \in [Node -> SUBSET Item]
          /\ home \in [Node -> SUBSET Item]
          /\ stored \subseteq Item
          /\ cached \subseteq Item
          /\ issuedItems \subseteq Item

Unit(i) == {i} \cup Drill[i]

(* World::root_of tells the root from a branch by identity.                *)
IsRoot(n) == n = Root

(* A node and everything branched from it, which is what release_node      *)
(* walks through Node::children.                                           *)
Subtree(n) == {m \in live : n \in chain[m]}

Leaf(n) == Subtree(n) = {n}

(* visit_candidates: the node's own index, then the root's without the     *)
(* node's overrides.                                                       *)
View(n) == IF IsRoot(n)
           THEN index[Root]
           ELSE index[n] \cup (index[Root] \ overrides[n])

(* World::new: one empty root.                                             *)
Init == /\ live = {Root}
        /\ issuedNodes = {Root}
        /\ chain = [n \in Node |-> IF n = Root THEN {Root} ELSE {}]
        /\ index = [n \in Node |-> {}]
        /\ overrides = [n \in Node |-> {}]
        /\ home = [n \in Node |-> {}]
        /\ stored = {}
        /\ cached = {}
        /\ issuedItems = {}
----------------------------------------------------------------------------
(* Mutants of CopyOf: the root is copied too, or nothing ever is.          *)
CopyOfAny(f, n) == f[n]
CopyOfNone(f, n) == {}

(* What a branch takes over from its parent: all of it, unless the parent  *)
(* is the root.                                                            *)
CopyOf(f, n) == IF IsRoot(n) THEN {} ELSE f[n]

(* World::branch.  Ownership is never copied.                              *)
Branch(n, c) ==
    /\ n \in live
    /\ c \notin issuedNodes
    /\ live' = live \cup {c}
    /\ issuedNodes' = issuedNodes \cup {c}
    /\ chain' = [chain EXCEPT ![c] = chain[n] \cup {c}]
    /\ index' = [index EXCEPT ![c] = CopyOf(index, n)]
    /\ overrides' = [overrides EXCEPT ![c] = CopyOf(overrides, n)]
    /\ home' = [home EXCEPT ![c] = {}]
    /\ UNCHANGED <<stored, cached, issuedItems>>

(* World::add and its kin: into the arena, into the node's index and home. *)
Fresh(i) == Unit(i) \cap issuedItems = {}

Add(n, i) ==
    /\ n \in live /\ Leaf(n)
    /\ Fresh(i)
    /\ stored' = stored \cup Unit(i)
    /\ issuedItems' = issuedItems \cup Unit(i)
    /\ index' = [index EXCEPT ![n] = @ \cup Unit(i)]
    /\ home' = [home EXCEPT ![n] = @ \cup Unit(i)]
    /\ UNCHANGED <<overrides, cached, tree>>

(* Mutant of Freed: a branch frees an item of another node.                *)
FreedAnywhere(n, i) == Unit(i)

(* do_remove.  A branch hides a root item; anything else leaves the node's *)
(* own index, and is freed only when this node is its home.                *)
Hidden(n, i) == IF i \in home[Root] /\ ~IsRoot(n) THEN Unit(i) ELSE {}
Deindexed(n, i) == IF i \in home[Root] /\ ~IsRoot(n) THEN {} ELSE Unit(i)
Freed(n, i) == IF i \in home[n] THEN Unit(i) ELSE {}

Remove(n, i) ==
    /\ n \in live /\ Leaf(n)
    /\ i \in stored
    /\ overrides' = [overrides EXCEPT ![n] = @ \cup Hidden(n, i)]
    /\ index' = [index EXCEPT ![n] = @ \ Deindexed(n, i)]
    /\ home' = [home EXCEPT ![n] = @ \ Freed(n, i)]
    /\ stored' = stored \ Freed(n, i)
    /\ cached' = cached \ Freed(n, i)
    /\ UNCHANGED <<issuedItems, tree>>

(* World::replace: the old item out and the new one in, as one call.       *)
Replace(n, i, j) ==
    /\ n \in live /\ Leaf(n)
    /\ i \in stored /\ Fresh(j)
    /\ overrides' = [overrides EXCEPT ![n] = @ \cup Hidden(n, i)]
    /\ index' = [index EXCEPT ![n] = (@ \ Deindexed(n, i)) \cup Unit(j)]
    /\ home' = [home EXCEPT ![n] = (@ \ Freed(n, i)) \cup Unit(j)]
    /\ stored' = (stored \ Freed(n, i)) \cup Unit(j)
    /\ cached' = cached \ Freed(n, i)
    /\ issuedItems' = issuedItems \cup Unit(j)
    /\ UNCHANGED tree

(* World::clearance_between and World::hull_of fill a cache keyed on item  *)
(* handles.                                                                *)
Cache(i) ==
    /\ i \in stored
    /\ cached' = cached \cup {i}
    /\ UNCHANGED <<index, overrides, home, stored, issuedItems, tree>>
----------------------------------------------------------------------------
(* release_node: the nodes go, and everything homed in them.               *)
HomedIn(gone) == UNION {home[n] : n \in gone}

Release(gone) ==
    /\ live' = live \ gone
    /\ chain' = [n \in Node |-> IF n \in gone THEN {} ELSE chain[n]]
    /\ index' = [n \in Node |-> IF n \in gone THEN {} ELSE index[n]]
    /\ overrides' = [n \in Node |-> IF n \in gone THEN {} ELSE overrides[n]]
    /\ home' = [n \in Node |-> IF n \in gone THEN {} ELSE home[n]]
    /\ stored' = stored \ HomedIn(gone)
    /\ cached' = cached \ HomedIn(gone)
    /\ UNCHANGED <<issuedNodes, issuedItems>>

KillChildren(n) == n \in live /\ Release(Subtree(n) \ {n})

(* Mutant of DropNode: the root is not refused.                            *)
DropAnyNode(n) == n \in live /\ Release(Subtree(n))

(* World::drop_node refuses the root.                                      *)
DropNode(n) == n \in live /\ ~IsRoot(n) /\ Release(Subtree(n))

(* World::commit.  The hidden root items are removed from the root, the    *)
(* branch's index is added to the root, which re-homes every item of it,   *)
(* and then every branch of the root is killed with what is still homed in *)
(* it.                                                                     *)
Commit(n) ==
    LET gone == overrides[n] \cup (HomedIn(live \ {Root}) \ index[n])
    IN  /\ n \in live /\ ~IsRoot(n)
        /\ live' = {Root}
        /\ chain' = [m \in Node |-> IF m = Root THEN chain[Root] ELSE {}]
        /\ index' = [m \in Node |-> IF m = Root
                       THEN (index[Root] \ overrides[n]) \cup index[n] ELSE {}]
        /\ home' = [m \in Node |-> IF m = Root
                       THEN (home[Root] \ overrides[n]) \cup index[n] ELSE {}]
        /\ overrides' = [m \in Node |-> IF m = Root
                           THEN overrides[Root] ELSE {}]
        /\ stored' = stored \ gone
        /\ cached' = cached \ gone
        /\ UNCHANGED <<issuedNodes, issuedItems>>

Next == \/ \E n, c \in Node : Branch(n, c)
        \/ \E n \in Node, i \in Body : Add(n, i) \/ Remove(n, i)
        \/ \E n \in Node, i, j \in Body : Replace(n, i, j)
        \/ \E i \in Item : Cache(i)
        \/ \E n \in Node : KillChildren(n) \/ DropNode(n) \/ Commit(n)

Spec == Init /\ [][Next]_vars
----------------------------------------------------------------------------
(* The parent chains: every live node's chain is made of live nodes, runs  *)
(* through the root, and is closed under going up.                         *)
ChainsSound ==
    /\ Root \in live /\ live \subseteq issuedNodes
    /\ chain[Root] = {Root}
    /\ \A n \in live : {n, Root} \subseteq chain[n] /\ chain[n] \subseteq live
    /\ \A n, m \in live : m \in chain[n] => chain[m] \subseteq chain[n]
    /\ \A n, m \in live : m \in chain[n] /\ n \in chain[m] => m = n

(* Every stored item has exactly one owner among the live nodes, and the   *)
(* owner has it indexed: nothing leaks when branches are dropped, and      *)
(* nothing is freed twice.                                                 *)
OneHome ==
    /\ stored = HomedIn(live)
    /\ stored \subseteq issuedItems
    /\ \A n, m \in live : n # m => home[n] \cap home[m] = {}
    /\ \A n \in live : home[n] \subseteq index[n]

(* A branch hides only what the root owns, and never shows what it hides.  *)
OverridesHideRoot ==
    /\ overrides[Root] = {}
    /\ \A n \in live : /\ overrides[n] \subseteq home[Root]
                       /\ overrides[n] \cap index[n] = {}

(* What a branch indexes belongs to it or to a branch it stands on: this   *)
(* is what keeps a copied index valid for as long as the copy lives.       *)
IndexHomed ==
    /\ index[Root] = home[Root]
    /\ \A n \in live \ {Root} :
         index[n] \subseteq HomedIn(chain[n] \ {Root})

(* A pad or via and its hole are always in the same place.                 *)
HolesTravel ==
    \A n \in live, i \in Body, h \in Item :
        h \in Drill[i] => /\ i \in index[n] <=> h \in index[n]
                          /\ i \in overrides[n] <=> h \in overrides[n]
                          /\ i \in home[n] <=> h \in home[n]

(* Dead nodes hold nothing (they are not in the code's arena at all).      *)
DeadAreEmpty ==
    \A n \in Node \ live : /\ chain[n] = {} /\ index[n] = {}
                           /\ overrides[n] = {} /\ home[n] = {}

(* The inductive invariant of the overlay.                                 *)
IInv == /\ TypeOK
        /\ ChainsSound
        /\ OneHome
        /\ OverridesHideRoot
        /\ IndexHomed
        /\ HolesTravel
        /\ DeadAreEmpty
        /\ cached \subseteq stored

(* No node shows an item that has left the arena, and no cache entry       *)
(* survives the item it is keyed on, in whatever order branches were       *)
(* written, dropped and committed.                                         *)
NothingStale == /\ \A n \in live : View(n) \subseteq stored
                /\ cached \subseteq stored

(* The overlay is the complete world: the module implements WorldCopies,   *)
(* where each node holds a private board.  In particular a write never     *)
(* shows in a node other than the one written, removing in a branch takes  *)
(* the item off that branch's board only, and committing makes the root    *)
(* show what the branch showed.                                            *)
Copies == INSTANCE WorldCopies
            WITH view <- [n \in Node |-> IF n \in live THEN View(n) ELSE {}],
                 known <- issuedItems,
                 Pieces <- {Unit(i) : i \in Body}
RefinesWorldCopies == Copies!Spec
=============================================================================
