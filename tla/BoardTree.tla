----------------------------- MODULE BoardTree -----------------------------
(***************************************************************************)
(* The operations of the branching world as functions of a tree of boards, *)
(* for the components whose one handler makes several of them in a row.    *)
(* They are the actions of module WorldCopies, which the world's overlay   *)
(* implements (module WorldProofs), and a stale node handle is treated the *)
(* way src/src/node.rs treats it: branch panics, the others do nothing.    *)
(***************************************************************************)
CONSTANTS Node, Root

Tree(Fact) == [live : SUBSET Node, chain : [Node -> SUBSET Node],
               view : [Node -> SUBSET Fact]]

(* World::new *)
NewTree == [live  |-> {Root},
            chain |-> [n \in Node |-> IF n = Root THEN {Root} ELSE {}],
            view  |-> [n \in Node |-> {}]]

Subtree(t, n) == {m \in t.live : n \in t.chain[m]}

(* World::branch, for n \in t.live and a handle c that is not in use.      *)
Branched(t, n, c) == [live  |-> t.live \cup {c},
                      chain |-> [t.chain EXCEPT ![c] = t.chain[n] \cup {c}],
                      view  |-> [t.view EXCEPT ![c] = t.view[n]]]

(* World::add and its kin. *)
Written(t, n, facts) == [t EXCEPT !.view[n] = @ \cup facts]

(* World::release_node over a set of nodes. *)
Without(t, gone) == [live  |-> t.live \ gone,
                     chain |-> [n \in Node |->
                                  IF n \in gone THEN {} ELSE t.chain[n]],
                     view  |-> [n \in Node |->
                                  IF n \in gone THEN {} ELSE t.view[n]]]

(* Mutant of Dropped: the parent goes with its child.                      *)
DroppedParent(t, n) ==
    Without(t, {m \in t.live \ {Root} : n \in t.live /\ t.chain[n] \ {n} \subseteq t.chain[m]})

(* World::kill_children and World::drop_node; the root is never dropped.   *)
KilledChildren(t, n) == Without(t, Subtree(t, n) \ {n})
Dropped(t, n) == IF n = Root THEN t ELSE Without(t, Subtree(t, n))

(* World::commit; a stale node or the root commits nothing.                *)
Committed(t, n) ==
    IF n \in t.live \ {Root}
    THEN KilledChildren([t EXCEPT !.view[Root] = t.view[n]], Root)
    ELSE t
=============================================================================
