---------------------------- MODULE WorldCopies ----------------------------
(***************************************************************************)
(* What the branching world promises the algorithms that route on it: a    *)
(* node is a complete board of its own.  Branching copies the board,       *)
(* writing to a node changes that board and no other, dropping a branch    *)
(* drops what was branched from it, and committing a branch makes it THE   *)
(* board.                                                                  *)
(***************************************************************************)
CONSTANTS Node, Item, Root,
          Pieces  \* the sets of items that enter and leave a board together

VARIABLES live,   \* the nodes that exist
          chain,  \* node -> the node and everything it was branched from
          view,   \* node -> the items of its board
          known   \* every item ever added to any board

vars == <<live, chain, view, known>>

TypeOK == /\ live \subseteq Node /\ Root \in live
          /\ chain \in [Node -> SUBSET Node]
          /\ view \in [Node -> SUBSET Item]
          /\ known \subseteq Item

Subtree(n) == {m \in live : n \in chain[m]}

Init == /\ live = {Root}
        /\ chain = [n \in Node |-> IF n = Root THEN {Root} ELSE {}]
        /\ view = [n \in Node |-> {}]
        /\ known = {}

(* A new node starts as a copy of its parent.                              *)
Branch(n, c) ==
    /\ n \in live /\ c \notin live
    /\ live' = live \cup {c}
    /\ chain' = [chain EXCEPT ![c] = chain[n] \cup {c}]
    /\ view' = [view EXCEPT ![c] = view[n]]
    /\ UNCHANGED known

(* A write changes one board by one piece out, one new piece in, or both;  *)
(* every other board stays as it is.  What comes in was on no board before.*)
Write(n, out, in) ==
    /\ n \in live
    /\ in \cap known = {}
    /\ view' = [view EXCEPT ![n] = (@ \ out) \cup in]
    /\ known' = known \cup in
    /\ UNCHANGED <<live, chain>>

Add(n, in) == Write(n, {}, in)
Remove(n, out) == Write(n, out, {})
Replace(n, out, in) == Write(n, out, in)

(* A whole subtree goes away, or all of it but its top.                    *)
Forget(gone) ==
    /\ live' = live \ gone
    /\ chain' = [n \in Node |-> IF n \in gone THEN {} ELSE chain[n]]
    /\ view' = [n \in Node |-> IF n \in gone THEN {} ELSE view[n]]
    /\ UNCHANGED known

Drop(n) == n \in live \ {Root} /\ Forget(Subtree(n))
KillChildren(n) == n \in live /\ Forget(Subtree(n) \ {n})

(* One branch replaces the board, and nothing else is left.                *)
Commit(n) ==
    /\ n \in live \ {Root}
    /\ live' = {Root}
    /\ chain' = [m \in Node |-> IF m = Root THEN chain[Root] ELSE {}]
    /\ view' = [m \in Node |-> IF m = Root THEN view[n] ELSE {}]
    /\ UNCHANGED known

Next == \/ \E n, c \in Node : Branch(n, c)
        \/ \E n \in Node, p \in Pieces : Add(n, p) \/ Remove(n, p)
        \/ \E n \in Node, p, q \in Pieces : Replace(n, p, q)
        \/ \E n \in Node : Drop(n) \/ KillChildren(n) \/ Commit(n)

Spec == Init /\ [][Next]_vars
=============================================================================
