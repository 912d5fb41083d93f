---------------------------- MODULE HandleStore ----------------------------
(***************************************************************************)
(* What a handle promises its holder.  A store hands out a handle for      *)
(* every value it takes in; a handle names its value until the value is    *)
(* removed and names nothing from then on.  No handle is ever issued       *)
(* twice, so one kept past the removal of its value can never be mistaken  *)
(* for the handle of a later value.                                        *)
(***************************************************************************)
CONSTANTS Handle, Value

VARIABLES store,  \* handle -> value, for the handles whose value is stored
          issued  \* every handle given out so far

vars == <<store, issued>>

TypeOK == /\ issued \subseteq Handle
          /\ DOMAIN store \subseteq issued
          /\ \A h \in DOMAIN store : store[h] \in Value

Init == /\ store = [h \in {} |-> {}]
        /\ issued = {}

(* A value comes in under a handle nobody has ever held.                   *)
Insert(h, v) ==
    /\ h \notin issued
    /\ store' = [k \in DOMAIN store \cup {h} |-> IF k = h THEN v ELSE store[k]]
    /\ issued' = issued \cup {h}

(* A stored value goes out; its handle stays used up.                      *)
Remove(h) ==
    /\ h \in DOMAIN store
    /\ store' = [k \in DOMAIN store \ {h} |-> store[k]]
    /\ UNCHANGED issued

Next == \E h \in Handle : Remove(h) \/ \E v \in Value : Insert(h, v)

Spec == Init /\ [][Next]_vars
=============================================================================
