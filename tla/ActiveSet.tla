----------------------------- MODULE ActiveSet -----------------------------
(***************************************************************************)
(* What the active-listing index promises its callers: a set of listing    *)
(* ids.  Readers page through it (paged); add and remove look an id up by  *)
(* its key (keyed).  Listings keeps its activeListings variable at this    *)
(* level.                                                                  *)
(***************************************************************************)
CONSTANT Ids  \* listing ids

VARIABLES
  paged,  \* ids that readers find in the index
  keyed   \* ids that add and remove find in the index

vars == <<paged, keyed>>

Init == paged = {} /\ keyed = {}

Add(id) ==
  /\ id \notin keyed
  /\ paged' = paged \cup {id} /\ keyed' = keyed \cup {id}

Remove(id) ==
  /\ id \in keyed
  /\ paged' = paged \ {id} /\ keyed' = keyed \ {id}

Next == \E id \in Ids : Add(id) \/ Remove(id)

Spec == Init /\ [][Next]_vars

============================================================================
