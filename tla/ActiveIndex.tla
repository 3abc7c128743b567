---------------------------- MODULE ActiveIndex ----------------------------
(***************************************************************************)
(* The index of active listings kept by the marketplace contract           *)
(* (storage.rs).  It is the only on-chain index that shrinks: each id's    *)
(* position is kept under a key of its own (ActiveListingPos), removal     *)
(* swaps the last element into the vacated slot and rewrites the position  *)
(* key of the element that moved.  Positions are 0-based, as in the code.  *)
(* Here the index is one array; PagedIndex stores it in pages.             *)
(***************************************************************************)
EXTENDS Integers, Sequences

CONSTANT Ids  \* listing ids

\* The value of an absent ActiveListingPos key.
NoPos == -1

VARIABLES
  idx,  \* the logical content of the index, in storage order
  pos   \* ActiveListingPos(id), NoPos when the key is absent

vars == <<idx, pos>>

\* idx without its element at 0-based position p, the last element moved into its place.
SwapRemove(s, p) ==
  LET last == Len(s) - 1 IN
  [i \in 1..last |-> IF i = p + 1 THEN s[Len(s)] ELSE s[i]]

Init == idx = <<>> /\ pos = [id \in Ids |-> NoPos]

AddToActiveListings(id) ==
  /\ pos[id] = NoPos
  /\ idx' = Append(idx, id)
  /\ pos' = [pos EXCEPT ![id] = Len(idx)]

\* The slot named by the position key must hold this very id.
SlotHolds(id) == pos[id] < Len(idx) /\ idx[pos[id] + 1] = id

RemoveFromActiveListings(id) ==
  /\ pos[id] # NoPos
  /\ SlotHolds(id)
  /\ idx' = SwapRemove(idx, pos[id])
  /\ LET moved == idx[Len(idx)] IN
     pos' = [pos EXCEPT ![moved] = pos[id], ![id] = NoPos]

Next == \E id \in Ids : AddToActiveListings(id) \/ RemoveFromActiveListings(id)

Spec == Init /\ [][Next]_vars

-----------------------------------------------------------------------------

\* The index holds listing ids, and a stored position is below its length.
TypeOK ==
  /\ idx \in Seq(Ids)
  /\ pos \in [Ids -> NoPos..(Len(idx) - 1)]

\* Every stored position names the slot that holds its id, and every slot's id
\* has that position: the defensive check in remove_from_active_listings never
\* turns a removal into a silent no-op.
PositionsMatchSlots ==
  /\ \A id \in Ids : pos[id] # NoPos => pos[id] \in 0..(Len(idx) - 1) /\ idx[pos[id] + 1] = id
  /\ \A i \in 1..Len(idx) : pos[idx[i]] = i - 1

Members == {idx[i] : i \in 1..Len(idx)}

Keyed == {id \in Ids : pos[id] # NoPos}

AsSet == INSTANCE ActiveSet WITH paged <- Members, keyed <- Keyed

\* The index with its position keys behaves as the set that its callers use it
\* as: every add and every swap-and-pop removal adds or removes exactly its id,
\* for readers and for the key lookups alike.
ImplementsSet == AsSet!Spec

=============================================================================
