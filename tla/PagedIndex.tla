----------------------------- MODULE PagedIndex -----------------------------
(***************************************************************************)
(* The paged index engine of the marketplace contract (storage.rs) under   *)
(* its one shrinking client, the active-listing index.  An index is a      *)
(* length and pages of at most PageSize ids, one storage key each; a page  *)
(* that becomes empty loses its key.  Positions and page numbers start at  *)
(* 0, as in the code; TLA+ sequences start at 1.                           *)
(***************************************************************************)
EXTENDS Integers, Sequences

CONSTANTS
  Ids,      \* listing ids
  PageSize  \* INDEX_PAGE_SIZE

ASSUME PagedIndexAssumption == PageSize \in Nat \ {0}

VARIABLES
  pages,  \* IndexPage keys that exist, and their entries
  len,    \* IndexLen
  pos     \* ActiveListingPos of each id, NoPos when the key is absent

vars == <<pages, len, pos>>

NoPos == -1

(* A missing page reads as empty. *)
LoadPage(q) == IF q \in DOMAIN pages THEN pages[q] ELSE <<>>

StoreKeepingEmptyPage(f, q, entries) ==
  [x \in DOMAIN f \cup {q} |-> IF x = q THEN entries ELSE f[x]]

(* f with page q holding entries, without a key for it when they are empty. *)
StorePage(f, q, entries) ==
  IF entries = <<>>
    THEN [x \in DOMAIN f \ {q} |-> f[x]]
    ELSE [x \in DOMAIN f \cup {q} |-> IF x = q THEN entries ELSE f[x]]

Slot(p) == LoadPage(p \div PageSize)[(p % PageSize) + 1]

IndexAppend(value) ==
  LET q == len \div PageSize IN
  /\ pages' = StorePage(pages, q, Append(LoadPage(q), value))
  /\ len' = len + 1

(* s without its last entry. *)
Popped(s) == SubSeq(s, 1, Len(s) - 1)

SwapForgettingFarPage(p) ==
  LET last == len - 1
      lastNo == last \div PageSize
      lastPage == LoadPage(lastNo)
  IN  /\ pages' = IF p \div PageSize = lastNo
           THEN StorePage(pages, lastNo,
                          Popped([lastPage EXCEPT ![(p % PageSize) + 1] = Slot(last)]))
           ELSE StorePage(pages, lastNo, Popped(lastPage))
      /\ len' = last

(* The last value takes the place of the one at p; the last page loses its end. *)
IndexSwapRemove(p) ==
  LET last == len - 1
      lastNo == last \div PageSize
      lastPage == LoadPage(lastNo)
  IN  /\ pages' = IF p \div PageSize = lastNo
           THEN StorePage(pages, lastNo,
                          Popped([lastPage EXCEPT ![(p % PageSize) + 1] = Slot(last)]))
           ELSE StorePage(StorePage(pages, lastNo, Popped(lastPage)), p \div PageSize,
                          [LoadPage(p \div PageSize) EXCEPT ![(p % PageSize) + 1] = Slot(last)])
      /\ len' = last

----------------------------------------------------------------------------

Init == pages = [q \in {} |-> <<>>] /\ len = 0 /\ pos = [id \in Ids |-> NoPos]

AddToActiveListings(id) ==
  /\ pos[id] = NoPos
  /\ IndexAppend(id)
  /\ pos' = [pos EXCEPT ![id] = len]

RemoveKeepingMovedPosition(id) ==
  /\ pos[id] # NoPos
  /\ pos[id] < len /\ Slot(pos[id]) = id
  /\ IndexSwapRemove(pos[id])
  /\ pos' = [pos EXCEPT ![id] = NoPos]

(* The slot must hold this very id, or the call does nothing. *)
RemoveFromActiveListings(id) ==
  /\ pos[id] # NoPos
  /\ pos[id] < len /\ Slot(pos[id]) = id
  /\ IndexSwapRemove(pos[id])
  /\ pos' = [pos EXCEPT ![Slot(len - 1)] = pos[id], ![id] = NoPos]

Next == \E id \in Ids : AddToActiveListings(id) \/ RemoveFromActiveListings(id)

Spec == Init /\ [][Next]_vars

----------------------------------------------------------------------------
(* Properties *)

(* index_range from 0 to the end: what a reader sees. *)
Content == [i \in 1..len |-> Slot(i - 1)]

(* Exactly the pages that index_page_count counts have keys, every page but *)
(* the last is full, and no entry lies past the length: an append always    *)
(* lands right behind the last element, also at a page boundary.            *)
PagesPacked ==
  /\ len \in Nat
  /\ DOMAIN pages = {q \in 0..len : q * PageSize < len}
  /\ \A q \in DOMAIN pages :
       /\ pages[q] \in Seq(Ids)
       /\ Len(pages[q]) = IF (q + 1) * PageSize <= len THEN PageSize ELSE len - q * PageSize

Flat == INSTANCE ActiveIndex WITH idx <- Content

(* The pages behave as one array with swap-removal. *)
ImplementsArray == Flat!Spec

(* Position keys name the slots of their ids, across pages. *)
PositionsMatchSlots == Flat!PositionsMatchSlots

(* Readers and the key lookups see the same set of active listings, which *)
(* every call changes by exactly its own id.                              *)
ImplementsSet == Flat!ImplementsSet

=============================================================================
