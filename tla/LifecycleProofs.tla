-------------------------- MODULE LifecycleProofs --------------------------
(***************************************************************************)
(* What the life of listings, offers and auctions amounts to, for every    *)
(* set of users and NFTs and every bound: the revocation sweep leaves      *)
(* nothing Active, every transition delivers, the pending sets stay below  *)
(* their cap, the contract's balance is the sum of the accounts of its     *)
(* offers and auctions, and so it is what it owes.                         *)
(*                                                                         *)
(* What a single call does is proved first; the theorems on finite sets    *)
(* come after it, then what sums do when one or some of their terms        *)
(* change, and the results that count last.                                *)
(***************************************************************************)
EXTENDS MarketplaceProofs

----------------------------------------------------------------------------
(* What makes the revocation sweep complete: an artist's index lists all of  *)
(* the artist's listings, nothing before the cursor is Active, and the       *)
(* cursor of an artist in good standing is at the start.                     *)
SweepInv ==
  /\ revoked \subseteq Users
  /\ \A u \in Users :
       /\ cancelCursor[u] <= Len(artistListings[u])
       /\ u \notin revoked => cancelCursor[u] = 0
       /\ \A i \in 1..Len(artistListings[u]) : artistListings[u][i] <= listingCount
       /\ \A i \in 1..cancelCursor[u] : ~IsActive(artistListings[u][i])
  /\ \A l \in ListingIds : l <= listingCount =>
       \E i \in 1..Len(artistListings[listing[l].artist]) :
         artistListings[listing[l].artist][i] = l

(* Steps that end listings, or none, and leave index, cursor and revocations *)
(* alone keep it.                                                            *)
LEMMA ClosedKeepsSweep ==
  ASSUME LInv, SweepInv, NEW S, ListingsClosed(S),
         UNCHANGED <<artistListings, cancelCursor, revoked>>
  PROVE  SweepInv'
<1>1. \A l \in ListingIds : IsActive(l)' => IsActive(l)
  BY DEF ListingsClosed, IsActive
<1>2. \A u \in Users : artistListings[u] \in Seq(ListingIds) /\ cancelCursor[u] \in Nat
  BY DEF LInv, ScalarInv
<1>3. \A u \in Users : \A i \in 1..cancelCursor[u] : ~IsActive(artistListings[u][i])'
  <2> SUFFICES ASSUME NEW u \in Users, NEW i \in 1..cancelCursor[u]
               PROVE  ~IsActive(artistListings[u][i])'
    OBVIOUS
  <2>1. i \in 1..Len(artistListings[u])
    BY <1>2 DEF SweepInv
  <2>2. artistListings[u][i] \in ListingIds
    BY <1>2, <2>1
  <2>3. ~IsActive(artistListings[u][i])
    BY DEF SweepInv
  <2> QED
    BY <2>2, <2>3 DEF ListingsClosed, IsActive
<1>4. listingCount' = listingCount /\ \A l \in ListingIds : listing'[l].artist = listing[l].artist
  BY DEF ListingsClosed
<1> QED
  BY <1>3, <1>4 DEF SweepInv

(* A revocation finds the cursor at the start or leaves it where it is. *)
LEMMA RevokeKeepsSweep ==
  ASSUME SweepInv, NEW u \in Revocable, RevokeArtist(u), UNCHANGED listingVars
  PROVE  SweepInv'
BY CustodyAssumption DEF SweepInv, RevokeArtist, listingVars, IsActive

(* A reinstatement puts the cursor back to the start. *)
LEMMA ReinstateKeepsSweep ==
  ASSUME LInv, SweepInv, NEW u \in Users, ReinstateArtist(u)
  PROVE  SweepInv'
<1>1. /\ revoked' = revoked \ {u} /\ UNCHANGED <<artistListings, listing, listingCount>>
      /\ \A v \in Users : cancelCursor'[v] = IF v = u THEN 0 ELSE cancelCursor[v]
  BY DEF ReinstateArtist, LInv, ScalarInv
<1>2. \A v \in Users : Len(artistListings[v]) \in Nat
  BY DEF LInv, ScalarInv
<1> QED
  BY <1>1, <1>2 DEF SweepInv, IsActive

(* A sweep leaves no Active listing between the old cursor and the new one. *)
LEMMA SweepKeepsSweep ==
  ASSUME LInv, SweepInv, NEW u \in Users, NEW k \in 0..MaxListings, CancelArtistListings(u, k)
  PROVE  SweepInv'
<1>0. /\ \A v \in Users : /\ artistListings[v] \in Seq(ListingIds) /\ cancelCursor[v] \in Nat
                           /\ Len(artistListings[v]) \in Nat
      /\ cancelCursor \in [Users -> Nat] /\ k \in Nat
  BY ListingsAssumption DEF LInv, ScalarInv
<1>1. CASE u \notin revoked
  <2>1. /\ UNCHANGED <<revoked, artistListings, listing, listingCount>>
        /\ \A v \in Users : cancelCursor'[v] = IF v = u THEN 0 ELSE cancelCursor[v]
    BY <1>0, <1>1 DEF CancelArtistListings, custodyVars
  <2> QED
    BY <1>0, <2>1 DEF SweepInv, IsActive
<1>2. CASE u \in revoked
  <2> DEFINE last == SweepEnd(u, k)
             S == ActiveBetween(u, cancelCursor[u] + 1, last)
  <2>1. /\ CancelAll(S) /\ cancelCursor' = [cancelCursor EXCEPT ![u] = last]
        /\ UNCHANGED <<revoked, artistListings, listingCount>>
    BY <1>2, ZenonT(30) DEF CancelArtistListings, CancelAll, policyVars
  <2>2. S \subseteq {l \in ListingIds : IsActive(l)}
    BY ZenonT(30) DEF ActiveBetween
  <2>3. last \in Nat /\ last <= Len(artistListings[u]) /\ cancelCursor[u] <= last
    BY <1>0 DEF SweepEnd, SweepInv
  <2>4. \A i \in (cancelCursor[u] + 1)..last :
          artistListings[u][i] \in ListingIds
            /\ (artistListings[u][i] \in S \/ ~IsActive(artistListings[u][i]))
    <3> SUFFICES ASSUME NEW i \in (cancelCursor[u] + 1)..last
                 PROVE  artistListings[u][i] \in ListingIds
                          /\ (artistListings[u][i] \in S \/ ~IsActive(artistListings[u][i]))
      OBVIOUS
    <3>1. i \in 1..Len(artistListings[u])
      BY <1>0, <2>3
    <3>2. artistListings[u][i] \in ListingIds
      BY <1>0, <3>1
    <3> QED
      BY <3>2, ZenonT(30) DEF ActiveBetween
  <2> HIDE DEF S, last
  <2>5. ListingsClosed(S)
    BY <2>1, <2>2, CancelEffects DEF LInv
  <2>6. \A l \in ListingIds : (l \in S \/ ~IsActive(l)) => ~IsActive(l)'
    BY <2>5 DEF ListingsClosed, IsActive
  <2>7. \A v \in Users : cancelCursor'[v] = IF v = u THEN last ELSE cancelCursor[v]
    BY <1>0, <2>1
  <2>8. \A v \in Users : \A i \in 1..cancelCursor[v] :
          artistListings[v][i] \in ListingIds /\ ~IsActive(artistListings[v][i])
    <3> SUFFICES ASSUME NEW v \in Users, NEW i \in 1..cancelCursor[v]
                 PROVE  artistListings[v][i] \in ListingIds /\ ~IsActive(artistListings[v][i])
      OBVIOUS
    <3>1. i \in 1..Len(artistListings[v])
      BY <1>0 DEF SweepInv
    <3> QED
      BY <1>0, <3>1 DEF SweepInv
  <2>9. \A v \in Users : \A i \in 1..cancelCursor'[v] : ~IsActive(artistListings[v][i])'
    <3> SUFFICES ASSUME NEW v \in Users, NEW i \in 1..cancelCursor'[v]
                 PROVE  ~IsActive(artistListings[v][i])'
      OBVIOUS
    <3>1. i \in 1..cancelCursor[v] \/ (v = u /\ i \in (cancelCursor[u] + 1)..last)
      BY <1>0, <2>3, <2>7
    <3>2. artistListings[v][i] \in ListingIds
            /\ (artistListings[v][i] \in S \/ ~IsActive(artistListings[v][i]))
      BY <2>4, <2>8, <3>1
    <3> QED
      BY <2>1, <2>6, <3>2 DEF IsActive
  <2>10. \A l \in ListingIds : listing'[l].artist = listing[l].artist
    BY <2>5 DEF ListingsClosed
  <2> QED
    BY <1>2, <2>1, <2>3, <2>7, <2>9, <2>10 DEF SweepInv
<1> QED
  BY <1>1, <1>2

(* A new listing comes last in the index of an artist in good standing, whose *)
(* cursor is at the start.                                                    *)
LEMMA CreateKeepsSweep ==
  ASSUME LInv, SweepInv, NEW u \in Users, NEW n \in Nfts, NEW p \in Prices, NEW e \in Deadlines,
         CreateListing(u, n, p, e)
  PROVE  SweepInv'
<1> DEFINE id == listingCount + 1
           A == artistListings
<1>1. /\ u \notin revoked /\ UNCHANGED <<revoked, cancelCursor>> /\ listingCount' = id
      /\ A' = [A EXCEPT ![u] = Append(@, id)]
      /\ listingCount < MaxListings
  BY DEF CreateListing, MaySell, policyVars
<1>2. listingCount \in Nat /\ id \in ListingIds /\ \A l \in ListingIds : l <= id <=> l <= listingCount \/ l = id
  BY <1>1, ListingsAssumption DEF LInv, CustodyInv, ListingIds
<1>3. /\ listing'[id].artist = u
      /\ \A l \in ListingIds : l # id => listing'[l] = listing[l]
  BY <1>2 DEF CreateListing, LInv, CustodyInv
<1>4. /\ A \in [Users -> Seq(ListingIds)]
      /\ \A v \in Users : A[v] \in Seq(ListingIds) /\ Len(A[v]) \in Nat /\ cancelCursor[v] \in Nat
  BY DEF LInv, ScalarInv
<1>5. /\ \A v \in Users : v # u => A'[v] = A[v]
      /\ Len(A'[u]) = Len(A[u]) + 1 /\ A'[u][Len(A[u]) + 1] = id
      /\ \A i \in 1..Len(A[u]) : A'[u][i] = A[u][i]
  <2>1. A'[u] = Append(A[u], id) /\ \A v \in Users : v # u => A'[v] = A[v]
    BY <1>1, <1>4
  <2> QED
    BY <1>2, <1>4, <2>1
<1> HIDE DEF id, A
<1>6. \A v \in Users : \A i \in 1..Len(A'[v]) : A'[v][i] <= listingCount'
  <2> SUFFICES ASSUME NEW v \in Users, NEW i \in 1..Len(A'[v]) PROVE A'[v][i] <= listingCount'
    OBVIOUS
  <2>1. CASE i \in 1..Len(A[v])
    <3>1. A'[v][i] = A[v][i] /\ A[v][i] \in ListingIds /\ A[v][i] <= listingCount
      BY <1>4, <1>5, <2>1 DEF SweepInv, A
    <3> QED
      BY <1>1, <1>2, <3>1
  <2>2. CASE i \notin 1..Len(A[v])
    <3>1. v = u /\ i = Len(A[u]) + 1
      BY <1>4, <1>5, <2>2
    <3> QED
      BY <1>1, <1>2, <1>5, <3>1 DEF ListingIds
  <2> QED
    BY <2>1, <2>2
<1>7. \A v \in Users : \A i \in 1..cancelCursor[v] : ~IsActive(A[v][i])' /\ A'[v][i] = A[v][i]
  <2> SUFFICES ASSUME NEW v \in Users, NEW i \in 1..cancelCursor[v]
               PROVE  (A'[v][i] = A[v][i]) /\ listing'[A'[v][i]].status # "Active"
    BY DEF IsActive
  <2>1. v # u /\ i \in 1..Len(A[v])
    BY <1>1, <1>4 DEF SweepInv, A
  <2>2. A[v][i] \in ListingIds /\ A[v][i] <= listingCount /\ ~IsActive(A[v][i])
    BY <1>4, <2>1 DEF SweepInv, A
  <2>3. A[v][i] # id
    BY <1>2, <2>2 DEF id, ListingIds
  <2> QED
    BY <1>3, <1>5, <2>1, <2>2, <2>3 DEF IsActive
<1>8. \A l \in ListingIds : l <= listingCount' =>
        \E i \in 1..Len(A'[listing'[l].artist]) : A'[listing'[l].artist][i] = l
  <2> SUFFICES ASSUME NEW l \in ListingIds, l <= listingCount'
               PROVE  \E i \in 1..Len(A'[listing'[l].artist]) : A'[listing'[l].artist][i] = l
    OBVIOUS
  <2>1. CASE l = id
    BY <1>3, <1>4, <1>5, <2>1
  <2>2. CASE l # id
    <3>1. l <= listingCount /\ listing'[l] = listing[l] /\ listing[l].artist \in Users
      BY <1>1, <1>2, <1>3, <2>2 DEF LInv, CustodyInv
    <3>2. PICK i \in 1..Len(A[listing[l].artist]) : A[listing[l].artist][i] = l
      BY <3>1 DEF SweepInv, A
    <3>3. i \in 1..Len(A'[listing[l].artist]) /\ A'[listing[l].artist][i] = l
      BY <1>4, <1>5, <3>1, <3>2
    <3> QED
      BY <3>1, <3>3
  <2> QED
    BY <2>1, <2>2
<1>9. \A v \in Users : cancelCursor[v] <= Len(A'[v])
  BY <1>4, <1>5 DEF SweepInv, A
<1> QED
  BY <1>1, <1>6, <1>7, <1>8, <1>9 DEF SweepInv, A, IsActive

(* Every step keeps it. *)
LEMMA SweepStep ==
  ASSUME LInv, SweepInv, [LNext]_lvars
  PROVE  SweepInv'
<1>1. \/ \E u \in Users, n \in Nfts, p \in Prices, e \in Deadlines : CreateListing(u, n, p, e)
      \/ \E u \in Users : ReinstateArtist(u)
      \/ \E u \in Users, k \in 0..MaxListings : CancelArtistListings(u, k)
      \/ (\E u \in Revocable : RevokeArtist(u)) /\ UNCHANGED listingVars
      \/ UNCHANGED <<artistListings, cancelCursor, revoked>>
  BY ZenonT(60) DEF LNext, ListingsNext, UpdateListing, UpdateListingPrice, Reprice,
    SetListingReservation, ReconcileListingOwner, BuyArtwork, BuyExpired,
    CancelListings, ExpireListing, MakeOffer, WithdrawOffer, RejectOffer, ReclaimOffer,
    SweepExpiredOffers, AcceptOffer, CounterOffer, AcceptCounterOffer, Sell, CancelAll,
    CloseOffers, listingVars, lvars, custodyVars, policyVars, CustodyNext, Tick, TransferNft,
    SetPaused, SetTokenPolicy
<1>2. CASE UNCHANGED <<artistListings, cancelCursor, revoked>>
  <2>1. ASSUME UNCHANGED listingVars PROVE SweepInv'
    BY <1>2, <2>1 DEF SweepInv, listingVars, IsActive
  <2>2. ASSUME NEW S, ListingsClosed(S) PROVE SweepInv'
    BY <1>2, <2>2, ClosedKeepsSweep
  <2>3. ASSUME NEW l \in ListingIds, NEW u \in Users, NEW x \in Amounts, NEW e \in Deadlines,
               MakeOffer(l, u, x, e)
        PROVE  SweepInv'
    BY <2>1, <2>3 DEF MakeOffer
  <2>4. ASSUME NEW o \in OfferIds, NEW x \in Amounts, NEW e \in Deadlines, CounterOffer(o, x, e)
        PROVE  SweepInv'
    BY <2>1, <2>4 DEF CounterOffer
  <2> QED
    BY <2>1, <2>2, <2>3, <2>4, CreateKeepsSweep, StepKinds, ZenonT(30)
<1> QED
  BY <1>1, <1>2, CreateKeepsSweep, ReinstateKeepsSweep, SweepKeepsSweep, RevokeKeepsSweep, ZenonT(30)

(* Once the revocation sweep has reached the end of an artist's index, the   *)
(* artist has no Active listing, in whatever portions and between whatever   *)
(* other calls it was done (cancel_artist_listings).                         *)
THEOREM SweepCorrect == LSpec => []SweepComplete
<1>1. LInit => SweepInv
  BY ListingsAssumption DEF LInit, CustodyInit, ListingsInit, SweepInv, ListingIds
<1>2. LInv /\ SweepInv => SweepComplete
  <2> SUFFICES ASSUME LInv, SweepInv, NEW u \in revoked,
                      cancelCursor[u] = Len(artistListings[u]),
                      NEW l \in ListingIds, listing[l].artist = u
               PROVE  ~IsActive(l)
    BY DEF SweepComplete
  <2>1. CASE l <= listingCount
    <3>1. u \in Users
      BY DEF SweepInv
    <3>2. PICK i \in 1..Len(artistListings[u]) : artistListings[u][i] = l
      BY <2>1 DEF SweepInv
    <3> QED
      BY <3>1, <3>2 DEF SweepInv
  <2>2. CASE ~(l <= listingCount)
    BY <2>2 DEF LInv, CustodyInv, IsActive
  <2> QED
    BY <2>1, <2>2
<1>3. LInv /\ SweepInv /\ [LNext]_lvars => SweepInv'
  BY SweepStep
<1> QED
  BY LInvInit, LInvStep, <1>1, <1>2, <1>3, PTL DEF LSpec

----------------------------------------------------------------------------
(* Two Active listings are of two NFTs. *)
LEMMA OneListingPerNft ==
  ASSUME CustodyInv, NEW l \in ListingIds, NEW k \in ListingIds, IsActive(l), IsActive(k),
         listing[l].nft = listing[k].nft
  PROVE  l = k
<1>1. ListingEscrow(l) = ListingEscrow(k)
  BY DEF CustodyInv, ListingCustody
<1>2. ListingEscrow(l).id = l /\ ListingEscrow(k).id = k
  BY DEF ListingEscrow
<1> QED
  BY <1>1, <1>2

(* An Active listing is of a real NFT. *)
LEMMA ActiveIsReal ==
  ASSUME CustodyInv, NEW l \in ListingIds, IsActive(l)
  PROVE  listing[l].nft \in Nfts /\ listing[l].artist \in Users
BY DEF CustodyInv, IsActive

(* A sale hands the NFT to the owner it records. *)
LEMMA SellDelivers ==
  ASSUME CustodyInv, NEW l \in ListingIds, IsActive(l), NEW buyer, NEW offers, NEW P,
         Sell(l, buyer, offers, P)
  PROVE  ListingsDeliver
<1>1. /\ listing' = [listing EXCEPT ![l].status = "Sold", ![l].owner = buyer]
      /\ nftOwner' = [nftOwner EXCEPT ![listing[l].nft] = buyer]
  BY DEF Sell, ReleaseNft
<1>2. /\ listing'[l].status = "Sold" /\ listing'[l].owner = buyer
      /\ \A k \in ListingIds : k # l => listing'[k] = listing[k]
  BY <1>1 DEF CustodyInv, ListingRecord
<1>3. nftOwner'[listing[l].nft] = buyer
  BY <1>1, ActiveIsReal DEF CustodyInv
<1> QED
  BY <1>2, <1>3 DEF ListingsDeliver

(* A cancellation of any number of listings returns each NFT to its artist. *)
LEMMA CancelDelivers ==
  ASSUME CustodyInv, NEW S, S \subseteq {l \in ListingIds : IsActive(l)}, CancelAll(S)
  PROVE  ListingsDeliver
<1>1. \A l \in ListingIds :
        /\ l \in S => listing'[l].status = "Cancelled"
        /\ l \notin S => listing'[l] = listing[l]
  BY DEF CancelAll, Marked, CustodyInv, ListingRecord
<1>2. ASSUME NEW l \in S PROVE nftOwner'[listing[l].nft] = listing[l].artist
  <2> DEFINE k == CHOOSE i \in S : listing[i].nft = listing[l].nft
  <2>1. k \in S /\ listing[k].nft = listing[l].nft
    OBVIOUS
  <2>2. listing[l].nft \in Nfts
    BY ActiveIsReal
  <2>3. nftOwner'[listing[l].nft] = listing[k].artist
    BY <2>2 DEF CancelAll
  <2> HIDE DEF k
  <2>4. k = l
    BY <2>1, OneListingPerNft
  <2> QED
    BY <2>3, <2>4
<1> QED
  BY <1>1, <1>2 DEF ListingsDeliver

(* So does an expiry. *)
LEMMA ExpireDelivers ==
  ASSUME CustodyInv, NEW l \in ListingIds, ExpireListing(l)
  PROVE  ListingsDeliver
<1>1. /\ IsActive(l) /\ listing' = [listing EXCEPT ![l].status = "Cancelled"]
      /\ nftOwner' = [nftOwner EXCEPT ![listing[l].nft] = listing[l].artist]
  BY DEF ExpireListing, ReleaseNft
<1>2. \A k \in ListingIds :
        /\ k = l => listing'[k].status = "Cancelled"
        /\ k # l => listing'[k] = listing[k]
  BY <1>1 DEF CustodyInv, ListingRecord
<1>3. nftOwner'[listing[l].nft] = listing[l].artist
  BY <1>1, ActiveIsReal DEF CustodyInv
<1> QED
  BY <1>1, <1>2, <1>3 DEF ListingsDeliver

(* Every step delivers what it ends. *)
LEMMA DeliverStep ==
  ASSUME LInv, [LNext]_lvars
  PROVE  ListingsDeliver
<1> USE DEF LInv
<1>1. ASSUME UNCHANGED listing PROVE ListingsDeliver
  BY <1>1 DEF ListingsDeliver
<1>2. ASSUME NEW u \in Users, NEW n \in Nfts, NEW p \in Prices, NEW e \in Deadlines,
             CreateListing(u, n, p, e)
      PROVE  ListingsDeliver
  <2> DEFINE id == listingCount + 1
             x == [status |-> "Active", artist |-> u, nft |-> n, price |-> p,
                   expires |-> e, owner |-> None, reservation |-> NoReservation]
  <2>1. listing' = [listing EXCEPT ![id] = x] /\ listingCount < MaxListings
    BY <1>2 DEF CreateListing
  <2>2. id \in ListingIds /\ ~(id <= listingCount)
    BY <2>1, ListingsAssumption DEF CustodyInv, ListingIds
  <2>3. listing[id].status = "Absent" /\ x.status = "Active"
    BY <2>2 DEF CustodyInv
  <2>4. \A l \in ListingIds : listing'[l] = IF l = id THEN x ELSE listing[l]
    BY <2>1, <2>2 DEF CustodyInv
  <2> HIDE DEF x, id
  <2> QED
    BY <2>3, <2>4 DEF ListingsDeliver
<1>3. ASSUME NEW l \in ListingIds,
             \/ \E p \in Prices : UpdateListing(l, p) \/ UpdateListingPrice(l, p)
             \/ \E r \in Reservations : SetListingReservation(l, r)
             \/ \E u \in Reconciled : ReconcileListingOwner(l, u)
      PROVE  ListingsDeliver
  <2>1. ListingsClosed({})
    BY <1>3, EditCloses
  <2> QED
    BY <2>1 DEF ListingsClosed, ListingsDeliver
<1>4. ASSUME NEW l \in ListingIds, NEW u \in Users, BuyArtwork(l, u) PROVE ListingsDeliver
  BY <1>4, SellDelivers DEF BuyArtwork, BuyGuard
<1>5. ASSUME NEW l \in ListingIds, NEW u \in Users, BuyExpired(l, u) PROVE ListingsDeliver
  <2>1. {l} \subseteq {k \in ListingIds : IsActive(k)} /\ CancelAll({l})
    BY <1>5, ZenonT(30) DEF BuyExpired, BuyGuard
  <2> QED
    BY <2>1, CancelDelivers
<1>6. ASSUME NEW u \in Users, NEW S \in SUBSET ListingIds, CancelListings(u, S)
      PROVE  ListingsDeliver
  <2>1. S \subseteq {k \in ListingIds : IsActive(k)} /\ CancelAll(S)
    BY <1>6 DEF CancelListings
  <2> QED
    BY <2>1, CancelDelivers
<1>7. ASSUME NEW u \in Users, NEW k \in 0..MaxListings, CancelArtistListings(u, k)
      PROVE  ListingsDeliver
  <2> DEFINE S == ActiveBetween(u, cancelCursor[u] + 1, SweepEnd(u, k))
  <2>1. CancelAll(S) \/ UNCHANGED listing
    BY <1>7, ZenonT(30) DEF CancelArtistListings
  <2>2. S \subseteq {l \in ListingIds : IsActive(l)}
    BY ZenonT(30) DEF ActiveBetween
  <2> HIDE DEF S
  <2> QED
    BY <1>1, <2>1, <2>2, CancelDelivers
<1>8. ASSUME NEW o \in OfferIds, NEW u, AcceptOffer(o) \/ AcceptCounterOffer(o, u)
      PROVE  ListingsDeliver
  <2>1. IsPending(o) /\ IsActive(offer[o].listing)
    BY <1>8, ZenonT(30) DEF AcceptOffer, AcceptCounterOffer, Acceptable
  <2>2. offer[o].listing \in ListingIds
    BY <2>1, PendingIsReal, ZenonT(30)
  <2>3. \E buyer, offers, P : Sell(offer[o].listing, buyer, offers, P)
    BY <1>8, ZenonT(30) DEF AcceptOffer, AcceptCounterOffer
  <2> QED
    BY <2>1, <2>2, <2>3, SellDelivers
<1>9. \/ UNCHANGED listing
      \/ \E u \in Users, n \in Nfts, p \in Prices, e \in Deadlines : CreateListing(u, n, p, e)
      \/ \E l \in ListingIds :
           \/ \E p \in Prices : UpdateListing(l, p) \/ UpdateListingPrice(l, p)
           \/ \E r \in Reservations : SetListingReservation(l, r)
           \/ \E u \in Reconciled : ReconcileListingOwner(l, u)
      \/ \E l \in ListingIds, u \in Users : BuyArtwork(l, u)
      \/ \E l \in ListingIds, u \in Users : BuyExpired(l, u)
      \/ \E u \in Users, S \in SUBSET ListingIds : CancelListings(u, S)
      \/ \E l \in ListingIds : ExpireListing(l)
      \/ \E u \in Users, k \in 0..MaxListings : CancelArtistListings(u, k)
      \/ \E o \in OfferIds : AcceptOffer(o) \/ \E u \in Users : AcceptCounterOffer(o, u)
  BY ZenonT(60) DEF LNext, ListingsNext, ReinstateArtist, MakeOffer, WithdrawOffer, RejectOffer,
    ReclaimOffer, SweepExpiredOffers, CounterOffer, CloseOffers, listingVars, lvars
<1> QED
  BY <1>1, <1>2, <1>3, <1>4, <1>5, <1>6, <1>7, <1>8, <1>9, ExpireDelivers, ZenonT(30)

(* Every step changes the status of new and of Pending offers only. *)
LEMMA EndOnceStep ==
  ASSUME LInv, [LNext]_lvars
  PROVE  OffersEndOnce
<1> USE DEF LInv
<1>1. ASSUME UNCHANGED offer PROVE OffersEndOnce
  BY <1>1 DEF OffersEndOnce
<1>2. ASSUME NEW T, OffersResolved(T) PROVE OffersEndOnce
  BY <1>2 DEF OffersResolved, OffersEndOnce, IsPending
<1>3. ASSUME offerCount < MaxOffers
      PROVE  offer[offerCount + 1].status = "Absent"
  <2>1. offerCount + 1 \in OfferIds /\ ~(offerCount + 1 <= offerCount)
    BY <1>3, ListingsAssumption DEF OfferInv, OfferIds
  <2> QED
    BY <2>1 DEF OfferInv, AbsentOffer
<1>4. ASSUME NEW l \in ListingIds, NEW u \in Users, NEW x \in Amounts, NEW e \in Deadlines,
             MakeOffer(l, u, x, e)
      PROVE  OffersEndOnce
  <2>1. offerCount < MaxOffers /\ \E r : offer' = [offer EXCEPT ![offerCount + 1] = r]
    BY <1>4, ZenonT(30) DEF MakeOffer
  <2> QED
    BY <1>3, <2>1 DEF OffersEndOnce, OfferInv
<1>5. ASSUME NEW o \in OfferIds, NEW x \in Amounts, NEW e \in Deadlines, CounterOffer(o, x, e)
      PROVE  OffersEndOnce
  <2>1. /\ offerCount < MaxOffers /\ IsPending(o)
        /\ \E r : offer' = [Marked(offer, {o}, "Rejected") EXCEPT ![offerCount + 1] = r]
    BY <1>5, ZenonT(30) DEF CounterOffer
  <2>2. \A i \in OfferIds : i # o /\ i # offerCount + 1 => offer'[i] = offer[i]
    BY <2>1 DEF Marked, OfferInv
  <2> QED
    BY <1>3, <2>1, <2>2 DEF OffersEndOnce, IsPending
<1> QED
  BY <1>1, <1>2, <1>4, <1>5, StepKinds, ZenonT(30) DEF CreateListing, offerVars

(* A sale delivers to the owner it records, a cancellation to the artist, and *)
(* nothing terminal changes again, for whatever listings a call ends at once. *)
THEOREM TransitionsCorrect == LSpec => TransitionsDeliver
<1>1. LInv /\ [LNext]_lvars => [ListingsDeliver /\ OffersEndOnce]_lvars
  BY DeliverStep, EndOnceStep
<1> QED
  BY LInvInit, LInvStep, <1>1, PTL DEF LSpec, TransitionsDeliver

----------------------------------------------------------------------------
(* The size of a set; the theorems on finite sets come last in this module. *)
Size(S) == Cardinality(S)

LEMMA SizeDef ==
  \A S : Size(S) = LET CS[T \in SUBSET S] ==
                         IF T = {} THEN 0 ELSE 1 + CS[T \ {CHOOSE x : x \in T}]
                   IN  CS[S]
BY DEF Size, Cardinality

(* How a step moves offers into and out of the pending sets: offers leave, or *)
(* make_offer adds one below the cap, or a counter-offer takes the place of   *)
(* the offer it answers.                                                      *)
Leaves == \A l \in ListingIds : pendingOffers'[l] \in SUBSET pendingOffers[l]

Becomes(l, Q) ==
  \A k \in ListingIds : pendingOffers'[k] = IF k = l THEN Q ELSE pendingOffers[k]

LEMMA PendingMoves ==
  ASSUME LInv, [LNext]_lvars
  PROVE  \/ Leaves
         \/ \E l \in ListingIds, i \in Nat :
              /\ Size(pendingOffers[l]) < MaxOffersPerListing
              /\ Becomes(l, pendingOffers[l] \cup {i})
         \/ \E l \in ListingIds, i \in Nat : \E o \in pendingOffers[l] :
              Becomes(l, (pendingOffers[l] \ {o}) \cup {i})
<1>0. /\ pendingOffers \in [ListingIds -> SUBSET OfferIds] /\ offerCount + 1 \in Nat
      /\ CustodyInv /\ OfferInv /\ PendingSets
  BY ListingsAssumption DEF LInv, OfferInv
<1>1. ASSUME NEW T, OffersResolved(T) PROVE Leaves
  BY <1>1 DEF OffersResolved, Leaves
<1>2. ASSUME UNCHANGED pendingOffers PROVE Leaves
  BY <1>2 DEF Leaves
<1>3. ASSUME NEW l \in ListingIds, NEW u \in Users, NEW x \in Amounts, NEW e \in Deadlines,
             MakeOffer(l, u, x, e)
      PROVE  /\ Size(pendingOffers[l]) < MaxOffersPerListing
             /\ Becomes(l, pendingOffers[l] \cup {offerCount + 1})
  <2>1. /\ Size(pendingOffers[l]) < MaxOffersPerListing
        /\ pendingOffers' = [pendingOffers EXCEPT ![l] = @ \cup {offerCount + 1}]
    BY <1>3 DEF MakeOffer, Size
  <2> QED
    BY <1>0, <2>1 DEF Becomes
<1>4. ASSUME NEW o \in OfferIds, NEW x \in Amounts, NEW e \in Deadlines, CounterOffer(o, x, e)
      PROVE  \E l \in ListingIds : o \in pendingOffers[l]
               /\ Becomes(l, (pendingOffers[l] \ {o}) \cup {offerCount + 1})
  <2> DEFINE l == offer[o].listing
  <2>1. /\ IsPending(o)
        /\ pendingOffers' = [pendingOffers EXCEPT ![l] = (@ \ {o}) \cup {offerCount + 1}]
    BY <1>4 DEF CounterOffer
  <2>2. l \in ListingIds
    BY <1>0, <2>1, PendingIsReal, Zenon
  <2>3. o \in pendingOffers[l]
    BY <1>0, <2>1, <2>2 DEF PendingSets
  <2> HIDE DEF l
  <2>4. Becomes(l, (pendingOffers[l] \ {o}) \cup {offerCount + 1})
    BY <1>0, <2>1 DEF Becomes
  <2> QED
    BY <2>2, <2>3, <2>4
<1>5. ASSUME NEW u \in Users, NEW n \in Nfts, NEW p \in Prices, NEW e \in Deadlines,
             CreateListing(u, n, p, e)
      PROVE  Leaves
  BY <1>2, <1>5 DEF CreateListing, offerVars
<1>6. ASSUME UNCHANGED <<listingVars, offerVars>> PROVE Leaves
  BY <1>2, <1>6 DEF offerVars
<1> QED
  BY <1>0, <1>1, <1>3, <1>4, <1>5, <1>6, StepKinds, ZenonT(30)

(* The cap part of PendingIndexExact. *)
Capped ==
  \A l \in ListingIds : Size(pendingOffers[l]) <= MaxOffersPerListing

LEMMA PendingFacts ==
  /\ LInit => \A l \in ListingIds : pendingOffers[l] = {}
  /\ LInv => pendingOffers \in [ListingIds -> SUBSET OfferIds]
  /\ LInv /\ Capped => PendingIndexExact
BY DEF LInit, ListingsInit, LInv, OfferInv, PendingSets, Capped, PendingIndexExact, Size

----------------------------------------------------------------------------
(* How a step moves money between the balance and the offers' accounts. *)
Pays(T) ==
  /\ T \in SUBSET OfferIds
  /\ bank' = bank - SumOffers(T)
  /\ held' = [o \in OfferIds |-> IF o \in T THEN held[o] - offer[o].amount ELSE held[o]]

Takes(i, x) ==
  /\ ~paused
  /\ i \in OfferIds /\ x \in Nat
  /\ bank' = bank + x
  /\ held' = [held EXCEPT ![i] = @ + x]

LEMMA OfferMoney ==
  ASSUME LInv, [LNext]_lvars
  PROVE  \/ UNCHANGED <<bank, held>>
         \/ \E T : Pays(T)
         \/ \E i, x : Takes(i, x)
<1>1. ASSUME NEW T \in SUBSET OfferIds, Refund(T) PROVE Pays(T)
  BY <1>1 DEF Refund, PayOut, Pays
<1>2. \A S : OpenOffers(S) \in SUBSET OfferIds
  BY DEF OpenOffers
<1>3. \A S : CancelAll(S) => \E T : Pays(T)
  BY <1>1, <1>2, Zenon DEF CancelAll
<1>4. ASSUME NEW T \in SUBSET OfferIds, NEW status, CloseOffers(T, status) PROVE \E P : Pays(P)
  BY <1>1, <1>4, Zenon DEF CloseOffers
<1>5. ASSUME NEW l, NEW u, NEW f, NEW T \in SUBSET OfferIds, Sell(l, u, f, T)
      PROVE  \E P : Pays(P)
  BY <1>1, <1>5, Zenon DEF Sell
<1>6. ASSUME \/ \E u \in Users, n \in Nfts, p \in Prices, e \in Deadlines : CreateListing(u, n, p, e)
             \/ \E l \in ListingIds, p \in Prices : UpdateListing(l, p) \/ UpdateListingPrice(l, p)
             \/ \E l \in ListingIds, r \in Reservations : SetListingReservation(l, r)
             \/ \E l \in ListingIds, u \in Reconciled : ReconcileListingOwner(l, u)
             \/ \E l \in ListingIds : ExpireListing(l)
             \/ \E u \in Users : ReinstateArtist(u)
      PROVE  UNCHANGED <<bank, held>>
  BY <1>6, ZenonT(30) DEF CreateListing, UpdateListing, UpdateListingPrice, Reprice,
    SetListingReservation, ReconcileListingOwner, ExpireListing, ReinstateArtist, custodyVars, offerVars
<1>7. ASSUME NEW u, NEW k, CancelArtistListings(u, k)
      PROVE  UNCHANGED <<bank, held>> \/ \E T : Pays(T)
  BY <1>3, <1>7, Zenon DEF CancelArtistListings, custodyVars, offerVars
<1>8. ASSUME \/ \E l \in ListingIds, u \in Users : BuyExpired(l, u)
             \/ \E u \in Users, S \in SUBSET ListingIds : CancelListings(u, S)
      PROVE  \E T : Pays(T)
  BY <1>3, <1>8, Zenon DEF BuyExpired, CancelListings
<1>9. ASSUME NEW l \in ListingIds, NEW u \in Users, BuyArtwork(l, u)
      PROVE  \E T : Pays(T)
  BY <1>2, <1>5, <1>9, Zenon DEF BuyArtwork
<1>10. ASSUME NEW o \in OfferIds, AcceptOffer(o) \/ \E u \in Users : AcceptCounterOffer(o, u)
       PROVE  \E T : Pays(T)
  <2> DEFINE siblings == OpenOffers({offer[o].listing}) \ {o}
  <2>1. siblings \in SUBSET OfferIds /\ siblings \cup {o} \in SUBSET OfferIds
    BY <1>2
  <2>2. \E l, b, f : Sell(l, b, f, siblings) \/ Sell(l, b, f, siblings \cup {o})
    BY <1>10, Zenon DEF AcceptOffer, AcceptCounterOffer
  <2> QED
    BY <1>5, <2>1, <2>2, Zenon
<1>11. ASSUME NEW o \in OfferIds, WithdrawOffer(o) \/ RejectOffer(o) \/ ReclaimOffer(o)
       PROVE  \E T : Pays(T)
  <2>1. {o} \in SUBSET OfferIds
    OBVIOUS
  <2> QED
    BY <1>4, <1>11, <2>1, Zenon DEF WithdrawOffer, RejectOffer, ReclaimOffer
<1>12. ASSUME NEW S \in SUBSET OfferIds, SweepExpiredOffers(S)
       PROVE  \E T : Pays(T)
  <2> DEFINE T == {o \in S : IsPending(o) /\ Passed(offer[o].expires)}
  <2>1. T \in SUBSET OfferIds /\ CloseOffers(T, "Expired")
    BY <1>12 DEF SweepExpiredOffers
  <2> HIDE DEF T
  <2> QED
    BY <1>4, <2>1, Zenon
<1>13. ASSUME NEW l \in ListingIds, NEW u \in Users, NEW x \in Amounts, NEW e \in Deadlines,
              MakeOffer(l, u, x, e)
       PROVE  Takes(offerCount + 1, x)
  <2>1. /\ offerCount < MaxOffers /\ bank' = bank + x /\ ~paused
        /\ held' = [held EXCEPT ![offerCount + 1] = @ + x]
    BY <1>13 DEF MakeOffer, PayIn
  <2>2. offerCount + 1 \in OfferIds /\ x \in Nat
    BY <2>1, ListingsAssumption DEF LInv, OfferInv, OfferIds
  <2> QED
    BY <2>1, <2>2 DEF Takes
<1>14. ASSUME NEW o \in OfferIds, NEW x, NEW e, CounterOffer(o, x, e)
       PROVE  \E T : Pays(T)
  <2>1. {o} \in SUBSET OfferIds /\ Refund({o})
    BY <1>14 DEF CounterOffer
  <2> QED
    BY <1>1, <2>1, Zenon
<1>15. CASE ListingsNext
  BY <1>6, <1>7, <1>8, <1>9, <1>10, <1>11, <1>12, <1>13, <1>14, <1>15, ZenonT(60)
    DEF ListingsNext
<1>16. CASE CustodyNext /\ UNCHANGED <<listingVars, offerVars>>
  BY <1>16, Zenon DEF CustodyNext, Tick, TransferNft, SetPaused, SetTokenPolicy, RevokeArtist, offerVars
<1>17. CASE UNCHANGED lvars
  BY <1>17, Zenon DEF lvars, custodyVars, offerVars
<1> QED
  BY <1>15, <1>16, <1>17, Zenon DEF LNext

(* While paused no listing call moves an NFT into custody. *)
LEMMA PauseKeepsNfts ==
  ASSUME LInv, [LNext]_lvars, paused
  PROVE  \A n \in Nfts : nftOwner'[n] = Contract => nftOwner[n] = Contract
<1>0. nftOwner \in [Nfts -> Users \cup {Contract}]
  BY DEF LInv, CustodyInv
<1>1. ASSUME NEW u, NEW n, NEW p, NEW e, CreateListing(u, n, p, e) PROVE FALSE
  BY <1>1 DEF CreateListing, MaySell
<1>2. ASSUME NEW l, NEW u, NEW x, NEW e, MakeOffer(l, u, x, e) PROVE FALSE
  BY <1>2 DEF MakeOffer
<1>3. ASSUME NEW o, NEW x, NEW e, CounterOffer(o, x, e) PROVE nftOwner' = nftOwner
  BY <1>3 DEF CounterOffer
<1>4. ASSUME NEW u \in Users, NEW v \in Collectors, NEW k \in Nfts, TransferNft(u, v, k),
             NEW n \in Nfts, nftOwner'[n] = Contract
      PROVE  nftOwner[n] = Contract
  BY <1>0, <1>4, CustodyAssumption DEF TransferNft
<1>5. ASSUME NEW S, ListingsClosed(S), NEW n \in Nfts, nftOwner'[n] = Contract
      PROVE  nftOwner[n] = Contract
  BY <1>5, CustodyAssumption DEF ListingsClosed
<1> QED
  BY <1>1, <1>2, <1>3, <1>4, <1>5, StepKinds, ZenonT(30)

----------------------------------------------------------------------------
(* How an auction call moves money between the balance and the account of the *)
(* auction it is made on.                                                     *)
LEMMA BidMoney ==
  ASSUME AuctionInv, AuctionsNext, bank \in Int, bidHeld \in [AuctionIds -> Int],
         \A n \in Nat : \A B \in SUBSET (1..n) : B # {} => Max(B) \in B
  PROVE  \/ UNCHANGED <<bank, bidHeld>>
         \/ \E x \in AuctionIds, m \in Int :
              bank' = bank + m /\ bidHeld' = [bidHeld EXCEPT ![x] = @ + m]
<1>0. /\ \A x \in AuctionIds : auction[x].highestBid \in Int
      /\ bids \in [AuctionIds -> Seq(Bid)] /\ BidAmounts \subseteq Int
  BY AuctionsAssumption DEF AuctionInv, AuctionRecord
<1>1. ASSUME \/ \E c \in AuctionConfigs : SetAuctionConfig(c)
             \/ \E u \in Users, n \in Nfts, r \in BidAmounts, d \in Durations : CreateAuction(u, n, r, d)
             \/ \E x \in AuctionIds, u \in Blockable : BlockBidder(x, u)
             \/ \E x \in AuctionIds, u \in Blockable : UnblockBidder(x, u)
             \/ \E x \in AuctionIds : CancelAuction(x)
             \/ \E x \in AuctionIds, r \in BidAmounts : UpdateAuctionReservePrice(x, r)
      PROVE  UNCHANGED <<bank, bidHeld>>
  BY <1>1, ZenonT(30) DEF SetAuctionConfig, CreateAuction, BlockBidder, UnblockBidder,
    CancelAuction, UpdateAuctionReservePrice, custodyVars
<1>2. ASSUME NEW x \in AuctionIds, NEW m \in Int, bank' = bank - m,
             bidHeld' = [bidHeld EXCEPT ![x] = @ - m]
      PROVE  \E k \in Int : bank' = bank + k /\ bidHeld' = [bidHeld EXCEPT ![x] = @ + k]
  <2>1. -m \in Int /\ bank - m = bank + (-m) /\ bidHeld[x] - m = bidHeld[x] + (-m)
    BY <1>2
  <2> QED
    BY <1>2, <2>1, Zenon
<1>3. ASSUME NEW x \in AuctionIds, NEW u \in Users, NEW m \in BidAmounts, PlaceBid(x, u, m)
      PROVE  \E k \in Int : bank' = bank + k /\ bidHeld' = [bidHeld EXCEPT ![x] = @ + k]
  <2> DEFINE h == auction[x].highestBid
  <2>1. /\ bank' = bank - h + m
        /\ bidHeld' = [bidHeld EXCEPT ![x] = @ - h + m]
    BY <1>3 DEF PlaceBid
  <2>2. h \in Int /\ m \in Int
    BY <1>0
  <2> HIDE DEF h
  <2>3. /\ m - h \in Int /\ bank - h + m = bank + (m - h)
        /\ bidHeld[x] - h + m = bidHeld[x] + (m - h)
    BY <2>2
  <2> QED
    BY <2>1, <2>3, Zenon
<1>4. ASSUME NEW x \in AuctionIds, FinalizeAuction(x) \/ AdminCancelAuction(x)
      PROVE  \E k \in Int : bank' = bank + k /\ bidHeld' = [bidHeld EXCEPT ![x] = @ + k]
  <2>1. /\ bank' = bank - auction[x].highestBid
        /\ bidHeld' = [bidHeld EXCEPT ![x] = @ - auction[x].highestBid]
    BY <1>4, Zenon DEF FinalizeAuction, AdminCancelAuction, PayOut
  <2> QED
    BY <1>0, <1>2, <2>1, Zenon
<1>5. ASSUME NEW x \in AuctionIds, NEW u \in Users, RefundLosingBid(x, u)
      PROVE  \E k \in Int : bank' = bank + k /\ bidHeld' = [bidHeld EXCEPT ![x] = @ + k]
  <2> DEFINE B == BidsBy(x, u)
             m == bids[x][Max(B)].amount
  <2>1. B # {} /\ bank' = bank - m /\ bidHeld' = [bidHeld EXCEPT ![x] = @ - m]
    BY <1>5 DEF RefundLosingBid, PayOut
  <2>2. m \in Int
    <3>1. bids[x] \in Seq(Bid) /\ Len(bids[x]) \in Nat /\ B \in SUBSET (1..Len(bids[x]))
      BY <1>0 DEF BidsBy
    <3>2. Max(B) \in 1..Len(bids[x])
      <4> HIDE DEF B
      <4> QED
        BY <2>1, <3>1, Zenon
    <3>3. bids[x][Max(B)] \in Bid
      <4> HIDE DEF B
      <4> QED
        BY <3>1, <3>2
    <3> QED
      BY <3>3 DEF Bid
  <2> HIDE DEF m
  <2> QED
    BY <1>2, <2>1, <2>2, Zenon
<1> QED
  BY <1>1, <1>3, <1>4, <1>5, ZenonT(30) DEF AuctionsNext

----------------------------------------------------------------------------
(* The sum of f over S, and the recursion that defines it. *)
Total(f, S) == SumFunctionOnSet(f, S)

IsSum(g, f, S) ==
  g = [s \in SUBSET S |-> IF s = {} THEN 0
        ELSE LET x == CHOOSE x \in s : TRUE IN f[x] + g[s \ {x}]]

LEMMA SumIsChosen ==
  ASSUME NEW f, NEW S
  PROVE  Total(f, S) = (CHOOSE g : IsSum(g, f, S))[S]
BY DEF Total, SumFunctionOnSet, FoldFunctionOnSet, MapThenFoldSet, IsSum

----------------------------------------------------------------------------
(* What the accounts of the invariants say, in the form the sums need. *)
OfferAmounts == [o \in OfferIds |-> offer[o].amount]
HighestBids == [x \in AuctionIds |-> auction[x].highestBid]

LEMMA OfferAccounts ==
  /\ CustodyInit /\ ListingsInit => bank = 0 /\ held = [o \in OfferIds |-> 0]
  /\ LInv => held \in [OfferIds -> Int] /\ OfferAmounts \in [OfferIds -> Nat]
  /\ LInv /\ (\A o \in OfferIds : offer[o].parent = None) =>
       \A o \in OfferIds :
         held[o] = IF o \in {p \in OfferIds : IsPending(p)} THEN OfferAmounts[o] ELSE 0
<1>1. CustodyInit /\ ListingsInit => bank = 0 /\ held = [o \in OfferIds |-> 0]
  BY DEF CustodyInit, ListingsInit
<1>2. LInv => held \in [OfferIds -> Int] /\ OfferAmounts \in [OfferIds -> Nat]
  BY DEF LInv, OfferInv, OfferRecord, OfferAmounts
<1>3. LInv /\ (\A o \in OfferIds : offer[o].parent = None) =>
        \A o \in OfferIds : held[o] = IF IsPending(o) THEN offer[o].amount ELSE 0
  BY Zenon DEF LInv, OfferInv, DepositsBacked
<1> QED
  BY <1>1, <1>2, <1>3 DEF OfferAmounts

LEMMA BidAccounts ==
  /\ AuctionsInit => bidHeld = [x \in AuctionIds |-> 0]
  /\ AuctionInv => HighestBids \in [AuctionIds -> Int]
  /\ AuctionInv /\ (\A x \in AuctionIds : bidRefunded[x] \subseteq {auction[x].highestBidder}) =>
       \A x \in AuctionIds :
         bidHeld[x] = IF x \in {y \in AuctionIds : IsOpen(y)} THEN HighestBids[x] ELSE 0
<1>1. AuctionsInit => bidHeld = [x \in AuctionIds |-> 0]
  BY DEF AuctionsInit
<1>2. AuctionInv => HighestBids \in [AuctionIds -> Int]
  BY DEF AuctionInv, AuctionRecord, HighestBids
<1>3. AuctionInv /\ (\A x \in AuctionIds : bidRefunded[x] \subseteq {auction[x].highestBidder}) =>
        \A x \in AuctionIds : bidHeld[x] = IF IsOpen(x) THEN auction[x].highestBid ELSE 0
  BY SoundAuctions, Zenon DEF BidsBacked
<1> QED
  BY <1>1, <1>2, <1>3 DEF HighestBids

LEMMA HeldAfter == LInv' => held' \in [OfferIds -> Int]
BY DEF LInv, OfferInv

(* Which part of the contract a step belongs to. *)
LEMMA MarketMoves ==
  ASSUME [Next]_vars
  PROVE  \/ [LNext]_lvars /\ UNCHANGED bidHeld
         \/ AuctionsNext /\ UNCHANGED held
<1>1. CASE Next
  BY <1>1, Zenon DEF Next, LNext, auctionVars, offerVars
<1>2. CASE UNCHANGED vars
  BY <1>2, Zenon DEF vars, lvars, auctionVars
<1> QED
  BY <1>1, <1>2

LEMMA ConservationDefs ==
  /\ \A S : SumOffers(S) = Total(OfferAmounts, S)
  /\ Owed = SumOffers({o \in OfferIds : IsPending(o) /\ offer[o].parent = None})
            + Total(HighestBids, {x \in AuctionIds : IsOpen(x)})
<1>1. \A S : SumOffers(S) = Total(OfferAmounts, S)
  BY Zenon DEF SumOffers, OfferAmounts, Total
<1>2. Owed = SumOffers({o \in OfferIds : IsPending(o) /\ offer[o].parent = None})
             + Total(HighestBids, {x \in AuctionIds : IsOpen(x)})
  BY Zenon DEF Owed, HighestBids, Total
<1> QED
  BY <1>1, <1>2, Zenon

----------------------------------------------------------------------------
(* Sums and cardinalities of finite sets. *)
LOCAL INSTANCE FiniteSetTheorems

(* There are finitely many ids. *)
LEMMA FiniteIds == IsFiniteSet(OfferIds) /\ IsFiniteSet(AuctionIds)
BY FS_Interval, ListingsAssumption, AuctionsAssumption DEF OfferIds, AuctionIds

(* Size is the cardinality these theorems are about. *)
LEMMA SizeIsCardinality == \A S : Size(S) = Cardinality(S)
BY SizeDef DEF Cardinality

(* Sizes of subsets, and of sets that gain or exchange an element. *)
LEMMA SubsetSize ==
  ASSUME NEW S, IsFiniteSet(S), NEW T \in SUBSET S
  PROVE  IsFiniteSet(T) /\ Size(T) \in Nat /\ Size(T) <= Size(S)
BY SizeIsCardinality, FS_Subset, FS_CardinalityType, Zenon

LEMMA EmptySize == Size({}) = 0
BY SizeIsCardinality, FS_EmptySet, Zenon

LEMMA AddedSize ==
  ASSUME NEW S, IsFiniteSet(S), NEW i
  PROVE  Size(S \cup {i}) \in Nat /\ Size(S \cup {i}) <= Size(S) + 1
<1> DEFINE Q == S \cup {i}
<1>1. Size(S) \in Nat
  BY SizeIsCardinality, FS_CardinalityType, Zenon
<1>2. Size(Q) = Size(S) \/ Size(Q) = Size(S) + 1
  <2>1. CASE i \in S
    BY <2>1, SizeIsCardinality, FS_AddElement, Zenon
  <2>2. CASE i \notin S
    BY <2>2, SizeIsCardinality, FS_AddElement, Zenon
  <2> QED
    BY <2>1, <2>2, Zenon
<1> HIDE DEF Q
<1>3. Size(Q) \in Nat /\ Size(Q) <= Size(S) + 1
  BY <1>1, <1>2
<1> QED
  BY <1>3, Zenon DEF Q

LEMMA ExchangedSize ==
  ASSUME NEW S, IsFiniteSet(S), NEW o \in S, NEW i
  PROVE  /\ Size((S \ {o}) \cup {i}) \in Nat
         /\ Size((S \ {o}) \cup {i}) <= Size(S)
<1> DEFINE R == S \ {o}
           Q == R \cup {i}
<1>1. IsFiniteSet(R) /\ Size(R) = Size(S) - 1 /\ Size(S) \in Nat
  BY SizeIsCardinality, FS_RemoveElement, FS_CardinalityType, Zenon
<1> HIDE DEF R
<1>2. Size(Q) \in Nat /\ Size(Q) <= Size(R) + 1
  BY <1>1, AddedSize, Zenon
<1> HIDE DEF Q
<1>3. Size(Q) \in Nat /\ Size(Q) <= Size(S)
  BY <1>1, <1>2
<1> QED
  BY <1>3, Zenon DEF R, Q

(* Every nonempty set of naturals has a least element: the form of induction *)
(* over numbers that the proofs below use.                                   *)
LEMMA LeastNatural ==
  ASSUME NEW N \in SUBSET Nat, N # {}
  PROVE  \E n \in N : \A m \in N : n <= m
<1> DEFINE R == OpToRel(<, Nat)
<1>1. IsWellFoundedOn(R, Nat)
  BY NatLessThanWellFounded, Zenon
<1>2. \A m, n \in Nat : <<m, n>> \in R <=> m < n
  BY DEF OpToRel
<1> HIDE DEF R
<1>3. PICK n \in N : \A m \in N : ~(<<m, n>> \in R)
  BY <1>1, WFMin, Zenon
<1>4. ASSUME NEW m \in N PROVE n <= m
  <2>1. m \in Nat /\ n \in Nat /\ ~(<<m, n>> \in R)
    BY <1>3
  <2>2. ~(m < n)
    BY <1>2, <2>1
  <2> QED
    BY <2>1, <2>2
<1> QED
  BY <1>4

(* A set of subsets of a finite set that holds every set all of whose proper *)
(* subsets it holds is the set of all subsets.                               *)
LEMMA SubsetInduction ==
  ASSUME NEW S, IsFiniteSet(S), NEW D,
         \A T \in SUBSET S : (\A U \in SUBSET T : U # T => U \in D) => T \in D
  PROVE  \A T \in SUBSET S : T \in D
<1> DEFINE Bad == {T \in SUBSET S : T \notin D}
           Sizes == {Cardinality(T) : T \in Bad}
<1>1. SUFFICES ASSUME Bad # {} PROVE FALSE
  OBVIOUS
<1>2. \A T \in SUBSET S : IsFiniteSet(T) /\ Cardinality(T) \in Nat
  BY FS_Subset, FS_CardinalityType
<1>3. Sizes \in SUBSET Nat /\ Sizes # {}
  BY <1>1, <1>2
<1>4. PICK n \in Sizes : \A m \in Sizes : n <= m
  BY <1>3, LeastNatural, Zenon
<1>5. PICK T \in Bad : n = Cardinality(T)
  BY <1>4
<1>6. PICK U \in SUBSET T : U # T /\ U \notin D
  BY <1>5
<1>7. Cardinality(U) \in Sizes
  BY <1>5, <1>6
<1>8. Cardinality(U) < Cardinality(T)
  BY <1>2, <1>5, <1>6, FS_Subset
<1>9. Cardinality(U) \in Nat /\ Cardinality(T) \in Nat /\ n <= Cardinality(U)
  BY <1>2, <1>4, <1>5, <1>6, <1>7
<1> QED
  BY <1>5, <1>8, <1>9

(* Two recursive sums agree on every finite set they share. *)
LEMMA SumUnique ==
  ASSUME NEW f, NEW S, NEW T, NEW g, NEW h, IsSum(g, f, S), IsSum(h, f, T),
         NEW A \in SUBSET (S \cap T), IsFiniteSet(A)
  PROVE  g[A] = h[A]
<1> DEFINE D == {B \in SUBSET A : g[B] = h[B]}
<1>1. ASSUME NEW B \in SUBSET A, \A U \in SUBSET B : U # B => U \in D
      PROVE  B \in D
  <2>1. CASE B = {}
    BY <2>1 DEF IsSum
  <2>2. CASE B # {}
    <3> DEFINE x == CHOOSE x \in B : TRUE
    <3>1. x \in B
      BY <2>2
    <3>2. g[B] = f[x] + g[B \ {x}] /\ h[B] = f[x] + h[B \ {x}]
      BY <2>2 DEF IsSum
    <3>3. g[B \ {x}] = h[B \ {x}]
      BY <1>1, <3>1
    <3> QED
      BY <3>2, <3>3
  <2> QED
    BY <2>1, <2>2
<1> HIDE DEF D
<1>2. A \in D
  BY <1>1, SubsetInduction
<1> QED
  BY <1>2 DEF D

(* The recursion has a solution on every finite set: one for the subsets of *)
(* at most n elements extends to those of n + 1.                            *)
LEMMA SumExists ==
  ASSUME NEW f, NEW S, IsFiniteSet(S)
  PROVE  \E g : IsSum(g, f, S)
<1> DEFINE Small(n) == {s \in SUBSET S : Cardinality(s) <= n}
           Step(g, s) == IF s = {} THEN 0
                         ELSE LET x == CHOOSE x \in s : TRUE IN f[x] + g[s \ {x}]
           Good(n) == \E g : g = [s \in Small(n) |-> Step(g, s)]
           Bad == {n \in Nat : ~Good(n)}
<1>1. \A s \in SUBSET S : IsFiniteSet(s) /\ Cardinality(s) \in Nat /\ Cardinality(s) <= Cardinality(S)
  BY FS_Subset, FS_CardinalityType
<1>2. ASSUME NEW s \in SUBSET S, s # {}
      PROVE  /\ s \ {CHOOSE x \in s : TRUE} \in SUBSET S
             /\ Cardinality(s \ {CHOOSE x \in s : TRUE}) = Cardinality(s) - 1
  <2>1. (CHOOSE x \in s : TRUE) \in s
    BY <1>2
  <2> QED
    BY <1>1, <2>1, FS_RemoveElement, Zenon
<1>3. Good(0)
  <2> DEFINE g == [s \in Small(0) |-> 0]
  <2>1. \A s \in Small(0) : s = {}
    BY <1>1, FS_EmptySet
  <2>2. g = [s \in Small(0) |-> Step(g, s)]
    BY <2>1
  <2> QED
    BY <2>2, Zenon
<1>4. ASSUME NEW n \in Nat, Good(n) PROVE Good(n + 1)
  <2>1. PICK g : g = [s \in Small(n) |-> Step(g, s)]
    BY <1>4, Zenon
  <2> DEFINE h == [s \in Small(n + 1) |-> Step(g, s)]
  <2>2. ASSUME NEW s \in Small(n + 1), s # {}
        PROVE  /\ s \ {CHOOSE x \in s : TRUE} \in Small(n)
               /\ s \ {CHOOSE x \in s : TRUE} \in Small(n + 1)
    BY <1>1, <1>2, <2>2
  <2>3. \A s \in Small(n) : h[s] = g[s]
    <3>1. \A s \in Small(n) : s \in Small(n + 1)
      BY <1>1
    <3> QED
      BY <2>1, <3>1, Zenon
  <2>4. ASSUME NEW s \in Small(n + 1) PROVE Step(h, s) = Step(g, s)
    <3>1. CASE s = {}
      BY <3>1
    <3>2. CASE s # {}
      <4>1. h[s \ {CHOOSE x \in s : TRUE}] = g[s \ {CHOOSE x \in s : TRUE}]
        BY <2>2, <2>3, <3>2, Zenon
      <4> QED
        BY <4>1
    <3> QED
      BY <3>1, <3>2
  <2>5. h = [s \in Small(n + 1) |-> Step(g, s)]
    OBVIOUS
  <2> HIDE DEF Small, Step, h
  <2>6. h = [s \in Small(n + 1) |-> Step(h, s)]
    BY <2>4, <2>5
  <2> QED
    BY <2>6
<1> HIDE DEF Good
<1>5. Good(Cardinality(S))
  <2>1. SUFFICES ASSUME Bad # {} PROVE FALSE
    BY <1>1
  <2>2. PICK n \in Bad : \A m \in Bad : n <= m
    BY <2>1, LeastNatural, Zenon
  <2>3. n # 0
    BY <1>3
  <2>4. n - 1 \in Nat /\ ~(n <= n - 1)
    BY <2>3
  <2>5. Good(n - 1)
    BY <2>2, <2>4
  <2>6. Good((n - 1) + 1)
    BY <1>4, <2>4, <2>5
  <2> QED
    BY <2>6
<1>6. Small(Cardinality(S)) = SUBSET S
  BY <1>1
<1>7. PICK g : g = [s \in SUBSET S |-> Step(g, s)]
  BY <1>5, <1>6, Zenon DEF Good
<1> QED
  BY <1>7, Zenon DEF IsSum

(* What the sum over a finite set is: 0 over no index; otherwise, split at the *)
(* chosen index.                                                               *)
LEMMA SumUnfolds ==
  ASSUME NEW f, NEW S, IsFiniteSet(S), S # {}
  PROVE  LET x == CHOOSE x \in S : TRUE
         IN  Total(f, S) = f[x] + Total(f, S \ {x})
<1> DEFINE x == CHOOSE x \in S : TRUE
           g == CHOOSE g : IsSum(g, f, S)
           h == CHOOSE h : IsSum(h, f, S \ {x})
<1>1. x \in S /\ IsFiniteSet(S \ {x})
  BY FS_Subset
<1>2. IsSum(g, f, S) /\ IsSum(h, f, S \ {x})
  BY <1>1, SumExists, Zenon
<1>3. g[S] = f[x] + g[S \ {x}]
  BY <1>2, Zenon DEF IsSum
<1>4. g[S \ {x}] = h[S \ {x}]
  <2> HIDE DEF g, h, x
  <2> QED
    BY <1>1, <1>2, SumUnique
<1> QED
  BY <1>3, <1>4, SumIsChosen, Zenon

LEMMA SumEmpty ==
  ASSUME NEW f
  PROVE  Total(f, {}) = 0
<1> DEFINE g == CHOOSE g : IsSum(g, f, {})
<1>1. IsSum(g, f, {})
  BY SumExists, FS_EmptySet
<1>2. g[{}] = 0
  BY <1>1, Zenon DEF IsSum
<1> QED
  BY <1>2, SumIsChosen

(* The sum of integers is an integer, of naturals a natural. *)
LEMMA SumType ==
  ASSUME NEW S, IsFiniteSet(S), NEW R \in {Nat, Int}, NEW f \in [S -> R],
         NEW T \in SUBSET S
  PROVE  Total(f, T) \in R
<1> DEFINE D == {U \in SUBSET S : Total(f, U) \in R}
<1>1. ASSUME NEW U \in SUBSET S, \A V \in SUBSET U : V # U => V \in D
      PROVE  U \in D
  <2>1. CASE U = {}
    BY <2>1, SumEmpty
  <2>2. CASE U # {}
    <3> DEFINE x == CHOOSE x \in U : TRUE
    <3>1. x \in U /\ U \ {x} # U /\ IsFiniteSet(U)
      BY <2>2, FS_Subset
    <3>2. Total(f, U) = f[x] + Total(f, U \ {x})
      BY <2>2, <3>1, SumUnfolds
    <3>3. Total(f, U \ {x}) \in R
      BY <1>1, <3>1
    <3> HIDE DEF x
    <3> QED
      BY <3>1, <3>2, <3>3
  <2> QED
    BY <2>1, <2>2
<1> HIDE DEF D
<1>2. \A U \in SUBSET S : U \in D
  BY <1>1, SubsetInduction, Zenon
<1> QED
  BY <1>2, Zenon DEF D

(* Any index can be split off. *)
LEMMA SumRemove ==
  ASSUME NEW S, IsFiniteSet(S), NEW f \in [S -> Int], NEW T \in SUBSET S, NEW z \in T
  PROVE  Total(f, T) = f[z] + Total(f, T \ {z})
<1> DEFINE Tot(U) == Total(f, U)
           D == {U \in SUBSET S : \A y \in U : Tot(U) = f[y] + Tot(U \ {y})}
<1>1. ASSUME NEW U \in SUBSET S, \A V \in SUBSET U : V # U => V \in D
      PROVE  U \in D
  <2> SUFFICES ASSUME NEW y \in U PROVE Tot(U) = f[y] + Tot(U \ {y})
    OBVIOUS
  <2> DEFINE x == CHOOSE x \in U : TRUE
  <2>1. x \in U /\ IsFiniteSet(U)
    BY FS_Subset
  <2>2. Tot(U) = f[x] + Tot(U \ {x})
    BY <2>1, SumUnfolds
  <2> HIDE DEF x
  <2>3. CASE x = y
    BY <2>2, <2>3
  <2>4. CASE x # y
    <3> DEFINE W == U \ {x, y}
    <3>1. (U \ {x}) \ {y} = W /\ (U \ {y}) \ {x} = W
      OBVIOUS
    <3>2. U \ {x} \in D /\ U \ {y} \in D
      BY <1>1, <2>1
    <3>3. Tot(U \ {x}) = f[y] + Tot(W)
      BY <2>4, <3>1, <3>2, Zenon
    <3>4. Tot(U \ {y}) = f[x] + Tot(W)
      BY <2>1, <2>4, <3>1, <3>2, Zenon
    <3>5. Tot(W) \in Int /\ f[x] \in Int /\ f[y] \in Int
      BY <2>1, SumType
    <3> HIDE DEF Tot, W
    <3> QED
      BY <2>2, <3>3, <3>4, <3>5
  <2> QED
    BY <2>3, <2>4
<1> HIDE DEF D
<1>2. \A U \in SUBSET S : U \in D
  BY <1>1, SubsetInduction, Zenon
<1> QED
  BY <1>2 DEF D

(* Taking d[x] off f[x] for the x in T takes the sum of d over T off the sum. *)
LEMMA SumMinus ==
  ASSUME NEW S, IsFiniteSet(S), NEW f \in [S -> Int], NEW d \in [S -> Int],
         NEW g \in [S -> Int], NEW T \in SUBSET S,
         \A x \in S : g[x] = IF x \in T THEN f[x] - d[x] ELSE f[x]
  PROVE  Total(g, S) = Total(f, S) - Total(d, T)
<1> DEFINE Tot(h, U) == Total(h, U)
           D == {U \in SUBSET S : Tot(g, U) = Tot(f, U) - Tot(d, U \cap T)}
<1>1. ASSUME NEW U \in SUBSET S, \A V \in SUBSET U : V # U => V \in D
      PROVE  U \in D
  <2> SUFFICES Tot(g, U) = Tot(f, U) - Tot(d, U \cap T)
    BY Zenon
  <2>1. CASE U = {}
    <3>1. Tot(g, U) = 0 /\ Tot(f, U) = 0 /\ Tot(d, U \cap T) = 0
      BY <2>1, SumEmpty
    <3> HIDE DEF Tot
    <3> QED
      BY <3>1
  <2>2. CASE U # {}
    <3>1. PICK x \in U : TRUE
      BY <2>2
    <3> DEFINE V == U \ {x}
    <3>2. Tot(g, U) = g[x] + Tot(g, V) /\ Tot(f, U) = f[x] + Tot(f, V)
      BY SumRemove
    <3>3. Tot(g, V) = Tot(f, V) - Tot(d, V \cap T)
      BY <1>1
    <3>4. Tot(f, V) \in Int /\ Tot(g, V) \in Int /\ Tot(d, V \cap T) \in Int
      BY SumType
    <3>5. f[x] \in Int /\ d[x] \in Int /\ g[x] = IF x \in T THEN f[x] - d[x] ELSE f[x]
      OBVIOUS
    <3>6. CASE x \in T
      <4>1. (U \cap T) \ {x} = V \cap T /\ x \in U \cap T
        BY <3>6
      <4>2. Tot(d, U \cap T) = d[x] + Tot(d, V \cap T)
        BY <4>1, SumRemove
      <4> HIDE DEF Tot, V
      <4> QED
        BY <3>2, <3>3, <3>4, <3>5, <3>6, <4>2
    <3>7. CASE x \notin T
      <4>1. U \cap T = V \cap T
        BY <3>7
      <4>2. Tot(d, U \cap T) = Tot(d, V \cap T)
        BY <4>1, Zenon
      <4> HIDE DEF Tot, V
      <4> QED
        BY <3>2, <3>3, <3>4, <3>5, <3>7, <4>2
    <3> QED
      BY <3>6, <3>7
  <2> QED
    BY <2>1, <2>2
<1> HIDE DEF D
<1>2. \A U \in SUBSET S : U \in D
  BY <1>1, SubsetInduction, Zenon
<1>3. S \cap T = T
  OBVIOUS
<1> QED
  BY <1>2, <1>3 DEF D

(* Changing one summand by m changes the sum by m. *)
LEMMA SumChange ==
  ASSUME NEW S, IsFiniteSet(S), NEW f \in [S -> Int], NEW x \in S, NEW m \in Int
  PROVE  Total([f EXCEPT ![x] = @ + m], S) = Total(f, S) + m
<1> DEFINE g == [f EXCEPT ![x] = @ + m]
           d == [y \in S |-> 0 - m]
<1>1. g \in [S -> Int] /\ d \in [S -> Int] /\ \A y \in S : g[y] = IF y \in {x} THEN f[y] - d[y] ELSE f[y]
  OBVIOUS
<1>2. Total(g, S) = Total(f, S) - Total(d, {x})
  <2> HIDE DEF g, d
  <2> QED
    BY <1>1, SumMinus
<1>3. Total(d, {x}) = d[x] + Total(d, {x} \ {x})
  <2> HIDE DEF d
  <2> QED
    BY <1>1, SumRemove
<1>4. {x} \ {x} = {} /\ d[x] = 0 - m
  OBVIOUS
<1>5. Total(d, {x}) = 0 - m
  BY <1>3, <1>4, SumEmpty
<1>6. Total(f, S) \in Int
  BY SumType
<1> QED
  BY <1>2, <1>5, <1>6

(* Summands outside T that are 0 do not count. *)
LEMMA SumOver ==
  ASSUME NEW S, IsFiniteSet(S), NEW f \in [S -> Int], NEW d \in [S -> Int],
         NEW T \in SUBSET S, \A x \in S : f[x] = IF x \in T THEN d[x] ELSE 0
  PROVE  Total(f, S) = Total(d, T)
<1> DEFINE g == [x \in S |-> 0]
<1>1. Total(g, S) = Total(f, S) - Total(d, T)
  <2>1. g \in [S -> Int] /\ \A x \in S : g[x] = IF x \in T THEN f[x] - d[x] ELSE f[x]
    OBVIOUS
  <2> HIDE DEF g
  <2> QED
    BY <2>1, SumMinus
<1>2. Total(g, S) = Total(g, S) - Total(g, S)
  <2>1. g \in [S -> Int] /\ \A x \in S : g[x] = IF x \in S THEN g[x] - g[x] ELSE g[x]
    OBVIOUS
  <2> HIDE DEF g
  <2> QED
    BY <2>1, SumMinus
<1>3. /\ Total(g, S) \in Int /\ Total(f, S) \in Int
      /\ Total(d, T) \in Int
  <2>1. g \in [S -> Int]
    OBVIOUS
  <2> QED
    BY <2>1, SumType
<1> DEFINE a == Total(g, S)
           b == Total(f, S)
           c == Total(d, T)
<1>4. a = b - c /\ a = a - a /\ a \in Int /\ b \in Int /\ c \in Int
  BY <1>1, <1>2, <1>3, Zenon
<1>5. b = c
  <2> HIDE DEF a, b, c
  <2> QED
    BY <1>4
<1> QED
  BY <1>5, Zenon

(* A sum of zeros. *)
LEMMA SumZero ==
  ASSUME NEW S, IsFiniteSet(S)
  PROVE  Total([x \in S |-> 0], S) = 0
<1> DEFINE g == [x \in S |-> 0]
<1>1. g \in [S -> Int] /\ \A x \in S : g[x] = IF x \in {} THEN g[x] ELSE 0
  OBVIOUS
<1> HIDE DEF g
<1>2. Total(g, S) = Total(g, {})
  BY <1>1, SumOver
<1>3. Total(g, S) = 0
  BY <1>2, SumEmpty, Zenon
<1> QED
  BY <1>3, Zenon DEF g

(* A nonempty set of indices has its maximum. *)
LEMMA MaxIsMember ==
  \A n \in Nat : \A B \in SUBSET (1..n) : B # {} => Max(B) \in B
<1> SUFFICES ASSUME NEW n \in Nat, NEW B \in SUBSET (1..n), B # {} PROVE Max(B) \in B
  OBVIOUS
<1>0. \A i \in B : i \in Nat /\ n - i \in Nat
  OBVIOUS
<1> DEFINE N == {n - i : i \in B}
<1>1. N \in SUBSET Nat /\ N # {}
  BY <1>0, Zenon
<1>2. PICK m \in N : \A k \in N : m <= k
  BY <1>1, LeastNatural, Zenon
<1>3. PICK i \in B : m = n - i
  BY <1>2, Zenon
<1>4. \A j \in B : n - i <= n - j
  BY <1>2, <1>3, Zenon
<1> HIDE DEF N
<1>5. \A j \in B : i >= j
  BY <1>0, <1>4
<1> QED
  BY <1>3, <1>5, Zenon DEF Max

----------------------------------------------------------------------------
(* A pending set outgrows the cap in no step. *)
LEMMA CappedStep ==
  ASSUME LInv, Capped, [LNext]_lvars
  PROVE  Capped'
<1>1. \A l \in ListingIds :
        /\ IsFiniteSet(pendingOffers[l]) /\ Size(pendingOffers[l]) \in Nat
        /\ Size(pendingOffers[l]) <= MaxOffersPerListing
  BY PendingFacts, FiniteIds, SubsetSize, Zenon DEF Capped
<1>2. MaxOffersPerListing \in Nat
  BY ListingsAssumption
<1>3. CASE Leaves
  <2> SUFFICES ASSUME NEW l \in ListingIds
               PROVE  Size(pendingOffers'[l]) <= MaxOffersPerListing
    BY Zenon DEF Capped
  <2>1. /\ Size(pendingOffers'[l]) \in Nat
        /\ Size(pendingOffers'[l]) <= Size(pendingOffers[l])
    BY <1>1, <1>3, SubsetSize, Zenon DEF Leaves
  <2> QED
    BY <1>1, <1>2, <2>1
<1>4. ASSUME NEW l \in ListingIds, NEW Q, Becomes(l, Q), Size(Q) <= MaxOffersPerListing
      PROVE  Capped'
  BY <1>1, <1>4, Zenon DEF Capped, Becomes
<1>5. ASSUME NEW l \in ListingIds, NEW i \in Nat,
             Size(pendingOffers[l]) < MaxOffersPerListing,
             Becomes(l, pendingOffers[l] \cup {i})
      PROVE  Capped'
  <2> DEFINE Q == pendingOffers[l] \cup {i}
  <2>1. Size(Q) \in Nat /\ Size(Q) <= Size(pendingOffers[l]) + 1
    BY <1>1, AddedSize, Zenon
  <2>2. Size(Q) <= MaxOffersPerListing
    <3> HIDE DEF Q
    <3> QED
      BY <1>1, <1>2, <1>5, <2>1
  <2> QED
    BY <1>4, <1>5, <2>2, Zenon
<1>6. ASSUME NEW l \in ListingIds, NEW i \in Nat, NEW o \in pendingOffers[l],
             Becomes(l, (pendingOffers[l] \ {o}) \cup {i})
      PROVE  Capped'
  <2> DEFINE Q == (pendingOffers[l] \ {o}) \cup {i}
  <2>1. Size(Q) \in Nat /\ Size(Q) <= Size(pendingOffers[l])
    BY <1>1, ExchangedSize, Zenon
  <2>2. Size(Q) <= MaxOffersPerListing
    <3> HIDE DEF Q
    <3> QED
      BY <1>1, <1>2, <2>1
  <2> QED
    BY <1>4, <1>6, <2>2, Zenon
<1> QED
  BY <1>3, <1>5, <1>6, PendingMoves, Zenon

(* The pending index is exact and within MAX_OFFERS_PER_LISTING after every   *)
(* call (make_offer, counter_offer and every path that closes an offer).      *)
THEOREM PendingIndexCorrect == LSpec => []PendingIndexExact
<1>1. LInit => Capped
  <2>1. LInit => \A l \in ListingIds : Size(pendingOffers[l]) = 0
    BY PendingFacts, EmptySize, Zenon
  <2> QED
    BY <2>1, ListingsAssumption DEF Capped
<1>2. LInv /\ Capped /\ [LNext]_lvars => Capped'
  BY CappedStep
<1>3. LInv /\ Capped => PendingIndexExact
  BY PendingFacts
<1> QED
  BY LInvInit, LInvStep, <1>1, <1>2, <1>3, PTL DEF LSpec

----------------------------------------------------------------------------
(* The balance against the accounts.  The balance is one number that every   *)
(* entry point adds to or pays from; the accounts record for which offer or  *)
(* auction it did.                                                           *)
OfferBooks == bank \in Int /\ bank = Total(held, OfferIds)

Books ==
  /\ bank \in Int
  /\ bidHeld \in [AuctionIds -> Int]
  /\ bank = Total(held, OfferIds) + Total(bidHeld, AuctionIds)

(* A listing or offer call changes the balance by what it changes the offers' *)
(* accounts by, and takes money in only when not paused.                      *)
LEMMA OfferStepBalances ==
  ASSUME LInv, [LNext]_lvars, bank \in Int
  PROVE  /\ bank' \in Int
         /\ Total(held, OfferIds) \in Int /\ Total(held', OfferIds) \in Int
         /\ bank' = bank + (Total(held', OfferIds) - Total(held, OfferIds))
         /\ paused => bank' <= bank
<1> DEFINE before == Total(held, OfferIds)
           after == Total(held', OfferIds)
<1>1. held \in [OfferIds -> Int] /\ OfferAmounts \in [OfferIds -> Nat]
  BY OfferAccounts, Zenon
<1>2. OfferAmounts \in [OfferIds -> Int] /\ held' \in [OfferIds -> Int]
  <2>1. held' \in [OfferIds -> Int]
    BY LInvStep, HeldAfter, Zenon
  <2> QED
    BY <1>1, <2>1
<1>3. before \in Int /\ after \in Int
  BY <1>1, <1>2, FiniteIds, SumType, Zenon
<1>4. ASSUME UNCHANGED <<bank, held>>
      PROVE  bank' \in Int /\ bank' = bank + (after - before) /\ bank' <= bank
  <2>1. after = before /\ bank' = bank
    BY <1>4, Zenon
  <2> HIDE DEF before, after
  <2> QED
    BY <1>3, <2>1
<1>5. ASSUME NEW T, Pays(T)
      PROVE  bank' \in Int /\ bank' = bank + (after - before) /\ bank' <= bank
  <2> DEFINE s == Total(OfferAmounts, T)
  <2>1. T \in SUBSET OfferIds /\ bank' = bank - s
    BY <1>5, ConservationDefs, Zenon DEF Pays
  <2>2. s \in Nat
    BY <1>1, <2>1, FiniteIds, SumType, Zenon
  <2>3. \A o \in OfferIds : held'[o] = IF o \in T THEN held[o] - OfferAmounts[o] ELSE held[o]
    BY <1>5 DEF Pays, OfferAmounts
  <2>4. after = before - s
    BY <1>1, <1>2, <2>1, <2>3, FiniteIds, SumMinus
  <2> HIDE DEF before, after, s
  <2> QED
    BY <1>3, <2>1, <2>2, <2>4
<1>6. ASSUME NEW i, NEW x, Takes(i, x)
      PROVE  bank' \in Int /\ bank' = bank + (after - before) /\ ~paused
  <2>1. ~paused /\ i \in OfferIds /\ x \in Nat /\ bank' = bank + x /\ held' = [held EXCEPT ![i] = @ + x]
    BY <1>6, Zenon DEF Takes
  <2>2. x \in Int
    BY <2>1
  <2>3. Total([held EXCEPT ![i] = @ + x], OfferIds) = before + x
    BY <1>1, <2>1, <2>2, FiniteIds, SumChange, Zenon
  <2>4. after = before + x
    BY <2>1, <2>3, Zenon
  <2> HIDE DEF before, after
  <2> QED
    BY <1>3, <2>1, <2>2, <2>4
<1> QED
  BY <1>3, <1>4, <1>5, <1>6, OfferMoney, Zenon

LEMMA OfferBooksStep == LInv /\ OfferBooks /\ [LNext]_lvars => OfferBooks'
<1> SUFFICES ASSUME LInv, OfferBooks, [LNext]_lvars PROVE OfferBooks'
  OBVIOUS
<1> DEFINE before == Total(held, OfferIds)
           after == Total(held', OfferIds)
<1>1. bank \in Int /\ bank = before
  BY Zenon DEF OfferBooks
<1>2. /\ bank' \in Int /\ before \in Int /\ after \in Int
      /\ bank' = bank + (after - before)
  BY <1>1, OfferStepBalances, Zenon
<1>3. bank' = after
  <2> HIDE DEF before, after
  <2> QED
    BY <1>1, <1>2
<1> QED
  BY <1>2, <1>3, Zenon DEF OfferBooks

LEMMA OfferBooksInit == LInit => OfferBooks
<1> SUFFICES ASSUME LInit PROVE OfferBooks
  OBVIOUS
<1>1. bank = 0 /\ held = [o \in OfferIds |-> 0]
  BY OfferAccounts DEF LInit
<1>2. Total(held, OfferIds) = 0
  BY <1>1, FiniteIds, SumZero, Zenon
<1>3. bank \in Int
  BY <1>1
<1> QED
  BY <1>1, <1>2, <1>3, Zenon DEF OfferBooks

(* The contract's balance is the sum of the offers' accounts after every call *)
(* of listings.rs and offers.rs, with counter-offers and whatever is paid     *)
(* twice or stranded included.                                                *)
THEOREM OfferBooksBalance == LSpec => []OfferBooks
BY LInvInit, LInvStep, OfferBooksInit, OfferBooksStep, PTL DEF LSpec

(* With no counter-offer ever made, the balance is the sum of the Pending     *)
(* deposits: nothing is stranded and every refund can be paid (make_offer,    *)
(* accept_offer and every path that refunds).                                 *)
THEOREM ConservationCorrect == LSpec => []ConservationWithoutCounters
<1>1. LInv /\ OfferBooks => ConservationWithoutCounters
  <2> SUFFICES ASSUME LInv, OfferBooks, \A o \in OfferIds : offer[o].parent = None
               PROVE  bank = SumOffers({o \in OfferIds : IsPending(o)})
    BY Zenon DEF ConservationWithoutCounters
  <2> DEFINE T == {o \in OfferIds : IsPending(o)}
  <2>1. /\ held \in [OfferIds -> Int] /\ OfferAmounts \in [OfferIds -> Int]
        /\ T \in SUBSET OfferIds
    BY OfferAccounts
  <2>2. \A o \in OfferIds : held[o] = IF o \in T THEN OfferAmounts[o] ELSE 0
    BY OfferAccounts, Zenon
  <2> HIDE DEF T
  <2>3. Total(held, OfferIds) = Total(OfferAmounts, T)
    BY <2>1, <2>2, FiniteIds, SumOver
  <2>4. bank = SumOffers(T)
    BY <2>3, ConservationDefs, Zenon DEF OfferBooks
  <2> QED
    BY <2>4, Zenon DEF T
<1> QED
  BY <1>1, LInvInit, LInvStep, OfferBooksInit, OfferBooksStep, PTL DEF LSpec

(* While the contract is paused no listing or offer call raises its balance   *)
(* or moves an NFT into its custody.                                          *)
THEOREM PauseCorrect == LSpec => PauseStopsDeposits
<1> DEFINE Step == paused => /\ bank' <= bank
                             /\ \A n \in Nfts : nftOwner'[n] = Contract => nftOwner[n] = Contract
<1>1. LInv /\ OfferBooks /\ [LNext]_lvars => Step
  BY OfferStepBalances, PauseKeepsNfts, Zenon DEF OfferBooks
<1>2. LInv /\ OfferBooks /\ [LNext]_lvars => [Step]_lvars
  BY <1>1
<1> HIDE DEF Step
<1>3. LSpec => [][Step]_lvars
  BY <1>2, LInvInit, LInvStep, OfferBooksInit, OfferBooksStep, PTL DEF LSpec
<1> QED
  BY <1>3 DEF Step, PauseStopsDeposits

----------------------------------------------------------------------------
(* The same over the whole contract: one balance for offers and bids. *)
LEMMA BooksInit == Init => Books
<1> SUFFICES ASSUME Init PROVE Books
  OBVIOUS
<1>1. bank = 0 /\ held = [o \in OfferIds |-> 0] /\ bidHeld = [x \in AuctionIds |-> 0]
  BY OfferAccounts, BidAccounts DEF Init
<1>2. Total(held, OfferIds) = 0 /\ Total(bidHeld, AuctionIds) = 0
  BY <1>1, FiniteIds, SumZero, Zenon
<1>3. bank \in Int /\ bidHeld \in [AuctionIds -> Int] /\ 0 + 0 = 0
  BY <1>1
<1> QED
  BY <1>1, <1>2, <1>3, Zenon DEF Books

LEMMA BooksStep == MInv /\ Books /\ [Next]_vars => Books'
<1> SUFFICES ASSUME MInv, Books, [Next]_vars PROVE Books'
  OBVIOUS
<1> DEFINE offers == Total(held, OfferIds)
           offersAfter == Total(held', OfferIds)
           owed == Total(bidHeld, AuctionIds)
           owedAfter == Total(bidHeld', AuctionIds)
<1>1. LInv /\ AuctionInv
  BY DEF MInv, AInv
<1>2. bank \in Int /\ bidHeld \in [AuctionIds -> Int] /\ bank = offers + owed
  BY Zenon DEF Books
<1>3. offers \in Int /\ owed \in Int /\ offersAfter \in Int
  <2>1. LInv' /\ held' \in [OfferIds -> Int] /\ held \in [OfferIds -> Int]
    BY <1>1, MInvStep, OfferAccounts, HeldAfter, Zenon DEF MInv
  <2> QED
    BY <1>2, <2>1, FiniteIds, SumType, Zenon
<1>4. SUFFICES bank' \in Int /\ bidHeld' \in [AuctionIds -> Int] /\ bank' = offersAfter + owedAfter
  BY Zenon DEF Books
<1>5. CASE [LNext]_lvars /\ UNCHANGED bidHeld
  <2>1. bank' \in Int /\ bank' = bank + (offersAfter - offers)
    BY <1>1, <1>2, <1>5, OfferStepBalances, Zenon
  <2>2. owedAfter = owed /\ bidHeld' \in [AuctionIds -> Int]
    BY <1>2, <1>5, Zenon
  <2>3. bank' = offersAfter + owed
    <3> HIDE DEF offers, offersAfter, owed
    <3> QED
      BY <1>2, <1>3, <2>1
  <2> QED
    BY <2>1, <2>2, <2>3, Zenon
<1>6. CASE AuctionsNext /\ UNCHANGED held
  <2>1. offersAfter = offers
    BY <1>6, Zenon
  <2>2. CASE UNCHANGED <<bank, bidHeld>>
    BY <1>2, <2>1, <2>2, Zenon
  <2>3. ASSUME NEW x \in AuctionIds, NEW m \in Int, bank' = bank + m,
               bidHeld' = [bidHeld EXCEPT ![x] = @ + m]
        PROVE  bank' \in Int /\ bidHeld' \in [AuctionIds -> Int] /\ bank' = offersAfter + owedAfter
    <3>1. bidHeld' \in [AuctionIds -> Int]
      BY <1>2, <2>3
    <3>2. Total([bidHeld EXCEPT ![x] = @ + m], AuctionIds) = owed + m
      BY <1>2, FiniteIds, SumChange, Zenon
    <3>3. owedAfter = owed + m
      BY <2>3, <3>2, Zenon
    <3>4. bank' \in Int /\ bank' = offersAfter + owedAfter
      <4> HIDE DEF offers, offersAfter, owed, owedAfter
      <4> QED
        BY <1>2, <1>3, <2>1, <2>3, <3>3
    <3> QED
      BY <3>1, <3>4, Zenon
  <2> QED
    BY <1>1, <1>2, <1>6, <2>2, <2>3, BidMoney, MaxIsMember, Zenon
<1> QED
  BY <1>5, <1>6, MarketMoves, Zenon

(* The contract's one balance is the sum of the offers' and the auctions'     *)
(* accounts after every call, counter-offers and refund_losing_bid included:  *)
(* money is never counted for two sales or for none.                          *)
THEOREM BooksBalance == Spec => []Books
BY MInvInit, MInvStep, BooksInit, BooksStep, PTL DEF Spec

(* As long as no counter-offer was made and nobody used refund_losing_bid on  *)
(* an ended auction, the balance is exactly what the contract owes: the       *)
(* Pending deposits and the standing highest bids.                            *)
THEOREM MarketConservationCorrect == Spec => []MarketConservation
<1>1. MInv /\ Books => MarketConservation
  <2> SUFFICES ASSUME MInv, Books, \A o \in OfferIds : offer[o].parent = None,
                      \A x \in AuctionIds : bidRefunded[x] \subseteq {auction[x].highestBidder}
               PROVE  bank = Owed
    BY Zenon DEF MarketConservation
  <2> DEFINE T == {o \in OfferIds : IsPending(o)}
             X == {x \in AuctionIds : IsOpen(x)}
  <2>1. LInv /\ AuctionInv
    BY DEF MInv, AInv
  <2>2. /\ held \in [OfferIds -> Int] /\ OfferAmounts \in [OfferIds -> Int]
        /\ T \in SUBSET OfferIds
    BY <2>1, OfferAccounts
  <2>3. HighestBids \in [AuctionIds -> Int] /\ X \in SUBSET AuctionIds
    BY <2>1, BidAccounts
  <2>4. \A o \in OfferIds : held[o] = IF o \in T THEN OfferAmounts[o] ELSE 0
    BY <2>1, OfferAccounts, Zenon
  <2>5. \A x \in AuctionIds : bidHeld[x] = IF x \in X THEN HighestBids[x] ELSE 0
    BY <2>1, BidAccounts, Zenon
  <2>6. T = {o \in OfferIds : IsPending(o) /\ offer[o].parent = None}
    OBVIOUS
  <2>7. Owed = Total(OfferAmounts, T) + Total(HighestBids, X)
    BY <2>6, ConservationDefs, Zenon
  <2> HIDE DEF T, X
  <2>8. Total(held, OfferIds) = Total(OfferAmounts, T)
    BY <2>2, <2>4, FiniteIds, SumOver
  <2>9. bidHeld \in [AuctionIds -> Int]
    BY Zenon DEF Books
  <2>10. Total(bidHeld, AuctionIds) = Total(HighestBids, X)
    BY <2>3, <2>5, <2>9, FiniteIds, SumOver
  <2> QED
    BY <2>7, <2>8, <2>10, Zenon DEF Books
<1> QED
  BY <1>1, MInvInit, MInvStep, BooksInit, BooksStep, PTL DEF Spec

=============================================================================
