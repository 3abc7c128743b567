--------------------------- MODULE ListingsProofs ---------------------------
(***************************************************************************)
(* The listing and offer invariants hold for every set of users and NFTs   *)
(* and every bound.  The proof factors each entry point into what it does  *)
(* to custody (ListingsClosed, CreateListing, TransferNft) and what it     *)
(* does to offers (OffersResolved, MakeOffer, CounterOffer).               *)
(***************************************************************************)
EXTENDS Listings, TLAPS

(* The custody half of the inductive invariant. *)
CustodyInv ==
  /\ nftOwner \in [Nfts -> Users \cup {Contract}]
  /\ escrow \in [Nfts -> {None} \cup EscrowRecords]
  /\ listing \in [ListingIds -> ListingRecord]
  /\ listingCount \in 0..MaxListings
  /\ activeListings \subseteq ListingIds
  /\ \A l \in ListingIds :
       IF l <= listingCount
         THEN /\ listing[l].status # "Absent"
              /\ listing[l].artist \in Users /\ listing[l].nft \in Nfts
         ELSE listing[l].status = "Absent"
  /\ ListingCustody
  /\ RecordsMatchCustody
  /\ ActiveIndexExact

(* The index part of PendingIndexExact. *)
PendingSets ==
  \A l \in ListingIds :
    pendingOffers[l] = {o \in OfferIds : IsPending(o) /\ offer[o].listing = l}

(* The offer half of the inductive invariant. *)
OfferInv ==
  /\ offer \in [OfferIds -> OfferRecord]
  /\ offerCount \in 0..MaxOffers
  /\ pendingOffers \in [ListingIds -> SUBSET OfferIds]
  /\ held \in [OfferIds -> Int]
  /\ \A o \in OfferIds :
       IF o <= offerCount
         THEN /\ offer[o].status # "Absent" /\ offer[o].offerer \in Users
              /\ offer[o].listing \in 1..listingCount
         ELSE offer[o] = AbsentOffer
  /\ PendingSets
  /\ DepositsBacked

ScalarInv ==
  /\ now \in Nat
  /\ artistListings \in [Users -> Seq(ListingIds)]
  /\ cancelCursor \in [Users -> Nat]

LInv == ScalarInv /\ CustodyInv /\ OfferInv

(* What a step that ends the Active listings in S does to custody. *)
ListingsClosed(S) ==
  /\ S \subseteq {l \in ListingIds : IsActive(l)}
  /\ listing' \in [ListingIds -> ListingRecord]
  /\ \A l \in ListingIds :
       /\ listing'[l].artist = listing[l].artist
       /\ listing'[l].nft = listing[l].nft
       /\ l \in S => listing'[l].status \in {"Sold", "Cancelled"}
       /\ l \notin S => listing'[l].status = listing[l].status
  /\ listingCount' = listingCount
  /\ activeListings' = activeListings \ S
  /\ nftOwner' \in [Nfts -> Users \cup {Contract}]
  /\ escrow' \in [Nfts -> {None} \cup EscrowRecords]
  /\ \A n \in Nfts :
       IF \E l \in S : listing[l].nft = n
         THEN escrow'[n] = None /\ nftOwner'[n] \in Users
         ELSE escrow'[n] = escrow[n] /\ nftOwner'[n] = nftOwner[n]

(* What a step that ends the Pending offers in S does to offers. *)
OffersResolved(S) ==
  /\ S \subseteq {o \in OfferIds : IsPending(o)}
  /\ offer' \in [OfferIds -> OfferRecord]
  /\ \A o \in OfferIds :
       /\ offer'[o].listing = offer[o].listing
       /\ offer'[o].amount = offer[o].amount
       /\ offer'[o].offerer = offer[o].offerer
       /\ offer'[o].parent = offer[o].parent
       /\ o \in S => offer'[o].status \in {"Accepted", "Rejected", "Withdrawn", "Expired"}
       /\ o \notin S => offer'[o] = offer[o]
  /\ offerCount' = offerCount
  /\ pendingOffers' \in [ListingIds -> SUBSET OfferIds]
  /\ \A l \in ListingIds : pendingOffers'[l] = pendingOffers[l] \ S
  /\ held' \in [OfferIds -> Int]
  /\ \A o \in OfferIds :
       /\ o \in S /\ offer[o].parent = None => held'[o] = held[o] - offer[o].amount
       /\ o \notin S => held'[o] = held[o]

(* Closing listings preserves the custody half. *)
LEMMA ClosedPreservesCustody ==
  ASSUME CustodyInv, NEW S, ListingsClosed(S)
  PROVE  CustodyInv'
<1> USE CustodyAssumption, ListingsAssumption DEF CustodyInv, ListingsClosed, IsActive
<1>1. /\ nftOwner' \in [Nfts -> Users \cup {Contract}]
      /\ escrow' \in [Nfts -> {None} \cup EscrowRecords]
      /\ listing' \in [ListingIds -> ListingRecord]
      /\ listingCount' \in 0..MaxListings
      /\ activeListings' \subseteq ListingIds
  OBVIOUS
<1>2. \A l \in ListingIds :
       IF l <= listingCount'
         THEN /\ listing'[l].status # "Absent"
              /\ listing'[l].artist \in Users /\ listing'[l].nft \in Nfts
         ELSE listing'[l].status = "Absent"
  OBVIOUS
<1>3. \A l, k \in ListingIds : IsActive(l) /\ IsActive(k) /\ listing[l].nft = listing[k].nft => l = k
  <2> SUFFICES ASSUME NEW l \in ListingIds, NEW k \in ListingIds, IsActive(l),
                      IsActive(k), listing[l].nft = listing[k].nft
               PROVE  l = k
    OBVIOUS
  <2>1. ListingEscrow(l) = ListingEscrow(k)
    <3> HIDE DEF IsActive
    <3> QED
      BY DEF ListingCustody
  <2>2. ListingEscrow(l).id = l /\ ListingEscrow(k).id = k
    BY DEF ListingEscrow
  <2> QED
    BY <2>1, <2>2
<1>4. ActiveIndexExact'
  BY DEF ActiveIndexExact
<1>5. ASSUME NEW l \in ListingIds, IsActive(l)'
      PROVE  /\ nftOwner'[listing'[l].nft] = Contract
             /\ escrow'[listing'[l].nft] = ListingEscrow(l)
  <2>1. l \notin S /\ IsActive(l) /\ l <= listingCount
    BY <1>5
  <2>2. listing[l].nft \in Nfts /\ listing'[l].nft = listing[l].nft
    BY <2>1
  <2>3. ~ \E k \in S : listing[k].nft = listing[l].nft
    BY <2>1, <1>3
  <2>4. /\ nftOwner[listing[l].nft] = Contract
        /\ escrow[listing[l].nft] = ListingEscrow(l)
    BY <2>1 DEF ListingCustody
  <2> QED
    BY <2>2, <2>3, <2>4
<1>6. ASSUME NEW n \in Nfts, escrow'[n] # None, escrow'[n].kind = "listing"
      PROVE  /\ escrow'[n].id \in ListingIds
             /\ IsActive(escrow[n].id)' /\ listing'[escrow'[n].id].nft = n
  <2>1. escrow'[n] = escrow[n] /\ ~ \E k \in S : listing[k].nft = n
    BY <1>6
  <2>2. escrow[n].id \in ListingIds /\ IsActive(escrow[n].id) /\ listing[escrow[n].id].nft = n
    BY <2>1, <1>6 DEF ListingCustody
  <2> QED
    BY <2>1, <2>2
<1>7. ListingCustody'
  BY <1>5, <1>6 DEF ListingCustody
<1>8. RecordsMatchCustody'
  BY DEF RecordsMatchCustody
<1> QED
  BY <1>1, <1>2, <1>4, <1>7, <1>8

(* Resolving offers preserves the offer half. *)
LEMMA ResolvedPreservesOffers ==
  ASSUME OfferInv, listingCount \in 0..MaxListings, listingCount' = listingCount,
         NEW S, OffersResolved(S)
  PROVE  OfferInv'
<1> USE CustodyAssumption, ListingsAssumption DEF OfferInv, OffersResolved, IsPending
<1>1. \A o \in OfferIds :
       IF o <= offerCount'
         THEN /\ offer'[o].status # "Absent" /\ offer'[o].offerer \in Users
              /\ offer'[o].listing \in 1..listingCount'
         ELSE offer'[o] = AbsentOffer
  BY DEF AbsentOffer
<1>2. PendingSets'
  BY DEF PendingSets
<1>3. DepositsBacked'
  <2> SUFFICES ASSUME NEW o \in OfferIds, offer'[o].parent = None
               PROVE  held'[o] = IF offer'[o].status = "Pending" THEN offer'[o].amount ELSE 0
    BY DEF DepositsBacked
  <2>1. offer[o].parent = None
    OBVIOUS
  <2>2. held[o] = IF offer[o].status = "Pending" THEN offer[o].amount ELSE 0
    BY <2>1 DEF DepositsBacked
  <2>3. CASE o \in S
    <3>1. offer[o].status = "Pending" /\ offer[o].amount \in Nat
      BY <2>3 DEF OfferRecord
    <3>2. offer'[o].status # "Pending"
      BY <2>3
    <3>3. held'[o] = held[o] - offer[o].amount
      BY <2>1, <2>3
    <3> QED
      BY <2>2, <3>1, <3>2, <3>3
  <2>4. CASE o \notin S
    BY <2>2, <2>4
  <2> QED
    BY <2>3, <2>4
<1> QED
  BY <1>1, <1>2, <1>3

(* A step that leaves custody alone closes no listing. *)
LEMMA UnchangedCustody ==
  ASSUME CustodyInv,
         UNCHANGED <<nftOwner, escrow, listing, listingCount, activeListings>>
  PROVE  ListingsClosed({})
BY DEF CustodyInv, ListingsClosed

(* A step that leaves offers alone resolves none. *)
LEMMA UnchangedOffers ==
  ASSUME OfferInv, UNCHANGED offerVars
  PROVE  OffersResolved({})
BY DEF OfferInv, OffersResolved, offerVars

(* The offers a set of closing listings sweeps are its Pending offers. *)
LEMMA OpenOffersArePending ==
  ASSUME OfferInv, NEW S \in SUBSET ListingIds
  PROVE  /\ OpenOffers(S) \subseteq OfferIds
         /\ \A o \in OfferIds :
              o \in OpenOffers(S) <=> IsPending(o) /\ offer[o].listing \in S
BY DEF OfferInv, OpenOffers, PendingSets, IsPending

(* Giving the Pending offers in S a terminal status, refunding them and     *)
(* taking them off their pending sets resolves S.                           *)
LEMMA MarkingResolves ==
  ASSUME OfferInv, NEW S, S \subseteq {o \in OfferIds : IsPending(o)},
         NEW status \in {"Accepted", "Rejected", "Withdrawn", "Expired"},
         offer' = Marked(offer, S, status),
         held' = [o \in OfferIds |-> IF o \in S THEN held[o] - offer[o].amount ELSE held[o]],
         pendingOffers' \in [ListingIds -> SUBSET OfferIds],
         \A l \in ListingIds : pendingOffers'[l] = pendingOffers[l] \ S,
         offerCount' = offerCount
  PROVE  OffersResolved(S)
<1>1. offer' \in [OfferIds -> OfferRecord]
  <2>1. \A o \in OfferIds : [offer[o] EXCEPT !.status = status] \in OfferRecord
    BY DEF OfferInv, OfferRecord, OfferStatuses
  <2>2. offer \in [OfferIds -> OfferRecord]
    BY DEF OfferInv
  <2> QED
    BY <2>1, <2>2 DEF Marked
<1>2. held' \in [OfferIds -> Int]
  BY DEF OfferInv, OfferRecord
<1>3. \A o \in OfferIds :
       /\ offer'[o].listing = offer[o].listing
       /\ offer'[o].amount = offer[o].amount
       /\ offer'[o].offerer = offer[o].offerer
       /\ offer'[o].parent = offer[o].parent
       /\ o \in S => offer'[o].status \in {"Accepted", "Rejected", "Withdrawn", "Expired"}
       /\ o \notin S => offer'[o] = offer[o]
  BY DEF OfferInv, Marked, OfferRecord
<1> QED
  BY <1>1, <1>2, <1>3 DEF OffersResolved

(* Cancelling Active listings closes them and resolves their open offers. *)
LEMMA CancelEffects ==
  ASSUME CustodyInv, OfferInv, NEW S, S \subseteq {l \in ListingIds : IsActive(l)},
         CancelAll(S)
  PROVE  ListingsClosed(S) /\ OffersResolved(OpenOffers(S))
<1> USE CustodyAssumption, ListingsAssumption
<1>1. S \in SUBSET ListingIds
  OBVIOUS
<1>2. OpenOffers(S) \subseteq {o \in OfferIds : IsPending(o)}
  BY <1>1, OpenOffersArePending
<1>3. \A l \in ListingIds : pendingOffers'[l] = pendingOffers[l] \ OpenOffers(S)
  <2> SUFFICES ASSUME NEW l \in ListingIds
               PROVE  pendingOffers'[l] = pendingOffers[l] \ OpenOffers(S)
    OBVIOUS
  <2>1. pendingOffers[l] = {o \in OfferIds : IsPending(o) /\ offer[o].listing = l}
    BY DEF OfferInv, PendingSets
  <2>2. pendingOffers'[l] = IF l \in S THEN {} ELSE pendingOffers[l]
    BY DEF CancelAll, ClearPending
  <2> QED
    BY <1>1, <2>1, <2>2, OpenOffersArePending
<1>4. OffersResolved(OpenOffers(S))
  <2>1. pendingOffers' \in [ListingIds -> SUBSET OfferIds]
    BY DEF CancelAll, ClearPending, OfferInv
  <2>2. /\ offer' = Marked(offer, OpenOffers(S), "Rejected")
        /\ held' = [o \in OfferIds |-> IF o \in OpenOffers(S)
                                        THEN held[o] - offer[o].amount ELSE held[o]]
        /\ offerCount' = offerCount
    BY DEF CancelAll, Refund
  <2> QED
    BY <1>2, <1>3, <2>1, <2>2, MarkingResolves
<1>5. listing' = Marked(listing, S, "Cancelled")
  BY DEF CancelAll
<1>6. /\ listing' \in [ListingIds -> ListingRecord]
      /\ \A l \in ListingIds :
           /\ listing'[l].artist = listing[l].artist
           /\ listing'[l].nft = listing[l].nft
           /\ l \in S => listing'[l].status \in {"Sold", "Cancelled"}
           /\ l \notin S => listing'[l].status = listing[l].status
  BY <1>5 DEF CustodyInv, Marked, ListingRecord, ListingStatuses
<1>7. ASSUME NEW n \in Nfts, \E l \in S : listing[l].nft = n
      PROVE  listing[CHOOSE l \in S : listing[l].nft = n].artist \in Users
  BY <1>1, <1>7 DEF CustodyInv, IsActive
<1>8. /\ nftOwner' \in [Nfts -> Users \cup {Contract}]
      /\ escrow' \in [Nfts -> {None} \cup EscrowRecords]
      /\ \A n \in Nfts :
           IF \E l \in S : listing[l].nft = n
             THEN escrow'[n] = None /\ nftOwner'[n] \in Users
             ELSE escrow'[n] = escrow[n] /\ nftOwner'[n] = nftOwner[n]
  BY <1>7 DEF CancelAll, CustodyInv
<1>9. listingCount' = listingCount /\ activeListings' = activeListings \ S
  BY DEF CancelAll
<1>10. ListingsClosed(S)
  BY <1>6, <1>8, <1>9 DEF ListingsClosed
<1> QED
  BY <1>4, <1>10

(* Selling an Active listing closes it. *)
LEMMA SellCloses ==
  ASSUME CustodyInv, NEW l \in ListingIds, IsActive(l), NEW buyer \in Users,
         NEW offers, NEW P, Sell(l, buyer, offers, P)
  PROVE  ListingsClosed({l})
<1> USE CustodyAssumption, ListingsAssumption
<1>1. listing' = [listing EXCEPT ![l].status = "Sold", ![l].owner = buyer]
  BY DEF Sell
<1>2. /\ listing' \in [ListingIds -> ListingRecord]
      /\ \A k \in ListingIds :
           /\ listing'[k].artist = listing[k].artist
           /\ listing'[k].nft = listing[k].nft
           /\ k \in {l} => listing'[k].status \in {"Sold", "Cancelled"}
           /\ k \notin {l} => listing'[k].status = listing[k].status
  <2>1. /\ listing \in [ListingIds -> ListingRecord]
        /\ listing' = [listing EXCEPT ![l] = [listing[l] EXCEPT !.status = "Sold", !.owner = buyer]]
    BY <1>1, ZenonT(30) DEF CustodyInv
  <2>2. /\ [listing[l] EXCEPT !.status = "Sold", !.owner = buyer] \in ListingRecord
        /\ [listing[l] EXCEPT !.status = "Sold", !.owner = buyer].artist = listing[l].artist
        /\ [listing[l] EXCEPT !.status = "Sold", !.owner = buyer].nft = listing[l].nft
        /\ [listing[l] EXCEPT !.status = "Sold", !.owner = buyer].status = "Sold"
    BY <2>1, ZenonT(30) DEF ListingRecord, ListingStatuses
  <2> QED
    BY <2>1, <2>2
<1>3. listing[l].nft \in Nfts
  BY DEF CustodyInv, IsActive
<1>4. /\ nftOwner' \in [Nfts -> Users \cup {Contract}]
      /\ escrow' \in [Nfts -> {None} \cup EscrowRecords]
      /\ \A n \in Nfts :
           IF \E k \in {l} : listing[k].nft = n
             THEN escrow'[n] = None /\ nftOwner'[n] \in Users
             ELSE escrow'[n] = escrow[n] /\ nftOwner'[n] = nftOwner[n]
  BY <1>3 DEF Sell, ReleaseNft, CustodyInv
<1> QED
  BY <1>2, <1>4 DEF ListingsClosed, Sell

(* A sale resolves the open offers of its listing, provided the offer       *)
(* records it writes close exactly those and every deposited one is paid.   *)
LEMMA SellResolves ==
  ASSUME OfferInv, NEW l \in ListingIds, NEW buyer, NEW offers, NEW P,
         Sell(l, buyer, offers, P),
         offers \in [OfferIds -> OfferRecord],
         \A o \in OfferIds :
           /\ offers[o].listing = offer[o].listing
           /\ offers[o].amount = offer[o].amount
           /\ offers[o].offerer = offer[o].offerer
           /\ offers[o].parent = offer[o].parent
           /\ o \in OpenOffers({l}) => offers[o].status \in {"Accepted", "Rejected"}
           /\ o \notin OpenOffers({l}) => offers[o] = offer[o],
         P \subseteq OpenOffers({l}),
         \A o \in OpenOffers({l}) : offer[o].parent = None => o \in P
  PROVE  OffersResolved(OpenOffers({l}))
<1>1. OpenOffers({l}) \subseteq {o \in OfferIds : IsPending(o)}
  BY OpenOffersArePending
<1>2. offer' = offers /\ offerCount' = offerCount
  BY DEF Sell
<1>3. pendingOffers' = [k \in ListingIds |-> IF k \in {l} THEN {} ELSE pendingOffers[k]]
  BY DEF Sell, ClearPending
<1>4. held' = [o \in OfferIds |-> IF o \in P THEN held[o] - offer[o].amount ELSE held[o]]
  BY DEF Sell, Refund
<1>5. pendingOffers' \in [ListingIds -> SUBSET OfferIds]
  BY <1>3 DEF OfferInv
<1>6. ASSUME NEW k \in ListingIds
      PROVE  pendingOffers'[k] = pendingOffers[k] \ OpenOffers({l})
  <2>1. pendingOffers[k] = {o \in OfferIds : IsPending(o) /\ offer[o].listing = k}
    BY DEF OfferInv, PendingSets
  <2> QED
    BY <1>3, <2>1, OpenOffersArePending
<1>7. held' \in [OfferIds -> Int]
  BY <1>4 DEF OfferInv, OfferRecord
<1>8. \A o \in OfferIds :
       /\ o \in OpenOffers({l}) /\ offer[o].parent = None => held'[o] = held[o] - offer[o].amount
       /\ o \notin OpenOffers({l}) => held'[o] = held[o]
  BY <1>4, ZenonT(30)
<1> QED
  BY <1>1, <1>2, <1>5, <1>6, <1>7, <1>8, ZenonT(30) DEF OffersResolved

(* Marking open offers keeps every other field. *)
LEMMA MarkedFields ==
  ASSUME OfferInv, NEW S, NEW T, NEW U, S \cup T = U,
         NEW f, f = Marked(Marked(offer, S, "Accepted"), T, "Rejected")
  PROVE  /\ f \in [OfferIds -> OfferRecord]
         /\ \A o \in OfferIds :
              /\ f[o].listing = offer[o].listing
              /\ f[o].amount = offer[o].amount
              /\ f[o].offerer = offer[o].offerer
              /\ f[o].parent = offer[o].parent
              /\ o \in U => f[o].status \in {"Accepted", "Rejected"}
              /\ o \notin U => f[o] = offer[o]
<1> DEFINE g == Marked(offer, S, "Accepted")
<1>1. /\ g \in [OfferIds -> OfferRecord]
      /\ \A o \in OfferIds :
           /\ g[o].listing = offer[o].listing
           /\ g[o].amount = offer[o].amount
           /\ g[o].offerer = offer[o].offerer
           /\ g[o].parent = offer[o].parent
           /\ o \in S => g[o].status = "Accepted"
           /\ o \notin S => g[o] = offer[o]
  BY ZenonT(30) DEF OfferInv, Marked, OfferRecord, OfferStatuses
<1>2. f = Marked(g, T, "Rejected")
  OBVIOUS
<1> HIDE DEF g
<1> QED
  BY <1>1, <1>2 DEF Marked, OfferRecord, OfferStatuses

(* A Pending offer was made by a user on a listing that exists. *)
LEMMA PendingIsReal ==
  ASSUME CustodyInv, OfferInv, NEW o \in OfferIds, IsPending(o)
  PROVE  /\ offer[o].listing \in ListingIds
         /\ offer[o].offerer \in Users
         /\ o \in OpenOffers({offer[o].listing})
<1>1. o <= offerCount
  BY DEF OfferInv, IsPending, AbsentOffer
<1>2. offer[o].listing \in 1..listingCount /\ offer[o].offerer \in Users
  BY <1>1 DEF OfferInv
<1>3. offer[o].listing \in ListingIds
  BY <1>2, ListingsAssumption DEF CustodyInv, ListingIds
<1> QED
  BY <1>2, <1>3, OpenOffersArePending

(* Each of the three sales closes one listing and resolves its open offers. *)
LEMMA SaleEffects ==
  ASSUME CustodyInv, OfferInv,
         \/ \E l \in ListingIds, u \in Users : BuyArtwork(l, u)
         \/ \E o \in OfferIds : AcceptOffer(o)
         \/ \E o \in OfferIds, u \in Users : AcceptCounterOffer(o, u)
  PROVE  \E l \in ListingIds : ListingsClosed({l}) /\ OffersResolved(OpenOffers({l}))
<1>1. ASSUME NEW l \in ListingIds, NEW u \in Users, BuyArtwork(l, u)
      PROVE  ListingsClosed({l}) /\ OffersResolved(OpenOffers({l}))
  <2> DEFINE f == Marked(offer, OpenOffers({l}), "Rejected")
             P == OpenOffers({l})
  <2>1. IsActive(l) /\ Sell(l, u, f, P)
    BY <1>1 DEF BuyArtwork, BuyGuard
  <2>2. /\ f \in [OfferIds -> OfferRecord]
        /\ \A o \in OfferIds :
             /\ f[o].listing = offer[o].listing
             /\ f[o].amount = offer[o].amount
             /\ f[o].offerer = offer[o].offerer
             /\ f[o].parent = offer[o].parent
             /\ o \in OpenOffers({l}) => f[o].status \in {"Accepted", "Rejected"}
             /\ o \notin OpenOffers({l}) => f[o] = offer[o]
    BY DEF OfferInv, Marked, OfferRecord, OfferStatuses
  <2> HIDE DEF f
  <2>3. ListingsClosed({l})
    BY <2>1, SellCloses
  <2>4. OffersResolved(OpenOffers({l}))
    BY <2>1, <2>2, SellResolves, ZenonT(30)
  <2> QED
    BY <2>3, <2>4
<1>2. ASSUME NEW o \in OfferIds, NEW u \in Users, NEW P, Acceptable(o),
             P \subseteq OpenOffers({offer[o].listing}),
             \A k \in OpenOffers({offer[o].listing}) : offer[k].parent = None => k \in P,
             Sell(offer[o].listing, u,
                  Marked(Marked(offer, {o}, "Accepted"),
                         OpenOffers({offer[o].listing}) \ {o}, "Rejected"), P)
      PROVE  \E l \in ListingIds : ListingsClosed({l}) /\ OffersResolved(OpenOffers({l}))
  <2> DEFINE l == offer[o].listing
             f == Marked(Marked(offer, {o}, "Accepted"), OpenOffers({l}) \ {o}, "Rejected")
  <2>1. IsPending(o) /\ IsActive(l)
    BY <1>2 DEF Acceptable
  <2>2. l \in ListingIds
    BY <2>1, PendingIsReal, ZenonT(30)
  <2>3. {o} \cup (OpenOffers({l}) \ {o}) = OpenOffers({l})
    BY <2>1, <2>2, OpenOffersArePending
  <2>4. Sell(l, u, f, P)
    BY <1>2
  <2>5. /\ f \in [OfferIds -> OfferRecord]
        /\ \A k \in OfferIds :
             /\ f[k].listing = offer[k].listing
             /\ f[k].amount = offer[k].amount
             /\ f[k].offerer = offer[k].offerer
             /\ f[k].parent = offer[k].parent
             /\ k \in OpenOffers({l}) => f[k].status \in {"Accepted", "Rejected"}
             /\ k \notin OpenOffers({l}) => f[k] = offer[k]
    <3> DEFINE S == {o}
               T == OpenOffers({l}) \ {o}
               U == OpenOffers({l})
    <3>1. S \cup T = U /\ f = Marked(Marked(offer, S, "Accepted"), T, "Rejected")
      BY <2>3
    <3> HIDE DEF f, l, S, T, U
    <3>2. /\ f \in [OfferIds -> OfferRecord]
          /\ \A k \in OfferIds :
               /\ f[k].listing = offer[k].listing
               /\ f[k].amount = offer[k].amount
               /\ f[k].offerer = offer[k].offerer
               /\ f[k].parent = offer[k].parent
               /\ k \in U => f[k].status \in {"Accepted", "Rejected"}
               /\ k \notin U => f[k] = offer[k]
      BY <3>1, MarkedFields, SMTT(30)
    <3> QED
      BY <3>2, ZenonT(30) DEF U
  <2>6. /\ P \subseteq OpenOffers({l})
        /\ \A k \in OpenOffers({l}) : offer[k].parent = None => k \in P
    BY <1>2
  <2> HIDE DEF f, l
  <2>7. ListingsClosed({l})
    BY <2>1, <2>2, <2>4, SellCloses
  <2>8. OffersResolved(OpenOffers({l}))
    BY <2>2, <2>4, <2>5, <2>6, SellResolves, ZenonT(30)
  <2> QED
    BY <2>2, <2>7, <2>8
<1>3. ASSUME NEW o \in OfferIds, AcceptOffer(o)
      PROVE  \E l \in ListingIds : ListingsClosed({l}) /\ OffersResolved(OpenOffers({l}))
  <2>1. Acceptable(o) /\ IsPending(o)
    BY <1>3 DEF AcceptOffer, Acceptable
  <2>2. offer[o].offerer \in Users /\ o \in OpenOffers({offer[o].listing})
    BY <2>1, PendingIsReal
  <2>3. Sell(offer[o].listing, offer[o].offerer,
             Marked(Marked(offer, {o}, "Accepted"),
                    OpenOffers({offer[o].listing}) \ {o}, "Rejected"),
             (OpenOffers({offer[o].listing}) \ {o}) \cup {o})
    BY <1>3 DEF AcceptOffer
  <2> QED
    BY <2>1, <2>2, <2>3, <1>2, ZenonT(30)
<1>4. ASSUME NEW o \in OfferIds, NEW u \in Users, AcceptCounterOffer(o, u)
      PROVE  \E l \in ListingIds : ListingsClosed({l}) /\ OffersResolved(OpenOffers({l}))
  <2>1. Acceptable(o) /\ offer[o].parent # None
    BY <1>4 DEF AcceptCounterOffer
  <2>2. Sell(offer[o].listing, u,
             Marked(Marked(offer, {o}, "Accepted"),
                    OpenOffers({offer[o].listing}) \ {o}, "Rejected"),
             OpenOffers({offer[o].listing}) \ {o})
    BY <1>4 DEF AcceptCounterOffer
  <2>3. \A k \in OpenOffers({offer[o].listing}) : offer[k].parent = None =>
          k \in OpenOffers({offer[o].listing}) \ {o}
    BY <2>1
  <2>4. OpenOffers({offer[o].listing}) \ {o} \subseteq OpenOffers({offer[o].listing})
    OBVIOUS
  <2> QED
    BY <2>1, <2>2, <2>3, <2>4, <1>2, ZenonT(30)
<1> QED
  BY <1>1, <1>3, <1>4, ZenonT(30)

(* Changing price, reservation or owner of a listing closes no listing. *)
LEMMA EditCloses ==
  ASSUME CustodyInv, NEW l \in ListingIds,
         \/ \E p \in Prices : UpdateListing(l, p) \/ UpdateListingPrice(l, p)
         \/ \E r \in Reservations : SetListingReservation(l, r)
         \/ \E u \in Reconciled : ReconcileListingOwner(l, u)
  PROVE  ListingsClosed({}) /\ UNCHANGED offerVars
<1> USE ListingsAssumption
<1>1. PICK x \in ListingRecord :
        /\ listing' = [listing EXCEPT ![l] = x]
        /\ x.artist = listing[l].artist /\ x.nft = listing[l].nft
        /\ x.status = listing[l].status
  <2>0. listing \in [ListingIds -> ListingRecord]
    BY DEF CustodyInv
  <2>1. ASSUME NEW p \in Prices, UpdateListing(l, p) \/ UpdateListingPrice(l, p)
        PROVE  listing' = [listing EXCEPT ![l] = [listing[l] EXCEPT !.price = p]]
    BY <2>0, <2>1 DEF UpdateListing, UpdateListingPrice, Reprice
  <2>2. ASSUME NEW r \in Reservations, SetListingReservation(l, r)
        PROVE  listing' = [listing EXCEPT ![l] = [listing[l] EXCEPT !.reservation = r]]
    BY <2>0, <2>2 DEF SetListingReservation
  <2>3. ASSUME NEW u \in Reconciled, ReconcileListingOwner(l, u)
        PROVE  listing' = [listing EXCEPT ![l] = [listing[l] EXCEPT !.owner = u]]
    BY <2>0, <2>3 DEF ReconcileListingOwner
  <2>4. \A p \in Prices : LET x == [listing[l] EXCEPT !.price = p] IN
          /\ x \in ListingRecord /\ x.artist = listing[l].artist
          /\ x.nft = listing[l].nft /\ x.status = listing[l].status
    BY <2>0 DEF ListingRecord
  <2>5. \A r \in Reservations : LET x == [listing[l] EXCEPT !.reservation = r] IN
          /\ x \in ListingRecord /\ x.artist = listing[l].artist
          /\ x.nft = listing[l].nft /\ x.status = listing[l].status
    BY <2>0 DEF ListingRecord, Reservation
  <2>6. \A u \in Reconciled : LET x == [listing[l] EXCEPT !.owner = u] IN
          /\ x \in ListingRecord /\ x.artist = listing[l].artist
          /\ x.nft = listing[l].nft /\ x.status = listing[l].status
    BY <2>0 DEF ListingRecord
  <2> QED
    BY <2>1, <2>2, <2>3, <2>4, <2>5, <2>6, ZenonT(30)
<1>2. UNCHANGED <<nftOwner, escrow, listingCount, activeListings>> /\ UNCHANGED offerVars
  BY DEF UpdateListing, UpdateListingPrice, Reprice, SetListingReservation,
         ReconcileListingOwner, custodyVars, offerVars
<1> QED
  BY <1>1, <1>2 DEF CustodyInv, ListingsClosed

(* expire_listing closes its listing and leaves every offer alone. *)
LEMMA ExpireCloses ==
  ASSUME CustodyInv, NEW l \in ListingIds, ExpireListing(l)
  PROVE  ListingsClosed({l}) /\ UNCHANGED offerVars
<1> USE CustodyAssumption, ListingsAssumption
<1>1. /\ listing \in [ListingIds -> ListingRecord] /\ IsActive(l)
      /\ listing' = [listing EXCEPT ![l] = [listing[l] EXCEPT !.status = "Cancelled"]]
  BY DEF ExpireListing, CustodyInv
<1>2. /\ [listing[l] EXCEPT !.status = "Cancelled"] \in ListingRecord
      /\ [listing[l] EXCEPT !.status = "Cancelled"].artist = listing[l].artist
      /\ [listing[l] EXCEPT !.status = "Cancelled"].nft = listing[l].nft
      /\ [listing[l] EXCEPT !.status = "Cancelled"].status = "Cancelled"
  BY <1>1 DEF ListingRecord, ListingStatuses
<1>3. /\ listing' \in [ListingIds -> ListingRecord]
      /\ \A k \in ListingIds :
           /\ listing'[k].artist = listing[k].artist
           /\ listing'[k].nft = listing[k].nft
           /\ k \in {l} => listing'[k].status \in {"Sold", "Cancelled"}
           /\ k \notin {l} => listing'[k].status = listing[k].status
  BY <1>1, <1>2
<1>4. listing[l].nft \in Nfts /\ listing[l].artist \in Users
  BY <1>1 DEF CustodyInv, IsActive
<1>5. /\ nftOwner' \in [Nfts -> Users \cup {Contract}]
      /\ escrow' \in [Nfts -> {None} \cup EscrowRecords]
      /\ \A n \in Nfts :
           IF \E k \in {l} : listing[k].nft = n
             THEN escrow'[n] = None /\ nftOwner'[n] \in Users
             ELSE escrow'[n] = escrow[n] /\ nftOwner'[n] = nftOwner[n]
  BY <1>4 DEF ExpireListing, ReleaseNft, CustodyInv
<1> QED
  BY <1>1, <1>3, <1>5 DEF ListingsClosed, ExpireListing, offerVars

(* Creating a listing preserves the custody half. *)
LEMMA CreatePreservesCustody ==
  ASSUME CustodyInv, NEW u \in Users, NEW n \in Nfts, NEW p \in Prices,
         NEW e \in Deadlines, CreateListing(u, n, p, e)
  PROVE  CustodyInv' /\ UNCHANGED offerVars
         /\ listingCount' \in 0..MaxListings /\ listingCount' = listingCount + 1
<1> USE CustodyAssumption, ListingsAssumption
<1> DEFINE id == listingCount + 1
           x == [status |-> "Active", artist |-> u, nft |-> n, price |-> p,
                 expires |-> e, owner |-> None, reservation |-> NoReservation]
<1>1. /\ id \in ListingIds /\ listingCount' = id /\ listingCount \in 0..MaxListings
      /\ listingCount' \in 0..MaxListings /\ id \in Nat
  BY SMTT(30) DEF CreateListing, CustodyInv, ListingIds
<1>2. /\ nftOwner[n] = u /\ escrow[n] = None
      /\ escrow' = [escrow EXCEPT ![n] = ListingEscrow(id)]
      /\ nftOwner' = [nftOwner EXCEPT ![n] = Contract]
  BY DEF CreateListing, EscrowNft
<1>3. listing' = [listing EXCEPT ![id] = x] /\ activeListings' = activeListings \cup {id}
  BY DEF CreateListing
<1>4. x \in ListingRecord /\ x.status = "Active" /\ x.artist = u /\ x.nft = n
  BY DEF ListingRecord, ListingStatuses, Reservation, NoReservation
<1>5. ListingEscrow(id) \in EscrowRecords /\ ListingEscrow(id) # None
      /\ ListingEscrow(id).kind = "listing" /\ ListingEscrow(id).id = id
  BY <1>1, SMTT(30) DEF ListingEscrow, EscrowRecords
<1>6. UNCHANGED offerVars
  BY DEF CreateListing, offerVars
<1> HIDE DEF x, id
<1>7. listing \in [ListingIds -> ListingRecord] /\ listing[id].status = "Absent"
  BY <1>1 DEF CustodyInv, id
<1>8. /\ listing' \in [ListingIds -> ListingRecord]
      /\ escrow' \in [Nfts -> {None} \cup EscrowRecords]
      /\ nftOwner' \in [Nfts -> Users \cup {Contract}]
      /\ activeListings' \subseteq ListingIds
  BY <1>1, <1>2, <1>3, <1>4, <1>5, <1>7 DEF CustodyInv
<1>9. \A l \in ListingIds :
       /\ l # id => listing'[l] = listing[l]
       /\ l = id => listing'[l] = x
  BY <1>3, <1>7
<1>10. \A l \in ListingIds :
       IF l <= listingCount'
         THEN /\ listing'[l].status # "Absent"
              /\ listing'[l].artist \in Users /\ listing'[l].nft \in Nfts
         ELSE listing'[l].status = "Absent"
  BY <1>1, <1>4, <1>9 DEF CustodyInv, id, ListingIds
<1>11. ActiveIndexExact'
  BY <1>1, <1>3, <1>4, <1>9 DEF CustodyInv, ActiveIndexExact, IsActive
<1>12. RecordsMatchCustody'
  BY <1>2, <1>5 DEF CustodyInv, RecordsMatchCustody
<1>13. ASSUME NEW l \in ListingIds, IsActive(l)'
       PROVE  /\ nftOwner'[listing'[l].nft] = Contract
              /\ escrow'[listing'[l].nft] = ListingEscrow(l)
  <2>1. CASE l = id
    BY <1>2, <1>4, <1>9, <2>1 DEF CustodyInv
  <2>2. CASE l # id
    <3>1. IsActive(l) /\ listing'[l].nft = listing[l].nft
      BY <1>9, <1>13, <2>2 DEF IsActive
    <3>2. /\ nftOwner[listing[l].nft] = Contract
          /\ escrow[listing[l].nft] = ListingEscrow(l) /\ listing[l].nft \in Nfts
      BY <3>1 DEF CustodyInv, ListingCustody, IsActive
    <3>3. listing[l].nft # n
      BY <1>2, <3>2
    <3> QED
      BY <1>2, <3>1, <3>2, <3>3 DEF CustodyInv
  <2> QED
    BY <2>1, <2>2
<1>14. ASSUME NEW m \in Nfts, escrow'[m] # None, escrow'[m].kind = "listing"
       PROVE  /\ escrow'[m].id \in ListingIds
              /\ IsActive(escrow[m].id)' /\ listing'[escrow'[m].id].nft = m
  <2>1. CASE m = n
    BY <1>1, <1>2, <1>4, <1>5, <1>9, <2>1, SMTT(30) DEF CustodyInv, IsActive
  <2>2. CASE m # n
    <3>1. escrow'[m] = escrow[m]
      BY <1>2, <2>2 DEF CustodyInv
    <3>2. /\ escrow[m].id \in ListingIds /\ IsActive(escrow[m].id)
          /\ listing[escrow[m].id].nft = m
      BY <3>1, <1>14 DEF CustodyInv, ListingCustody
    <3>3. escrow[m].id # id
      BY <3>2, <1>7 DEF IsActive
    <3> QED
      BY <3>1, <3>2, <3>3, <1>9 DEF IsActive
  <2> QED
    BY <2>1, <2>2
<1>15. ListingCustody'
  BY <1>13, <1>14 DEF ListingCustody
<1> QED
  BY <1>1, <1>6, <1>8, <1>10, <1>11, <1>12, <1>15, SMTT(30) DEF CustodyInv, id

(* An NFT that changes hands outside the marketplace is not in custody. *)
LEMMA TransferPreservesCustody ==
  ASSUME CustodyInv, NEW u \in Users, NEW v \in Users, NEW n \in Nfts,
         TransferNft(u, v, n), UNCHANGED listingVars
  PROVE  CustodyInv'
<1> USE CustodyAssumption
<1>1. nftOwner[n] = u /\ nftOwner' = [nftOwner EXCEPT ![n] = v] /\ escrow' = escrow
  BY DEF TransferNft
<1>2. UNCHANGED <<listing, listingCount, activeListings>>
  BY DEF listingVars
<1>3. nftOwner' \in [Nfts -> Users \cup {Contract}]
  BY <1>1 DEF CustodyInv
<1>4. \A m \in Nfts : nftOwner[m] = Contract <=> nftOwner'[m] = Contract
  BY <1>1 DEF CustodyInv
<1>5. RecordsMatchCustody'
  BY <1>1, <1>4 DEF CustodyInv, RecordsMatchCustody
<1>6. ListingCustody'
  <2>1. \A l \in ListingIds : IsActive(l) => listing[l].nft \in Nfts
    BY DEF CustodyInv, IsActive
  <2> QED
    BY <1>1, <1>2, <1>4, <2>1 DEF CustodyInv, ListingCustody, IsActive
<1> QED
  BY <1>1, <1>2, <1>3, <1>5, <1>6 DEF CustodyInv, ActiveIndexExact, IsActive

(* The shared body of the four offer-closing calls resolves its offers. *)
LEMMA CloseResolves ==
  ASSUME CustodyInv, OfferInv, NEW S, S \subseteq {o \in OfferIds : IsPending(o)},
         NEW status \in {"Withdrawn", "Rejected", "Expired"}, CloseOffers(S, status)
  PROVE  OffersResolved(S) /\ UNCHANGED <<nftOwner, escrow, listingVars, now>>
<1>1. /\ offer' = Marked(offer, S, status) /\ offerCount' = offerCount
      /\ held' = [o \in OfferIds |-> IF o \in S THEN held[o] - offer[o].amount ELSE held[o]]
      /\ pendingOffers' = [l \in ListingIds |->
                             pendingOffers[l] \ {o \in S : offer[o].listing = l}]
      /\ UNCHANGED <<nftOwner, escrow, listingVars, now>>
  BY DEF CloseOffers, Refund, RemovePending
<1>2. pendingOffers' \in [ListingIds -> SUBSET OfferIds]
  BY <1>1 DEF OfferInv
<1>3. \A l \in ListingIds : pendingOffers'[l] = pendingOffers[l] \ S
  BY <1>1 DEF OfferInv, PendingSets
<1> QED
  BY <1>1, <1>2, <1>3, MarkingResolves

(* make_offer preserves the offer half. *)
LEMMA MakeOfferPreservesOffers ==
  ASSUME CustodyInv, OfferInv, NEW l \in ListingIds, NEW u \in Users,
         NEW amount \in Amounts, NEW e \in Deadlines, MakeOffer(l, u, amount, e)
  PROVE  OfferInv'
<1> USE CustodyAssumption, ListingsAssumption
<1> DEFINE id == offerCount + 1
           x == NewOffer(l, u, amount, e, None)
<1>1. /\ id \in OfferIds /\ offerCount' = id /\ offerCount \in Nat
      /\ id \in 0..MaxOffers /\ \A o \in OfferIds : o <= id <=> (o <= offerCount \/ o = id)
      /\ ~(id <= offerCount)
  BY SMTT(30) DEF MakeOffer, OfferInv, OfferIds
<1>2. /\ offer' = [offer EXCEPT ![id] = x]
      /\ pendingOffers' = [pendingOffers EXCEPT ![l] = @ \cup {id}]
      /\ held' = [held EXCEPT ![id] = @ + amount]
      /\ listingCount' = listingCount
  BY SMTT(30) DEF MakeOffer, listingVars
<1>3. /\ x \in OfferRecord /\ x.status = "Pending" /\ x.listing = l /\ x.offerer = u
      /\ x.amount = amount /\ x.parent = None
  BY DEF NewOffer, OfferRecord, OfferStatuses, ListingIds
<1>4. l \in 1..listingCount
  BY DEF MakeOffer, IsActive, CustodyInv, ListingIds
<1>5. offer[id] = AbsentOffer /\ held[id] = 0
  BY <1>1 DEF OfferInv, DepositsBacked, AbsentOffer, IsPending
<1> HIDE DEF id, x
<1>6. /\ offer' \in [OfferIds -> OfferRecord]
      /\ pendingOffers' \in [ListingIds -> SUBSET OfferIds]
      /\ held' \in [OfferIds -> Int]
      /\ \A o \in OfferIds : o # id => offer'[o] = offer[o] /\ held'[o] = held[o]
      /\ offer'[id] = x /\ held'[id] = amount
  BY <1>1, <1>2, <1>3, <1>5, SMTT(30) DEF OfferInv
<1>7. \A o \in OfferIds :
       IF o <= offerCount'
         THEN /\ offer'[o].status # "Absent" /\ offer'[o].offerer \in Users
              /\ offer'[o].listing \in 1..listingCount'
         ELSE offer'[o] = AbsentOffer
  BY <1>1, <1>2, <1>3, <1>4, <1>6, SMTT(30) DEF OfferInv
<1>8. ASSUME NEW k \in ListingIds
      PROVE  pendingOffers'[k] = {o \in OfferIds : offer'[o].status = "Pending" /\ offer'[o].listing = k}
  <2>1. pendingOffers[k] = {o \in OfferIds : offer[o].status = "Pending" /\ offer[o].listing = k}
    BY DEF OfferInv, PendingSets, IsPending
  <2>2. offer[id].status # "Pending"
    BY <1>5 DEF AbsentOffer
  <2>3. pendingOffers'[k] = IF k = l THEN pendingOffers[k] \cup {id} ELSE pendingOffers[k]
    BY <1>2, ZenonT(30) DEF OfferInv
  <2>4. \A o \in OfferIds : o \in pendingOffers'[k]
                              <=> offer'[o].status = "Pending" /\ offer'[o].listing = k
    <3> TAKE o \in OfferIds
    <3>1. CASE o = id
      BY <1>3, <1>6, <2>1, <2>2, <2>3, <3>1, SMTT(30)
    <3>2. CASE o # id
      BY <1>6, <2>1, <2>3, <3>2
    <3> QED
      BY <3>1, <3>2
  <2>5. pendingOffers'[k] \subseteq OfferIds
    BY <1>6
  <2> QED
    BY <2>4, <2>5
<1>9. PendingSets'
  BY <1>8 DEF PendingSets, IsPending
<1>10. DepositsBacked'
  BY <1>3, <1>6, SMTT(30) DEF OfferInv, DepositsBacked, IsPending
<1> QED
  BY <1>1, <1>6, <1>7, <1>9, <1>10, SMTT(30) DEF OfferInv

(* counter_offer preserves the offer half. *)
LEMMA CounterPreservesOffers ==
  ASSUME CustodyInv, OfferInv, NEW o \in OfferIds, NEW amount \in Amounts,
         NEW e \in Deadlines, CounterOffer(o, amount, e)
  PROVE  OfferInv'
<1> USE CustodyAssumption, ListingsAssumption
<1> DEFINE id == offerCount + 1
           l == offer[o].listing
           x == NewOffer(l, listing[l].artist, amount, e, o)
           y == [offer[o] EXCEPT !.status = "Rejected"]
<1>1. /\ id \in OfferIds /\ offerCount' = id /\ offerCount \in Nat
      /\ id \in 0..MaxOffers /\ \A k \in OfferIds : k <= id <=> (k <= offerCount \/ k = id)
      /\ ~(id <= offerCount)
  BY DEF CounterOffer, OfferInv, OfferIds
<1>2. IsPending(o) /\ IsActive(l)
  BY DEF CounterOffer
<1>3. /\ l \in ListingIds /\ l \in 1..listingCount /\ listing[l].artist \in Users
      /\ o <= offerCount /\ o # id /\ offer[o].offerer \in Users
  <2>1. l \in ListingIds
    BY <1>2, PendingIsReal, ZenonT(30)
  <2>2. o <= offerCount
    BY <1>2, SMTT(30) DEF OfferInv, IsPending, AbsentOffer
  <2> QED
    BY <1>1, <1>2, <2>1, <2>2 DEF CustodyInv, IsActive, OfferInv
<1>4. /\ offer' = [Marked(offer, {o}, "Rejected") EXCEPT ![id] = x]
      /\ pendingOffers' = [pendingOffers EXCEPT ![l] = (@ \ {o}) \cup {id}]
      /\ held' = [k \in OfferIds |-> IF k \in {o} THEN held[k] - offer[k].amount ELSE held[k]]
      /\ listingCount' = listingCount
  BY SMTT(30) DEF CounterOffer, Refund, listingVars
<1>5. /\ x \in OfferRecord /\ x.status = "Pending" /\ x.listing = l
      /\ x.offerer \in Users /\ x.parent # None
  BY <1>3 DEF NewOffer, OfferRecord, OfferStatuses, ListingIds, OfferIds
<1>6. /\ y \in OfferRecord /\ y.status = "Rejected" /\ y.listing = l
      /\ y.offerer = offer[o].offerer /\ y.parent = offer[o].parent
      /\ offer[o].amount \in Nat
  BY DEF OfferInv, OfferRecord, OfferStatuses
<1>7. offer[id] = AbsentOffer
  BY <1>1 DEF OfferInv
<1>8. l = offer[o].listing
  OBVIOUS
<1>9. Marked(offer, {o}, "Rejected") = [k \in OfferIds |-> IF k = o THEN y ELSE offer[k]]
  BY DEF Marked, OfferInv
<1> HIDE DEF id, x, y, l
<1>10. /\ offer' \in [OfferIds -> OfferRecord]
       /\ offer'[id] = x /\ offer'[o] = y
       /\ \A k \in OfferIds : k # id /\ k # o => offer'[k] = offer[k]
  BY <1>1, <1>3, <1>4, <1>5, <1>6, <1>9, ZenonT(30) DEF OfferInv
<1>11. /\ held' \in [OfferIds -> Int]
       /\ held'[o] = held[o] - offer[o].amount
       /\ \A k \in OfferIds : k # o => held'[k] = held[k]
  BY <1>4, <1>6 DEF OfferInv
<1>12. pendingOffers' \in [ListingIds -> SUBSET OfferIds]
  BY <1>1, <1>3, <1>4 DEF OfferInv
<1>13. \A k \in OfferIds :
       IF k <= offerCount'
         THEN /\ offer'[k].status # "Absent" /\ offer'[k].offerer \in Users
              /\ offer'[k].listing \in 1..listingCount'
         ELSE offer'[k] = AbsentOffer
  BY <1>1, <1>3, <1>4, <1>5, <1>6, <1>10, ZenonT(60) DEF OfferInv
<1>14. ASSUME NEW k \in ListingIds
       PROVE  pendingOffers'[k] = {i \in OfferIds : offer'[i].status = "Pending" /\ offer'[i].listing = k}
  <2>1. pendingOffers[k] = {i \in OfferIds : offer[i].status = "Pending" /\ offer[i].listing = k}
    BY DEF OfferInv, PendingSets, IsPending
  <2>2. offer[id].status # "Pending"
    BY <1>7 DEF AbsentOffer
  <2>3. pendingOffers'[k] = IF k = l THEN (pendingOffers[k] \ {o}) \cup {id} ELSE pendingOffers[k]
    BY <1>3, <1>4, ZenonT(30) DEF OfferInv
  <2>4. \A i \in OfferIds : i \in pendingOffers'[k]
                              <=> offer'[i].status = "Pending" /\ offer'[i].listing = k
    <3> TAKE i \in OfferIds
    <3>1. CASE i = id
      BY <1>5, <1>10, <2>1, <2>2, <2>3, <3>1, SMTT(30)
    <3>2. CASE i = o
      BY <1>3, <1>6, <1>8, <1>10, <2>1, <2>3, <3>2, SMTT(30)
    <3>3. CASE i # id /\ i # o
      BY <1>10, <2>1, <2>3, <3>3
    <3> QED
      BY <3>1, <3>2, <3>3
  <2>5. pendingOffers'[k] \subseteq OfferIds
    BY <1>12
  <2> QED
    BY <2>4, <2>5
<1>15. PendingSets'
  BY <1>14 DEF PendingSets, IsPending
<1>16. DepositsBacked'
  <2> SUFFICES ASSUME NEW k \in OfferIds, offer'[k].parent = None
               PROVE  held'[k] = IF offer'[k].status = "Pending" THEN offer'[k].amount ELSE 0
    BY DEF DepositsBacked, IsPending
  <2>1. k # id
    BY <1>5, <1>10
  <2>2. CASE k = o
    <3>1. offer[o].parent = None /\ offer'[o].status = "Rejected"
      BY <1>6, <1>10, <2>2
    <3>2. held[o] = offer[o].amount
      BY <1>2, <3>1, SMTT(30) DEF OfferInv, DepositsBacked
    <3> QED
      BY <1>6, <1>11, <2>2, <3>1, <3>2, SMTT(30)
  <2>3. CASE k # o
    BY <1>10, <1>11, <2>1, <2>3 DEF OfferInv, DepositsBacked, IsPending
  <2> QED
    BY <2>2, <2>3
<1> QED
  BY <1>1, <1>10, <1>11, <1>12, <1>13, <1>15, <1>16, SMTT(30) DEF OfferInv

(* More listings leave the offer half true. *)
LEMMA NewListingPreservesOffers ==
  ASSUME OfferInv, UNCHANGED offerVars, listingCount \in Nat,
         listingCount' = listingCount + 1
  PROVE  OfferInv'
<1>1. \A o \in OfferIds : offer[o].listing \in 1..listingCount
                           => offer[o].listing \in 1..listingCount'
  OBVIOUS
<1> QED
  BY <1>1 DEF OfferInv, offerVars, PendingSets, DepositsBacked, IsPending

(* The calls that change neither a counter nor an index of the artist close *)
(* some listings and resolve some offers.                                   *)
LEMMA ClosingSteps ==
  ASSUME CustodyInv, OfferInv,
         \/ \E l \in ListingIds, p \in Prices : UpdateListing(l, p) \/ UpdateListingPrice(l, p)
         \/ \E l \in ListingIds, r \in Reservations : SetListingReservation(l, r)
         \/ \E l \in ListingIds, u \in Reconciled : ReconcileListingOwner(l, u)
         \/ \E l \in ListingIds, u \in Users : BuyArtwork(l, u) \/ BuyExpired(l, u)
         \/ \E u \in Users, S \in SUBSET ListingIds : CancelListings(u, S)
         \/ \E l \in ListingIds : ExpireListing(l)
         \/ \E u \in Users : ReinstateArtist(u)
         \/ \E u \in Users, k \in 0..MaxListings : CancelArtistListings(u, k)
         \/ \E o \in OfferIds : WithdrawOffer(o) \/ RejectOffer(o) \/ ReclaimOffer(o)
         \/ \E S \in SUBSET OfferIds : SweepExpiredOffers(S)
         \/ \E o \in OfferIds : AcceptOffer(o)
         \/ \E o \in OfferIds, u \in Users : AcceptCounterOffer(o, u)
         \/ CustodyNext /\ UNCHANGED <<nftOwner, listingVars, offerVars>>
         \/ UNCHANGED lvars
  PROVE  \E S, T : ListingsClosed(S) /\ OffersResolved(T)
<1>1. ASSUME NEW l \in ListingIds,
             \/ \E p \in Prices : UpdateListing(l, p) \/ UpdateListingPrice(l, p)
             \/ \E r \in Reservations : SetListingReservation(l, r)
             \/ \E u \in Reconciled : ReconcileListingOwner(l, u)
      PROVE  ListingsClosed({}) /\ OffersResolved({})
  BY <1>1, EditCloses, UnchangedOffers
<1>2. ASSUME \/ \E l \in ListingIds, u \in Users : BuyArtwork(l, u)
             \/ \E o \in OfferIds : AcceptOffer(o)
             \/ \E o \in OfferIds, u \in Users : AcceptCounterOffer(o, u)
      PROVE  \E S, T : ListingsClosed(S) /\ OffersResolved(T)
  BY <1>2, SaleEffects, ZenonT(30)
<1>3. ASSUME NEW l \in ListingIds, NEW u \in Users, BuyExpired(l, u)
      PROVE  ListingsClosed({l}) /\ OffersResolved(OpenOffers({l}))
  <2>1. {l} \subseteq {k \in ListingIds : IsActive(k)} /\ CancelAll({l})
    BY <1>3, ZenonT(30) DEF BuyExpired, BuyGuard
  <2> QED
    BY <2>1, CancelEffects
<1>4. ASSUME NEW u \in Users, NEW S \in SUBSET ListingIds, CancelListings(u, S)
      PROVE  ListingsClosed(S) /\ OffersResolved(OpenOffers(S))
  <2>1. S \subseteq {k \in ListingIds : IsActive(k)} /\ CancelAll(S)
    BY <1>4 DEF CancelListings
  <2> QED
    BY <2>1, CancelEffects
<1>5. ASSUME NEW l \in ListingIds, ExpireListing(l)
      PROVE  ListingsClosed({l}) /\ OffersResolved({})
  BY <1>5, ExpireCloses, UnchangedOffers
<1>6. ASSUME UNCHANGED <<nftOwner, escrow, listing, listingCount, activeListings>>,
             UNCHANGED offerVars
      PROVE  ListingsClosed({}) /\ OffersResolved({})
  BY <1>6, UnchangedCustody, UnchangedOffers
<1>7. ASSUME NEW u \in Users, ReinstateArtist(u)
      PROVE  ListingsClosed({}) /\ OffersResolved({})
  BY <1>6, <1>7 DEF ReinstateArtist
<1>8. ASSUME NEW u \in Users, NEW k \in 0..MaxListings, CancelArtistListings(u, k)
      PROVE  \E S, T : ListingsClosed(S) /\ OffersResolved(T)
  <2>1. CASE u \notin revoked
    BY <1>6, <1>8, <2>1 DEF CancelArtistListings, custodyVars
  <2>2. CASE u \in revoked
    <3> DEFINE S == ActiveBetween(u, cancelCursor[u] + 1, SweepEnd(u, k))
    <3>1. CancelAll(S)
      BY <1>8, <2>2, SMTT(30) DEF CancelArtistListings
    <3>2. S \subseteq {l \in ListingIds : IsActive(l)}
      BY ZenonT(30) DEF ActiveBetween
    <3> HIDE DEF S
    <3> QED
      BY <3>1, <3>2, CancelEffects
  <2> QED
    BY <2>1, <2>2, SMTT(30)
<1>9. ASSUME NEW S, S \subseteq {o \in OfferIds : IsPending(o)},
             NEW status \in {"Withdrawn", "Rejected", "Expired"}, CloseOffers(S, status)
      PROVE  ListingsClosed({}) /\ OffersResolved(S)
  <2>1. OffersResolved(S) /\ UNCHANGED <<nftOwner, escrow, listingVars, now>>
    BY <1>9, CloseResolves
  <2> QED
    BY <2>1, UnchangedCustody DEF listingVars
<1>10. ASSUME NEW o \in OfferIds, WithdrawOffer(o) \/ RejectOffer(o) \/ ReclaimOffer(o)
       PROVE  ListingsClosed({}) /\ OffersResolved({o})
  <2>1. {o} \subseteq {i \in OfferIds : IsPending(i)}
    BY <1>10 DEF WithdrawOffer, RejectOffer, ReclaimOffer
  <2>2. CloseOffers({o}, "Withdrawn") \/ CloseOffers({o}, "Rejected")
    BY <1>10 DEF WithdrawOffer, RejectOffer, ReclaimOffer
  <2> QED
    BY <1>9, <2>1, <2>2
<1>11. ASSUME NEW S \in SUBSET OfferIds, SweepExpiredOffers(S)
       PROVE  \E T : ListingsClosed({}) /\ OffersResolved(T)
  <2> DEFINE T == {o \in S : IsPending(o) /\ Passed(offer[o].expires)}
  <2>1. T \subseteq {i \in OfferIds : IsPending(i)} /\ CloseOffers(T, "Expired")
    BY <1>11 DEF SweepExpiredOffers
  <2> HIDE DEF T
  <2> QED
    BY <1>9, <2>1
<1>12. ASSUME CustodyNext, UNCHANGED <<nftOwner, listingVars, offerVars>>
       PROVE  ListingsClosed({}) /\ OffersResolved({})
  <2>1. UNCHANGED escrow
    BY <1>12 DEF CustodyNext, Tick, TransferNft, SetPaused, SetTokenPolicy, RevokeArtist
  <2> QED
    BY <1>6, <1>12, <2>1, SMTT(30) DEF listingVars
<1>13. ASSUME UNCHANGED lvars
       PROVE  ListingsClosed({}) /\ OffersResolved({})
  BY <1>6, <1>13 DEF lvars, custodyVars, listingVars
<1> QED
  BY <1>1, <1>2, <1>3, <1>4, <1>5, <1>7, <1>8, <1>10, <1>11, <1>12, <1>13, ZenonT(30)

(* Clock, artist index and sweep cursor keep their types. *)
LEMMA ScalarStep ==
  ASSUME ScalarInv, CustodyInv, [LNext]_lvars
  PROVE  ScalarInv'
<1> USE ListingsAssumption
<1>1. now' \in Nat
  <2>1. CASE ListingsNext
    <3>1. now' = now
      BY <2>1, ZenonT(30) DEF ListingsNext, CreateListing, UpdateListing, UpdateListingPrice, Reprice,
        SetListingReservation, ReconcileListingOwner, BuyArtwork, BuyExpired,
        CancelListings, ExpireListing, ReinstateArtist, CancelArtistListings, MakeOffer,
        WithdrawOffer, RejectOffer, ReclaimOffer, SweepExpiredOffers, AcceptOffer,
        CounterOffer, AcceptCounterOffer, Sell, CancelAll, CloseOffers, custodyVars
    <3> QED
      BY <3>1, SMTT(30) DEF ScalarInv
  <2>2. CASE CustodyNext
    BY <2>2 DEF ScalarInv, CustodyNext, Tick, TransferNft, SetPaused, SetTokenPolicy,
      RevokeArtist
  <2>3. CASE UNCHANGED lvars
    BY <2>3 DEF ScalarInv, lvars, custodyVars
  <2> QED
    BY <2>1, <2>2, <2>3 DEF LNext
<1>2. artistListings' \in [Users -> Seq(ListingIds)] /\ cancelCursor' \in [Users -> Nat]
  <2>1. ASSUME NEW u \in Users, NEW n \in Nfts, NEW p \in Prices, NEW e \in Deadlines,
               CreateListing(u, n, p, e)
        PROVE  artistListings' \in [Users -> Seq(ListingIds)] /\ cancelCursor' = cancelCursor
    <3>1. listingCount + 1 \in ListingIds
      BY <2>1 DEF CreateListing, CustodyInv, ListingIds
    <3>2. artistListings' = [artistListings EXCEPT ![u] = Append(@, listingCount + 1)]
      BY <2>1 DEF CreateListing
    <3> QED
      BY <2>1, <3>1, <3>2, SMTT(30) DEF ScalarInv, CreateListing
  <2>2. ASSUME NEW u \in Users, ReinstateArtist(u)
        PROVE  artistListings' = artistListings /\ cancelCursor' \in [Users -> Nat]
    BY <2>2, SMTT(30) DEF ReinstateArtist, ScalarInv
  <2>3. ASSUME NEW u \in Users, NEW k \in 0..MaxListings, CancelArtistListings(u, k)
        PROVE  artistListings' = artistListings /\ cancelCursor' \in [Users -> Nat]
    <3>1. SweepEnd(u, k) \in Nat
      BY SMTT(30) DEF SweepEnd, ScalarInv
    <3>2. /\ artistListings' = artistListings
          /\ \/ cancelCursor' = [cancelCursor EXCEPT ![u] = 0]
             \/ cancelCursor' = [cancelCursor EXCEPT ![u] = SweepEnd(u, k)]
      BY <2>3, ZenonT(30) DEF CancelArtistListings, CancelAll
    <3>3. cancelCursor \in [Users -> Nat]
      BY DEF ScalarInv
    <3> HIDE DEF SweepEnd, CancelArtistListings
    <3> QED
      BY <3>1, <3>2, <3>3
  <2>4. \/ \E u \in Users, n \in Nfts, p \in Prices, e \in Deadlines : CreateListing(u, n, p, e)
        \/ \E u \in Users : ReinstateArtist(u)
        \/ \E u \in Users, k \in 0..MaxListings : CancelArtistListings(u, k)
        \/ UNCHANGED <<artistListings, cancelCursor>>
    BY ZenonT(30) DEF LNext, ListingsNext, UpdateListing, UpdateListingPrice, Reprice,
      SetListingReservation, ReconcileListingOwner, BuyArtwork, BuyExpired,
      CancelListings, ExpireListing, MakeOffer, WithdrawOffer, RejectOffer, ReclaimOffer,
      SweepExpiredOffers, AcceptOffer, CounterOffer, AcceptCounterOffer, Sell, CancelAll,
      CloseOffers, listingVars, lvars
  <2> QED
    BY <2>1, <2>2, <2>3, <2>4, SMTT(30) DEF ScalarInv
<1> QED
  BY <1>1, <1>2 DEF ScalarInv

(* The inductive invariant holds initially. *)
LEMMA LInvInit == LInit => LInv
<1> SUFFICES ASSUME LInit PROVE LInv
  OBVIOUS
<1>1. AbsentListing \in ListingRecord /\ AbsentListing.status = "Absent"
  BY DEF AbsentListing, ListingRecord, ListingStatuses, Reservation, NoReservation
<1>2. AbsentOffer \in OfferRecord /\ AbsentOffer.status = "Absent"
  BY DEF AbsentOffer, OfferRecord, OfferStatuses
<1>3. ScalarInv
  BY DEF ScalarInv, LInit, CustodyInit, ListingsInit
<1>4. /\ nftOwner \in [Nfts -> Users]
      /\ escrow = [n \in Nfts |-> None]
      /\ listing = [l \in ListingIds |-> AbsentListing]
      /\ listingCount = 0 /\ activeListings = {}
  BY DEF LInit, CustodyInit, ListingsInit
<1>5. /\ offer = [o \in OfferIds |-> AbsentOffer] /\ offerCount = 0
      /\ pendingOffers = [l \in ListingIds |-> {}]
      /\ held = [o \in OfferIds |-> 0]
  BY DEF LInit, ListingsInit
<1>6. \A l \in ListingIds : ~IsActive(l) /\ ~(l <= listingCount)
  BY <1>1, <1>4, ListingsAssumption DEF IsActive, ListingIds
<1>7. \A n \in Nfts : nftOwner[n] # Contract
  BY <1>4, CustodyAssumption
<1>8. ListingCustody /\ RecordsMatchCustody /\ ActiveIndexExact
  BY <1>4, <1>6, <1>7 DEF ListingCustody, RecordsMatchCustody, ActiveIndexExact
<1>9. CustodyInv
  BY <1>1, <1>4, <1>6, <1>8, ListingsAssumption DEF CustodyInv
<1>10. \A o \in OfferIds : ~IsPending(o) /\ ~(o <= offerCount)
  BY <1>2, <1>5, ListingsAssumption DEF IsPending, OfferIds
<1>11. PendingSets /\ DepositsBacked
  BY <1>5, <1>10 DEF PendingSets, DepositsBacked, IsPending
<1>12. OfferInv
  BY <1>2, <1>5, <1>10, <1>11, ListingsAssumption DEF OfferInv
<1> QED
  BY <1>3, <1>9, <1>12 DEF LInv

(* Every step preserves the inductive invariant. *)
LEMMA LInvStep == LInv /\ [LNext]_lvars => LInv'
<1> SUFFICES ASSUME LInv, [LNext]_lvars PROVE LInv'
  OBVIOUS
<1> USE DEF LInv
<1>1. ScalarInv'
  BY ScalarStep
<1>2. listingCount \in 0..MaxListings /\ listingCount \in Nat
  BY ListingsAssumption DEF CustodyInv
<1>3. ASSUME NEW S, NEW T, ListingsClosed(S), OffersResolved(T)
      PROVE  CustodyInv' /\ OfferInv'
  <2>1. listingCount' = listingCount
    BY <1>3 DEF ListingsClosed
  <2>2. CustodyInv'
    BY <1>3, ClosedPreservesCustody
  <2>3. OfferInv'
    BY <1>2, <1>3, <2>1, ResolvedPreservesOffers
  <2> QED
    BY <2>2, <2>3, SMTT(30)
<1>4. ASSUME NEW u \in Users, NEW n \in Nfts, NEW p \in Prices, NEW e \in Deadlines,
             CreateListing(u, n, p, e)
      PROVE  CustodyInv' /\ OfferInv'
  <2>1. CustodyInv' /\ UNCHANGED offerVars /\ listingCount' = listingCount + 1
    BY <1>4, CreatePreservesCustody
  <2> QED
    BY <1>2, <2>1, NewListingPreservesOffers
<1>5. ASSUME UNCHANGED <<nftOwner, escrow, listingVars>> PROVE CustodyInv'
  <2>1. ListingsClosed({})
    BY <1>5, UnchangedCustody DEF listingVars
  <2> QED
    BY <2>1, ClosedPreservesCustody
<1>6. ASSUME NEW l \in ListingIds, NEW u \in Users, NEW x \in Amounts, NEW e \in Deadlines,
             MakeOffer(l, u, x, e)
      PROVE  CustodyInv' /\ OfferInv'
  BY <1>5, <1>6, MakeOfferPreservesOffers, ZenonT(30) DEF MakeOffer
<1>7. ASSUME NEW o \in OfferIds, NEW x \in Amounts, NEW e \in Deadlines, CounterOffer(o, x, e)
      PROVE  CustodyInv' /\ OfferInv'
  BY <1>5, <1>7, CounterPreservesOffers, ZenonT(30) DEF CounterOffer
<1>8. ASSUME NEW u \in Users, NEW v \in Collectors, NEW n \in Nfts, TransferNft(u, v, n),
             UNCHANGED <<listingVars, offerVars>>
      PROVE  CustodyInv' /\ OfferInv'
  <2>1. v \in Users
    BY CustodyAssumption
  <2>2. CustodyInv'
    BY <1>8, <2>1, TransferPreservesCustody
  <2>3. OffersResolved({}) /\ listingCount' = listingCount
    BY <1>8, UnchangedOffers DEF listingVars
  <2> QED
    BY <1>2, <2>2, <2>3, ResolvedPreservesOffers
<1>9. CASE \/ \E l \in ListingIds, p \in Prices : UpdateListing(l, p) \/ UpdateListingPrice(l, p)
           \/ \E l \in ListingIds, r \in Reservations : SetListingReservation(l, r)
           \/ \E l \in ListingIds, u \in Reconciled : ReconcileListingOwner(l, u)
           \/ \E l \in ListingIds, u \in Users : BuyArtwork(l, u) \/ BuyExpired(l, u)
           \/ \E u \in Users, S \in SUBSET ListingIds : CancelListings(u, S)
           \/ \E l \in ListingIds : ExpireListing(l)
           \/ \E u \in Users : ReinstateArtist(u)
           \/ \E u \in Users, k \in 0..MaxListings : CancelArtistListings(u, k)
           \/ \E o \in OfferIds : WithdrawOffer(o) \/ RejectOffer(o) \/ ReclaimOffer(o)
           \/ \E S \in SUBSET OfferIds : SweepExpiredOffers(S)
           \/ \E o \in OfferIds : AcceptOffer(o)
           \/ \E o \in OfferIds, u \in Users : AcceptCounterOffer(o, u)
           \/ CustodyNext /\ UNCHANGED <<nftOwner, listingVars, offerVars>>
           \/ UNCHANGED lvars
  <2>1. \E S, T : ListingsClosed(S) /\ OffersResolved(T)
    BY <1>9, ClosingSteps
  <2> QED
    BY <1>1, <1>3, <2>1, SMTT(30)
<1>10. CASE CustodyNext /\ UNCHANGED <<listingVars, offerVars>>
  <2>1. \/ \E u \in Users, v \in Collectors, n \in Nfts : TransferNft(u, v, n)
        \/ UNCHANGED nftOwner
    BY <1>10, SMTT(30) DEF CustodyNext, Tick, SetPaused, SetTokenPolicy, RevokeArtist
  <2> QED
    BY <1>1, <1>8, <1>9, <1>10, <2>1
<1>11. CASE ListingsNext
  BY <1>1, <1>4, <1>6, <1>7, <1>9, <1>11 DEF ListingsNext
<1>12. CASE UNCHANGED lvars
  BY <1>9, <1>12
<1> QED
  BY <1>1, <1>9, <1>10, <1>11, <1>12 DEF LNext

(* Every record, index and account of the listing and offer half keeps its *)
(* type, and ids are handed out once, whatever calls are made.             *)
THEOREM TypeCorrect == LSpec => []LTypeOK
<1>1. LInv => LTypeOK
  BY ZenonT(30) DEF LInv, ScalarInv, CustodyInv, OfferInv, LTypeOK
<1> QED
  BY LInvInit, LInvStep, <1>1, PTL DEF LSpec

(* No listing path leaves an NFT behind in custody or sells one that is not *)
(* there (create_listing_inner, buy_artwork, accept_offer, cancel, expire). *)
THEOREM CustodyCorrect == LSpec => [](ListingCustody /\ RecordsMatchCustody)
<1>1. LInv => ListingCustody /\ RecordsMatchCustody
  BY DEF LInv, CustodyInv
<1> QED
  BY LInvInit, LInvStep, <1>1, PTL DEF LSpec

(* The active-listing index is exact after every call. *)
THEOREM ActiveIndexCorrect == LSpec => []ActiveIndexExact
<1>1. LInv => ActiveIndexExact
  BY DEF LInv, CustodyInv
<1> QED
  BY LInvInit, LInvStep, <1>1, PTL DEF LSpec

(* Every deposited offer is backed while Pending and paid out exactly once. *)
THEOREM DepositsCorrect == LSpec => []DepositsBacked
<1>1. LInv => DepositsBacked
  BY DEF LInv, OfferInv
<1> QED
  BY LInvInit, LInvStep, <1>1, PTL DEF LSpec

(* A step ends listings and offers, or is one of the four that do not. *)
LEMMA StepKinds ==
  ASSUME LInv, [LNext]_lvars
  PROVE  \/ \E u \in Users, n \in Nfts, p \in Prices, e \in Deadlines : CreateListing(u, n, p, e)
         \/ \E l \in ListingIds, u \in Users, x \in Amounts, e \in Deadlines : MakeOffer(l, u, x, e)
         \/ \E o \in OfferIds, x \in Amounts, e \in Deadlines : CounterOffer(o, x, e)
         \/ /\ \E u \in Users, v \in Collectors, n \in Nfts : TransferNft(u, v, n)
            /\ UNCHANGED <<listingVars, offerVars>>
         \/ \E S, T : ListingsClosed(S) /\ OffersResolved(T)
<1> USE DEF LInv
<1>1. CASE \/ \E l \in ListingIds, p \in Prices : UpdateListing(l, p) \/ UpdateListingPrice(l, p)
           \/ \E l \in ListingIds, r \in Reservations : SetListingReservation(l, r)
           \/ \E l \in ListingIds, u \in Reconciled : ReconcileListingOwner(l, u)
           \/ \E l \in ListingIds, u \in Users : BuyArtwork(l, u) \/ BuyExpired(l, u)
           \/ \E u \in Users, S \in SUBSET ListingIds : CancelListings(u, S)
           \/ \E l \in ListingIds : ExpireListing(l)
           \/ \E u \in Users : ReinstateArtist(u)
           \/ \E u \in Users, k \in 0..MaxListings : CancelArtistListings(u, k)
           \/ \E o \in OfferIds : WithdrawOffer(o) \/ RejectOffer(o) \/ ReclaimOffer(o)
           \/ \E S \in SUBSET OfferIds : SweepExpiredOffers(S)
           \/ \E o \in OfferIds : AcceptOffer(o)
           \/ \E o \in OfferIds, u \in Users : AcceptCounterOffer(o, u)
           \/ CustodyNext /\ UNCHANGED <<nftOwner, listingVars, offerVars>>
           \/ UNCHANGED lvars
  <2>1. \E S, T : ListingsClosed(S) /\ OffersResolved(T)
    BY <1>1, ClosingSteps
  <2> QED
    BY <2>1
<1>2. CASE CustodyNext /\ UNCHANGED <<listingVars, offerVars>>
  <2>1. \/ \E u \in Users, v \in Collectors, n \in Nfts : TransferNft(u, v, n)
        \/ UNCHANGED nftOwner
    BY <1>2, SMTT(30) DEF CustodyNext, Tick, SetPaused, SetTokenPolicy, RevokeArtist
  <2> QED
    BY <1>1, <1>2, <2>1
<1>3. CASE ListingsNext
  BY <1>1, <1>3 DEF ListingsNext
<1> QED
  BY <1>1, <1>2, <1>3 DEF LNext

=============================================================================
