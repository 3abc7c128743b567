------------------------------ MODULE Listings ------------------------------
(***************************************************************************)
(* Fixed-price listings and the offers made on them                        *)
(* (contracts/soroban-marketplace/src/contract.rs).                        *)
(*                                                                         *)
(* A batch entry point (create_listings, update_listings) is its single    *)
(* form repeated inside one transaction and reaches no other state;        *)
(* cancel_listings and cancel_artist_listings are actions on sets.         *)
(***************************************************************************)
EXTENDS Custody, Sequences

CONSTANTS
  MaxListings,          \* bound on the listing ids handed out
  MaxOffers,            \* bound on the offer ids handed out
  MaxOffersPerListing,  \* MAX_OFFERS_PER_LISTING
  Prices,               \* listing prices inside the price policy
  Amounts,              \* offer amounts
  Deadlines,            \* expires_at inputs, None included
  Reconciled,           \* owners reconcile_listing_owner is given
  Reservations          \* set_listing_reservation inputs: [for, start, end]

ListingIds == 1..MaxListings
OfferIds == 1..MaxOffers

ASSUME ListingsAssumption ==
  /\ MaxListings \in Nat /\ MaxOffers \in Nat
  /\ MaxOffersPerListing \in Nat \ {0}
  /\ Prices \subseteq Nat \ {0} /\ Amounts \subseteq Nat \ {0}
  /\ Deadlines \subseteq Nat \cup {None}
  /\ None \notin Nat
  /\ Reconciled \subseteq Users
  /\ Reservations \subseteq [for : Users \cup {None},
                             start : Nat \cup {None}, end : Nat \cup {None}]

VARIABLES
  listing,         \* Listing records by id
  listingCount,    \* last listing id handed out
  activeListings,  \* members of the ActiveListings index (see ActiveIndex)
  artistListings,  \* ArtistListings index: ids of each artist, oldest first
  cancelCursor,    \* resume point of the revocation sweep, per artist
  offer,           \* Offer records by id
  offerCount,      \* last offer id handed out
  pendingOffers,   \* ListingPendingOffers entry of each listing
  held             \* net amount the contract took in on account of each offer

listingVars == <<listing, listingCount, activeListings, artistListings,
                 cancelCursor>>
offerVars == <<offer, offerCount, pendingOffers, held>>
lvars == <<custodyVars, listingVars, offerVars>>

NoReservation == [for |-> None, start |-> None, end |-> None]

AbsentListing ==
  [status |-> "Absent", artist |-> None, nft |-> None, price |-> 0,
   expires |-> None, owner |-> None, reservation |-> NoReservation]

AbsentOffer ==
  [status |-> "Absent", listing |-> 0, offerer |-> None, amount |-> 0,
   expires |-> None, parent |-> None]

ListingsInit ==
  /\ listing = [l \in ListingIds |-> AbsentListing]
  /\ listingCount = 0
  /\ activeListings = {}
  /\ artistListings = [u \in Users |-> <<>>]
  /\ cancelCursor = [u \in Users |-> 0]
  /\ offer = [o \in OfferIds |-> AbsentOffer]
  /\ offerCount = 0
  /\ pendingOffers = [l \in ListingIds |-> {}]
  /\ held = [o \in OfferIds |-> 0]

----------------------------------------------------------------------------
(* Helpers *)

IsActive(l) == listing[l].status = "Active"
IsPending(o) == offer[o].status = "Pending"

(* A deadline that has come: Some(t) with t <= now. *)
Passed(deadline) == deadline # None /\ deadline <= now

Marked(f, S, status) ==
  [x \in DOMAIN f |-> IF x \in S THEN [f[x] EXCEPT !.status = status] ELSE f[x]]

(* The offers a terminal listing transition rejects and refunds. *)
OpenOffers(S) == {o \in OfferIds : IsPending(o) /\ \E l \in S : o \in pendingOffers[l]}

SumOffers(S) == SumFunctionOnSet([o \in OfferIds |-> offer[o].amount], S)

(* One token transfer of the offer's amount to its offerer for each o in S. *)
Refund(S) ==
  /\ PayOut(SumOffers(S))
  /\ held' = [o \in OfferIds |-> IF o \in S THEN held[o] - offer[o].amount ELSE held[o]]

RemovePending(S) ==
  pendingOffers' = [l \in ListingIds |->
                      pendingOffers[l] \ {o \in S : offer[o].listing = l}]

ClearPending(S) ==
  pendingOffers' = [l \in ListingIds |-> IF l \in S THEN {} ELSE pendingOffers[l]]

ReservationActive(r) ==
  /\ r.start = None \/ now >= r.start
  /\ r.end # None /\ now < r.end

----------------------------------------------------------------------------
(* Listing lifecycle *)

CreateListing(u, n, price, expires) ==
  /\ MaySell(u)
  /\ listingCount < MaxListings
  /\ expires # None => expires > now
  /\ LET id == listingCount + 1 IN
       /\ EscrowNft(u, n, ListingEscrow(id))
       /\ listing' = [listing EXCEPT ![id] =
            [status |-> "Active", artist |-> u, nft |-> n, price |-> price,
             expires |-> expires, owner |-> None, reservation |-> NoReservation]]
       /\ activeListings' = activeListings \cup {id}
       /\ artistListings' = [artistListings EXCEPT ![u] = Append(@, id)]
  /\ listingCount' = listingCount + 1
  /\ UNCHANGED <<now, bank, policyVars, cancelCursor, offerVars>>

Reprice(l, price) ==
  /\ IsActive(l)
  /\ listing' = [listing EXCEPT ![l].price = price]
  /\ UNCHANGED <<custodyVars, listingCount, activeListings, artistListings,
                 cancelCursor, offerVars>>

UpdateListing(l, price) ==
  ~paused /\ tokenAccepted /\ pendingOffers[l] = {} /\ Reprice(l, price)

UpdateListingPrice(l, price) == ~paused /\ Reprice(l, price)

SetListingReservation(l, r) ==
  /\ IsActive(l)
  /\ r.end # None => /\ r.end > now
                     /\ r.start # None => r.start < r.end
  /\ listing' = [listing EXCEPT ![l].reservation = r]
  /\ UNCHANGED <<custodyVars, listingCount, activeListings, artistListings,
                 cancelCursor, offerVars>>

ReconcileListingOwner(l, new) ==
  /\ listing[l].status # "Absent"
  /\ new # IF listing[l].owner = None THEN listing[l].artist ELSE listing[l].owner
  /\ listing' = [listing EXCEPT ![l].owner = new]
  /\ UNCHANGED <<custodyVars, listingCount, activeListings, artistListings,
                 cancelCursor, offerVars>>

SellKeepingIndex(l, buyer, offers, P) ==
  /\ listing' = [listing EXCEPT ![l].status = "Sold", ![l].owner = buyer]
  /\ offer' = offers
  /\ Refund(P)
  /\ ClearPending({l})
  /\ ReleaseNft(listing[l].nft, buyer)
  /\ UNCHANGED <<now, policyVars, listingCount, activeListings, artistListings,
                 cancelCursor, offerCount>>

SellWithoutOwner(l, buyer, offers, P) ==
  /\ listing' = [listing EXCEPT ![l].status = "Sold"]
  /\ activeListings' = activeListings \ {l}
  /\ offer' = offers
  /\ Refund(P)
  /\ ClearPending({l})
  /\ ReleaseNft(listing[l].nft, buyer)
  /\ UNCHANGED <<now, policyVars, listingCount, artistListings, cancelCursor,
                 offerCount>>

(* The shared tail of every sale: the listing is Sold to buyer, the offers *)
(* in S are rejected, the offers in P are paid out of escrow (refunds, and *)
(* an accepted deposit), the pending entry is dropped, the NFT moves.      *)
Sell(l, buyer, offers, P) ==
  /\ listing' = [listing EXCEPT ![l].status = "Sold", ![l].owner = buyer]
  /\ activeListings' = activeListings \ {l}
  /\ offer' = offers
  /\ Refund(P)
  /\ ClearPending({l})
  /\ ReleaseNft(listing[l].nft, buyer)
  /\ UNCHANGED <<now, policyVars, listingCount, artistListings, cancelCursor,
                 offerCount>>

(* transition_listing_to_cancelled with refunds, for every listing in S. *)
CancelAll(S) ==
  /\ listing' = Marked(listing, S, "Cancelled")
  /\ activeListings' = activeListings \ S
  /\ offer' = Marked(offer, OpenOffers(S), "Rejected")
  /\ Refund(OpenOffers(S))
  /\ ClearPending(S)
  /\ \A l \in S : nftOwner[listing[l].nft] = Contract
  /\ nftOwner' = [n \in Nfts |->
       IF \E l \in S : listing[l].nft = n
         THEN listing[CHOOSE l \in S : listing[l].nft = n].artist
         ELSE nftOwner[n]]
  /\ escrow' = [n \in Nfts |->
       IF \E l \in S : listing[l].nft = n THEN None ELSE escrow[n]]
  /\ UNCHANGED <<now, policyVars, listingCount, artistListings, offerCount>>

BuyGuard(l, buyer) ==
  /\ ~paused /\ IsActive(l)
  /\ buyer # listing[l].artist /\ buyer # listing[l].owner

BuyArtwork(l, buyer) ==
  /\ BuyGuard(l, buyer)
  /\ ~Passed(listing[l].expires)
  /\ LET r == listing[l].reservation IN
       ReservationActive(r) /\ r.for # None => r.for = buyer
  /\ tokenAccepted
  /\ Sell(l, buyer, Marked(offer, OpenOffers({l}), "Rejected"), OpenOffers({l}))

BuyExpiredWithoutRefund(l, buyer) ==
  /\ BuyGuard(l, buyer)
  /\ Passed(listing[l].expires)
  /\ listing' = [listing EXCEPT ![l].status = "Cancelled"]
  /\ activeListings' = activeListings \ {l}
  /\ offer' = Marked(offer, OpenOffers({l}), "Rejected")
  /\ ClearPending({l})
  /\ ReleaseNft(listing[l].nft, listing[l].artist)
  /\ UNCHANGED <<now, bank, policyVars, listingCount, artistListings,
                 cancelCursor, offerCount, held>>

(* buy_artwork on a listing past its deadline cancels it and returns false. *)
BuyExpired(l, buyer) ==
  /\ BuyGuard(l, buyer)
  /\ Passed(listing[l].expires)
  /\ CancelAll({l})
  /\ UNCHANGED cancelCursor

(* cancel_listing and cancel_listings: the caller's own Active listings. *)
CancelListings(u, S) ==
  /\ \A l \in S : IsActive(l) /\ listing[l].artist = u
  /\ CancelAll(S)
  /\ UNCHANGED cancelCursor

ExpireListing(l) ==
  /\ IsActive(l)
  /\ Passed(listing[l].expires)
  /\ listing' = [listing EXCEPT ![l].status = "Cancelled"]
  /\ activeListings' = activeListings \ {l}
  /\ ReleaseNft(listing[l].nft, listing[l].artist)
  /\ UNCHANGED <<now, bank, policyVars, listingCount, artistListings,
                 cancelCursor, offerVars>>

ReinstateArtist(u) ==
  /\ revoked' = revoked \ {u}
  /\ cancelCursor' = [cancelCursor EXCEPT ![u] = 0]
  /\ UNCHANGED <<now, nftOwner, escrow, bank, paused, tokenAccepted, listing,
                 listingCount, activeListings, artistListings, offerVars>>

SweepEnd(u, k) ==
  LET total == Len(artistListings[u])
  IN  IF cancelCursor[u] + k < total THEN cancelCursor[u] + k ELSE total

(* The Active listings at positions from..upto of the artist's index. *)
ActiveBetween(u, from, upto) ==
  {l \in ListingIds : IsActive(l) /\ \E i \in from..upto : artistListings[u][i] = l}

SweepOffByOne(u, k) ==
  /\ u \in revoked
  /\ CancelAll(ActiveBetween(u, cancelCursor[u] + 2, SweepEnd(u, k)))
  /\ cancelCursor' = [cancelCursor EXCEPT ![u] = SweepEnd(u, k)]

(* cancel_artist_listings, at most k of the artist's listings per call. *)
CancelArtistListings(u, k) ==
  \/ /\ u \notin revoked
     /\ cancelCursor' = [cancelCursor EXCEPT ![u] = 0]
     /\ UNCHANGED <<custodyVars, listing, listingCount, activeListings,
                    artistListings, offerVars>>
  \/ /\ u \in revoked
     /\ CancelAll(ActiveBetween(u, cancelCursor[u] + 1, SweepEnd(u, k)))
     /\ cancelCursor' = [cancelCursor EXCEPT ![u] = SweepEnd(u, k)]

----------------------------------------------------------------------------
(* Offer lifecycle *)

NewOffer(l, offerer, amount, expires, parent) ==
  [status |-> "Pending", listing |-> l, offerer |-> offerer,
   amount |-> amount, expires |-> expires, parent |-> parent]

MakeOfferWhilePaused(l, u, amount, expires) ==
  /\ tokenAccepted
  /\ offerCount < MaxOffers
  /\ IsActive(l) /\ u # listing[l].artist
  /\ Cardinality(pendingOffers[l]) < MaxOffersPerListing
  /\ LET id == offerCount + 1 IN
       /\ offer' = [offer EXCEPT ![id] = NewOffer(l, u, amount, expires, None)]
       /\ pendingOffers' = [pendingOffers EXCEPT ![l] = @ \cup {id}]
       /\ held' = [held EXCEPT ![id] = @ + amount]
  /\ PayIn(amount)
  /\ offerCount' = offerCount + 1
  /\ UNCHANGED <<now, nftOwner, escrow, policyVars, listingVars>>

MakeOffer(l, u, amount, expires) ==
  /\ ~paused /\ tokenAccepted
  /\ offerCount < MaxOffers
  /\ IsActive(l) /\ u # listing[l].artist
  /\ Cardinality(pendingOffers[l]) < MaxOffersPerListing
  /\ LET id == offerCount + 1 IN
       /\ offer' = [offer EXCEPT ![id] = NewOffer(l, u, amount, expires, None)]
       /\ pendingOffers' = [pendingOffers EXCEPT ![l] = @ \cup {id}]
       /\ held' = [held EXCEPT ![id] = @ + amount]
  /\ PayIn(amount)
  /\ offerCount' = offerCount + 1
  /\ UNCHANGED <<now, nftOwner, escrow, policyVars, listingVars>>

CloseKeepingPending(S, status) ==
  /\ offer' = Marked(offer, S, status)
  /\ Refund(S)
  /\ UNCHANGED <<now, nftOwner, escrow, policyVars, listingVars, offerCount,
                 pendingOffers>>

(* The shared body of withdraw_offer, reject_offer, reclaim_offer and      *)
(* sweep_expired_offers: a terminal status, out of the pending set, refund. *)
CloseOffers(S, status) ==
  /\ offer' = Marked(offer, S, status)
  /\ RemovePending(S)
  /\ Refund(S)
  /\ UNCHANGED <<now, nftOwner, escrow, policyVars, listingVars, offerCount>>

WithdrawOffer(o) == IsPending(o) /\ CloseOffers({o}, "Withdrawn")

RejectOffer(o) == IsPending(o) /\ CloseOffers({o}, "Rejected")

ReclaimAnyOffer(o) ==
  Passed(offer[o].expires) /\ CloseOffers({o}, "Withdrawn")

ReclaimOffer(o) ==
  /\ IsPending(o) /\ Passed(offer[o].expires)
  /\ CloseOffers({o}, "Withdrawn")

SweepExpiredOffers(S) ==
  CloseOffers({o \in S : IsPending(o) /\ Passed(offer[o].expires)}, "Expired")

Acceptable(o) ==
  /\ ~paused /\ tokenAccepted
  /\ IsPending(o) /\ ~Passed(offer[o].expires)
  /\ IsActive(offer[o].listing) /\ ~Passed(listing[offer[o].listing].expires)

AcceptOffer(o) ==
  LET l == offer[o].listing
      siblings == OpenOffers({l}) \ {o}
  IN  /\ Acceptable(o)
      /\ Sell(l, offer[o].offerer,
              Marked(Marked(offer, {o}, "Accepted"), siblings, "Rejected"),
              siblings \cup {o})

(* The counter-offer stands in the artist's name; nothing is deposited. *)
CounterOffer(o, amount, expires) ==
  LET l == offer[o].listing
      id == offerCount + 1
  IN  /\ tokenAccepted
      /\ offerCount < MaxOffers
      /\ IsPending(o) /\ IsActive(l)
      /\ offer' = [Marked(offer, {o}, "Rejected") EXCEPT ![id] =
                     NewOffer(l, listing[l].artist, amount, expires, o)]
      /\ pendingOffers' = [pendingOffers EXCEPT ![l] = (@ \ {o}) \cup {id}]
      /\ Refund({o})
      /\ offerCount' = id
      /\ UNCHANGED <<now, nftOwner, escrow, policyVars, listingVars>>

(* The buyer's deposit and its payout cancel out; only siblings are paid. *)
AcceptCounterOffer(o, buyer) ==
  LET l == offer[o].listing
      siblings == OpenOffers({l}) \ {o}
  IN  /\ Acceptable(o) /\ offer[o].parent # None
      /\ Sell(l, buyer,
              Marked(Marked(offer, {o}, "Accepted"), siblings, "Rejected"),
              siblings)

ListingsNext ==
  \/ \E u \in Users, n \in Nfts, p \in Prices, e \in Deadlines : CreateListing(u, n, p, e)
  \/ \E l \in ListingIds, p \in Prices : UpdateListing(l, p)
  \/ \E l \in ListingIds, p \in Prices : UpdateListingPrice(l, p)
  \/ \E l \in ListingIds, r \in Reservations : SetListingReservation(l, r)
  \/ \E l \in ListingIds, u \in Reconciled : ReconcileListingOwner(l, u)
  \/ \E l \in ListingIds, u \in Users : BuyArtwork(l, u)
  \/ \E l \in ListingIds, u \in Users : BuyExpired(l, u)
  \/ \E u \in Users, S \in SUBSET ListingIds : CancelListings(u, S)
  \/ \E l \in ListingIds : ExpireListing(l)
  \/ \E u \in Users : ReinstateArtist(u)
  \/ \E u \in Users, k \in 0..MaxListings : CancelArtistListings(u, k)
  \/ \E l \in ListingIds, u \in Users, x \in Amounts, e \in Deadlines : MakeOffer(l, u, x, e)
  \/ \E o \in OfferIds : WithdrawOffer(o)
  \/ \E o \in OfferIds : RejectOffer(o)
  \/ \E o \in OfferIds : ReclaimOffer(o)
  \/ \E S \in SUBSET OfferIds : SweepExpiredOffers(S)
  \/ \E o \in OfferIds : AcceptOffer(o)
  \/ \E o \in OfferIds, x \in Amounts, e \in Deadlines : CounterOffer(o, x, e)
  \/ \E o \in OfferIds, u \in Users : AcceptCounterOffer(o, u)

LInit == CustodyInit /\ ListingsInit

LNext ==
  \/ ListingsNext
  \/ CustodyNext /\ UNCHANGED <<listingVars, offerVars>>

LSpec == LInit /\ [][LNext]_lvars

----------------------------------------------------------------------------
(* Properties *)

ListingStatuses == {"Absent", "Active", "Sold", "Cancelled"}
OfferStatuses == {"Absent", "Pending", "Accepted", "Rejected", "Withdrawn", "Expired"}

Reservation == [for : Users \cup {None}, start : Nat \cup {None}, end : Nat \cup {None}]

ListingRecord ==
  [status : ListingStatuses, artist : Users \cup {None}, nft : Nfts \cup {None},
   price : Nat, expires : Nat \cup {None}, owner : Users \cup {None},
   reservation : Reservation]

OfferRecord ==
  [status : OfferStatuses, listing : Nat, offerer : Users \cup {None},
   amount : Nat, expires : Nat \cup {None}, parent : Nat \cup {None}]

(* Every record, index and account has its type, and exactly the ids up to *)
(* the two counters have records: created records name a real artist, NFT  *)
(* and listing, and an id is never handed out twice.                       *)
LTypeOK ==
  /\ now \in Nat
  /\ nftOwner \in [Nfts -> Users \cup {Contract}]
  /\ listing \in [ListingIds -> ListingRecord]
  /\ listingCount \in 0..MaxListings
  /\ activeListings \subseteq ListingIds
  /\ artistListings \in [Users -> Seq(ListingIds)]
  /\ cancelCursor \in [Users -> Nat]
  /\ offer \in [OfferIds -> OfferRecord]
  /\ offerCount \in 0..MaxOffers
  /\ pendingOffers \in [ListingIds -> SUBSET OfferIds]
  /\ held \in [OfferIds -> Int]
  /\ \A l \in ListingIds :
       IF l <= listingCount
         THEN /\ listing[l].status # "Absent"
              /\ listing[l].artist \in Users /\ listing[l].nft \in Nfts
         ELSE listing[l].status = "Absent"
  /\ \A o \in OfferIds :
       IF o <= offerCount
         THEN /\ offer[o].status # "Absent" /\ offer[o].offerer \in Users
              /\ offer[o].listing \in 1..listingCount
         ELSE offer[o] = AbsentOffer

(* An Active listing's NFT is in the contract's custody under that listing's *)
(* escrow record, and an escrow record of a listing names an Active listing  *)
(* of that very NFT: release_nft can always deliver, and no NFT stays behind *)
(* when its listing ends, whichever of the six paths ended it.               *)
ListingCustody ==
  /\ \A l \in ListingIds : IsActive(l) =>
       /\ nftOwner[listing[l].nft] = Contract
       /\ escrow[listing[l].nft] = ListingEscrow(l)
  /\ \A n \in Nfts : escrow[n] # None /\ escrow[n].kind = "listing" =>
       /\ escrow[n].id \in ListingIds
       /\ IsActive(escrow[n].id) /\ listing[escrow[n].id].nft = n

(* The contract owns an NFT exactly while it has an escrow record for it. *)
RecordsMatchCustody ==
  \A n \in Nfts : nftOwner[n] = Contract <=> escrow[n] # None

(* The active-listing index that get_active_listings pages through holds *)
(* exactly the Active listings.                                          *)
ActiveIndexExact == activeListings = {l \in ListingIds : IsActive(l)}

(* The ListingPendingOffers entry that the refund sweeps and the offer cap *)
(* rely on is exactly the listing's Pending offers, and never exceeds      *)
(* MAX_OFFERS_PER_LISTING, counter-offers included.                        *)
PendingIndexExact ==
  \A l \in ListingIds :
    /\ pendingOffers[l] = {o \in OfferIds : IsPending(o) /\ offer[o].listing = l}
    /\ Cardinality(pendingOffers[l]) <= MaxOffersPerListing

(* A deposited offer's account holds its amount while the offer is Pending *)
(* and nothing afterwards: it is paid out exactly once, by whichever of    *)
(* accept, reject, withdraw, reclaim, sweep, counter, buy or cancel closes *)
(* it.                                                                     *)
DepositsBacked ==
  \A o \in OfferIds : offer[o].parent = None =>
    held[o] = IF IsPending(o) THEN offer[o].amount ELSE 0

(* With no counter-offer ever made, the contract's balance is the sum of the *)
(* Pending deposits: nothing is stranded and every refund can be paid.       *)
ConservationWithoutCounters ==
  (\A o \in OfferIds : offer[o].parent = None) =>
    bank = SumOffers({o \in OfferIds : IsPending(o)})

(* When the revocation sweep of a revoked artist reports nothing left to *)
(* process, the artist has no Active listing.                            *)
SweepComplete ==
  \A u \in revoked : cancelCursor[u] = Len(artistListings[u]) =>
    \A l \in ListingIds : listing[l].artist = u => ~IsActive(l)

ListingsDeliver ==
  \A l \in ListingIds : listing'[l].status # listing[l].status =>
    \/ listing[l].status = "Absent" /\ listing'[l].status = "Active"
    \/ /\ IsActive(l) /\ listing'[l].status = "Sold"
       /\ nftOwner'[listing[l].nft] = listing'[l].owner
    \/ /\ IsActive(l) /\ listing'[l].status = "Cancelled"
       /\ nftOwner'[listing[l].nft] = listing[l].artist

OffersEndOnce ==
  \A o \in OfferIds : offer'[o].status # offer[o].status =>
    offer[o].status \in {"Absent", "Pending"}

(* The step that sells a listing hands its NFT to the recorded owner, the  *)
(* step that cancels it returns the NFT to the artist, and a terminal      *)
(* listing or offer never changes status again (lifecycle tables in types.rs). *)
TransitionsDeliver == [][ListingsDeliver /\ OffersEndOnce]_lvars

(* While paused, no deposit enters the contract and no NFT enters custody. *)
PauseStopsDeposits ==
  [][paused => /\ bank' <= bank
               /\ \A n \in Nfts : nftOwner'[n] = Contract => nftOwner[n] = Contract]_lvars

----------------------------------------------------------------------------
(* Statements of the code's own comments that the code does not keep *)

(* invariant_tests.rs, "Escrow conservation": the contract can return the *)
(* amount of every Pending offer that a buyer deposited.                  *)
EscrowConservation ==
  bank >= SumOffers({o \in OfferIds : IsPending(o) /\ offer[o].parent = None})

=============================================================================
