---------------------------- MODULE Marketplace ----------------------------
(***************************************************************************)
(* The marketplace contract: listings, offers and auctions over the same   *)
(* NFTs, the same token balance and the same policy switches.              *)
(***************************************************************************)
EXTENDS Listings, Auctions

vars == <<custodyVars, listingVars, offerVars, auctionVars>>

Init == CustodyInit /\ ListingsInit /\ AuctionsInit

Next ==
  \/ ListingsNext /\ UNCHANGED auctionVars
  \/ AuctionsNext /\ UNCHANGED <<listingVars, offerVars>>
  \/ CustodyNext /\ UNCHANGED <<listingVars, offerVars, auctionVars>>

Spec == Init /\ [][Next]_vars

(* What the contract owes: the deposits of Pending offers and the standing *)
(* highest bids.                                                           *)
Owed ==
  SumOffers({o \in OfferIds : IsPending(o) /\ offer[o].parent = None})
  + SumFunctionOnSet([x \in AuctionIds |-> auction[x].highestBid], {x \in AuctionIds : IsOpen(x)})

(* As long as no counter-offer was made and nobody used refund_losing_bid on *)
(* an ended auction, the contract's balance is exactly what it owes, across  *)
(* all interleavings of listings, offers and auctions over one balance.      *)
MarketConservation ==
  /\ \A o \in OfferIds : offer[o].parent = None
  /\ \A x \in AuctionIds : bidRefunded[x] \subseteq {auction[x].highestBidder}
  => bank = Owed

(* An NFT is never under an Active listing and an Active auction at once. *)
OneSalePerNft ==
  \A l \in ListingIds, x \in AuctionIds :
    ~(IsActive(l) /\ IsOpen(x) /\ listing[l].nft = auction[x].nft)

=============================================================================
