------------------------------ MODULE Auctions ------------------------------
(***************************************************************************)
(* English auctions (contracts/soroban-marketplace/src/contract.rs): a bid *)
(* escrows its amount and returns the previous one in the same call, late  *)
(* bids move the end of the auction, and a terminal auction pays out once. *)
(***************************************************************************)
EXTENDS Custody, Sequences

CONSTANTS
  MaxAuctions,        \* bound on the auction ids handed out
  BidAmounts,         \* amounts of bids and reserve prices
  Durations,          \* durations of at least MIN_AUCTION_DURATION
  MaxTotalExtension,  \* MAX_TOTAL_AUCTION_DURATION
  MaxBlockedBidders,  \* MAX_BLOCKED_BIDDERS
  Blockable,          \* bidders a creator may block
  AuctionConfigs      \* configurations the ProtocolConfig setters can produce

AuctionIds == 1..MaxAuctions

AuctionConfig ==
  [minIncrement : Nat \ {0}, window : Nat, trigger : Nat, maxExtensions : Nat,
   historyCap : Nat \ {0}]

ASSUME AuctionsAssumption ==
  /\ MaxAuctions \in Nat /\ MaxTotalExtension \in Nat /\ MaxBlockedBidders \in Nat
  /\ BidAmounts \subseteq Nat \ {0} /\ Durations \subseteq Nat \ {0}
  /\ Blockable \subseteq Users
  /\ AuctionConfigs \subseteq AuctionConfig /\ AuctionConfigs # {}
  /\ None \notin Nat

VARIABLES
  auctionConfig,    \* the configuration the next auction snapshots
  auction,          \* Auction records by id
  auctionCount,     \* last auction id handed out
  bids,             \* bid-history ring buffer of each auction, newest last
  bidRefunded,      \* bidders with a BidRefundRecord, per auction
  blockedBidders,   \* blocked-bidder registry, per auction
  bidHeld           \* net amount the contract took in on account of each auction

auctionVars == <<auctionConfig, auction, auctionCount, bids, bidRefunded,
                 blockedBidders, bidHeld>>
avars == <<custodyVars, auctionVars>>

AbsentAuction ==
  [status |-> "Absent", creator |-> None, nft |-> None, reserve |-> 0,
   highestBid |-> 0, highestBidder |-> None, endTime |-> 0, originalEnd |-> 0,
   extensions |-> 0, config |-> None]

AuctionsInit ==
  /\ auctionConfig \in AuctionConfigs
  /\ auction = [x \in AuctionIds |-> AbsentAuction]
  /\ auctionCount = 0
  /\ bids = [x \in AuctionIds |-> <<>>]
  /\ bidRefunded = [x \in AuctionIds |-> {}]
  /\ blockedBidders = [x \in AuctionIds |-> {}]
  /\ bidHeld = [x \in AuctionIds |-> 0]

----------------------------------------------------------------------------
(* Helpers *)

IsOpen(x) == auction[x].status = "Active"
HasBids(x) == auction[x].highestBidder # None

AppendUnbounded(history, record, cap) == Append(history, record)

(* append_bid_record: the oldest entry makes room when the buffer is full. *)
AppendBid(history, record, cap) ==
  Append(IF Len(history) >= cap THEN Tail(history) ELSE history, record)

MinimumBid(x) ==
  IF auction[x].highestBid = 0 THEN auction[x].reserve
  ELSE auction[x].highestBid + auction[x].config.minIncrement

ExtendsPastCap(x) ==
  LET A == auction[x] IN
  /\ A.config.trigger > 0 /\ A.endTime - now < A.config.trigger
  /\ A.config.maxExtensions > 0 => A.extensions < A.config.maxExtensions
  /\ A.config.window # 0

(* The anti-sniping analysis of check_bid_invariants. *)
Extends(x) ==
  LET A == auction[x] IN
  /\ A.config.trigger > 0 /\ A.endTime - now < A.config.trigger
  /\ A.config.maxExtensions > 0 => A.extensions < A.config.maxExtensions
  /\ A.config.window # 0
  /\ now + A.config.window <= A.originalEnd + MaxTotalExtension

EndKeepingNft(x, status, recipient) ==
  /\ auction' = [auction EXCEPT ![x].status = status]
  /\ UNCHANGED <<now, nftOwner, escrow, policyVars, auctionConfig, auctionCount,
                 bids, blockedBidders>>

EndAuction(x, status, recipient) ==
  /\ auction' = [auction EXCEPT ![x].status = status]
  /\ ReleaseNft(auction[x].nft, recipient)
  /\ UNCHANGED <<now, policyVars, auctionConfig, auctionCount, bids, blockedBidders>>

----------------------------------------------------------------------------
(* Entry points *)

SetAuctionConfig(c) ==
  /\ auctionConfig' = c
  /\ UNCHANGED <<custodyVars, auction, auctionCount, bids, bidRefunded,
                 blockedBidders, bidHeld>>

CreateAuction(u, n, reserve, duration) ==
  /\ MaySell(u)
  /\ auctionCount < MaxAuctions
  /\ reserve >= auctionConfig.minIncrement
  /\ ~(auctionConfig.trigger > 0 /\ auctionConfig.window = 0)
  /\ LET id == auctionCount + 1 IN
       /\ EscrowNft(u, n, AuctionEscrow(id))
       /\ auction' = [auction EXCEPT ![id] =
            [status |-> "Active", creator |-> u, nft |-> n, reserve |-> reserve,
             highestBid |-> 0, highestBidder |-> None,
             endTime |-> now + duration, originalEnd |-> now + duration,
             extensions |-> 0, config |-> auctionConfig]]
  /\ auctionCount' = auctionCount + 1
  /\ UNCHANGED <<now, bank, policyVars, auctionConfig, bids, bidRefunded,
                 blockedBidders, bidHeld>>

BlockBidder(x, u) ==
  /\ IsOpen(x)
  /\ u \notin blockedBidders[x]
  /\ Cardinality(blockedBidders[x]) < MaxBlockedBidders
  /\ blockedBidders' = [blockedBidders EXCEPT ![x] = @ \cup {u}]
  /\ UNCHANGED <<custodyVars, auctionConfig, auction, auctionCount, bids,
                 bidRefunded, bidHeld>>

UnblockBidder(x, u) ==
  /\ auction[x].status # "Absent"
  /\ blockedBidders' = [blockedBidders EXCEPT ![x] = @ \ {u}]
  /\ UNCHANGED <<custodyVars, auctionConfig, auction, auctionCount, bids,
                 bidRefunded, bidHeld>>

BidWithoutRefund(x, u, amount) ==
  /\ ~paused
  /\ IsOpen(x) /\ now < auction[x].endTime
  /\ u # auction[x].creator /\ u \notin blockedBidders[x]
  /\ amount >= MinimumBid(x)
  /\ auction' = [auction EXCEPT ![x].highestBid = amount, ![x].highestBidder = u]
  /\ bids' = [bids EXCEPT ![x] =
       AppendBid(@, [bidder |-> u, amount |-> amount], auction[x].config.historyCap)]
  /\ PayIn(amount)
  /\ bidHeld' = [bidHeld EXCEPT ![x] = @ + amount]
  /\ UNCHANGED <<now, nftOwner, escrow, policyVars, auctionConfig, auctionCount,
                 bidRefunded, blockedBidders>>

(* The previous bid goes back (0 when there was none), then the new one comes in. *)
PlaceBid(x, u, amount) ==
  LET A == auction[x] IN
  /\ ~paused
  /\ IsOpen(x) /\ now < A.endTime
  /\ u # A.creator /\ u \notin blockedBidders[x]
  /\ amount >= MinimumBid(x)
  /\ auction' = [auction EXCEPT
       ![x].highestBid = amount,
       ![x].highestBidder = u,
       ![x].endTime = IF Extends(x) THEN now + A.config.window ELSE @,
       ![x].extensions = IF Extends(x) THEN @ + 1 ELSE @]
  /\ bids' = [bids EXCEPT ![x] =
       AppendBid(@, [bidder |-> u, amount |-> amount], A.config.historyCap)]
  /\ bank >= A.highestBid /\ bank' = bank - A.highestBid + amount
  /\ bidHeld' = [bidHeld EXCEPT ![x] = @ - A.highestBid + amount]
  /\ UNCHANGED <<now, nftOwner, escrow, policyVars, auctionConfig, auctionCount,
                 bidRefunded, blockedBidders>>

FinalizeEarly(x) ==
  /\ IsOpen(x)
  /\ IF HasBids(x)
       THEN EndAuction(x, "Finalized", auction[x].highestBidder)
       ELSE EndAuction(x, "Cancelled", auction[x].creator)
  /\ PayOut(auction[x].highestBid)
  /\ bidHeld' = [bidHeld EXCEPT ![x] = @ - auction[x].highestBid]
  /\ UNCHANGED bidRefunded

FinalizeAuction(x) ==
  /\ IsOpen(x) /\ now >= auction[x].endTime
  /\ HasBids(x) => tokenAccepted
  /\ IF HasBids(x)
       THEN EndAuction(x, "Finalized", auction[x].highestBidder)
       ELSE EndAuction(x, "Cancelled", auction[x].creator)
  /\ PayOut(auction[x].highestBid)
  /\ bidHeld' = [bidHeld EXCEPT ![x] = @ - auction[x].highestBid]
  /\ UNCHANGED bidRefunded

CancelAuction(x) ==
  /\ IsOpen(x) /\ ~HasBids(x)
  /\ EndAuction(x, "Cancelled", auction[x].creator)
  /\ UNCHANGED <<bank, bidRefunded, bidHeld>>

AdminCancelWithoutRefund(x) ==
  /\ IsOpen(x)
  /\ EndAuction(x, "Cancelled", auction[x].creator)
  /\ UNCHANGED <<bank, bidRefunded, bidHeld>>

AdminCancelAuction(x) ==
  /\ IsOpen(x)
  /\ EndAuction(x, "Cancelled", auction[x].creator)
  /\ bidRefunded' = IF HasBids(x)
                      THEN [bidRefunded EXCEPT ![x] = @ \cup {auction[x].highestBidder}]
                      ELSE bidRefunded
  /\ PayOut(auction[x].highestBid)
  /\ bidHeld' = [bidHeld EXCEPT ![x] = @ - auction[x].highestBid]

(* refund_losing_bid pays the caller's newest bid still in the history. *)
BidsBy(x, u) == {i \in 1..Len(bids[x]) : bids[x][i].bidder = u}

RefundLosingBid(x, u) ==
  /\ auction[x].status \in {"Finalized", "Cancelled"}
  /\ auction[x].status = "Finalized" => auction[x].highestBidder # u
  /\ u \notin bidRefunded[x]
  /\ BidsBy(x, u) # {}
  /\ bidRefunded' = [bidRefunded EXCEPT ![x] = @ \cup {u}]
  /\ LET amount == bids[x][Max(BidsBy(x, u))].amount IN
       /\ PayOut(amount)
       /\ bidHeld' = [bidHeld EXCEPT ![x] = @ - amount]
  /\ UNCHANGED <<now, nftOwner, escrow, policyVars, auctionConfig, auction,
                 auctionCount, bids, blockedBidders>>

UpdateReserveUnderBids(x, reserve) ==
  /\ IsOpen(x)
  /\ reserve >= auctionConfig.minIncrement
  /\ auction' = [auction EXCEPT ![x].reserve = reserve]
  /\ UNCHANGED <<custodyVars, auctionConfig, auctionCount, bids, bidRefunded,
                 blockedBidders, bidHeld>>

UpdateAuctionReservePrice(x, reserve) ==
  /\ IsOpen(x) /\ ~HasBids(x)
  /\ reserve >= auctionConfig.minIncrement
  /\ auction' = [auction EXCEPT ![x].reserve = reserve]
  /\ UNCHANGED <<custodyVars, auctionConfig, auctionCount, bids, bidRefunded,
                 blockedBidders, bidHeld>>

AuctionsNext ==
  \/ \E c \in AuctionConfigs : SetAuctionConfig(c)
  \/ \E u \in Users, n \in Nfts, r \in BidAmounts, d \in Durations : CreateAuction(u, n, r, d)
  \/ \E x \in AuctionIds, u \in Blockable : BlockBidder(x, u)
  \/ \E x \in AuctionIds, u \in Blockable : UnblockBidder(x, u)
  \/ \E x \in AuctionIds, u \in Users, m \in BidAmounts : PlaceBid(x, u, m)
  \/ \E x \in AuctionIds : FinalizeAuction(x)
  \/ \E x \in AuctionIds : CancelAuction(x)
  \/ \E x \in AuctionIds : AdminCancelAuction(x)
  \/ \E x \in AuctionIds, u \in Users : RefundLosingBid(x, u)
  \/ \E x \in AuctionIds, r \in BidAmounts : UpdateAuctionReservePrice(x, r)

AInit == CustodyInit /\ AuctionsInit

ANext ==
  \/ AuctionsNext
  \/ CustodyNext /\ UNCHANGED auctionVars

ASpec == AInit /\ [][ANext]_avars

----------------------------------------------------------------------------
(* Properties *)

(* An Active auction's NFT is in custody under that auction's escrow record, *)
(* and an escrow record of an auction names an Active auction of that NFT.   *)
AuctionCustody ==
  /\ \A x \in AuctionIds : IsOpen(x) =>
       /\ nftOwner[auction[x].nft] = Contract
       /\ escrow[auction[x].nft] = AuctionEscrow(x)
  /\ \A n \in Nfts : escrow[n] # None /\ escrow[n].kind = "auction" =>
       /\ escrow[n].id \in AuctionIds
       /\ IsOpen(escrow[n].id) /\ auction[escrow[n].id].nft = n

(* While an auction runs, its account holds exactly the highest bid: each    *)
(* outbid bidder got the whole bid back in the call that outbid them.  When  *)
(* it has ended the account is empty, unless refund_losing_bid paid a loser. *)
BidsBacked ==
  \A x \in AuctionIds :
    /\ IsOpen(x) => bidHeld[x] = auction[x].highestBid
    /\ (~IsOpen(x) /\ bidRefunded[x] \subseteq {auction[x].highestBidder})
         => bidHeld[x] = 0
    /\ auction[x].highestBid = 0 <=> auction[x].highestBidder = None

(* The ring buffer never outgrows the cap snapshotted at creation, its newest *)
(* entry is the highest bid, and each entry beats the one before it by at     *)
(* least the snapshotted minimum increment.                                   *)
BidHistorySound ==
  \A x \in AuctionIds : LET h == bids[x] IN
    /\ h = <<>> <=> ~HasBids(x)
    /\ h # <<>> =>
         /\ Len(h) <= auction[x].config.historyCap
         /\ h[Len(h)].bidder = auction[x].highestBidder
         /\ h[Len(h)].amount = auction[x].highestBid
    /\ \A i \in 1..(Len(h) - 1) :
         h[i + 1].amount >= h[i].amount + auction[x].config.minIncrement

(* Anti-sniping never runs past the duration cap or the extension cap that *)
(* the auction snapshotted, whatever the admin configures meanwhile.       *)
ExtensionsBounded ==
  \A x \in AuctionIds :
    /\ auction[x].endTime <= auction[x].originalEnd + MaxTotalExtension
    /\ auction[x].status # "Absent" /\ auction[x].config.maxExtensions > 0 =>
         auction[x].extensions <= auction[x].config.maxExtensions

(* No bid on record is below the reserve price that stands now, or by the    *)
(* creator: lowering and raising the reserve, bids, extensions and changes of *)
(* the configuration never put the floor above a bid that was accepted.      *)
BidsMeetReserve ==
  \A x \in AuctionIds : \A i \in 1..Len(bids[x]) :
    /\ bids[x][i].amount >= auction[x].reserve
    /\ bids[x][i].bidder # auction[x].creator

SettlesAt(x) ==
  /\ auction'[x].status # auction[x].status =>
       \/ auction[x].status = "Absent" /\ auction'[x].status = "Active"
       \/ /\ IsOpen(x) /\ auction'[x].status = "Finalized"
          /\ now >= auction[x].endTime
          /\ nftOwner'[auction[x].nft] = auction[x].highestBidder
       \/ /\ IsOpen(x) /\ auction'[x].status = "Cancelled"
          /\ nftOwner'[auction[x].nft] = auction[x].creator
  /\ auction'[x].highestBidder # auction[x].highestBidder =>
       auction'[x].highestBid > auction[x].highestBid

(* An auction ends once: with the NFT at the highest bidder, at or after its *)
(* end time, or with the NFT back at the creator; and a call that replaces   *)
(* the highest bid raises it.                                                *)
AuctionsSettle == [][\A x \in AuctionIds : SettlesAt(x)]_avars

----------------------------------------------------------------------------
(* Statements of the code's own comments that the code does not keep *)

(* refund_losing_bid: a bid is not paid back twice ("cannot be replayed for *)
(* a double payout"): no auction's account goes below zero.                 *)
NoBidPaidTwice == \A x \in AuctionIds : bidHeld[x] >= 0

=============================================================================
