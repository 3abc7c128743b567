-------------------------- MODULE MarketplaceProofs --------------------------
(***************************************************************************)
(* The auction invariants, and the custody of NFTs under listings and      *)
(* auctions together, for every set of users and NFTs, every configuration *)
(* and every bound.                                                        *)
(*                                                                         *)
(* What holds of an auction depends on its own record, bid history,        *)
(* refunds and account, so it is stated of those (Sound), and each entry   *)
(* point is shown to keep it for the auction it is called on.  Custody is  *)
(* what the auctions share with the listings; the two halves meet in MInv. *)
(***************************************************************************)
EXTENDS Marketplace, ListingsProofs

AuctionStatuses == {"Absent", "Active", "Finalized", "Cancelled"}

Bid == [bidder : Users, amount : Nat \ {0}]

AuctionRecord ==
  [status : AuctionStatuses, creator : Users \cup {None}, nft : Nfts \cup {None},
   reserve : Nat, highestBid : Nat, highestBidder : Users \cup {None},
   endTime : Nat, originalEnd : Nat, extensions : Nat, config : AuctionConfig \cup {None}]

(* Only a created auction has a creator, an NFT, a configuration and bids. *)
Shape(A, h, m) ==
  /\ A \in AuctionRecord /\ h \in Seq(Bid)
  /\ A.status # "Absent" => A.creator \in Users /\ A.nft \in Nfts /\ A.config \in AuctionConfig
  /\ A.status = "Absent" => A = AbsentAuction /\ h = <<>> /\ m = 0

(* The account m of an auction with the refund records R.  That a cancelled *)
(* auction with bids has a record for its highest bidder is what keeps      *)
(* refund_losing_bid from paying the highest bid a second time.             *)
Money(A, R, m) ==
  /\ A.highestBid = 0 <=> A.highestBidder = None
  /\ A.status = "Active" => m = A.highestBid
  /\ A.status # "Active" /\ R \subseteq {A.highestBidder} => m = 0
  /\ A.status = "Cancelled" /\ A.highestBidder # None => A.highestBidder \in R

(* The bid history h. *)
History(A, h) ==
  /\ h = <<>> <=> A.highestBidder = None
  /\ h # <<>> =>
       /\ Len(h) <= A.config.historyCap
       /\ h[Len(h)].bidder = A.highestBidder
       /\ h[Len(h)].amount = A.highestBid
  /\ \A i \in 1..(Len(h) - 1) : h[i + 1].amount >= h[i].amount + A.config.minIncrement
  /\ \A i \in 1..Len(h) : h[i].amount >= A.reserve /\ h[i].bidder # A.creator

(* The end of the auction. *)
Clock(A) ==
  /\ A.endTime <= A.originalEnd + MaxTotalExtension
  /\ A.status # "Absent" /\ A.config.maxExtensions > 0 =>
       A.extensions <= A.config.maxExtensions

Sound(A, h, R, m) == Shape(A, h, m) /\ Money(A, R, m) /\ History(A, h) /\ Clock(A)

SoundAt(x) == Sound(auction[x], bids[x], bidRefunded[x], bidHeld[x])

(* The auctions' half of the inductive invariant, custody apart. *)
AuctionInv ==
  /\ now \in Nat
  /\ auctionConfig \in AuctionConfigs
  /\ auctionCount \in 0..MaxAuctions
  /\ auction \in [AuctionIds -> AuctionRecord]
  /\ bids \in [AuctionIds -> Seq(Bid)]
  /\ bidRefunded \in [AuctionIds -> SUBSET Users]
  /\ bidHeld = [x \in AuctionIds |-> bidHeld[x]]
  /\ \A x \in AuctionIds : x > auctionCount => auction[x].status = "Absent"
  /\ \A x \in AuctionIds : SoundAt(x)

(* A step that leaves every auction but x alone. *)
OnlyAt(x) ==
  /\ auction' \in [AuctionIds -> AuctionRecord]
  /\ bids' \in [AuctionIds -> Seq(Bid)]
  /\ bidRefunded' \in [AuctionIds -> SUBSET Users]
  /\ bidHeld' = [y \in AuctionIds |-> bidHeld'[y]]
  /\ \A y \in AuctionIds \ {x} :
       /\ auction'[y] = auction[y] /\ bids'[y] = bids[y]
       /\ bidRefunded'[y] = bidRefunded[y] /\ bidHeld'[y] = bidHeld[y]

LEMMA OnlyAtKeepsSound ==
  ASSUME AuctionInv, NEW x \in AuctionIds, OnlyAt(x),
         Sound(auction'[x], bids'[x], bidRefunded'[x], bidHeld'[x])
  PROVE  \A y \in AuctionIds : SoundAt(y)'
<1> SUFFICES ASSUME NEW y \in AuctionIds PROVE Sound(auction'[y], bids'[y], bidRefunded'[y], bidHeld'[y])
  BY Zenon DEF SoundAt
<1>1. CASE y = x
  BY <1>1, Zenon
<1>2. CASE y # x
  <2>1. Sound(auction[y], bids[y], bidRefunded[y], bidHeld[y])
    BY Zenon DEF AuctionInv, SoundAt
  <2>2. /\ auction'[y] = auction[y] /\ bids'[y] = bids[y]
        /\ bidRefunded'[y] = bidRefunded[y] /\ bidHeld'[y] = bidHeld[y]
    BY <1>2, Zenon DEF OnlyAt
  <2> QED
    BY <2>1, <2>2, Zenon
<1> QED
  BY <1>1, <1>2

(* What append_bid_record makes of a history h: the new entry is the newest, *)
(* the others keep their order, and the cap is kept.                         *)
Appended(g, h, r, cap) ==
  /\ g \in Seq(Bid) /\ Len(g) \in Nat \ {0} /\ g[Len(g)] = r
  /\ Len(h) <= cap => Len(g) <= cap
  /\ \A i \in 1..(Len(g) - 1) : \E j \in 1..Len(h) :
       /\ g[i] = h[j]
       /\ i = Len(g) - 1 => j = Len(h)
       /\ i # Len(g) - 1 => j + 1 \in 1..Len(h) /\ g[i + 1] = h[j + 1]

LEMMA AppendBidEffect ==
  ASSUME NEW h \in Seq(Bid), NEW r \in Bid, NEW cap \in Nat \ {0}
  PROVE  Appended(AppendBid(h, r, cap), h, r, cap)
<1> DEFINE g == AppendBid(h, r, cap)
<1> SUFFICES Appended(g, h, r, cap)
  OBVIOUS
<1> USE DEF Appended
<1>1. CASE Len(h) >= cap
  <2> DEFINE t == Tail(h)
  <2>1. h # <<>> /\ Len(h) \in Nat
    BY <1>1
  <2>2. t \in Seq(Bid) /\ Len(t) = Len(h) - 1 /\ \A i \in 1..Len(t) : t[i] = h[i + 1]
    BY <2>1
  <2>3. g = Append(t, r)
    BY <1>1 DEF AppendBid
  <2> HIDE DEF t, g
  <2>4. /\ g \in Seq(Bid) /\ Len(g) = Len(t) + 1 /\ g[Len(g)] = r
        /\ \A i \in 1..Len(t) : g[i] = t[i]
    BY <2>2, <2>3
  <2>5. ASSUME NEW i \in 1..(Len(g) - 1)
        PROVE  /\ i + 1 \in 1..Len(h) /\ g[i] = h[i + 1]
               /\ i = Len(g) - 1 => i + 1 = Len(h)
               /\ i # Len(g) - 1 => i + 1 + 1 \in 1..Len(h) /\ g[i + 1] = h[i + 1 + 1]
    BY <2>1, <2>2, <2>4
  <2> QED
    BY <2>1, <2>2, <2>4, <2>5
<1>2. CASE Len(h) < cap
  <2>1. g = Append(h, r)
    BY <1>2 DEF AppendBid
  <2> HIDE DEF g
  <2>2. /\ g \in Seq(Bid) /\ Len(g) = Len(h) + 1 /\ Len(h) \in Nat /\ g[Len(g)] = r
        /\ \A i \in 1..Len(h) : g[i] = h[i]
    BY <2>1
  <2> QED
    BY <1>2, <2>2
<1> QED
  BY <1>1, <1>2

(* place_bid keeps its auction sound: the bid clears the reserve or beats *)
(* the standing bid by the increment, and the previous bid is paid back.  *)
LEMMA PlaceBidKeepsSound ==
  ASSUME AuctionInv, NEW x \in AuctionIds, NEW u \in Users, NEW amount \in BidAmounts,
         PlaceBid(x, u, amount)
  PROVE  OnlyAt(x) /\ Sound(auction'[x], bids'[x], bidRefunded'[x], bidHeld'[x])
<1> DEFINE A == auction[x]
           B == auction'[x]
           h == bids[x]
           g == bids'[x]
           r == [bidder |-> u, amount |-> amount]
<1>1. amount \in Nat \ {0} /\ MaxTotalExtension \in Nat /\ None \notin Users /\ now \in Nat
  BY AuctionsAssumption, CustodyAssumption DEF AuctionInv
<1>2. Sound(A, h, bidRefunded[x], bidHeld[x])
  BY Zenon DEF AuctionInv, SoundAt
<1>3. /\ A \in AuctionRecord /\ A.config \in AuctionConfig /\ A.creator \in Users /\ A.nft \in Nfts
      /\ h \in Seq(Bid) /\ A.status = "Active"
      /\ bidRefunded[x] \in SUBSET Users
  BY <1>2 DEF Sound, Shape, PlaceBid, IsOpen, AuctionInv
<1>4. /\ r \in Bid /\ A.config.historyCap \in Nat \ {0} /\ A.config.minIncrement \in Nat \ {0}
      /\ A.config.window \in Nat /\ A.config.maxExtensions \in Nat
      /\ A.highestBid \in Nat /\ A.reserve \in Nat /\ A.extensions \in Nat
      /\ A.endTime \in Nat /\ A.originalEnd \in Nat
  BY <1>1, <1>3, SMTT(30) DEF Bid, AuctionConfig, AuctionRecord
<1> DEFINE end == IF Extends(x) THEN now + A.config.window ELSE A.endTime
           ext == IF Extends(x) THEN A.extensions + 1 ELSE A.extensions
<1>5. B = [A EXCEPT !.highestBid = amount, !.highestBidder = u, !.endTime = end, !.extensions = ext]
  BY DEF PlaceBid, AuctionInv
<1>6. end \in Nat /\ ext \in Nat
  BY <1>1, <1>4
<1>7. /\ g = AppendBid(h, r, A.config.historyCap)
      /\ bidRefunded' = bidRefunded
      /\ bidHeld'[x] = bidHeld[x] - A.highestBid + amount
  BY DEF PlaceBid, AuctionInv
<1>8. /\ u # A.creator
      /\ amount >= IF A.highestBid = 0 THEN A.reserve ELSE A.highestBid + A.config.minIncrement
  BY DEF PlaceBid, MinimumBid
<1>9. end <= A.originalEnd + MaxTotalExtension
      /\ (A.config.maxExtensions > 0 => ext <= A.config.maxExtensions)
  <2>1. A.endTime <= A.originalEnd + MaxTotalExtension
        /\ (A.config.maxExtensions > 0 => A.extensions <= A.config.maxExtensions)
    BY <1>2, <1>3, Zenon DEF Sound, Clock
  <2>2. Extends(x) => /\ now + A.config.window <= A.originalEnd + MaxTotalExtension
                      /\ A.config.maxExtensions > 0 => A.extensions < A.config.maxExtensions
    BY Zenon DEF Extends
  <2> HIDE DEF A
  <2> QED
    BY <1>4, <2>1, <2>2
<1> HIDE DEF end, ext, r
<1>10. B \in AuctionRecord
  BY <1>1, <1>3, <1>5, <1>6, ZenonT(30) DEF AuctionRecord
<1>11. /\ B.status = "Active" /\ B.creator = A.creator /\ B.nft = A.nft /\ B.reserve = A.reserve
       /\ B.highestBid = amount /\ B.highestBidder = u /\ B.originalEnd = A.originalEnd
       /\ B.config = A.config /\ B.endTime = end /\ B.extensions = ext
  BY <1>3, <1>5 DEF AuctionRecord
<1> HIDE DEF A, B, g, h
<1>12. Appended(g, h, r, A.config.historyCap)
  <2>1. h \in Seq(Bid) /\ r \in Bid /\ A.config.historyCap \in Nat \ {0}
    BY <1>3, <1>4
  <2>2. Appended(AppendBid(h, r, A.config.historyCap), h, r, A.config.historyCap)
    BY <2>1, AppendBidEffect, Zenon
  <2> QED
    BY <1>7, <2>2, Zenon
<1>13. r.bidder = u /\ r.amount = amount
  BY DEF r
<1>14. Shape(B, g, bidHeld'[x]) /\ Money(B, bidRefunded'[x], bidHeld'[x]) /\ Clock(B)
  <2>1. bidHeld[x] = A.highestBid
    BY <1>2, <1>3 DEF Sound, Money
  <2>2. bidHeld'[x] = amount
    BY <1>1, <1>4, <1>7, <2>1
  <2> QED
    BY <1>1, <1>3, <1>9, <1>10, <1>11, <1>12, <2>2 DEF Shape, Money, Clock, Appended
<1>15. History(B, g)
  <2>1. History(A, h)
    BY <1>2 DEF Sound
  <2>2. Len(h) \in Nat /\ (h = <<>> <=> Len(h) = 0)
    BY <1>3
  <2>3. h # <<>> => A.highestBid # 0 /\ h[Len(h)].amount = A.highestBid /\ Len(h) \in 1..Len(h)
    BY <1>2, <2>1, <2>2 DEF Sound, Money, History
  <2>4. \A j \in 1..Len(h) : h[j].amount \in Nat /\ h[j].amount >= A.reserve /\ h[j].bidder # A.creator
    <3>1. \A j \in 1..Len(h) : h[j] \in Bid
      BY <1>3
    <3>2. \A r0 \in Bid : r0.amount \in Nat
      BY DEF Bid
    <3>3. \A j \in 1..Len(h) : h[j].amount \in Nat
      BY <3>1, <3>2, Zenon
    <3> QED
      BY <2>1, <3>3, Zenon DEF History
  <2>5. amount >= A.reserve
    <3>1. CASE h = <<>>
      <4>1. A.highestBid = 0
        BY <1>2, <2>1, <3>1, Zenon DEF Sound, Money, History
      <4> QED
        BY <1>8, <4>1
    <3>2. CASE h # <<>>
      <4>1. A.highestBid >= A.reserve
        BY <2>3, <2>4, <3>2
      <4>2. amount >= A.highestBid + A.config.minIncrement
        BY <1>8, <2>3, <3>2
      <4> QED
        BY <1>1, <1>4, <4>1, <4>2
    <3> QED
      BY <3>1, <3>2
  <2>6. Len(g) <= A.config.historyCap
    BY <1>4, <1>12, <2>1, <2>2 DEF History, Appended
  <2>7. ASSUME NEW i \in 1..(Len(g) - 1)
        PROVE  /\ g[i].amount >= A.reserve /\ g[i].bidder # A.creator
               /\ g[i + 1].amount >= g[i].amount + A.config.minIncrement
    <3>1. PICK j \in 1..Len(h) :
            /\ g[i] = h[j]
            /\ i = Len(g) - 1 => j = Len(h)
            /\ i # Len(g) - 1 => j + 1 \in 1..Len(h) /\ g[i + 1] = h[j + 1]
      BY <1>12, Zenon DEF Appended
    <3>2. CASE i = Len(g) - 1
      <4>1. i + 1 = Len(g) /\ g[i + 1].amount = amount
        BY <1>12, <1>13, <3>2 DEF Appended
      <4>2. h # <<>> /\ g[i].amount = A.highestBid
        BY <2>2, <2>3, <3>1, <3>2
      <4>3. amount >= A.highestBid + A.config.minIncrement
        BY <1>8, <2>3, <4>2
      <4> QED
        BY <2>4, <3>1, <4>1, <4>2, <4>3
    <3>3. CASE i # Len(g) - 1
      <4>1. j \in 1..(Len(h) - 1)
        BY <2>2, <3>1, <3>3
      <4>2. h[j + 1].amount >= h[j].amount + A.config.minIncrement
        BY <2>1, <4>1 DEF History
      <4> QED
        BY <2>4, <3>1, <3>3, <4>2
    <3> QED
      BY <3>2, <3>3
  <2>8. ASSUME NEW i \in 1..Len(g) PROVE g[i].amount >= A.reserve /\ g[i].bidder # A.creator
    <3>1. CASE i = Len(g)
      BY <1>8, <1>12, <1>13, <2>5, <3>1 DEF Appended
    <3>2. CASE i # Len(g)
      BY <1>12, <2>7, <3>2 DEF Appended
    <3> QED
      BY <3>1, <3>2
  <2>9. g # <<>> /\ B.highestBidder # None
    BY <1>1, <1>11, <1>12 DEF Appended
  <2> QED
    BY <1>11, <1>12, <1>13, <2>6, <2>7, <2>8, <2>9 DEF History, Appended
<1>16. OnlyAt(x)
  <2>1. /\ auction' = [auction EXCEPT ![x] = B]
        /\ bids' = [bids EXCEPT ![x] = g]
        /\ bidHeld' = [bidHeld EXCEPT ![x] = bidHeld'[x]]
    BY Zenon DEF PlaceBid, AuctionInv, B, g
  <2> QED
    BY <1>7, <1>10, <1>12, <2>1, ZenonT(30) DEF OnlyAt, AuctionInv, Appended
<1> QED
  BY <1>14, <1>15, <1>16 DEF Sound, B, g

(* Ending an auction pays out its highest bid, so that its account is empty. *)
LEMMA EndKeepsSound ==
  ASSUME AuctionInv, NEW x \in AuctionIds, IsOpen(x), NEW s \in {"Finalized", "Cancelled"},
         auction' = [auction EXCEPT ![x].status = s],
         bids' = bids,
         bidHeld' = [bidHeld EXCEPT ![x] = @ - auction[x].highestBid],
         bidRefunded' \in [AuctionIds -> SUBSET Users],
         \A y \in AuctionIds \ {x} : bidRefunded'[y] = bidRefunded[y],
         s = "Cancelled" /\ HasBids(x) => auction[x].highestBidder \in bidRefunded'[x]
  PROVE  OnlyAt(x) /\ Sound(auction'[x], bids'[x], bidRefunded'[x], bidHeld'[x])
<1> DEFINE A == auction[x]
           B == auction'[x]
           h == bids[x]
<1>1. /\ Shape(A, h, bidHeld[x]) /\ Money(A, bidRefunded[x], bidHeld[x])
      /\ History(A, h) /\ Clock(A)
  BY Zenon DEF AuctionInv, SoundAt, Sound
<1>2. A \in AuctionRecord /\ A.status = "Active" /\ A.highestBid \in Nat
  BY DEF IsOpen, AuctionInv, AuctionRecord
<1>3. B = [A EXCEPT !.status = s]
  BY DEF AuctionInv
<1>4. bidHeld'[x] = 0
  <2>1. bidHeld[x] = A.highestBid
    BY <1>1, <1>2 DEF Money
  <2>2. bidHeld'[x] = bidHeld[x] - A.highestBid
    BY DEF AuctionInv
  <2> QED
    BY <1>2, <2>1, <2>2
<1>5. bids'[x] = h /\ (s = "Cancelled" /\ A.highestBidder # None => A.highestBidder \in bidRefunded'[x])
  BY DEF HasBids
<1>6. OnlyAt(x)
  <2>1. B \in AuctionRecord
    BY <1>2, <1>3 DEF AuctionRecord, AuctionStatuses
  <2>2. auction' = [auction EXCEPT ![x] = B]
    BY Zenon DEF AuctionInv
  <2> QED
    BY <2>1, <2>2, ZenonT(30) DEF OnlyAt, AuctionInv
<1> HIDE DEF A, B, h
<1>7. /\ B.status = s /\ B.creator = A.creator /\ B.nft = A.nft /\ B.reserve = A.reserve
      /\ B.highestBid = A.highestBid /\ B.highestBidder = A.highestBidder
      /\ B.originalEnd = A.originalEnd /\ B.config = A.config /\ B.endTime = A.endTime
      /\ B.extensions = A.extensions /\ B \in AuctionRecord
  BY <1>2, <1>3 DEF AuctionRecord, AuctionStatuses
<1>8. Shape(B, h, bidHeld'[x]) /\ Money(B, bidRefunded'[x], bidHeld'[x])
  BY <1>1, <1>2, <1>4, <1>5, <1>7 DEF Shape, Money
<1>9. History(B, h) /\ Clock(B)
  BY <1>1, <1>2, <1>7 DEF History, Clock
<1> QED
  BY <1>5, <1>6, <1>8, <1>9 DEF Sound, B

(* The three calls that end an auction. *)
LEMMA FinalizeKeepsSound ==
  ASSUME AuctionInv, NEW x \in AuctionIds, FinalizeAuction(x)
  PROVE  OnlyAt(x) /\ Sound(auction'[x], bids'[x], bidRefunded'[x], bidHeld'[x])
<1>1. PICK s \in {"Finalized", "Cancelled"} :
        /\ auction' = [auction EXCEPT ![x].status = s]
        /\ bids' = bids
        /\ s = "Cancelled" => ~HasBids(x)
  BY Zenon DEF FinalizeAuction, EndAuction
<1>2. /\ IsOpen(x) /\ bidRefunded' = bidRefunded
      /\ bidHeld' = [bidHeld EXCEPT ![x] = @ - auction[x].highestBid]
      /\ bidRefunded \in [AuctionIds -> SUBSET Users]
  BY Zenon DEF FinalizeAuction, AuctionInv
<1> QED
  BY <1>1, <1>2, EndKeepsSound, Zenon

LEMMA CancelKeepsSound ==
  ASSUME AuctionInv, NEW x \in AuctionIds, CancelAuction(x)
  PROVE  OnlyAt(x) /\ Sound(auction'[x], bids'[x], bidRefunded'[x], bidHeld'[x])
<1>1. /\ auction' = [auction EXCEPT ![x].status = "Cancelled"] /\ bids' = bids
      /\ IsOpen(x) /\ ~HasBids(x) /\ bidRefunded' = bidRefunded /\ bidHeld' = bidHeld
      /\ bidRefunded \in [AuctionIds -> SUBSET Users]
  BY Zenon DEF CancelAuction, EndAuction, AuctionInv
<1>2. auction[x].highestBid = 0 /\ bidHeld[x] = auction[x].highestBid
  BY <1>1 DEF AuctionInv, SoundAt, Sound, Money, HasBids, IsOpen
<1>3. bidHeld' = [bidHeld EXCEPT ![x] = @ - auction[x].highestBid]
  <2>1. bidHeld[x] - auction[x].highestBid = bidHeld[x]
    BY <1>2
  <2>2. bidHeld = [bidHeld EXCEPT ![x] = bidHeld[x]]
    BY DEF AuctionInv
  <2> QED
    BY <1>1, <2>1, <2>2
<1> QED
  BY <1>1, <1>3, EndKeepsSound, Zenon

LEMMA AdminCancelKeepsSound ==
  ASSUME AuctionInv, NEW x \in AuctionIds, AdminCancelAuction(x)
  PROVE  OnlyAt(x) /\ Sound(auction'[x], bids'[x], bidRefunded'[x], bidHeld'[x])
<1>1. /\ auction' = [auction EXCEPT ![x].status = "Cancelled"] /\ bids' = bids /\ IsOpen(x)
      /\ bidHeld' = [bidHeld EXCEPT ![x] = @ - auction[x].highestBid]
  BY Zenon DEF AdminCancelAuction, EndAuction
<1>2. /\ bidRefunded' \in [AuctionIds -> SUBSET Users]
      /\ \A y \in AuctionIds \ {x} : bidRefunded'[y] = bidRefunded[y]
      /\ HasBids(x) => auction[x].highestBidder \in bidRefunded'[x]
  <2>1. bidRefunded \in [AuctionIds -> SUBSET Users]
    BY DEF AuctionInv
  <2>2. HasBids(x) => auction[x].highestBidder \in Users
    BY DEF AuctionInv, AuctionRecord, HasBids
  <2> QED
    BY <2>1, <2>2 DEF AdminCancelAuction
<1> QED
  BY <1>1, <1>2, EndKeepsSound, Zenon

(* refund_losing_bid can reach the highest bidder of no auction whose account *)
(* was settled: a Finalized one excludes the winner, a Cancelled one has the  *)
(* refund record that admin_cancel_auction wrote.                             *)
LEMMA RefundKeepsSound ==
  ASSUME AuctionInv, NEW x \in AuctionIds, NEW u \in Users, RefundLosingBid(x, u)
  PROVE  OnlyAt(x) /\ Sound(auction'[x], bids'[x], bidRefunded'[x], bidHeld'[x])
<1> DEFINE A == auction[x]
<1>1. /\ Shape(A, bids[x], bidHeld[x]) /\ Money(A, bidRefunded[x], bidHeld[x])
      /\ History(A, bids[x]) /\ Clock(A)
  BY Zenon DEF AuctionInv, SoundAt, Sound
<1>2. /\ A.status \in {"Finalized", "Cancelled"}
      /\ A.status = "Finalized" => A.highestBidder # u
      /\ u \notin bidRefunded[x]
      /\ auction' = auction /\ bids' = bids
      /\ bidRefunded' = [bidRefunded EXCEPT ![x] = @ \cup {u}]
  BY Zenon DEF RefundLosingBid
<1>3. bidRefunded'[x] = bidRefunded[x] \cup {u} /\ bidRefunded' \in [AuctionIds -> SUBSET Users]
  BY <1>2 DEF AuctionInv
<1>4. PICK paid : bidHeld' = [bidHeld EXCEPT ![x] = @ - paid]
  BY Zenon DEF RefundLosingBid
<1>5. OnlyAt(x)
  BY <1>2, <1>3, <1>4, ZenonT(30) DEF OnlyAt, AuctionInv
<1> HIDE DEF A
<1>6. ~(bidRefunded'[x] \subseteq {A.highestBidder})
  <2> SUFFICES ASSUME bidRefunded'[x] \subseteq {A.highestBidder} PROVE FALSE
    OBVIOUS
  <2>1. A.highestBidder = u /\ A.status = "Cancelled"
    BY <1>2, <1>3
  <2>2. u # None
    BY CustodyAssumption
  <2> QED
    BY <1>1, <1>2, <2>1, <2>2 DEF Money
<1>7. Money(A, bidRefunded'[x], bidHeld'[x])
  BY <1>1, <1>2, <1>3, <1>6 DEF Money
<1>8. Shape(A, bids[x], bidHeld'[x])
  BY <1>1, <1>2 DEF Shape
<1> QED
  BY <1>1, <1>2, <1>5, <1>7, <1>8, Zenon DEF Sound, A

(* A new auction starts with an empty history and an empty account. *)
LEMMA CreateKeepsSound ==
  ASSUME AuctionInv, NEW u \in Users, NEW n \in Nfts, NEW r \in BidAmounts, NEW d \in Durations,
         CreateAuction(u, n, r, d)
  PROVE  /\ auctionCount + 1 \in AuctionIds
         /\ OnlyAt(auctionCount + 1)
         /\ Sound(auction'[auctionCount + 1], bids'[auctionCount + 1],
                  bidRefunded'[auctionCount + 1], bidHeld'[auctionCount + 1])
<1> DEFINE x == auctionCount + 1
           B == [status |-> "Active", creator |-> u, nft |-> n, reserve |-> r,
                 highestBid |-> 0, highestBidder |-> None,
                 endTime |-> now + d, originalEnd |-> now + d,
                 extensions |-> 0, config |-> auctionConfig]
<1>1. x \in AuctionIds /\ x > auctionCount
  BY AuctionsAssumption DEF CreateAuction, AuctionInv, AuctionIds
<1>2. /\ auction' = [auction EXCEPT ![x] = B] /\ bids' = bids
      /\ bidRefunded' = bidRefunded /\ bidHeld' = bidHeld
  BY DEF CreateAuction
<1> HIDE DEF x
<1>3. bids[x] = <<>> /\ bidHeld[x] = 0
  BY <1>1 DEF AuctionInv, SoundAt, Sound, Shape
<1>4. /\ r \in Nat /\ d \in Nat /\ now \in Nat /\ now + d \in Nat /\ auctionConfig \in AuctionConfig
      /\ MaxTotalExtension \in Nat
  BY AuctionsAssumption DEF AuctionInv
<1>5. B \in AuctionRecord
  BY <1>4 DEF AuctionRecord, AuctionStatuses
<1>6. OnlyAt(x)
  <2> HIDE DEF B
  <2> QED
    BY <1>1, <1>2, <1>5 DEF OnlyAt, AuctionInv
<1>7. Sound(B, <<>>, bidRefunded[x], 0)
  <2>1. Shape(B, <<>>, 0)
    BY <1>4, <1>5 DEF Shape
  <2>2. Money(B, bidRefunded[x], 0)
    BY DEF Money
  <2>3. History(B, <<>>)
    BY DEF History
  <2>4. Clock(B)
    BY <1>4 DEF Clock, AuctionConfig
  <2> QED
    BY <2>1, <2>2, <2>3, <2>4 DEF Sound
<1>8. auction'[x] = B
  BY <1>1, <1>2 DEF AuctionInv
<1> QED
  BY <1>1, <1>2, <1>3, <1>6, <1>7, <1>8, Zenon DEF x

(* The reserve only moves while there is no bid. *)
LEMMA ReserveKeepsSound ==
  ASSUME AuctionInv, NEW x \in AuctionIds, NEW r \in BidAmounts, UpdateAuctionReservePrice(x, r)
  PROVE  OnlyAt(x) /\ Sound(auction'[x], bids'[x], bidRefunded'[x], bidHeld'[x])
<1> DEFINE A == auction[x]
           B == auction'[x]
<1>1. /\ Shape(A, bids[x], bidHeld[x]) /\ Money(A, bidRefunded[x], bidHeld[x])
      /\ History(A, bids[x]) /\ Clock(A)
  BY Zenon DEF AuctionInv, SoundAt, Sound
<1>2. A \in AuctionRecord /\ A.status = "Active" /\ A.highestBidder = None /\ r \in Nat
  BY AuctionsAssumption DEF UpdateAuctionReservePrice, IsOpen, HasBids, AuctionInv
<1>3. /\ B = [A EXCEPT !.reserve = r] /\ bids' = bids
      /\ bidRefunded' = bidRefunded /\ bidHeld' = bidHeld
      /\ auction' = [auction EXCEPT ![x] = B]
  BY Zenon DEF UpdateAuctionReservePrice, AuctionInv
<1> HIDE DEF A, B
<1>4. /\ B.status = A.status /\ B.creator = A.creator /\ B.nft = A.nft
      /\ B.highestBid = A.highestBid /\ B.highestBidder = A.highestBidder
      /\ B.originalEnd = A.originalEnd /\ B.config = A.config /\ B.endTime = A.endTime
      /\ B.extensions = A.extensions /\ B \in AuctionRecord
  BY <1>2, <1>3 DEF AuctionRecord
<1>5. Shape(B, bids[x], bidHeld[x]) /\ Money(B, bidRefunded[x], bidHeld[x]) /\ Clock(B)
  BY <1>1, <1>2, <1>4 DEF Shape, Money, Clock
<1>6. History(B, bids[x])
  BY <1>1, <1>2, <1>4 DEF History
<1>7. OnlyAt(x)
  BY <1>3, <1>4 DEF OnlyAt, AuctionInv
<1> QED
  BY <1>3, <1>5, <1>6, <1>7, Zenon DEF Sound, B

(* The auctions start sound. *)
LEMMA AuctionInvInit == CustodyInit /\ AuctionsInit => AuctionInv
<1> SUFFICES ASSUME CustodyInit, AuctionsInit PROVE AuctionInv
  OBVIOUS
<1>1. AbsentAuction \in AuctionRecord
  BY DEF AbsentAuction, AuctionRecord, AuctionStatuses
<1>2. Sound(AbsentAuction, <<>>, {}, 0)
  <2>1. Shape(AbsentAuction, <<>>, 0)
    BY <1>1 DEF Shape, AbsentAuction
  <2>2. Money(AbsentAuction, {}, 0)
    BY DEF Money, AbsentAuction
  <2>3. History(AbsentAuction, <<>>)
    BY DEF History, AbsentAuction
  <2>4. Clock(AbsentAuction)
    BY AuctionsAssumption DEF Clock, AbsentAuction
  <2> QED
    BY <2>1, <2>2, <2>3, <2>4 DEF Sound
<1>3. \A x \in AuctionIds : /\ auction[x] = AbsentAuction /\ bids[x] = <<>>
                            /\ bidRefunded[x] = {} /\ bidHeld[x] = 0
  BY DEF AuctionsInit
<1>4. \A x \in AuctionIds : SoundAt(x) /\ auction[x].status = "Absent"
  <2>1. AbsentAuction.status = "Absent"
    BY DEF AbsentAuction
  <2> QED
    BY <1>2, <1>3, <2>1, Zenon DEF SoundAt
<1>5. /\ auction \in [AuctionIds -> AuctionRecord]
      /\ bids \in [AuctionIds -> Seq(Bid)]
      /\ bidRefunded \in [AuctionIds -> SUBSET Users]
      /\ bidHeld = [x \in AuctionIds |-> bidHeld[x]]
  BY <1>1, SMTT(30) DEF AuctionsInit
<1>6. now \in Nat /\ auctionCount \in 0..MaxAuctions /\ auctionConfig \in AuctionConfigs
  BY AuctionsAssumption DEF CustodyInit, AuctionsInit
<1> QED
  BY <1>4, <1>5, <1>6, Zenon DEF AuctionInv

(* Every auction entry point keeps every auction sound. *)
LEMMA AuctionsNextKeepsSound ==
  ASSUME AuctionInv, AuctionsNext
  PROVE  AuctionInv'
<1>1. ASSUME NEW x \in AuctionIds, OnlyAt(x),
             Sound(auction'[x], bids'[x], bidRefunded'[x], bidHeld'[x]),
             now' = now, auctionConfig' = auctionConfig, auctionCount' = auctionCount,
             auction[x].status # "Absent"
      PROVE  AuctionInv'
  <2>1. \A y \in AuctionIds : SoundAt(y)'
    BY <1>1, OnlyAtKeepsSound
  <2>2. \A y \in AuctionIds : y > auctionCount' => auction'[y].status = "Absent"
    BY <1>1, ZenonT(30) DEF OnlyAt, AuctionInv
  <2> QED
    BY <1>1, <2>1, <2>2, Zenon DEF OnlyAt, AuctionInv
<1>2. ASSUME UNCHANGED <<now, auction, auctionCount, bids, bidRefunded, bidHeld>>,
             auctionConfig' \in AuctionConfigs
      PROVE  AuctionInv'
  BY <1>2, Zenon DEF AuctionInv, SoundAt
<1>3. ASSUME NEW u \in Users, NEW n \in Nfts, NEW r \in BidAmounts, NEW d \in Durations,
             CreateAuction(u, n, r, d)
      PROVE  AuctionInv'
  <2> DEFINE x == auctionCount + 1
  <2>1. /\ x \in AuctionIds /\ OnlyAt(x)
        /\ Sound(auction'[x], bids'[x], bidRefunded'[x], bidHeld'[x])
    BY <1>3, CreateKeepsSound, Zenon
  <2>2. auctionCount' = x /\ now' = now /\ auctionConfig' = auctionConfig
    BY <1>3 DEF CreateAuction
  <2>3. auctionCount \in Nat /\ x \in 0..MaxAuctions
    BY <2>1, AuctionsAssumption DEF AuctionInv, AuctionIds
  <2>4. \A y \in AuctionIds : y > x => y > auctionCount /\ y # x
    BY <2>3 DEF AuctionIds
  <2> HIDE DEF x
  <2>5. \A y \in AuctionIds : SoundAt(y)'
    BY <2>1, OnlyAtKeepsSound
  <2>6. \A y \in AuctionIds : y > auctionCount' => auction'[y].status = "Absent"
    BY <2>1, <2>2, <2>4, Zenon DEF OnlyAt, AuctionInv
  <2> QED
    BY <2>1, <2>2, <2>3, <2>5, <2>6, Zenon DEF OnlyAt, AuctionInv
<1>4. ASSUME NEW x \in AuctionIds,
             \/ \E u \in Users, m \in BidAmounts : PlaceBid(x, u, m)
             \/ FinalizeAuction(x) \/ CancelAuction(x) \/ AdminCancelAuction(x)
             \/ \E u \in Users : RefundLosingBid(x, u)
             \/ \E r \in BidAmounts : UpdateAuctionReservePrice(x, r)
      PROVE  AuctionInv'
  <2>1. OnlyAt(x) /\ Sound(auction'[x], bids'[x], bidRefunded'[x], bidHeld'[x])
    BY <1>4, PlaceBidKeepsSound, FinalizeKeepsSound, CancelKeepsSound, AdminCancelKeepsSound,
       RefundKeepsSound, ReserveKeepsSound, Zenon
  <2>2. /\ now' = now /\ auctionConfig' = auctionConfig /\ auctionCount' = auctionCount
    BY <1>4, ZenonT(30) DEF PlaceBid, FinalizeAuction, CancelAuction, AdminCancelAuction, EndAuction,
      RefundLosingBid, UpdateAuctionReservePrice, custodyVars
  <2>3. auction[x].status # "Absent"
    BY <1>4, ZenonT(30) DEF PlaceBid, FinalizeAuction, CancelAuction, AdminCancelAuction, RefundLosingBid,
      UpdateAuctionReservePrice, IsOpen
  <2> QED
    BY <1>1, <2>1, <2>2, <2>3, Zenon
<1>5. CASE \E c \in AuctionConfigs : SetAuctionConfig(c)
  BY <1>2, <1>5, Zenon DEF SetAuctionConfig, custodyVars
<1>6. CASE \E x \in AuctionIds, u \in Blockable : BlockBidder(x, u) \/ UnblockBidder(x, u)
  <2>1. /\ UNCHANGED <<now, auction, auctionCount, bids, bidRefunded, bidHeld>>
        /\ auctionConfig' = auctionConfig
    BY <1>6, Zenon DEF BlockBidder, UnblockBidder, custodyVars
  <2> QED
    BY <1>2, <2>1, Zenon DEF AuctionInv
<1> QED
  BY <1>3, <1>4, <1>5, <1>6, ZenonT(30) DEF AuctionsNext

(* Time passes, and nothing else the auctions read changes, when another *)
(* entry point is called.                                                *)
LEMMA OthersKeepSound ==
  ASSUME AuctionInv, UNCHANGED auctionVars, now' \in Nat
  PROVE  AuctionInv'
BY Zenon DEF AuctionInv, auctionVars, SoundAt

LEMMA CustodyNextKeepsTime ==
  ASSUME now \in Nat, CustodyNext
  PROVE  now' \in Nat
<1>1. now' = now \/ now' = now + 1
  BY ZenonT(30) DEF CustodyNext, Tick, TransferNft, SetPaused, SetTokenPolicy, RevokeArtist
<1> QED
  BY <1>1

(* The auction invariants, for the auctions of a contract by themselves. *)
LEMMA AuctionInvStep == AuctionInv /\ [ANext]_avars => AuctionInv'
<1> SUFFICES ASSUME AuctionInv, [ANext]_avars PROVE AuctionInv'
  OBVIOUS
<1>1. CASE AuctionsNext
  BY <1>1, AuctionsNextKeepsSound
<1>2. CASE CustodyNext /\ UNCHANGED auctionVars
  <2>1. now' \in Nat
    BY <1>2, CustodyNextKeepsTime DEF AuctionInv
  <2> QED
    BY <1>2, <2>1, OthersKeepSound
<1>3. CASE UNCHANGED avars
  <2>1. UNCHANGED auctionVars /\ now' = now
    BY <1>3 DEF avars, custodyVars
  <2> QED
    BY <2>1, OthersKeepSound DEF AuctionInv
<1> QED
  BY <1>1, <1>2, <1>3 DEF ANext

LEMMA SoundAuctions ==
  ASSUME AuctionInv
  PROVE  BidsBacked /\ BidHistorySound /\ ExtensionsBounded /\ BidsMeetReserve
<1>1. \A x \in AuctionIds : /\ Money(auction[x], bidRefunded[x], bidHeld[x])
                            /\ History(auction[x], bids[x]) /\ Clock(auction[x])
  BY Zenon DEF AuctionInv, SoundAt, Sound
<1>2. BidsBacked
  BY <1>1, Zenon DEF BidsBacked, Money, IsOpen
<1>3. BidHistorySound
  BY <1>1, Zenon DEF BidHistorySound, History, HasBids
<1>4. ExtensionsBounded
  BY <1>1, Zenon DEF ExtensionsBounded, Clock
<1>5. BidsMeetReserve
  BY <1>1, Zenon DEF BidsMeetReserve, History
<1> QED
  BY <1>2, <1>3, <1>4, <1>5

(* For any configuration history and any number of bidders: an open auction's *)
(* account is the highest bid and a settled one's is empty (place_bid,        *)
(* finalize_auction, cancel_auction, admin_cancel_auction).                   *)
THEOREM BidsBackedCorrect == ASpec => []BidsBacked
BY AuctionInvInit, AuctionInvStep, SoundAuctions, PTL DEF ASpec, AInit

(* The bid history is a suffix of strictly rising bids that ends in the  *)
(* highest one and never outgrows its cap (append_bid_record).           *)
THEOREM BidHistoryCorrect == ASpec => []BidHistorySound
BY AuctionInvInit, AuctionInvStep, SoundAuctions, PTL DEF ASpec, AInit

(* No recorded bid is below the reserve that stands or the creator's, also *)
(* after update_auction_reserve_price.                                     *)
THEOREM ReserveCorrect == ASpec => []BidsMeetReserve
BY AuctionInvInit, AuctionInvStep, SoundAuctions, PTL DEF ASpec, AInit

(* Anti-sniping extensions stay within the duration cap and the cap the *)
(* auction snapshotted (check_bid_invariants).                          *)
THEOREM ExtensionsCorrect == ASpec => []ExtensionsBounded
BY AuctionInvInit, AuctionInvStep, SoundAuctions, PTL DEF ASpec, AInit

----------------------------------------------------------------------------
(* Custody.  An auction call opens one auction, closes one, or touches none. *)

VaultTypes ==
  /\ nftOwner \in [Nfts -> Users \cup {Contract}]
  /\ escrow \in [Nfts -> {None} \cup EscrowRecords]

KeepsOthers(S) ==
  \A y \in AuctionIds \ S : /\ auction'[y].status = auction[y].status
                            /\ auction'[y].nft = auction[y].nft

Opens(x, n) ==
  /\ auction[x].status = "Absent"
  /\ auction'[x].status = "Active" /\ auction'[x].nft = n
  /\ KeepsOthers({x})
  /\ \E u \in Users : EscrowNft(u, n, AuctionEscrow(x))

Closes(x, n) ==
  /\ IsOpen(x) /\ auction[x].nft = n
  /\ auction'[x].status # "Active"
  /\ KeepsOthers({x})
  /\ \E u \in Users : ReleaseNft(n, u)

Quiet == KeepsOthers({}) /\ UNCHANGED <<nftOwner, escrow>>

(* A created auction is of a real NFT and has a real creator. *)
LEMMA OpenIsReal ==
  ASSUME AuctionInv, NEW x \in AuctionIds, auction[x].status # "Absent"
  PROVE  auction[x].nft \in Nfts /\ auction[x].creator \in Users
BY Zenon DEF AuctionInv, SoundAt, Sound, Shape

LEMMA EndCloses ==
  ASSUME AuctionInv, NEW x \in AuctionIds, IsOpen(x), NEW s \in {"Finalized", "Cancelled"},
         NEW u \in Users, EndAuction(x, s, u)
  PROVE  Closes(x, auction[x].nft)
<1>1. auction'[x].status = s /\ KeepsOthers({x})
  BY DEF EndAuction, KeepsOthers, AuctionInv, AuctionRecord
<1> QED
  BY <1>1 DEF Closes, EndAuction

LEMMA AuctionStepKinds ==
  ASSUME AuctionInv, AuctionsNext
  PROVE  \/ Quiet
         \/ \E x \in AuctionIds, n \in Nfts : Opens(x, n) \/ Closes(x, n)
<1>1. ASSUME NEW x \in AuctionIds,
             FinalizeAuction(x) \/ CancelAuction(x) \/ AdminCancelAuction(x)
      PROVE  Closes(x, auction[x].nft) /\ auction[x].nft \in Nfts
  <2>1. IsOpen(x)
    BY <1>1, Zenon DEF FinalizeAuction, CancelAuction, AdminCancelAuction
  <2>2. auction[x].nft \in Nfts /\ auction[x].creator \in Users
    BY <2>1, OpenIsReal DEF IsOpen
  <2>3. HasBids(x) => auction[x].highestBidder \in Users
    BY DEF HasBids, AuctionInv, AuctionRecord
  <2>4. \E s \in {"Finalized", "Cancelled"}, u \in Users : EndAuction(x, s, u)
    BY <1>1, <2>2, <2>3, Zenon DEF FinalizeAuction, CancelAuction, AdminCancelAuction
  <2> QED
    BY <2>1, <2>2, <2>4, EndCloses, Zenon
<1>2. ASSUME NEW u \in Users, NEW n \in Nfts, NEW r \in BidAmounts, NEW d \in Durations,
             CreateAuction(u, n, r, d)
      PROVE  \E x \in AuctionIds : Opens(x, n)
  <2> DEFINE x == auctionCount + 1
  <2>1. x \in AuctionIds /\ x > auctionCount
    BY <1>2, AuctionsAssumption DEF CreateAuction, AuctionInv, AuctionIds
  <2>2. auction[x].status = "Absent"
    BY <2>1 DEF AuctionInv
  <2>3. auction'[x].status = "Active" /\ auction'[x].nft = n /\ KeepsOthers({x})
    BY <1>2, <2>1 DEF CreateAuction, KeepsOthers, AuctionInv
  <2>4. EscrowNft(u, n, AuctionEscrow(x))
    BY <1>2 DEF CreateAuction
  <2> HIDE DEF x
  <2> QED
    BY <2>1, <2>2, <2>3, <2>4, Zenon DEF Opens
<1>3. ASSUME NEW x \in AuctionIds, NEW u, NEW m, PlaceBid(x, u, m) PROVE Quiet
  <2>1. KeepsOthers({})
    BY <1>3 DEF PlaceBid, KeepsOthers, AuctionInv, AuctionRecord
  <2> QED
    BY <1>3, <2>1, Zenon DEF PlaceBid, Quiet
<1>4. ASSUME NEW x \in AuctionIds, NEW r, UpdateAuctionReservePrice(x, r) PROVE Quiet
  <2>1. KeepsOthers({})
    BY <1>4 DEF UpdateAuctionReservePrice, KeepsOthers, AuctionInv, AuctionRecord
  <2> QED
    BY <1>4, <2>1, Zenon DEF UpdateAuctionReservePrice, Quiet, custodyVars
<1>5. CASE \/ \E c \in AuctionConfigs : SetAuctionConfig(c)
           \/ \E x \in AuctionIds, u \in Blockable : BlockBidder(x, u) \/ UnblockBidder(x, u)
           \/ \E x \in AuctionIds, u \in Users : RefundLosingBid(x, u)
  BY <1>5, ZenonT(30) DEF SetAuctionConfig, BlockBidder, UnblockBidder, RefundLosingBid, Quiet,
    KeepsOthers, custodyVars
<1> QED
  BY <1>1, <1>2, <1>3, <1>4, <1>5, ZenonT(30) DEF AuctionsNext

(* The two kinds of escrow record differ, and each names one id. *)
LEMMA EscrowKinds ==
  ASSUME NEW i, NEW j
  PROVE  /\ ListingEscrow(i) # AuctionEscrow(j)
         /\ AuctionEscrow(i) = AuctionEscrow(j) => i = j
         /\ ListingEscrow(i).kind = "listing" /\ ListingEscrow(i).id = i
         /\ AuctionEscrow(i).kind = "auction" /\ AuctionEscrow(i).id = i
BY DEF ListingEscrow, AuctionEscrow

LEMMA RecordsAreReal ==
  ASSUME NEW x \in AuctionIds
  PROVE  AuctionEscrow(x) \in EscrowRecords /\ AuctionEscrow(x) # None
<1>1. AuctionEscrow(x) \in EscrowRecords
  BY AuctionsAssumption DEF AuctionEscrow, EscrowRecords, AuctionIds
<1> QED
  BY <1>1, CustodyAssumption DEF EscrowRecords

LEMMA OpensKeepsCustody ==
  ASSUME VaultTypes, AuctionCustody, NEW x \in AuctionIds, NEW n \in Nfts, Opens(x, n),
         \A y \in AuctionIds : IsOpen(y) => auction[y].nft \in Nfts
  PROVE  /\ VaultTypes' /\ AuctionCustody'
         /\ escrow[n] = None /\ escrow'[n] = AuctionEscrow(x)
         /\ nftOwner[n] # Contract /\ nftOwner'[n] = Contract
         /\ \A m \in Nfts \ {n} : escrow'[m] = escrow[m] /\ nftOwner'[m] = nftOwner[m]
<1>1. PICK u \in Users : EscrowNft(u, n, AuctionEscrow(x))
  BY DEF Opens
<1>2. AuctionEscrow(x) \in EscrowRecords /\ AuctionEscrow(x) # None
  BY RecordsAreReal
<1>3. VaultTypes'
  BY <1>1, <1>2 DEF VaultTypes, EscrowNft
<1>4. /\ escrow[n] = None /\ escrow'[n] = AuctionEscrow(x)
      /\ nftOwner[n] # Contract /\ nftOwner'[n] = Contract
      /\ \A m \in Nfts \ {n} : escrow'[m] = escrow[m] /\ nftOwner'[m] = nftOwner[m]
  BY <1>1, CustodyAssumption DEF VaultTypes, EscrowNft
<1>5. ASSUME NEW y \in AuctionIds, auction'[y].status = "Active"
      PROVE  /\ nftOwner'[auction'[y].nft] = Contract
             /\ escrow'[auction'[y].nft] = AuctionEscrow(y)
  <2>1. CASE y = x
    BY <1>4, <2>1 DEF Opens
  <2>2. CASE y # x
    <3>1. IsOpen(y) /\ auction'[y].nft = auction[y].nft /\ auction[y].nft \in Nfts
      BY <1>5, <2>2 DEF Opens, KeepsOthers, IsOpen
    <3>2. nftOwner[auction[y].nft] = Contract /\ escrow[auction[y].nft] = AuctionEscrow(y)
      BY <3>1 DEF AuctionCustody
    <3>3. auction[y].nft # n
      BY <1>4, <3>2
    <3> QED
      BY <1>4, <3>1, <3>2, <3>3
  <2> QED
    BY <2>1, <2>2
<1>6. ASSUME NEW m \in Nfts, escrow'[m] # None, escrow'[m].kind = "auction"
      PROVE  /\ escrow'[m].id \in AuctionIds
             /\ auction'[escrow'[m].id].status = "Active" /\ auction'[escrow'[m].id].nft = m
  <2>1. CASE m = n
    BY <1>4, <2>1, EscrowKinds DEF Opens
  <2>2. CASE m # n
    <3>1. escrow'[m] = escrow[m]
      BY <1>4, <2>2
    <3>2. escrow[m].id \in AuctionIds /\ IsOpen(escrow[m].id) /\ auction[escrow[m].id].nft = m
      BY <1>6, <3>1 DEF AuctionCustody
    <3>3. escrow[m].id # x
      BY <3>2 DEF Opens, IsOpen
    <3> QED
      BY <3>1, <3>2, <3>3 DEF Opens, KeepsOthers, IsOpen
  <2> QED
    BY <2>1, <2>2
<1>7. AuctionCustody'
  BY <1>5, <1>6, Zenon DEF AuctionCustody, IsOpen
<1> QED
  BY <1>3, <1>4, <1>7

LEMMA ClosesKeepsCustody ==
  ASSUME VaultTypes, AuctionCustody, NEW x \in AuctionIds, NEW n \in Nfts, Closes(x, n),
         \A y \in AuctionIds : IsOpen(y) => auction[y].nft \in Nfts
  PROVE  /\ VaultTypes' /\ AuctionCustody'
         /\ escrow[n] = AuctionEscrow(x) /\ escrow'[n] = None
         /\ nftOwner[n] = Contract /\ nftOwner'[n] # Contract
         /\ \A m \in Nfts \ {n} : escrow'[m] = escrow[m] /\ nftOwner'[m] = nftOwner[m]
<1>1. PICK u \in Users : ReleaseNft(n, u)
  BY DEF Closes
<1>2. IsOpen(x) /\ auction[x].nft = n /\ escrow[n] = AuctionEscrow(x)
  BY DEF Closes, AuctionCustody
<1>3. VaultTypes'
  BY <1>1 DEF VaultTypes, ReleaseNft
<1>4. /\ escrow'[n] = None /\ nftOwner[n] = Contract /\ nftOwner'[n] # Contract
      /\ \A m \in Nfts \ {n} : escrow'[m] = escrow[m] /\ nftOwner'[m] = nftOwner[m]
  BY <1>1, CustodyAssumption DEF VaultTypes, ReleaseNft
<1>5. ASSUME NEW y \in AuctionIds, auction'[y].status = "Active"
      PROVE  /\ nftOwner'[auction'[y].nft] = Contract
             /\ escrow'[auction'[y].nft] = AuctionEscrow(y)
  <2>1. y # x
    BY <1>5 DEF Closes
  <2>2. IsOpen(y) /\ auction'[y].nft = auction[y].nft /\ auction[y].nft \in Nfts
    BY <1>5, <2>1 DEF Closes, KeepsOthers, IsOpen
  <2>3. nftOwner[auction[y].nft] = Contract /\ escrow[auction[y].nft] = AuctionEscrow(y)
    BY <2>2 DEF AuctionCustody
  <2>4. auction[y].nft # n
    BY <1>2, <2>1, <2>3, EscrowKinds
  <2> QED
    BY <1>4, <2>2, <2>3, <2>4
<1>6. ASSUME NEW m \in Nfts, escrow'[m] # None, escrow'[m].kind = "auction"
      PROVE  /\ escrow'[m].id \in AuctionIds
             /\ auction'[escrow'[m].id].status = "Active" /\ auction'[escrow'[m].id].nft = m
  <2>1. m # n /\ escrow'[m] = escrow[m]
    BY <1>4, <1>6
  <2>2. escrow[m].id \in AuctionIds /\ IsOpen(escrow[m].id) /\ auction[escrow[m].id].nft = m
    BY <1>6, <2>1 DEF AuctionCustody
  <2>3. escrow[m].id # x
    BY <1>2, <2>1, <2>2
  <2> QED
    BY <2>1, <2>2, <2>3 DEF Closes, KeepsOthers, IsOpen
<1>7. AuctionCustody'
  BY <1>5, <1>6, Zenon DEF AuctionCustody, IsOpen
<1> QED
  BY <1>2, <1>3, <1>4, <1>7

(* A step that leaves escrowed NFTs and the auctions alone keeps custody. *)
LEMMA QuietKeepsCustody ==
  ASSUME AuctionCustody, KeepsOthers({}),
         \A y \in AuctionIds : IsOpen(y) => auction[y].nft \in Nfts,
         \A m \in Nfts : escrow[m] # None /\ escrow[m].kind = "auction" =>
           escrow'[m] = escrow[m] /\ nftOwner'[m] = nftOwner[m],
         \A m \in Nfts : escrow'[m] # None /\ escrow'[m].kind = "auction" => escrow'[m] = escrow[m]
  PROVE  AuctionCustody'
<1>1. ASSUME NEW y \in AuctionIds, auction'[y].status = "Active"
      PROVE  /\ nftOwner'[auction'[y].nft] = Contract
             /\ escrow'[auction'[y].nft] = AuctionEscrow(y)
  <2>1. IsOpen(y) /\ auction'[y].nft = auction[y].nft /\ auction[y].nft \in Nfts
    BY <1>1 DEF KeepsOthers, IsOpen
  <2>2. nftOwner[auction[y].nft] = Contract /\ escrow[auction[y].nft] = AuctionEscrow(y)
    BY <2>1 DEF AuctionCustody
  <2>3. AuctionEscrow(y) # None /\ AuctionEscrow(y).kind = "auction"
    BY RecordsAreReal, EscrowKinds
  <2> QED
    BY <2>1, <2>2, <2>3
<1>2. ASSUME NEW m \in Nfts, escrow'[m] # None, escrow'[m].kind = "auction"
      PROVE  /\ escrow'[m].id \in AuctionIds
             /\ auction'[escrow'[m].id].status = "Active" /\ auction'[escrow'[m].id].nft = m
  <2>1. escrow'[m] = escrow[m]
    BY <1>2
  <2>2. escrow[m].id \in AuctionIds /\ IsOpen(escrow[m].id) /\ auction[escrow[m].id].nft = m
    BY <1>2, <2>1 DEF AuctionCustody
  <2> QED
    BY <2>1, <2>2 DEF KeepsOthers, IsOpen
<1> QED
  BY <1>1, <1>2, Zenon DEF AuctionCustody, IsOpen

(* A transfer between users moves no escrowed NFT, and the policy switches *)
(* move none.                                                              *)
LEMMA CustodyNextKeepsAuctions ==
  ASSUME AuctionInv, VaultTypes, AuctionCustody, CustodyNext, UNCHANGED auctionVars
  PROVE  VaultTypes' /\ AuctionCustody'
<1>1. KeepsOthers({}) /\ escrow' = escrow
  BY ZenonT(30) DEF KeepsOthers, auctionVars, CustodyNext, Tick, TransferNft, SetPaused,
    SetTokenPolicy, RevokeArtist
<1>2. \A y \in AuctionIds : IsOpen(y) => auction[y].nft \in Nfts
  BY OpenIsReal DEF IsOpen
<1>3. \A m \in Nfts : escrow[m] # None /\ escrow[m].kind = "auction" => nftOwner[m] = Contract
  <2>1. ASSUME NEW m \in Nfts, escrow[m] # None, escrow[m].kind = "auction"
        PROVE  nftOwner[m] = Contract
    <3>1. /\ escrow[m].id \in AuctionIds /\ IsOpen(escrow[m].id)
          /\ auction[escrow[m].id].nft = m
      BY <2>1, Zenon DEF AuctionCustody
    <3> QED
      BY <3>1, Zenon DEF AuctionCustody
  <2> QED
    BY <2>1
<1>4. CASE \E u \in Users, v \in Collectors, n \in Nfts : TransferNft(u, v, n)
  <2>1. PICK u \in Users, v \in Collectors, n \in Nfts : TransferNft(u, v, n)
    BY <1>4
  <2>2. nftOwner[n] # Contract /\ nftOwner' = [nftOwner EXCEPT ![n] = v] /\ v \in Users
    BY <2>1, CustodyAssumption DEF TransferNft
  <2>3. VaultTypes'
    BY <1>1, <2>2 DEF VaultTypes
  <2>4. \A m \in Nfts : nftOwner[m] = Contract => nftOwner'[m] = nftOwner[m]
    BY <2>2 DEF VaultTypes
  <2> QED
    BY <1>1, <1>2, <1>3, <2>3, <2>4, QuietKeepsCustody, ZenonT(30)
<1>5. CASE UNCHANGED nftOwner
  BY <1>1, <1>2, <1>5, QuietKeepsCustody, ZenonT(30) DEF VaultTypes
<1> QED
  BY <1>4, <1>5, ZenonT(30) DEF CustodyNext, Tick, SetPaused, SetTokenPolicy, RevokeArtist

LEMMA AuctionsNextKeepsCustody ==
  ASSUME AuctionInv, VaultTypes, AuctionCustody, AuctionsNext
  PROVE  VaultTypes' /\ AuctionCustody'
<1>1. \A y \in AuctionIds : IsOpen(y) => auction[y].nft \in Nfts
  BY OpenIsReal DEF IsOpen
<1>2. CASE Quiet
  BY <1>1, <1>2, QuietKeepsCustody, ZenonT(30) DEF Quiet, VaultTypes
<1>3. CASE \E x \in AuctionIds, n \in Nfts : Opens(x, n) \/ Closes(x, n)
  BY <1>1, <1>3, OpensKeepsCustody, ClosesKeepsCustody, ZenonT(30)
<1> QED
  BY <1>2, <1>3, AuctionStepKinds

(* The inductive invariant of the auctions. *)
AInv == AuctionInv /\ VaultTypes /\ AuctionCustody

LEMMA AInvInit == CustodyInit /\ AuctionsInit => AInv
<1> SUFFICES ASSUME CustodyInit, AuctionsInit PROVE VaultTypes /\ AuctionCustody
  BY AuctionInvInit DEF AInv
<1>1. VaultTypes /\ \A n \in Nfts : escrow[n] = None
  BY DEF CustodyInit, VaultTypes
<1>2. \A x \in AuctionIds : ~IsOpen(x)
  BY DEF AuctionsInit, AbsentAuction, IsOpen
<1> QED
  BY <1>1, <1>2, Zenon DEF AuctionCustody

LEMMA AInvStep == AInv /\ [ANext]_avars => AInv'
<1> SUFFICES ASSUME AInv, [ANext]_avars PROVE VaultTypes' /\ AuctionCustody'
  BY AuctionInvStep DEF AInv
<1>1. CASE UNCHANGED avars
  BY <1>1, Zenon DEF AInv, avars, custodyVars, auctionVars, VaultTypes, AuctionCustody, IsOpen
<1> QED
  BY <1>1, AuctionsNextKeepsCustody, CustodyNextKeepsAuctions DEF AInv, ANext

(* An NFT under an open auction is in custody under that auction's record,   *)
(* and no record outlives its auction, however create_auction, the calls     *)
(* that end an auction and transfers outside the marketplace interleave.     *)
THEOREM AuctionCustodyCorrect == ASpec => []AuctionCustody
<1>1. AInv => AuctionCustody
  BY DEF AInv
<1> QED
  BY <1>1, AInvInit, AInvStep, PTL DEF ASpec, AInit

(* The calls that end an auction, and the bids. *)
LEMMA SettleStep ==
  ASSUME AuctionInv, VaultTypes, [ANext]_avars, NEW x \in AuctionIds
  PROVE  SettlesAt(x)
<1>1. ASSUME auction'[x] = auction[x] PROVE SettlesAt(x)
  BY <1>1, Zenon DEF SettlesAt
<1>2. ASSUME NEW y \in AuctionIds,
             OnlyAt(y), y = x => SettlesAt(x)
      PROVE  SettlesAt(x)
  BY <1>1, <1>2, Zenon DEF OnlyAt
<1>3. ASSUME NEW u \in Users, NEW m \in BidAmounts, PlaceBid(x, u, m) PROVE SettlesAt(x)
  <2>1. /\ auction'[x].status = auction[x].status /\ auction'[x].highestBid = m
        /\ auction[x].highestBid \in Nat /\ auction[x].config \in AuctionConfig
    <3>1. auction[x].status # "Absent"
      BY <1>3 DEF PlaceBid, IsOpen
    <3>2. auction[x].config \in AuctionConfig
      BY <3>1, Zenon DEF AuctionInv, SoundAt, Sound, Shape
    <3> QED
      BY <1>3, <3>2 DEF PlaceBid, AuctionInv, AuctionRecord
  <2>2. m \in Nat \ {0} /\ auction[x].config.minIncrement \in Nat \ {0}
    BY <2>1, AuctionsAssumption DEF AuctionConfig
  <2>3. m >= MinimumBid(x)
    BY <1>3 DEF PlaceBid
  <2>4. m > auction[x].highestBid
    BY <2>1, <2>2, <2>3 DEF MinimumBid
  <2> QED
    BY <2>1, <2>4 DEF SettlesAt
<1>4. ASSUME NEW s, NEW u, EndAuction(x, s, u), IsOpen(x),
             \/ s = "Finalized" /\ now >= auction[x].endTime /\ u = auction[x].highestBidder
             \/ s = "Cancelled" /\ u = auction[x].creator
      PROVE  SettlesAt(x)
  <2>1. auction'[x].status = s /\ auction'[x].highestBidder = auction[x].highestBidder
    BY <1>4 DEF EndAuction, AuctionInv, AuctionRecord
  <2>2. auction[x].nft \in Nfts
    BY <1>4, OpenIsReal DEF IsOpen
  <2>3. nftOwner'[auction[x].nft] = u
    BY <1>4, <2>2 DEF EndAuction, ReleaseNft, VaultTypes
  <2> QED
    BY <1>4, <2>1, <2>3, Zenon DEF SettlesAt
<1>5. ASSUME FinalizeAuction(x) \/ CancelAuction(x) \/ AdminCancelAuction(x) PROVE SettlesAt(x)
  <2>1. /\ IsOpen(x)
        /\ \E s, u : /\ EndAuction(x, s, u)
                     /\ \/ s = "Finalized" /\ now >= auction[x].endTime /\ u = auction[x].highestBidder
                        \/ s = "Cancelled" /\ u = auction[x].creator
    BY <1>5, ZenonT(30) DEF FinalizeAuction, CancelAuction, AdminCancelAuction
  <2> QED
    BY <1>4, <2>1, Zenon
<1>6. ASSUME NEW r, UpdateAuctionReservePrice(x, r) PROVE SettlesAt(x)
  <2>1. /\ auction'[x].status = auction[x].status
        /\ auction'[x].highestBidder = auction[x].highestBidder
    BY <1>6 DEF UpdateAuctionReservePrice, AuctionInv, AuctionRecord
  <2> QED
    BY <2>1, Zenon DEF SettlesAt
<1>7. ASSUME NEW u \in Users, NEW n \in Nfts, NEW r \in BidAmounts, NEW d \in Durations,
             CreateAuction(u, n, r, d)
      PROVE  SettlesAt(x)
  <2> DEFINE y == auctionCount + 1
  <2>1. y \in AuctionIds /\ OnlyAt(y) /\ y > auctionCount
    BY <1>7, CreateKeepsSound DEF AuctionInv
  <2>2. ASSUME y = x PROVE SettlesAt(x)
    <3>0. auction[x].status = "Absent"
      BY <2>1, <2>2 DEF AuctionInv
    <3>1. auction[x] = AbsentAuction /\ auction[x].status = "Absent"
      BY <3>0, Zenon DEF AuctionInv, SoundAt, Sound, Shape
    <3>2. auction'[x].status = "Active" /\ auction'[x].highestBidder = None
      <4> DEFINE B == [status |-> "Active", creator |-> u, nft |-> n, reserve |-> r,
                       highestBid |-> 0, highestBidder |-> None,
                       endTime |-> now + d, originalEnd |-> now + d,
                       extensions |-> 0, config |-> auctionConfig]
      <4>1. DOMAIN auction = AuctionIds
        BY DEF AuctionInv
      <4>2. auction' = [auction EXCEPT ![y] = B]
        BY <1>7 DEF CreateAuction
      <4>3. B.status = "Active" /\ B.highestBidder = None
        OBVIOUS
      <4> HIDE DEF B
      <4>4. auction'[x] = B
        BY <2>2, <4>1, <4>2, Zenon
      <4> QED
        BY <4>3, <4>4, Zenon
    <3>3. auction[x].highestBidder = None
      BY <3>1 DEF AbsentAuction
    <3> QED
      BY <3>1, <3>2, <3>3, Zenon DEF SettlesAt
  <2> HIDE DEF y
  <2> QED
    BY <1>2, <2>1, <2>2
<1>8. ASSUME NEW y \in AuctionIds,
             \/ \E u \in Users, m \in BidAmounts : PlaceBid(y, u, m)
             \/ FinalizeAuction(y) \/ CancelAuction(y) \/ AdminCancelAuction(y)
             \/ \E r \in BidAmounts : UpdateAuctionReservePrice(y, r)
      PROVE  SettlesAt(x)
  <2>1. OnlyAt(y)
    BY <1>8, PlaceBidKeepsSound, FinalizeKeepsSound, CancelKeepsSound, AdminCancelKeepsSound,
       ReserveKeepsSound, Zenon
  <2>2. ASSUME y = x PROVE SettlesAt(x)
    BY <1>3, <1>5, <1>6, <1>8, <2>2, Zenon
  <2> QED
    BY <1>2, <2>1, <2>2, Zenon
<1>9. CASE \/ \E c \in AuctionConfigs : SetAuctionConfig(c)
           \/ \E y \in AuctionIds, u \in Blockable : BlockBidder(y, u) \/ UnblockBidder(y, u)
           \/ \E y \in AuctionIds, u \in Users : RefundLosingBid(y, u)
           \/ CustodyNext /\ UNCHANGED auctionVars
           \/ UNCHANGED avars
  <2>1. auction' = auction
    BY <1>9, ZenonT(30) DEF SetAuctionConfig, BlockBidder, UnblockBidder, RefundLosingBid,
      auctionVars, avars
  <2> QED
    BY <1>1, <2>1, Zenon
<1> QED
  BY <1>7, <1>8, <1>9, ZenonT(30) DEF ANext, AuctionsNext

(* Every auction is settled once, in favour of its highest bidder and not   *)
(* before its (extended) end, or back to its creator; and the highest bid   *)
(* only rises.                                                              *)
THEOREM AuctionsSettleCorrect == ASpec => AuctionsSettle
<1>1. AInv /\ [ANext]_avars => [\A x \in AuctionIds : SettlesAt(x)]_avars
  BY SettleStep DEF AInv
<1> QED
  BY <1>1, AInvInit, AInvStep, PTL DEF ASpec, AInit, AuctionsSettle

----------------------------------------------------------------------------
(* Listings, offers and auctions together. *)

MInv == LInv /\ AInv

(* Creating and ending auctions keeps the listings' custody: the NFT of an   *)
(* Active listing has a record, so it cannot be escrowed again, and the      *)
(* record is not an auction's, so no auction releases it.                    *)
LEMMA AuctionsKeepListings ==
  ASSUME LInv, AInv, AuctionsNext, UNCHANGED listingVars
  PROVE  CustodyInv'
<1>0. CustodyInv /\ AuctionInv /\ VaultTypes /\ AuctionCustody
  BY DEF LInv, AInv
<1>1. \A y \in AuctionIds : IsOpen(y) => auction[y].nft \in Nfts
  BY <1>0, OpenIsReal DEF IsOpen
<1>2. CASE Quiet
  <2>1. ListingsClosed({})
    BY <1>0, <1>2, UnchangedCustody DEF Quiet, listingVars
  <2> QED
    BY <1>0, <2>1, ClosedPreservesCustody
<1>3. ASSUME NEW x \in AuctionIds, NEW n \in Nfts, VaultTypes',
             \/ /\ escrow[n] = None /\ escrow'[n] = AuctionEscrow(x)
                /\ nftOwner'[n] = Contract
             \/ /\ escrow[n] = AuctionEscrow(x) /\ escrow'[n] = None
                /\ nftOwner'[n] # Contract,
             \A m \in Nfts \ {n} : escrow'[m] = escrow[m] /\ nftOwner'[m] = nftOwner[m]
      PROVE  CustodyInv'
  <2>1. /\ listing' = listing /\ listingCount' = listingCount /\ activeListings' = activeListings
    BY DEF listingVars
  <2>2. /\ AuctionEscrow(x) # None /\ AuctionEscrow(x).kind = "auction"
        /\ \A l : ListingEscrow(l) # AuctionEscrow(x)
    BY RecordsAreReal, EscrowKinds
  <2>3. \A l \in ListingIds : IsActive(l) =>
          /\ listing[l].nft \in Nfts /\ nftOwner[listing[l].nft] = Contract
          /\ escrow[listing[l].nft] = ListingEscrow(l)
    BY <1>0 DEF CustodyInv, ListingCustody, IsActive
  <2>4. \A l \in ListingIds : ListingEscrow(l) # None
    <3>1. \A l \in ListingIds : ListingEscrow(l) \in EscrowRecords
      BY ListingsAssumption DEF ListingEscrow, EscrowRecords, ListingIds
    <3> QED
      BY <3>1, CustodyAssumption DEF EscrowRecords
  <2>5. \A l \in ListingIds : IsActive(l) => listing[l].nft # n
    BY <1>3, <2>2, <2>3, <2>4
  <2>6. ListingCustody'
    <3>1. \A l \in ListingIds : IsActive(l) =>
            nftOwner'[listing[l].nft] = Contract /\ escrow'[listing[l].nft] = ListingEscrow(l)
      BY <1>3, <2>3, <2>5
    <3>2. \A m \in Nfts : escrow'[m] # None /\ escrow'[m].kind = "listing" => escrow'[m] = escrow[m]
      BY <1>3, <2>2
    <3>3. \A m \in Nfts : escrow[m] # None /\ escrow[m].kind = "listing" =>
            /\ escrow[m].id \in ListingIds /\ IsActive(escrow[m].id)
            /\ listing[escrow[m].id].nft = m
      BY <1>0, Zenon DEF CustodyInv, ListingCustody
    <3> QED
      BY <2>1, <3>1, <3>2, <3>3, ZenonT(30) DEF ListingCustody, IsActive
  <2>7. RecordsMatchCustody'
    BY <1>0, <1>3, <2>2 DEF CustodyInv, RecordsMatchCustody
  <2>8. ActiveIndexExact'
    BY <1>0, <2>1, Zenon DEF CustodyInv, ActiveIndexExact, IsActive
  <2> QED
    BY <1>0, <1>3, <2>1, <2>6, <2>7, <2>8, ZenonT(30) DEF CustodyInv, VaultTypes
<1>4. CASE \E x \in AuctionIds, n \in Nfts : Opens(x, n)
  BY <1>0, <1>1, <1>3, <1>4, OpensKeepsCustody, ZenonT(30)
<1>5. CASE \E x \in AuctionIds, n \in Nfts : Closes(x, n)
  BY <1>0, <1>1, <1>3, <1>5, ClosesKeepsCustody, ZenonT(30)
<1> QED
  BY <1>0, <1>2, <1>4, <1>5, AuctionStepKinds, Zenon

(* Ending listings releases no auction's NFT, and creating one escrows an NFT *)
(* without a record.                                                          *)
LEMMA ListingsKeepAuctions ==
  ASSUME LInv, AInv, [LNext]_lvars, UNCHANGED auctionVars
  PROVE  AuctionCustody'
<1>0. CustodyInv /\ AuctionInv /\ VaultTypes /\ AuctionCustody
  BY DEF LInv, AInv
<1>1. \A y \in AuctionIds : IsOpen(y) => auction[y].nft \in Nfts
  BY <1>0, OpenIsReal DEF IsOpen
<1>2. KeepsOthers({})
  BY Zenon DEF KeepsOthers, auctionVars
<1>3. ASSUME NEW S, ListingsClosed(S) PROVE AuctionCustody'
  <2>1. \A l \in S : escrow[listing[l].nft].kind = "listing"
    <3>1. \A l \in S : escrow[listing[l].nft] = ListingEscrow(l)
      BY <1>0, <1>3, Zenon DEF ListingsClosed, CustodyInv, ListingCustody
    <3> QED
      BY <3>1, EscrowKinds
  <2>2. \A m \in Nfts : escrow[m].kind = "auction" => ~ \E l \in S : listing[l].nft = m
    BY <2>1
  <2>3. \A m \in Nfts : escrow[m] # None /\ escrow[m].kind = "auction" =>
          escrow'[m] = escrow[m] /\ nftOwner'[m] = nftOwner[m]
    BY <1>3, <2>2, Zenon DEF ListingsClosed
  <2>4. \A m \in Nfts : escrow'[m] # None => escrow'[m] = escrow[m]
    BY <1>3, Zenon DEF ListingsClosed
  <2> QED
    BY <1>0, <1>1, <1>2, <2>3, <2>4, QuietKeepsCustody, ZenonT(30)
<1>4. ASSUME NEW u \in Users, NEW n \in Nfts, NEW p, NEW e, CreateListing(u, n, p, e)
      PROVE  AuctionCustody'
  <2>1. EscrowNft(u, n, ListingEscrow(listingCount + 1))
    BY <1>4 DEF CreateListing
  <2>2. /\ escrow[n] = None /\ escrow'[n] = ListingEscrow(listingCount + 1)
        /\ \A m \in Nfts \ {n} : escrow'[m] = escrow[m] /\ nftOwner'[m] = nftOwner[m]
    BY <1>0, <2>1 DEF EscrowNft, VaultTypes
  <2>3. escrow'[n].kind = "listing"
    BY <2>2, EscrowKinds
  <2>4. /\ \A m \in Nfts : escrow[m] # None /\ escrow[m].kind = "auction" =>
             escrow'[m] = escrow[m] /\ nftOwner'[m] = nftOwner[m]
        /\ \A m \in Nfts : escrow'[m] # None /\ escrow'[m].kind = "auction" => escrow'[m] = escrow[m]
    BY <2>2, <2>3
  <2> QED
    BY <1>0, <1>1, <1>2, <2>4, QuietKeepsCustody, ZenonT(30)
<1>5. ASSUME UNCHANGED <<nftOwner, escrow>> PROVE AuctionCustody'
  BY <1>0, <1>1, <1>2, <1>5, QuietKeepsCustody, ZenonT(30)
<1>6. ASSUME \/ \E l \in ListingIds, u \in Users, x \in Amounts, e \in Deadlines : MakeOffer(l, u, x, e)
             \/ \E o \in OfferIds, x \in Amounts, e \in Deadlines : CounterOffer(o, x, e)
      PROVE  UNCHANGED <<nftOwner, escrow>>
  BY <1>6, ZenonT(30) DEF MakeOffer, CounterOffer
<1>7. ASSUME NEW u \in Users, NEW v \in Collectors, NEW n \in Nfts, TransferNft(u, v, n)
      PROVE  AuctionCustody'
  BY <1>0, <1>7, CustodyNextKeepsAuctions, ZenonT(30) DEF CustodyNext
<1> QED
  BY <1>3, <1>4, <1>5, <1>6, <1>7, StepKinds, ZenonT(30)

LEMMA MInvInit == Init => MInv
BY LInvInit, AInvInit DEF Init, LInit, MInv

LEMMA MInvStep == MInv /\ [Next]_vars => MInv'
<1> SUFFICES ASSUME LInv, AInv, [Next]_vars PROVE LInv' /\ AInv'
  BY DEF MInv
<1>1. CASE LNext /\ UNCHANGED auctionVars
  <2>1. LInv'
    BY <1>1, LInvStep
  <2>2. now' \in Nat /\ VaultTypes'
    BY <2>1 DEF LInv, ScalarInv, CustodyInv, VaultTypes
  <2>3. AuctionInv'
    BY <1>1, <2>2, OthersKeepSound DEF AInv
  <2>4. AuctionCustody'
    BY <1>1, ListingsKeepAuctions
  <2> QED
    BY <2>1, <2>2, <2>3, <2>4 DEF AInv
<1>2. CASE AuctionsNext /\ UNCHANGED <<listingVars, offerVars>>
  <2>1. AInv'
    BY <1>2, AInvStep DEF ANext
  <2>2. CustodyInv'
    BY <1>2, AuctionsKeepListings
  <2>3. OfferInv'
    <3>1. OffersResolved({}) /\ listingCount' = listingCount /\ listingCount \in 0..MaxListings
      BY <1>2, UnchangedOffers DEF LInv, CustodyInv, listingVars
    <3> QED
      BY <3>1, ResolvedPreservesOffers DEF LInv
  <2>4. ScalarInv'
    BY <1>2, <2>1, Zenon DEF AInv, AuctionInv, LInv, ScalarInv, listingVars
  <2> QED
    BY <2>1, <2>2, <2>3, <2>4 DEF LInv
<1>3. CASE UNCHANGED vars
  <2>1. UNCHANGED lvars /\ UNCHANGED avars
    BY <1>3 DEF vars, lvars, avars
  <2> QED
    BY <2>1, LInvStep, AInvStep
<1> QED
  BY <1>1, <1>2, <1>3, Zenon DEF Next, LNext

(* In the whole contract, whatever sequence of listing, offer and auction    *)
(* calls is made on the same NFTs: the contract holds an NFT exactly while it *)
(* has a record for it.                                                       *)
THEOREM MarketCustodyCorrect == Spec => []RecordsMatchCustody
<1>1. MInv => RecordsMatchCustody
  BY DEF MInv, LInv, CustodyInv
<1> QED
  BY <1>1, MInvInit, MInvStep, PTL DEF Spec

(* No NFT is ever listed and auctioned at once: two sales would need two *)
(* different escrow records under one key.                               *)
THEOREM OneSaleCorrect == Spec => []OneSalePerNft
<1>1. MInv => OneSalePerNft
  <2> SUFFICES ASSUME MInv, NEW l \in ListingIds, NEW x \in AuctionIds,
                      IsActive(l), IsOpen(x), listing[l].nft = auction[x].nft
               PROVE  FALSE
    BY DEF OneSalePerNft
  <2>1. escrow[listing[l].nft] = ListingEscrow(l) /\ escrow[auction[x].nft] = AuctionEscrow(x)
    BY Zenon DEF MInv, LInv, CustodyInv, ListingCustody, AInv, AuctionCustody
  <2> QED
    BY <2>1, EscrowKinds
<1> QED
  BY <1>1, MInvInit, MInvStep, PTL DEF Spec

=============================================================================
