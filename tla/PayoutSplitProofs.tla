------------------------- MODULE PayoutSplitProofs -------------------------
(***************************************************************************)
(* Every settlement divides exactly the price, for all prices, rates,      *)
(* recipient lists and integer widths.                                     *)
(***************************************************************************)
EXTENDS PayoutSplit, TLAPS

Before(i) == IF i = 0 THEN 0 ELSE totals[i]

(* The running totals of the recipients checked so far. *)
Totals ==
  /\ Len(totals) <= Size
  /\ \A i \in 1..Len(totals) : totals[i] = Before(i - 1) + sale.recipients[i].percentage
  /\ \A i, j \in 0..Len(totals) : i <= j => Before(i) <= Before(j)
  /\ \A i, j \in 1..Len(totals) :
       i # j => sale.recipients[i].address # sale.recipients[j].address
  /\ stage \in {"listed", "fee", "shares", "done"} => totals[Size] <= Base

(* Where the price is.  The shares paid so far are below what the running  *)
(* total entitles to, by less than one unit each.                          *)
Money ==
  /\ stage \in {"validate", "rejected", "listed"} =>
       balance = 0 /\ remaining = 0 /\ paid = 0 /\ distributed = 0
  /\ stage = "fee" =>
       paid = 0 /\ distributed = 0 /\ balance = remaining /\ remaining <= sale.amount
  /\ stage = "shares" =>
       /\ paid < Size /\ balance = remaining - distributed /\ remaining <= sale.amount
       /\ Base * distributed <= remaining * Before(paid)
       /\ remaining * Before(paid) <= Base * distributed + paid * (Base - 1)
  /\ stage = "done" => paid = Size /\ balance = 0

Due(a) == RoyaltyDue /\ a = sale.receiver
Paid(a) == \E i \in 1..paid : sale.recipients[i].address = a

(* What the claim records say while a settlement runs. *)
Claims ==
  \A a \in Accounts :
    /\ stage \in {"validate", "rejected", "listed"} =>
         claim[a] = None /\ refs[a] = 0 /\ received[a] = 0
    /\ stage \in {"fee", "shares", "done"} =>
         /\ claim[a] # None <=> Paid(a) \/ Due(a)
         /\ refs[a] = IF claim[a] = None THEN 0 ELSE 1
         /\ claim[a] = None /\ a # treasury => received[a] = 0
         /\ claim[a] # None =>
              /\ claim[a].claimed
              /\ a # treasury /\ ~(Due(a) /\ a \in Addresses) => claim[a].amount = received[a]

IInv == PTypeOK /\ Totals /\ Money /\ Claims /\ LastAbsorbsDust

----------------------------------------------------------------------------
(* Arithmetic *)

(* A floored share is below the exact one by less than one unit. *)
LEMMA FloorFacts ==
  ASSUME NEW m \in Nat, NEW b \in Nat
  PROVE  /\ Floor(m, b) \in Nat
         /\ Base * Floor(m, b) <= m * b
         /\ m * b <= Base * Floor(m, b) + (Base - 1)
<1> DEFINE x == m * b
<1>1. x \in Nat
  OBVIOUS
<1> HIDE DEF x
<1>2. /\ x \div Base \in Nat
      /\ Base * (x \div Base) <= x
      /\ x <= Base * (x \div Base) + (Base - 1)
  BY <1>1, PayoutAssumption
<1> QED
  BY <1>2 DEF x, Floor

(* A share of at most 100 % is at most the whole. *)
LEMMA FloorAtMost ==
  ASSUME NEW m \in Nat, NEW b \in Nat, b <= Base
  PROVE  Floor(m, b) <= m
<1> DEFINE q == Floor(m, b)
<1>1. q \in Nat /\ Base * q <= m * b
  BY FloorFacts, ZenonT(30)
<1>2. m * b <= m * Base
  BY PayoutAssumption
<1>3. Base * q <= Base * m
  BY <1>1, <1>2, PayoutAssumption
<1> HIDE DEF q
<1>4. q <= m
  <2> SUFFICES ASSUME q >= m + 1 PROVE FALSE
    BY <1>1
  <2>1. Base * q >= Base * (m + 1)
    BY <1>1, PayoutAssumption
  <2>2. Base * (m + 1) = Base * m + Base
    BY PayoutAssumption
  <2> QED
    BY <1>1, <1>3, <2>1, <2>2, PayoutAssumption
<1> QED
  BY <1>4 DEF q

(* Paying one more floored share keeps the distance to the exact shares. *)
LEMMA OneMoreShare ==
  ASSUME NEW r \in Nat, NEW d \in Nat, NEW t \in Nat, NEW p \in Nat, NEW k \in Nat,
         Base * d <= r * t, r * t <= Base * d + k * (Base - 1)
  PROVE  /\ Base * (d + Floor(r, p)) <= r * (t + p)
         /\ r * (t + p) <= Base * (d + Floor(r, p)) + (k + 1) * (Base - 1)
<1> DEFINE q == Floor(r, p)
<1>1. q \in Nat /\ Base * q <= r * p /\ r * p <= Base * q + (Base - 1)
  BY FloorFacts, ZenonT(30)
<1> HIDE DEF q
<1>2. /\ r * (t + p) = r * t + r * p
      /\ Base * (d + q) = Base * d + Base * q
      /\ (k + 1) * (Base - 1) = k * (Base - 1) + (Base - 1)
  BY <1>1, PayoutAssumption
<1> DEFINE rt == r * t
           rp == r * p
           bd == Base * d
           bq == Base * q
           kb == k * (Base - 1)
<1>3. rt \in Int /\ rp \in Int /\ bd \in Int /\ bq \in Int /\ kb \in Int /\ Base \in Int
  BY <1>1, PayoutAssumption
<1>4. bd <= rt /\ rt <= bd + kb /\ bq <= rp /\ rp <= bq + (Base - 1)
  BY <1>1
<1>5. /\ r * (t + p) = rt + rp /\ Base * (d + q) = bd + bq
      /\ (k + 1) * (Base - 1) = kb + (Base - 1)
  BY <1>2
<1> HIDE DEF rt, rp, bd, bq, kb
<1>6. /\ Base * (d + q) <= r * (t + p)
      /\ r * (t + p) <= Base * (d + q) + (k + 1) * (Base - 1)
  BY <1>3, <1>4, <1>5
<1> QED
  BY <1>6 DEF q

(* What is left for the last recipient. *)
LEMMA LastShare ==
  ASSUME NEW r \in Nat, NEW d \in Nat, NEW t \in Nat, NEW p \in Nat, NEW k \in Nat,
         Base * d <= r * t, r * t <= Base * d + k * (Base - 1), t + p <= Base
  PROVE  /\ d <= r
         /\ r - d >= Floor(r, p)
         /\ t + p = Base => r - d < Floor(r, p) + (k + 1)
<1> DEFINE q == Floor(r, p)
           n == d + q
<1>1. q \in Nat
  BY FloorFacts, ZenonT(30)
<1>2. /\ Base * n <= r * (t + p)
      /\ r * (t + p) <= Base * n + (k + 1) * (Base - 1)
  BY OneMoreShare, ZenonT(30)
<1>3. n \in Nat
  BY <1>1
<1> HIDE DEF n
<1>4. r * (t + p) <= r * Base
  BY PayoutAssumption
<1>5. Base * n <= Base * r
  BY <1>2, <1>3, <1>4, PayoutAssumption
<1>6. n <= r
  <2> SUFFICES ASSUME n >= r + 1 PROVE FALSE
    BY <1>3
  <2>1. Base * n >= Base * (r + 1)
    BY <1>3, PayoutAssumption
  <2>2. Base * (r + 1) = Base * r + Base
    BY PayoutAssumption
  <2> QED
    BY <1>3, <1>5, <2>1, <2>2, PayoutAssumption
<1>7. ASSUME t + p = Base PROVE r < n + (k + 1)
  <2> SUFFICES ASSUME r >= n + (k + 1) PROVE FALSE
    BY <1>3
  <2>1. Base * r >= Base * (n + (k + 1))
    BY <1>3, PayoutAssumption
  <2>2. Base * (n + (k + 1)) = Base * n + Base * (k + 1)
    BY <1>3, PayoutAssumption
  <2>3. (k + 1) * (Base - 1) = Base * (k + 1) - (k + 1)
    BY PayoutAssumption
  <2>4. Base * r <= Base * n + (k + 1) * (Base - 1)
    BY <1>2, <1>7, PayoutAssumption
  <2> QED
    BY <1>3, <2>1, <2>2, <2>3, <2>4, PayoutAssumption
<1>8. d <= r /\ r - d >= q
  BY <1>1, <1>6 DEF n
<1>9. t + p = Base => r - d < q + (k + 1)
  BY <1>1, <1>7 DEF n
<1> QED
  BY <1>8, <1>9 DEF q

----------------------------------------------------------------------------
(* The invariant *)

LEMMA InvInit == Init => IInv
<1> SUFFICES ASSUME Init PROVE IInv
  OBVIOUS
<1> USE PayoutAssumption
<1>1. PTypeOK
  BY DEF Init, PTypeOK, Sale, Bps, Claim, Size
<1>2. Totals
  <2>1. totals = <<>> /\ Len(totals) = 0 /\ Size \in Nat /\ stage = "validate"
    BY DEF Init, Size, Sale
  <2> QED
    BY <2>1 DEF Totals, Before
<1>3. Money /\ Claims /\ LastAbsorbsDust
  BY DEF Init, Money, Claims, LastAbsorbsDust
<1> QED
  BY <1>1, <1>2, <1>3 DEF IInv

(* The recipients of a sale have addresses and percentages. *)
LEMMA RecipientType ==
  ASSUME PTypeOK, NEW i \in 1..Size
  PROVE  /\ sale.recipients[i].address \in Accounts
         /\ sale.recipients[i].percentage \in Nat
         /\ sale.recipients[i].address \in Addresses
<1>1. sale.recipients \in Seq(Recipient) /\ Size = Len(sale.recipients)
  BY DEF PTypeOK, Sale, Size
<1>2. sale.recipients[i] \in Recipient
  BY <1>1
<1> QED
  BY <1>2 DEF Recipient, Addresses

LEMMA BeforeType ==
  ASSUME PTypeOK, NEW i \in 0..Len(totals)
  PROVE  Before(i) \in Nat
<1>1. CASE i = 0
  BY <1>1 DEF Before
<1>2. CASE i \in 1..Len(totals)
  BY <1>2 DEF PTypeOK, Before
<1> QED
  BY <1>1, <1>2 DEF PTypeOK

LEMMA CheckKeepsInv == IInv /\ CheckRecipient => IInv'
<1> SUFFICES ASSUME IInv, CheckRecipient PROVE IInv'
  OBVIOUS
<1>k. PICK k \in Nat : k = Len(totals)
  BY DEF IInv, PTypeOK
<1> DEFINE r == sale.recipients[k + 1]
<1>0. /\ PTypeOK /\ Totals /\ Money /\ Claims
      /\ stage = "validate" /\ k \in Nat /\ k < Size /\ Size \in Nat
      /\ k + 1 \in 1..Size
  BY <1>k DEF IInv, CheckRecipient, PTypeOK, Sale, Size
<1>1. r.address \in Accounts /\ r.percentage \in Nat
  BY <1>k, <1>0, RecipientType
<1>2. Running = Before(k) /\ Running \in Nat
  BY <1>k, <1>0 DEF Running, Before, PTypeOK
<1>3. CASE stage' = stage
  <2>1. /\ totals' = Append(totals, Running + r.percentage)
        /\ \A j \in 1..k : sale.recipients[j].address # r.address
    BY <1>k, <1>0, <1>3 DEF CheckRecipient
  <2>2. /\ totals' \in Seq(Nat) /\ Len(totals') = k + 1
        /\ \A i \in 1..k : totals'[i] = totals[i]
        /\ totals'[k + 1] = Running + r.percentage
    <3>1. totals \in Seq(Nat) /\ Running + r.percentage \in Nat
      BY <1>0, <1>1, <1>2, SMTT(30) DEF PTypeOK
    <3> HIDE DEF r
    <3> QED
      BY <1>k, <2>1, <3>1
  <2>3. \A i \in 0..k : Before(i)' = Before(i)
    BY <1>k, <1>0, <2>2 DEF Before
  <2>4. Before(k + 1)' = Before(k) + r.percentage
    BY <1>k, <1>0, <1>2, <2>2 DEF Before
  <2>5. PTypeOK'
    BY <1>k, <1>0, <1>3, <2>2 DEF PTypeOK, CheckRecipient, configVars, payVars, Size
  <2>6. Totals'
    <3>1. Size' = Size /\ sale' = sale /\ stage' = "validate"
      BY <1>k, <1>0, <1>3 DEF CheckRecipient, Size
    <3>2. \A i \in 1..Len(totals') :
            totals'[i] = Before(i - 1)' + sale.recipients[i].percentage
      <4> SUFFICES ASSUME NEW i \in 1..(k + 1)
                   PROVE  totals'[i] = Before(i - 1)' + sale.recipients[i].percentage
        BY <2>2
      <4>1. CASE i = k + 1
        BY <1>k, <1>0, <1>2, <2>2, <2>3, <4>1
      <4>2. CASE i \in 1..k
        <5>1. totals[i] = Before(i - 1) + sale.recipients[i].percentage
          BY <1>k, <1>0, <4>2 DEF Totals
        <5>2. i - 1 \in 0..k /\ totals'[i] = totals[i]
          BY <2>2, <4>2
        <5>3. Before(i - 1)' = Before(i - 1)
          BY <2>3, <5>2
        <5> QED
          BY <5>1, <5>2, <5>3
      <4> QED
        BY <1>k, <1>0, <4>1, <4>2
    <3>3. \A i, j \in 0..Len(totals') : i <= j => Before(i)' <= Before(j)'
      <4> SUFFICES ASSUME NEW i \in 0..(k + 1), NEW j \in 0..(k + 1), i <= j
                   PROVE  Before(i)' <= Before(j)'
        BY <2>2
      <4>1. CASE j \in 0..k
        BY <1>k, <1>0, <2>3, <4>1 DEF Totals
      <4>2. CASE i = k + 1
        <5>1. j = k + 1
          BY <1>k, <1>0, <4>2
        <5>2. Before(k + 1)' \in Nat
          BY <1>k, <1>0, <1>1, <1>2, <2>4
        <5> QED
          BY <4>2, <5>1, <5>2
      <4>3. CASE i \in 0..k /\ j = k + 1
        <5>1. Before(i)' <= Before(k) /\ Before(i)' \in Nat /\ Before(k) \in Nat
          BY <1>k, <1>0, <2>3, <4>3, BeforeType DEF Totals
        <5> QED
          BY <1>1, <2>4, <4>3, <5>1
      <4> QED
        BY <1>k, <1>0, <4>1, <4>2, <4>3
    <3>4. \A i, j \in 1..Len(totals') :
            i # j => sale.recipients[i].address # sale.recipients[j].address
      BY <1>k, <1>0, <2>1, <2>2 DEF Totals
    <3> QED
      BY <1>k, <1>0, <2>2, <3>1, <3>2, <3>3, <3>4 DEF Totals
  <2>7. Money' /\ Claims' /\ LastAbsorbsDust'
    BY <1>k, <1>0, <1>3 DEF Money, Claims, LastAbsorbsDust, CheckRecipient, payVars
  <2> QED
    BY <2>5, <2>6, <2>7 DEF IInv
<1>4. CASE stage' = "rejected" /\ totals' = totals
  <2>1. PTypeOK' /\ Totals'
    BY <1>k, <1>0, <1>4 DEF PTypeOK, Totals, Before, CheckRecipient, configVars, payVars, Size
  <2>2. Money' /\ Claims' /\ LastAbsorbsDust'
    BY <1>k, <1>0, <1>4 DEF Money, Claims, LastAbsorbsDust, CheckRecipient, payVars
  <2> QED
    BY <2>1, <2>2 DEF IInv
<1> QED
  BY <1>k, <1>3, <1>4 DEF CheckRecipient

LEMMA CreateKeepsInv == IInv /\ Create => IInv'
<1> SUFFICES ASSUME IInv, Create PROVE IInv'
  OBVIOUS
<1>0. /\ PTypeOK /\ Totals /\ Money /\ Claims /\ stage = "validate"
      /\ sale' = sale /\ totals' = totals /\ Size' = Size /\ Size \in Nat
  BY DEF IInv, Create, PTypeOK, Sale, Size
<1>1. CASE stage' = "rejected" /\ snapshot' = snapshot
  <2>1. PTypeOK' /\ Totals'
    BY <1>0, <1>1 DEF PTypeOK, Totals, Before, Create, configVars, payVars
  <2>2. Money' /\ Claims' /\ LastAbsorbsDust'
    BY <1>0, <1>1 DEF Money, Claims, LastAbsorbsDust, Create, payVars
  <2> QED
    BY <2>1, <2>2 DEF IInv
<1>2. CASE /\ stage' = "listed" /\ snapshot' = protocolFee
           /\ Size \in 1..MaxRecipients /\ Running <= Base
  <2>1. Len(totals) = Size /\ totals[Size] <= Base
    BY <1>0, <1>2 DEF Create, Running, PTypeOK
  <2>2. PTypeOK'
    BY <1>0, <1>2, <2>1 DEF PTypeOK, Create, configVars, payVars
  <2>3. Totals'
    BY <1>0, <2>1 DEF Totals, Before
  <2>4. Money' /\ Claims' /\ LastAbsorbsDust'
    BY <1>0, <1>2 DEF Money, Claims, LastAbsorbsDust, Create, payVars
  <2> QED
    BY <2>2, <2>3, <2>4 DEF IInv
<1> QED
  BY <1>1, <1>2 DEF Create

LEMMA ConfigKeepsInv ==
  ASSUME IInv,
         \/ \E bps \in FeeRates : SetProtocolFee(bps)
         \/ \E bps \in FeeRates \cup {None} : SetCollectionFee(bps)
         \/ \E t \in Treasuries : SetTreasury(t)
  PROVE  IInv'
<1>1. /\ stage = "listed" /\ stage' = stage /\ sale' = sale /\ totals' = totals
      /\ snapshot' = snapshot /\ remaining' = remaining /\ paid' = paid
      /\ distributed' = distributed /\ last' = last /\ balance' = balance
      /\ received' = received /\ claim' = claim /\ refs' = refs
  BY DEF SetProtocolFee, SetCollectionFee, SetTreasury, payVars
<1>2. protocolFee' \in Bps /\ override' \in Bps \cup {None} /\ treasury' \in Accounts \cup {None}
  BY PayoutAssumption DEF IInv, PTypeOK, SetProtocolFee, SetCollectionFee, SetTreasury
<1>3. PTypeOK'
  BY <1>1, <1>2 DEF IInv, PTypeOK, Size
<1>4. Totals' /\ Money' /\ Claims' /\ LastAbsorbsDust'
  BY <1>1 DEF IInv, Totals, Before, Size, Money, Claims, LastAbsorbsDust
<1> QED
  BY <1>3, <1>4 DEF IInv

(* A reverted settlement leaves the sale as it was listed. *)
LEMMA AbortKeepsInv ==
  ASSUME IInv, Abort, stage \in {"listed", "fee", "shares"},
         UNCHANGED <<sale, totals, snapshot, configVars>>
  PROVE  IInv'
<1>1. PTypeOK'
  BY PayoutAssumption DEF IInv, PTypeOK, Abort, configVars, Size
<1>2. Totals'
  BY SMTT(30) DEF IInv, Totals, Before, Abort, Size
<1>3. Money' /\ Claims' /\ LastAbsorbsDust'
  BY DEF Abort, Money, Claims, LastAbsorbsDust
<1> QED
  BY <1>1, <1>2, <1>3 DEF IInv

(* What a transfer with its claim record does to the accounts. *)
ClaimEffect(a, m, h) ==
  /\ balance' = h - m /\ received' \in [Accounts -> Int]
  /\ claim' \in [Accounts -> Claim \cup {None}] /\ refs' \in [Accounts -> Nat]
  /\ claim'[a] # None /\ claim'[a].amount = m /\ claim'[a].claimed
  /\ received'[a] = received[a] + m
  /\ refs'[a] = IF claim[a] = None THEN refs[a] + 1 ELSE refs[a]
  /\ \A b \in Accounts : b # a =>
       claim'[b] = claim[b] /\ received'[b] = received[b] /\ refs'[b] = refs[b]

LEMMA ClaimTypes ==
  ASSUME PTypeOK, NEW a \in Accounts, NEW m \in Int, NEW h \in Int,
         PayWithClaim(a, m, h)
  PROVE  ClaimEffect(a, m, h)
<1>1. [amount |-> m, claimed |-> TRUE] \in Claim
  BY DEF Claim
<1>2. None \notin Claim
  BY PayoutAssumption
<1>3. /\ balance' = h - m
      /\ received' = [received EXCEPT ![a] = @ + m]
      /\ claim' = [claim EXCEPT ![a] = [amount |-> m, claimed |-> TRUE]]
      /\ refs' = [refs EXCEPT ![a] = IF claim[a] = None THEN @ + 1 ELSE @]
  BY DEF PayWithClaim, Transfer
<1>4. /\ received \in [Accounts -> Int] /\ refs \in [Accounts -> Nat]
      /\ claim \in [Accounts -> Claim \cup {None}]
  BY DEF PTypeOK
<1>5. received' \in [Accounts -> Int] /\ received'[a] = received[a] + m
  BY <1>3, <1>4
<1>6. /\ claim' \in [Accounts -> Claim \cup {None}]
      /\ claim'[a] = [amount |-> m, claimed |-> TRUE]
  BY <1>1, <1>3, <1>4
<1>7. claim'[a] # None /\ claim'[a].amount = m /\ claim'[a].claimed
  <2>1. claim'[a] # None
    BY <1>1, <1>2, <1>6, ZenonT(30)
  <2>2. claim'[a].amount = m
    BY <1>6
  <2>3. claim'[a].claimed = TRUE
    BY <1>6
  <2> QED
    BY <2>1, <2>2, <2>3
<1>8. /\ refs' \in [Accounts -> Nat]
      /\ refs'[a] = IF claim[a] = None THEN refs[a] + 1 ELSE refs[a]
  BY <1>3, <1>4
<1>9. \A b \in Accounts : b # a =>
        claim'[b] = claim[b] /\ received'[b] = received[b] /\ refs'[b] = refs[b]
  BY <1>3, <1>4
<1> QED
  BY <1>3, <1>5, <1>6, <1>7, <1>8, <1>9 DEF ClaimEffect

LEMMA RoyaltyKeepsInv == IInv /\ PayRoyalty => IInv'
<1> SUFFICES ASSUME IInv, PayRoyalty PROVE IInv'
  OBVIOUS
<1> DEFINE royalty == IF RoyaltyDue THEN Floor(sale.amount, sale.royalty) ELSE 0
<1>0. /\ PTypeOK /\ Totals /\ Money /\ Claims /\ stage = "listed"
      /\ UNCHANGED <<sale, totals, snapshot, configVars>>
  BY DEF IInv, PayRoyalty
<1>1. CASE Abort
  BY <1>0, <1>1, AbortKeepsInv
<1>2. CASE ~Abort
  <2>1. sale.amount \in Nat /\ sale.royalty \in Nat /\ sale.royalty <= Base
        /\ sale.receiver \in Accounts
    BY <1>0, PayoutAssumption DEF PTypeOK, Sale, Bps
  <2>2. royalty \in Nat /\ royalty <= sale.amount
    <3>1. Floor(sale.amount, sale.royalty) \in Nat
      BY <2>1, FloorFacts, ZenonT(30)
    <3>2. Floor(sale.amount, sale.royalty) <= sale.amount
      BY <2>1, FloorAtMost
    <3> QED
      BY <2>1, <3>1, <3>2
  <2>3. /\ stage' = "fee" /\ remaining' = sale.amount - royalty
        /\ paid' = paid /\ distributed' = distributed /\ last' = last
        /\ IF RoyaltyDue THEN PayWithClaim(sale.receiver, royalty, sale.amount)
           ELSE balance' = sale.amount /\ UNCHANGED <<received, claim, refs>>
    BY <1>2 DEF PayRoyalty
  <2> HIDE DEF royalty
  <2>c. ASSUME RoyaltyDue PROVE ClaimEffect(sale.receiver, royalty, sale.amount)
    <3>1. PayWithClaim(sale.receiver, royalty, sale.amount)
      BY <2>3, <2>c
    <3>2. royalty \in Int /\ sale.amount \in Int /\ sale.receiver \in Accounts
      BY <2>1, <2>2
    <3> QED
      BY <1>0, <3>1, <3>2, ClaimTypes
  <2>4. /\ sale' = sale /\ totals' = totals /\ snapshot' = snapshot
        /\ protocolFee' = protocolFee /\ override' = override /\ treasury' = treasury
        /\ Size' = Size /\ RoyaltyDue' = RoyaltyDue /\ Addresses' = Addresses
    BY <1>0 DEF configVars, Size, RoyaltyDue, Addresses
  <2>5. paid = 0 /\ distributed = 0
    BY <1>0 DEF Money
  <2>6. /\ balance' = sale.amount - royalty /\ received' \in [Accounts -> Int]
        /\ claim' \in [Accounts -> Claim \cup {None}] /\ refs' \in [Accounts -> Nat]
    <3>1. CASE RoyaltyDue
      BY <2>c, <3>1 DEF ClaimEffect
    <3>2. CASE ~RoyaltyDue
      BY <1>0, <2>1, <2>3, <3>2 DEF PTypeOK, royalty
    <3> QED
      BY <3>1, <3>2
  <2>7. PTypeOK'
    <3>1. remaining' \in Nat /\ balance' \in Int
      BY <2>1, <2>2, <2>3, <2>6
    <3> QED
      BY <1>0, <2>3, <2>4, <2>6, <3>1, ZenonT(30) DEF PTypeOK
  <2>8. Totals'
    BY <1>0, <2>3, <2>4, SMTT(30) DEF Totals, Before
  <2>9. Money'
    BY <2>1, <2>2, <2>3, <2>4, <2>5, <2>6 DEF Money
  <2>10. Claims'
    <3> SUFFICES ASSUME NEW a \in Accounts
                 PROVE  /\ claim'[a] # None <=> Paid(a)' \/ Due(a)'
                        /\ refs'[a] = IF claim'[a] = None THEN 0 ELSE 1
                        /\ claim'[a] = None /\ a # treasury' => received'[a] = 0
                        /\ claim'[a] # None =>
                             /\ claim'[a].claimed
                             /\ a # treasury' /\ ~(Due(a)' /\ a \in Addresses') =>
                                  claim'[a].amount = received'[a]
      BY <2>3 DEF Claims
    <3>1. ~Paid(a)' /\ (Due(a)' <=> RoyaltyDue /\ a = sale.receiver)
      BY <2>3, <2>4, <2>5 DEF Paid, Due
    <3>2. claim[a] = None /\ refs[a] = 0 /\ received[a] = 0
      BY <1>0 DEF Claims
    <3>3. CASE RoyaltyDue /\ a = sale.receiver
      BY <2>2, <2>c, <3>1, <3>2, <3>3 DEF ClaimEffect
    <3>4. CASE RoyaltyDue /\ a # sale.receiver
      BY <2>c, <3>1, <3>2, <3>4 DEF ClaimEffect
    <3>5. CASE ~RoyaltyDue
      BY <2>3, <3>1, <3>2, <3>5
    <3> QED
      BY <3>3, <3>4, <3>5
  <2>11. LastAbsorbsDust'
    BY <2>3 DEF LastAbsorbsDust
  <2> QED
    BY <2>7, <2>8, <2>9, <2>10, <2>11 DEF IInv
<1> QED
  BY <1>1, <1>2

LEMMA FeeKeepsInv == IInv /\ PayFee => IInv'
<1> SUFFICES ASSUME IInv, PayFee PROVE IInv'
  OBVIOUS
<1> DEFINE fee == Floor(remaining, FeeRate)
<1>0. /\ PTypeOK /\ Totals /\ Money /\ Claims /\ stage = "fee"
      /\ UNCHANGED <<sale, totals, snapshot, configVars>>
  BY DEF IInv, PayFee
<1>1. CASE Abort
  BY <1>0, <1>1, AbortKeepsInv
<1>2. CASE ~Abort
  <2>1. remaining \in Nat /\ FeeRate \in Nat /\ FeeRate <= Base
    BY <1>0, PayoutAssumption DEF PTypeOK, FeeRate, Bps
  <2>2. fee \in Nat /\ fee <= remaining
    BY <2>1, FloorFacts, FloorAtMost, ZenonT(30)
  <2>3. /\ stage' = "shares" /\ remaining' = remaining - fee
        /\ paid' = paid /\ distributed' = distributed /\ last' = last
        /\ claim' = claim /\ refs' = refs
        /\ IF fee > 0 THEN Transfer(treasury, fee, balance) ELSE UNCHANGED <<balance, received>>
    BY <1>2 DEF PayFee
  <2>4. fee > 0 => treasury \in Accounts
    <3> SUFFICES ASSUME treasury = None PROVE fee = 0
      BY <1>0, <2>2 DEF PTypeOK
    <3>1. FeeRate = 0
      BY DEF FeeRate
    <3>2. Floor(remaining, 0) <= 0
      <4>1. Base * Floor(remaining, 0) <= remaining * 0 /\ Floor(remaining, 0) \in Nat
        BY <2>1, FloorFacts, ZenonT(30)
      <4>2. Base * Floor(remaining, 0) <= 0
        BY <2>1, <4>1
      <4> QED
        BY <4>1, <4>2, PayoutAssumption
    <3> QED
      BY <2>2, <3>1, <3>2
  <2> HIDE DEF fee
  <2>5. /\ sale' = sale /\ totals' = totals /\ snapshot' = snapshot
        /\ protocolFee' = protocolFee /\ override' = override /\ treasury' = treasury
        /\ Size' = Size /\ RoyaltyDue' = RoyaltyDue /\ Addresses' = Addresses
    BY <1>0 DEF configVars, Size, RoyaltyDue, Addresses
  <2>6. paid = 0 /\ distributed = 0 /\ balance = remaining /\ remaining <= sale.amount
    BY <1>0 DEF Money
  <2>7. /\ balance' = remaining - fee /\ received' \in [Accounts -> Int]
        /\ \A a \in Accounts : a # treasury => received'[a] = received[a]
    <3>1. CASE fee > 0
      BY <1>0, <2>2, <2>3, <2>4, <2>6, <3>1 DEF Transfer, PTypeOK
    <3>2. CASE fee = 0
      BY <1>0, <2>1, <2>3, <2>6, <3>2 DEF PTypeOK
    <3> QED
      BY <2>2, <3>1, <3>2
  <2>8. PTypeOK'
    BY <1>0, <2>1, <2>2, <2>3, <2>5, <2>6, <2>7 DEF PTypeOK
  <2>9. Totals'
    BY <1>0, <2>3, <2>5 DEF Totals, Before
  <2>10. Money'
    <3>1. Size > 0 /\ sale.amount \in Nat
      BY <1>0 DEF PTypeOK, Sale
    <3>2. /\ Before(paid)' = 0 /\ remaining' \in Nat
      BY <2>2, <2>1, <2>3, <2>6 DEF Before
    <3>3. /\ Base * distributed' <= remaining' * Before(paid)'
          /\ remaining' * Before(paid)' <= Base * distributed' + paid' * (Base - 1)
      BY <2>3, <2>6, <3>2, PayoutAssumption
    <3> QED
      BY <2>1, <2>2, <2>3, <2>5, <2>6, <2>7, <3>1, <3>3 DEF Money
  <2>11. Claims'
    <3>1. \A a \in Accounts : Paid(a)' = Paid(a) /\ Due(a)' = Due(a)
      BY <2>3, <2>5 DEF Paid, Due
    <3> QED
      BY <1>0, <2>3, <2>5, <2>7, <3>1 DEF Claims
  <2>12. LastAbsorbsDust'
    BY <2>3 DEF LastAbsorbsDust
  <2> QED
    BY <2>8, <2>9, <2>10, <2>11, <2>12 DEF IInv
<1> QED
  BY <1>1, <1>2

LEMMA ShareKeepsInv == IInv /\ PayShare => IInv'
<1> SUFFICES ASSUME IInv, PayShare PROVE IInv'
  OBVIOUS
<1>0. /\ PTypeOK /\ Totals /\ Money /\ Claims /\ stage = "shares"
      /\ UNCHANGED <<sale, totals, snapshot, configVars>>
  BY DEF IInv, PayShare
<1>1. CASE Abort
  BY <1>0, <1>1, AbortKeepsInv
<1>2. CASE ~Abort
  <2>1. /\ paid \in Nat /\ paid < Size /\ Size \in Nat /\ Len(totals) = Size
        /\ distributed \in Nat /\ remaining \in Nat /\ balance = remaining - distributed
        /\ paid + 1 \in 1..Size /\ paid \in 0..Len(totals)
    BY <1>0 DEF PTypeOK, Money
  <2>2. PICK k \in Nat : k = paid
    BY <2>1
  <2> DEFINE r == sale.recipients[k + 1]
             q == Floor(remaining, r.percentage)
             amount == IF k + 1 = Size THEN remaining - distributed ELSE q
  <2>3. /\ r.address \in Accounts /\ r.percentage \in Nat /\ r.address \in Addresses
    BY <1>0, <2>1, <2>2, RecipientType
  <2>4. Before(k) \in Nat /\ totals[k + 1] = Before(k) + r.percentage
    <3>1. Before(k) \in Nat
      BY <1>0, <2>1, <2>2, BeforeType
    <3>2. totals[k + 1] = Before((k + 1) - 1) + sale.recipients[k + 1].percentage
      BY <1>0, <2>1, <2>2 DEF Totals
    <3>3. (k + 1) - 1 = k
      OBVIOUS
    <3> QED
      BY <3>1, <3>2, <3>3
  <2>5. totals[k + 1] <= Base
    <3>1. Before(k + 1) <= Before(Size)
      BY <1>0, <2>1, <2>2 DEF Totals
    <3>2. Before(k + 1) = totals[k + 1] /\ Before(Size) = totals[Size]
      BY <2>1, <2>2 DEF Before
    <3>3. totals[k + 1] \in Nat /\ totals[Size] \in Nat
      <4>1. k + 1 \in 0..Len(totals) /\ Size \in 0..Len(totals)
        BY <2>1, <2>2
      <4> QED
        BY <1>0, <3>2, <4>1, BeforeType
    <3> QED
      BY <1>0, <3>1, <3>2, <3>3, PayoutAssumption DEF Totals
  <2>6. /\ Base * distributed <= remaining * Before(k)
        /\ remaining * Before(k) <= Base * distributed + k * (Base - 1)
    BY <1>0, <2>2 DEF Money
  <2>7. q \in Nat
    BY <2>1, <2>3, FloorFacts, ZenonT(30)
  <2>8. /\ Base * (distributed + q) <= remaining * (Before(k) + r.percentage)
        /\ remaining * (Before(k) + r.percentage)
             <= Base * (distributed + q) + (k + 1) * (Base - 1)
    BY <2>1, <2>3, <2>4, <2>6, OneMoreShare, ZenonT(30)
  <2>9. /\ distributed <= remaining
        /\ remaining - distributed >= q
        /\ Before(k) + r.percentage = Base => remaining - distributed < q + (k + 1)
    <3>1. Before(k) + r.percentage <= Base
      BY <2>4, <2>5
    <3> HIDE DEF r
    <3> QED
      BY <2>1, <2>3, <2>4, <2>6, <3>1, LastShare, ZenonT(30)
  <2>10. /\ paid' = k + 1 /\ distributed' = distributed + amount /\ last' = amount
         /\ stage' = IF k + 1 = Size THEN "done" ELSE stage
         /\ PayWithClaim(r.address, amount, balance) /\ remaining' = remaining
    BY <1>2, <2>2 DEF PayShare
  <2>11. /\ sale' = sale /\ totals' = totals /\ snapshot' = snapshot
         /\ protocolFee' = protocolFee /\ override' = override /\ treasury' = treasury
         /\ Size' = Size /\ RoyaltyDue' = RoyaltyDue /\ Addresses' = Addresses
    BY <1>0 DEF configVars, Size, RoyaltyDue, Addresses
  <2>12. amount \in Nat
    BY <2>1, <2>7, <2>9
  <2> HIDE DEF q, amount
  <2>13. ClaimEffect(r.address, amount, balance)
    <3>1. amount \in Int /\ balance \in Int
      BY <1>0, <2>12 DEF PTypeOK
    <3> QED
      BY <1>0, <2>3, <2>10, <3>1, ClaimTypes
  <2>14. /\ balance' = balance - amount /\ received' \in [Accounts -> Int]
         /\ claim' \in [Accounts -> Claim \cup {None}] /\ refs' \in [Accounts -> Nat]
    BY <2>13 DEF ClaimEffect
  <2>15. PTypeOK'
    <3>1. /\ paid' \in Nat /\ distributed' \in Nat /\ last' \in Nat /\ balance' \in Int
          /\ stage' \in {"shares", "done"}
      BY <1>0, <2>1, <2>10, <2>12, <2>14, SMTT(30)
    <3> QED
      BY <1>0, <2>10, <2>11, <2>14, <3>1 DEF PTypeOK
  <2>16. Totals'
    BY <1>0, <2>10, <2>11, ZenonT(30) DEF Totals, Before
  <2>17. Money'
    <3>1. CASE k + 1 = Size
      BY <2>1, <2>10, <2>11, <2>12, <2>14, <3>1 DEF Money, amount
    <3>2. CASE k + 1 # Size
      <4>1. amount = q /\ stage' = "shares" /\ k + 1 < Size
        BY <1>0, <2>1, <2>2, <2>10, <3>2 DEF amount
      <4>2. Before(paid)' = Before(k) + r.percentage
        BY <2>4, <2>10, <2>11 DEF Before
      <4>3. /\ Base * distributed' <= remaining' * Before(paid)'
            /\ remaining' * Before(paid)' <= Base * distributed' + paid' * (Base - 1)
        BY <2>8, <2>10, <4>1, <4>2
      <4>4. balance' = remaining' - distributed' /\ remaining' <= sale'.amount
        BY <1>0, <2>1, <2>10, <2>11, <2>12, <2>14 DEF Money
      <4> QED
        BY <2>10, <2>11, <4>1, <4>3, <4>4 DEF Money
    <3> QED
      BY <3>1, <3>2
  <2>18. Claims'
    <3> SUFFICES ASSUME NEW a \in Accounts
                 PROVE  /\ claim'[a] # None <=> Paid(a)' \/ Due(a)'
                        /\ refs'[a] = IF claim'[a] = None THEN 0 ELSE 1
                        /\ claim'[a] = None /\ a # treasury' => received'[a] = 0
                        /\ claim'[a] # None =>
                             /\ claim'[a].claimed
                             /\ a # treasury' /\ ~(Due(a)' /\ a \in Addresses') =>
                                  claim'[a].amount = received'[a]
      BY <1>0, <2>10 DEF Claims
    <3>1. Due(a)' = Due(a)
      BY <2>11 DEF Due
    <3>2. Paid(a)' <=> Paid(a) \/ a = r.address
      <4>1. Paid(a) <=> \E i \in 1..k : sale.recipients[i].address = a
        BY <2>2 DEF Paid
      <4>2. Paid(a)' <=> \E i \in 1..(k + 1) : sale.recipients[i].address = a
        BY <2>10, <2>11 DEF Paid
      <4>3. 1..(k + 1) = (1..k) \cup {k + 1}
        BY SMTT(30)
      <4> QED
        BY <4>1, <4>2, <4>3
    <3>3. CASE a = r.address
      <4>1. ~Paid(a)
        <5>1. \A i \in 1..k : sale.recipients[i].address # r.address
          BY <1>0, <2>1, <2>2 DEF Totals
        <5> QED
          BY <2>2, <3>3, <5>1 DEF Paid
      <4>2. a # treasury /\ ~Due(a) => received[a] = 0
        BY <1>0, <4>1 DEF Claims
      <4>3. refs[a] = IF claim[a] = None THEN 0 ELSE 1
        BY <1>0 DEF Claims
      <4>4. /\ claim'[a] # None /\ claim'[a].amount = amount /\ claim'[a].claimed
            /\ received'[a] = received[a] + amount
            /\ refs'[a] = IF claim[a] = None THEN refs[a] + 1 ELSE refs[a]
        BY <2>13, <3>3 DEF ClaimEffect
      <4>5. a \in Addresses'
        BY <2>3, <2>11, <3>3, SMTT(30)
      <4> QED
        BY <2>11, <2>12, <3>1, <3>2, <3>3, <4>2, <4>3, <4>4, <4>5
    <3>4. CASE a # r.address
      <4>1. claim'[a] = claim[a] /\ received'[a] = received[a] /\ refs'[a] = refs[a]
        BY <2>13, <3>4 DEF ClaimEffect
      <4> QED
        BY <1>0, <2>11, <3>1, <3>2, <3>4, <4>1 DEF Claims
    <3> QED
      BY <3>3, <3>4
  <2>19. LastAbsorbsDust'
    <3> SUFFICES ASSUME stage' = "done"
                 PROVE  LET share == Floor(remaining', sale'.recipients[Size'].percentage) IN
                        /\ last' >= share
                        /\ totals'[Size'] = Base => last' < share + Size'
      BY DEF LastAbsorbsDust
    <3>1. k + 1 = Size
      BY <1>0, <2>10
    <3>2. Floor(remaining', sale'.recipients[Size'].percentage) = q /\ last' = remaining - distributed
      BY <2>10, <2>11, <3>1 DEF q, amount
    <3> QED
      BY <2>4, <2>9, <2>11, <3>1, <3>2
  <2> QED
    BY <2>15, <2>16, <2>17, <2>18, <2>19 DEF IInv
<1> QED
  BY <1>1, <1>2

(* The invariant holds throughout. *)
THEOREM Invariance == Spec => []IInv
<1>1. IInv /\ [Next]_vars => IInv'
  <2> SUFFICES ASSUME IInv, [Next]_vars PROVE IInv'
    OBVIOUS
  <2>1. CASE CheckRecipient
    BY <2>1, CheckKeepsInv
  <2>2. CASE Create
    BY <2>2, CreateKeepsInv
  <2>3. CASE \/ \E bps \in FeeRates : SetProtocolFee(bps)
             \/ \E bps \in FeeRates \cup {None} : SetCollectionFee(bps)
             \/ \E t \in Treasuries : SetTreasury(t)
    BY <2>3, ConfigKeepsInv
  <2>4. CASE PayRoyalty
    BY <2>4, RoyaltyKeepsInv
  <2>5. CASE PayFee
    BY <2>5, FeeKeepsInv
  <2>6. CASE PayShare
    BY <2>6, ShareKeepsInv
  <2>7. CASE UNCHANGED vars
    <3>1. PTypeOK' /\ Totals'
      BY <2>7 DEF IInv, PTypeOK, Totals, Before, Size, vars, configVars, payVars
    <3>2. Money' /\ LastAbsorbsDust'
      BY <2>7 DEF IInv, Money, Before, Size, LastAbsorbsDust, vars, payVars
    <3>3. Claims'
      BY <2>7 DEF IInv, Claims, Paid, Due, RoyaltyDue, Addresses, Size, vars, payVars, configVars
    <3> QED
      BY <3>1, <3>2, <3>3 DEF IInv
  <2> QED
    BY <2>1, <2>2, <2>3, <2>4, <2>5, <2>6, <2>7 DEF Next
<1> QED
  BY <1>1, InvInit, PTL DEF Spec

(* Types, the running totals and the snapshot (validate_recipients, create). *)
THEOREM PayoutTypeCorrect == Spec => []PTypeOK
<1>1. IInv => PTypeOK
  BY DEF IInv
<1> QED
  BY <1>1, Invariance, PTL

(* A settlement pays out its own price, all of it and nothing else          *)
(* (distribute_payout_tracked, distribute).                                 *)
THEOREM SettlementCorrect == Spec => []SettlementExact
<1>1. IInv => SettlementExact
  <2> SUFFICES ASSUME IInv PROVE SettlementExact
    OBVIOUS
  <2>1. PTypeOK /\ Money /\ Totals
    BY DEF IInv
  <2>2. CASE stage = "shares"
    <3>1. /\ paid \in 0..Len(totals) /\ Len(totals) = Size /\ Size \in Nat
          /\ distributed \in Nat /\ remaining \in Nat /\ Size >= 1 /\ paid \in Nat
          /\ Size \in 0..Len(totals) /\ paid <= Size
      BY <2>1, <2>2 DEF PTypeOK, Money
    <3>2. Before(paid) \in Nat
      BY <2>1, <3>1, BeforeType
    <3>3. Before(paid) + 0 <= Base
      <4>1. Before(paid) <= Before(Size)
        BY <2>1, <3>1 DEF Totals
      <4>2. Before(Size) = totals[Size]
        BY <3>1 DEF Before
      <4>3. Before(Size) \in Nat
        BY <2>1, <3>1, BeforeType
      <4> QED
        BY <2>1, <2>2, <3>2, <4>1, <4>2, <4>3, PayoutAssumption DEF Totals
    <3>4. /\ Base * distributed <= remaining * Before(paid)
          /\ remaining * Before(paid) <= Base * distributed + paid * (Base - 1)
      BY <2>1, <2>2 DEF Money
    <3>5. distributed <= remaining
      BY <3>1, <3>2, <3>3, <3>4, LastShare, ZenonT(30)
    <3> QED
      BY <2>1, <2>2, <3>1, <3>5 DEF Money, SettlementExact
  <2>3. CASE stage # "shares"
    BY <2>1, <2>3 DEF PTypeOK, Money, SettlementExact
  <2> QED
    BY <2>2, <2>3
<1> QED
  BY <1>1, Invariance, PTL

(* Rounding dust goes to the last recipient and is less than one unit per *)
(* recipient (distribute).                                                *)
THEOREM DustCorrect == Spec => []LastAbsorbsDust
<1>1. IInv => LastAbsorbsDust
  BY DEF IInv
<1> QED
  BY <1>1, Invariance, PTL

(* Claim records tell what was paid (distribute_payout_tracked,           *)
(* set_royalty_claim).                                                    *)
THEOREM ClaimsCorrect == Spec => []ClaimsTellPayouts
<1>1. IInv => ClaimsTellPayouts
  <2> SUFFICES ASSUME IInv, stage = "done", NEW a \in Accounts
               PROVE  /\ claim[a] # None <=> (a \in Addresses \/ Due(a))
                      /\ refs[a] = IF claim[a] = None THEN 0 ELSE 1
                      /\ claim[a] # None =>
                           /\ claim[a].claimed
                           /\ a # treasury /\ ~(Due(a) /\ a \in Addresses) =>
                                claim[a].amount = received[a]
    BY ZenonT(30) DEF ClaimsTellPayouts, Due
  <2>1. Paid(a) <=> a \in Addresses
    BY DEF IInv, Money, Paid, Addresses
  <2> QED
    BY <2>1 DEF IInv, Claims
<1> QED
  BY <1>1, Invariance, PTL

(* A product of a smaller amount and a rate of at most 100 % fits as well. *)
LEMMA SmallerFits ==
  ASSUME NEW m \in Nat, NEW n \in Nat, NEW b \in Nat, n <= m, b <= Base, Fits(m, Base)
  PROVE  Fits(n, b)
<1>1. n * b <= m * b
  OBVIOUS
<1>2. m * b <= m * Base
  BY PayoutAssumption
<1>3. m * Base <= MaxInt
  BY DEF Fits
<1> DEFINE x == n * b
           y == m * b
           z == m * Base
<1>4. x \in Int /\ y \in Int /\ z \in Int /\ MaxInt \in Int
  BY PayoutAssumption
<1>5. x <= y /\ y <= z /\ z <= MaxInt
  BY <1>1, <1>2, <1>3
<1> HIDE DEF x, y, z
<1>6. x <= MaxInt
  BY <1>4, <1>5
<1> QED
  BY <1>6 DEF x, Fits

(* A price of at most MaxInt \div Base settles without overflow (the bound *)
(* update_listing_price enforces).                                         *)
THEOREM NoOverflow == Spec => []SafePriceNeverOverflows
<1>1. IInv => SafePriceNeverOverflows
  <2> SUFFICES ASSUME IInv, Fits(sale.amount, Base)
               PROVE  /\ stage = "listed" => Fits(sale.amount, sale.royalty)
                      /\ stage = "fee" => Fits(remaining, FeeRate)
                      /\ stage = "shares" =>
                           Fits(remaining, sale.recipients[paid + 1].percentage)
    BY DEF SafePriceNeverOverflows
  <2>0. PTypeOK /\ Money /\ Totals
    BY DEF IInv
  <2>1. /\ sale.amount \in Nat /\ sale.royalty \in Nat /\ sale.royalty <= Base
        /\ remaining \in Nat /\ Base \in Nat
    BY <2>0, PayoutAssumption DEF PTypeOK, Sale, Bps
  <2>2. Fits(sale.amount, sale.royalty)
    BY <2>1, SmallerFits
  <2>3. ASSUME stage = "fee" PROVE Fits(remaining, FeeRate)
    <3>1. FeeRate \in Nat /\ FeeRate <= Base
      BY <2>0, <2>3, PayoutAssumption DEF PTypeOK, FeeRate, Bps
    <3>2. remaining <= sale.amount
      BY <2>0, <2>3 DEF Money
    <3> QED
      BY <2>1, <3>1, <3>2, SmallerFits
  <2>4. ASSUME stage = "shares"
        PROVE  Fits(remaining, sale.recipients[paid + 1].percentage)
    <3>1. /\ paid \in Nat /\ paid < Size /\ Size \in Nat /\ Len(totals) = Size
          /\ paid + 1 \in 1..Size /\ remaining <= sale.amount
      BY <2>0, <2>4 DEF PTypeOK, Money
    <3>2. PICK k \in Nat : k = paid + 1
      BY <3>1
    <3>3. sale.recipients[k].percentage \in Nat
      BY <2>0, <3>1, <3>2, RecipientType
    <3>4. totals[k] = Before(k - 1) + sale.recipients[k].percentage
      BY <2>0, <3>1, <3>2 DEF Totals
    <3>5. Before(k - 1) \in Nat /\ Before(k) \in Nat /\ Before(Size) \in Nat
      <4>1. k - 1 \in 0..Len(totals) /\ k \in 0..Len(totals) /\ Size \in 0..Len(totals)
        BY <3>1, <3>2
      <4> QED
        BY <2>0, <4>1, BeforeType
    <3>6. Before(k) <= Before(Size)
      BY <2>0, <3>1, <3>2 DEF Totals
    <3>7. Before(k) = totals[k] /\ Before(Size) = totals[Size] /\ totals[Size] <= Base
      BY <2>0, <2>4, <3>1, <3>2 DEF Before, Totals
    <3>8. sale.recipients[k].percentage <= Base
      BY <2>1, <3>3, <3>4, <3>5, <3>6, <3>7
    <3> QED
      BY <2>1, <3>1, <3>2, <3>3, <3>8, SmallerFits
  <2> QED
    BY <2>2, <2>3, <2>4
<1> QED
  BY <1>1, Invariance, PTL

(* A change of the global fee rate never reaches an open sale, for all rates *)
(* and every order of configuration calls: the rate moves only with the      *)
(* override or the treasury (settlement_fee_bps).                            *)
THEOREM GlobalFeeSpared == Spec => GlobalFeeSparesOpenSales
<1>1. ASSUME [Next]_vars, Open, UNCHANGED <<override, treasury>>
      PROVE  FeeRate' = FeeRate
  <2>1. snapshot' = snapshot
    BY <1>1 DEF Open, Next, vars, configVars, CheckRecipient, Create, SetProtocolFee,
       SetCollectionFee, SetTreasury, PayRoyalty, PayFee, PayShare
  <2> QED
    BY <1>1, <2>1 DEF FeeRate
<1>2. [Next]_vars => [RateKept]_vars
  BY <1>1 DEF RateKept
<1> QED
  BY <1>2, PTL DEF Spec, GlobalFeeSparesOpenSales

============================================================================
