---------------------------- MODULE PayoutSplit ----------------------------
(***************************************************************************)
(* How the price of one sale is divided: the recipients are validated when *)
(* the listing or auction is created, the fee configuration may change     *)
(* until it settles, and the settlement pays a royalty, the protocol fee   *)
(* and the recipients (contract.rs: validate_recipients,                   *)
(* distribute_payout_tracked; math.rs: distribute).                        *)
(*                                                                         *)
(* Validation and settlement are transactions; their loops are steps here  *)
(* so that the running totals are visible, and configuration calls come    *)
(* only between them.  The share of a recipient depends on values fixed    *)
(* before the first transfer, so it is computed in the step that pays it.  *)
(***************************************************************************)
EXTENDS Integers, Sequences

CONSTANTS
  Accounts,       \* sellers, royalty receivers, recipients, treasuries
  None,           \* the absent value of an Option
  Base,           \* 10_000 basis points
  MaxRecipients,  \* MAX_RECIPIENTS
  MaxInt,         \* i128::MAX
  Sales,          \* sales under consideration
  FeeRates,       \* rates set_protocol_fee and set_collection_fee_bps are given
  Treasuries      \* treasuries set_treasury is given

Bps == 0..Base

Recipient == [address : Accounts, percentage : Nat]

(* amount: the price; royalty, receiver: what the collection's royalty_info *)
(* returns (collections reject more than 10_000); recipients: as given.     *)
Sale == [amount : Nat \ {0}, seller : Accounts, receiver : Accounts,
         royalty : Bps, recipients : Seq(Recipient)]

(* RoyaltyClaimRecord *)
Claim == [amount : Int, claimed : BOOLEAN]

ASSUME PayoutAssumption ==
  /\ None \notin Accounts /\ None \notin Nat /\ None \notin Claim
  /\ Base \in Nat \ {0} /\ MaxRecipients \in Nat \ {0} /\ MaxInt \in Nat
  /\ Sales \subseteq Sale
  /\ FeeRates \subseteq Bps /\ Treasuries \subseteq Accounts

VARIABLES
  sale,         \* the sale: fixed inputs
  stage,        \* where the sale is
  totals,       \* total_bps after each recipient checked so far
  snapshot,     \* protocol_fee_bps stored in the listing, None before that
  protocolFee,  \* the global fee rate
  override,     \* the collection's fee override
  treasury,     \* the treasury address
  remaining,    \* what the recipients share
  paid,         \* recipients paid so far
  distributed,  \* sum of their amounts
  last,         \* amount of the latest recipient paid
  balance,      \* change of the contract's token balance by this sale
  received,     \* what each account was paid
  claim,        \* RoyaltyClaimRecord of each account
  refs          \* entries of each account's RecipientRoyaltyIndex

configVars == <<protocolFee, override, treasury>>
payVars == <<balance, received, claim, refs>>
vars == <<sale, stage, totals, snapshot, configVars, remaining, paid,
          distributed, last, payVars>>

Size == Len(sale.recipients)
RoundedUp(amount, bps) == (amount * bps + Base - 1) \div Base
Floor(amount, bps) == (amount * bps) \div Base
Fits(amount, bps) == amount * bps <= MaxInt

Init ==
  /\ sale \in Sales
  /\ stage = "validate"
  /\ totals = <<>>
  /\ snapshot = None
  /\ protocolFee \in FeeRates
  /\ override \in FeeRates \cup {None}
  /\ treasury \in Treasuries \cup {None}
  /\ remaining = 0 /\ paid = 0 /\ distributed = 0 /\ last = 0 /\ balance = 0
  /\ received = [a \in Accounts |-> 0]
  /\ claim = [a \in Accounts |-> None]
  /\ refs = [a \in Accounts |-> 0]

----------------------------------------------------------------------------
(* Creation *)

Running == IF totals = <<>> THEN 0 ELSE totals[Len(totals)]

CheckWithoutDuplicates ==
  /\ stage = "validate" /\ Size \in 1..MaxRecipients /\ Len(totals) < Size
  /\ LET r == sale.recipients[Len(totals) + 1] IN
       IF r.percentage > 0
         THEN totals' = Append(totals, Running + r.percentage) /\ stage' = stage
         ELSE totals' = totals /\ stage' = "rejected"
  /\ UNCHANGED <<sale, snapshot, configVars, remaining, paid, distributed, last, payVars>>

(* One iteration of validate_recipients. *)
CheckRecipient ==
  /\ stage = "validate" /\ Size \in 1..MaxRecipients /\ Len(totals) < Size
  /\ LET r == sale.recipients[Len(totals) + 1] IN
       IF /\ r.percentage > 0
          /\ \A j \in 1..Len(totals) : sale.recipients[j].address # r.address
         THEN totals' = Append(totals, Running + r.percentage) /\ stage' = stage
         ELSE totals' = totals /\ stage' = "rejected"
  /\ UNCHANGED <<sale, snapshot, configVars, remaining, paid, distributed, last, payVars>>

CreateUnchecked ==
  /\ stage = "validate" /\ (Size \in 1..MaxRecipients => Len(totals) = Size)
  /\ IF Size \in 1..MaxRecipients
       THEN stage' = "listed" /\ snapshot' = protocolFee
       ELSE stage' = "rejected" /\ UNCHANGED snapshot
  /\ UNCHANGED <<sale, totals, configVars, remaining, paid, distributed, last, payVars>>

(* The length checks before the loop, the total after it, and the snapshot. *)
Create ==
  /\ stage = "validate" /\ (Size \in 1..MaxRecipients => Len(totals) = Size)
  /\ IF Size \in 1..MaxRecipients /\ Running <= Base
       THEN stage' = "listed" /\ snapshot' = protocolFee
       ELSE stage' = "rejected" /\ UNCHANGED snapshot
  /\ UNCHANGED <<sale, totals, configVars, remaining, paid, distributed, last, payVars>>

----------------------------------------------------------------------------
(* Configuration while the listing or auction is open *)

SetProtocolFee(bps) ==
  /\ stage = "listed"
  /\ protocolFee' = bps
  /\ UNCHANGED <<sale, stage, totals, snapshot, override, treasury, remaining,
                 paid, distributed, last, payVars>>

(* set_collection_fee_bps, and clear_collection_fee_bps with None. *)
SetCollectionFee(bps) ==
  /\ stage = "listed"
  /\ override' = bps
  /\ UNCHANGED <<sale, stage, totals, snapshot, protocolFee, treasury, remaining,
                 paid, distributed, last, payVars>>

SetTreasury(t) ==
  /\ stage = "listed"
  /\ treasury' = t
  /\ UNCHANGED <<sale, stage, totals, snapshot, protocolFee, override, remaining,
                 paid, distributed, last, payVars>>

----------------------------------------------------------------------------
(* Settlement *)

(* A token transfer out of the contract, which held `held` for this sale. *)
Transfer(a, amount, held) ==
  /\ balance' = held - amount
  /\ received' = [received EXCEPT ![a] = @ + amount]

(* The claim record is queued, the transfer made, the record marked; only a *)
(* new record adds an index entry (set_royalty_claim).                      *)
PayWithClaim(a, amount, held) ==
  /\ Transfer(a, amount, held)
  /\ claim' = [claim EXCEPT ![a] = [amount |-> amount, claimed |-> TRUE]]
  /\ refs' = [refs EXCEPT ![a] = IF claim[a] = None THEN @ + 1 ELSE @]

(* A panic reverts the whole settlement: the sale stays open. *)
Abort ==
  /\ stage' = "listed"
  /\ remaining' = 0 /\ paid' = 0 /\ distributed' = 0 /\ last' = 0 /\ balance' = 0
  /\ received' = [a \in Accounts |-> 0]
  /\ claim' = [a \in Accounts |-> None]
  /\ refs' = [a \in Accounts |-> 0]

RoyaltyDue == sale.royalty > 0 /\ sale.receiver # sale.seller

(* The price comes in (from the buyer, or out of the bid or offer escrow)   *)
(* and the collection's royalty goes out.                                   *)
PayRoyalty ==
  /\ stage = "listed"
  /\ LET royalty == IF RoyaltyDue THEN Floor(sale.amount, sale.royalty) ELSE 0 IN
       IF RoyaltyDue /\ ~Fits(sale.amount, sale.royalty) THEN Abort
       ELSE /\ stage' = "fee"
            /\ remaining' = sale.amount - royalty
            /\ IF RoyaltyDue THEN PayWithClaim(sale.receiver, royalty, sale.amount)
               ELSE balance' = sale.amount /\ UNCHANGED <<received, claim, refs>>
            /\ UNCHANGED <<paid, distributed, last>>
  /\ UNCHANGED <<sale, totals, snapshot, configVars>>

FeeRateOfToday ==
  IF treasury = None THEN 0
  ELSE IF override # None THEN override ELSE protocolFee

FeeRate ==
  IF treasury = None THEN 0
  ELSE IF override # None THEN override ELSE snapshot

(* distribute takes the fee off what the royalty left; it goes to the treasury. *)
PayFee ==
  /\ stage = "fee"
  /\ IF ~Fits(remaining, FeeRate) THEN Abort
     ELSE LET fee == Floor(remaining, FeeRate) IN
       /\ stage' = "shares"
       /\ remaining' = remaining - fee
       /\ IF fee > 0 THEN Transfer(treasury, fee, balance) ELSE UNCHANGED <<balance, received>>
       /\ UNCHANGED <<paid, distributed, last, claim, refs>>
  /\ UNCHANGED <<sale, totals, snapshot, configVars>>

ShareWithoutDust ==
  /\ stage = "shares"
  /\ LET r == sale.recipients[paid + 1]
         amount == Floor(remaining, r.percentage) IN
       /\ paid' = paid + 1 /\ distributed' = distributed + amount /\ last' = amount
       /\ stage' = IF paid + 1 = Size THEN "done" ELSE stage
       /\ PayWithClaim(r.address, amount, balance)
  /\ UNCHANGED <<sale, totals, snapshot, configVars, remaining>>

(* One iteration of the loop of distribute: the last recipient takes what *)
(* the others left.                                                       *)
PayShare ==
  /\ stage = "shares"
  /\ LET r == sale.recipients[paid + 1]
         amount == IF paid + 1 = Size THEN remaining - distributed
                   ELSE Floor(remaining, r.percentage) IN
       IF paid + 1 < Size /\ ~Fits(remaining, r.percentage) THEN Abort
       ELSE /\ paid' = paid + 1 /\ distributed' = distributed + amount /\ last' = amount
            /\ stage' = IF paid + 1 = Size THEN "done" ELSE stage
            /\ PayWithClaim(r.address, amount, balance)
            /\ UNCHANGED remaining
  /\ UNCHANGED <<sale, totals, snapshot, configVars>>

Next ==
  \/ CheckRecipient
  \/ Create
  \/ \E bps \in FeeRates : SetProtocolFee(bps)
  \/ \E bps \in FeeRates \cup {None} : SetCollectionFee(bps)
  \/ \E t \in Treasuries : SetTreasury(t)
  \/ PayRoyalty
  \/ PayFee
  \/ PayShare

Spec == Init /\ [][Next]_vars

----------------------------------------------------------------------------
(* Properties *)

Addresses == {sale.recipients[i].address : i \in 1..Size}

(* Every variable has its type; a sale past validation has 1 to           *)
(* MaxRecipients recipients, each with its running total, and a snapshot. *)
PTypeOK ==
  /\ sale \in Sale
  /\ stage \in {"validate", "rejected", "listed", "fee", "shares", "done"}
  /\ totals \in Seq(Nat)
  /\ protocolFee \in Bps /\ override \in Bps \cup {None}
  /\ treasury \in Accounts \cup {None}
  /\ remaining \in Nat /\ paid \in Nat /\ distributed \in Nat /\ last \in Nat
  /\ balance \in Int /\ received \in [Accounts -> Int]
  /\ claim \in [Accounts -> Claim \cup {None}] /\ refs \in [Accounts -> Nat]
  /\ stage \in {"listed", "fee", "shares", "done"} =>
       /\ Size \in 1..MaxRecipients /\ Len(totals) = Size /\ snapshot \in Bps
  /\ stage \in {"validate", "rejected"} => snapshot = None

(* At every transfer of a settlement the contract still holds enough of this *)
(* sale's own price, so it never pays out of another record's escrow, and    *)
(* afterwards nothing is left: royalty + fee + shares = price.               *)
SettlementExact ==
  /\ balance >= 0
  /\ stage = "done" => balance = 0

(* The last recipient gets at least the share of its percentage, and if the *)
(* percentages add up to 100 %, less than one unit per recipient more.      *)
LastAbsorbsDust ==
  stage = "done" =>
    LET share == Floor(remaining, sale.recipients[Size].percentage) IN
    /\ last >= share
    /\ totals[Size] = Base => last < share + Size

(* A price of at most i128::MAX / 10_000 never overflows, whatever royalty, *)
(* fee and percentages apply.                                               *)
SafePriceNeverOverflows ==
  Fits(sale.amount, Base) =>
    /\ stage = "listed" => Fits(sale.amount, sale.royalty)
    /\ stage = "fee" => Fits(remaining, FeeRate)
    /\ stage = "shares" => Fits(remaining, sale.recipients[paid + 1].percentage)

(* After a settlement exactly the payees have a claim record, marked as     *)
(* claimed and indexed once, and it states what the account was paid,       *)
(* except for a treasury or royalty receiver that is a recipient as well.   *)
ClaimsTellPayouts ==
  stage = "done" =>
    \A a \in Accounts :
      LET due == RoyaltyDue /\ a = sale.receiver IN
      /\ claim[a] # None <=> (a \in Addresses \/ due)
      /\ refs[a] = IF claim[a] = None THEN 0 ELSE 1
      /\ claim[a] # None =>
           /\ claim[a].claimed
           /\ a # treasury /\ ~(due /\ a \in Addresses) => claim[a].amount = received[a]

Open == stage \in {"listed", "fee"}

RateKept ==
  Open /\ Open' => (FeeRate' = FeeRate \/ override' # override \/ treasury' # treasury)

(* The rate an open sale will pay is the one of its creation unless the      *)
(* collection has an override or the treasury is missing: no change of the   *)
(* global rate, however late, reaches it (settlement_fee_bps).               *)
GlobalFeeSparesOpenSales == [][RateKept]_vars

============================================================================
