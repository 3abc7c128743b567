------------------------------ MODULE Custody ------------------------------
(***************************************************************************)
(* The state that listings, offers and auctions of the Soroban marketplace *)
(* share: the NFTs and payment tokens the contract holds in escrow, and    *)
(* the policy switches every entry point reads.                            *)
(*                                                                         *)
(* Every contract call is one atomic transaction: it commits or it leaves  *)
(* no trace, so each entry point is one action and a panic is a disabled   *)
(* action.  One payment token stands for all of them (each record is paid  *)
(* in and out in its own token, so the accounts of two tokens never meet). *)
(***************************************************************************)
EXTENDS Integers, FiniteSets, FiniteSetsExt

CONSTANTS
  Users,      \* accounts that sell, bid, offer and buy
  Nfts,       \* (collection, token_id) pairs
  Contract,   \* the marketplace's own address
  None,       \* the absent value of an Option
  MaxTime,    \* bound on the ledger timestamp
  PauseInputs,      \* values an operator gives the pause switch
  WhitelistInputs,  \* values a whitelist change gives the token policy
  Revocable,        \* artists an operator may revoke
  Collectors        \* accounts that receive NFTs outside the marketplace

ASSUME CustodyAssumption ==
  /\ Contract \notin Users
  /\ None \notin Users
  /\ None \notin [kind : {"listing", "auction"}, id : Nat]
  /\ MaxTime \in Nat
  /\ PauseInputs \subseteq BOOLEAN /\ WhitelistInputs \subseteq BOOLEAN
  /\ Revocable \subseteq Users /\ Collectors \subseteq Users

VARIABLES
  now,            \* ledger timestamp
  nftOwner,       \* owner_of in the NFT collections
  escrow,         \* EscrowedToken records, None when absent
  bank,           \* the contract's balance in the payment token
  paused,         \* is_paused_for holds for the gated entry points
  tokenAccepted,  \* evaluate_token_policy accepts the payment token
  revoked         \* artists with a revocation flag

custodyVars == <<now, nftOwner, escrow, bank, paused, tokenAccepted, revoked>>
policyVars == <<paused, tokenAccepted, revoked>>

Times == 0..MaxTime

(* EscrowRecord { is_listing, id } *)
ListingEscrow(id) == [kind |-> "listing", id |-> id]
AuctionEscrow(id) == [kind |-> "auction", id |-> id]
EscrowRecords == [kind : {"listing", "auction"}, id : Nat]

CustodyInit ==
  /\ now = 0
  /\ nftOwner \in [Nfts -> Users]
  /\ escrow = [n \in Nfts |-> None]
  /\ bank = 0
  /\ paused = FALSE
  /\ tokenAccepted = TRUE
  /\ revoked = {}

(* What every call that opens a listing or an auction checks first. *)
MaySell(u) == ~paused /\ u \notin revoked /\ tokenAccepted

----------------------------------------------------------------------------
(* escrow.rs *)

EscrowInPlace(seller, n, record) ==
  /\ nftOwner[n] = seller
  /\ escrow[n] = None
  /\ UNCHANGED <<nftOwner, escrow>>

EscrowNft(seller, n, record) ==
  /\ nftOwner[n] = seller
  /\ escrow[n] = None
  /\ escrow' = [escrow EXCEPT ![n] = record]
  /\ nftOwner' = [nftOwner EXCEPT ![n] = Contract]

ReleaseKeepingRecord(n, recipient) ==
  /\ nftOwner[n] = Contract
  /\ nftOwner' = [nftOwner EXCEPT ![n] = recipient]
  /\ UNCHANGED escrow

ReleaseNft(n, recipient) ==
  /\ nftOwner[n] = Contract
  /\ nftOwner' = [nftOwner EXCEPT ![n] = recipient]
  /\ escrow' = [escrow EXCEPT ![n] = None]

(* A token transfer out of the contract fails unless the balance covers it. *)
PayOut(amount) == bank >= amount /\ bank' = bank - amount
PayIn(amount) == bank' = bank + amount

----------------------------------------------------------------------------
(* The environment and the policy switches *)

Tick ==
  /\ now < MaxTime
  /\ now' = now + 1
  /\ UNCHANGED <<nftOwner, escrow, bank, policyVars>>

TransferNft(u, v, n) ==
  /\ nftOwner[n] = u
  /\ nftOwner' = [nftOwner EXCEPT ![n] = v]
  /\ UNCHANGED <<now, escrow, bank, policyVars>>

(* pause / unpause, on whichever axis covers the gated entry points. *)
SetPaused(v) ==
  /\ paused' = v
  /\ UNCHANGED <<now, nftOwner, escrow, bank, tokenAccepted, revoked>>

(* add_token_to_whitelist accepts the token; remove_token_from_whitelist, or *)
(* the first registration of another token, makes the policy refuse it.      *)
SetTokenPolicy(v) ==
  /\ tokenAccepted' = v
  /\ UNCHANGED <<now, nftOwner, escrow, bank, paused, revoked>>

RevokeArtist(u) ==
  /\ revoked' = revoked \cup {u}
  /\ UNCHANGED <<now, nftOwner, escrow, bank, paused, tokenAccepted>>

CustodyNext ==
  \/ Tick
  \/ \E u \in Users, v \in Collectors, n \in Nfts : TransferNft(u, v, n)
  \/ \E v \in PauseInputs : SetPaused(v)
  \/ \E v \in WhitelistInputs : SetTokenPolicy(v)
  \/ \E u \in Revocable : RevokeArtist(u)

============================================================================
