# ElcareHub: TLA+ models, model checking and proofs

ElcareHub is a marketplace for digital art on Stellar/Soroban. This directory holds TLA+ models of
the parts of it whose correctness depends on the order in which things happen: the marketplace
contract, which holds other people's money and NFTs; the keeper, the process that closes expired
listings, auctions and offers by sending transactions of its own; the indexer's repair of ledgers it
skipped; the hub that streams events to browsers; and the frontend's transaction lifecycle, which keeps
one purchase from being submitted twice.

## 1. The system

| Part | Where | State | Who changes it |
|---|---|---|---|
| Marketplace contract | `contracts/soroban-marketplace` | listings, offers, auctions, escrow records, pending-offer sets, active index, fee and pause configuration, roles | artists, buyers, bidders, administrators, anyone (permissionless maintenance) |
| Launchpad contract | `contracts/launchpad` | deployed collections, wasm hashes, deployment fee | creators, administrator |
| NFT collections | `contracts/collection_nft_*`, `contracts/lazy_mint_*` | owners, balances, approvals, vouchers | creators, holders, marketplace |
| Indexer | `indexer/src` | events, projections (listing, auction, offer, bid rows), cursors, checkpoints, gaps, leases, dead letters | poller, backfill, gap repair, reconciler, operators |
| Keeper | `indexer/src/keeper` | KeeperAction rows, daily fee budget | one cycle at a time |
| Realtime hub | `indexer/src/realtime` | Redis stream, per-client queues | publishers, clients |
| Frontend | `frontend/elcarehub-app` | transaction lifecycle, intent registry, wallet session | users, several tabs |

The contracts emit events; the indexer's poller reads them from an RPC node into PostgreSQL; the API
and the realtime hub serve them to the frontend; the keeper watches the projections for auctions and
offers past their deadline and submits the permissionless maintenance calls.

What is hard in each part, and what it has to get right:

* **Marketplace.** Each call is atomic, but a listing's life is many calls by many parties. Six paths
  end a listing, eight close an offer, three end an auction. All draw on one token balance, so money
  missing from one record is silently covered by another's. *NFTs in custody, escrow records and open
  records must correspond one to one; every deposit must be paid out exactly once; the indexes that
  the refund loops and the readers rely on must be exact.*
* **Indexer.** Ledgers the poller skipped are gaps; workers claim them and run backfill jobs in windows
  of concurrent batches, operators repair, resume and cancel at the same time, and any of them can die
  between two statements. *One runner per job, one claimant per gap; nothing falls between two batches,
  two windows or two runs; an open gap is settled.*
* **Keeper.** A crash between submitting a transaction and recording it. *An action is not paid for
  twice in a row because its first outcome was unknown.*
* **Realtime hub.** Slow clients with bounded queues, replay racing the live tail, a subscriber that is
  lost and attached again, local numbering while Redis is away. *No frame is sent twice or out of order,
  none is stuck in a queue, and a hub finds its way back to the channel.*
* **Frontend.** Double clicks, two tabs, reset and unmount while a wallet prompt is open, a run that
  finishes after its hook was reset. *One intent, one run; what the screen says is what the chain did;
  the button never stays dead.*
* **Launchpad and collections.** *An NFT has one owner; a voucher is redeemed at most once; supply
  never passes its cap.*

## 2. Modules

| Module | Models | State |
|---|---|---|
| `Custody` | `escrow.rs`, the ledger clock, the NFT collections and the token as seen by the marketplace, the policy switches | `nftOwner`, `escrow`, `bank`, `now`, `paused`, `tokenAccepted`, `revoked` |
| `Listings` (extends `Custody`) | listings and offers in `contract.rs`, with their indexes in `storage.rs` | `listing`, `offer`, `activeListings`, `pendingOffers`, `artistListings`, `cancelCursor`, counters, `held` |
| `Auctions` (extends `Custody`) | auctions in `contract.rs`, with the bid history of `storage.rs` | `auction`, `bids`, `bidRefunded`, `blockedBidders`, `auctionConfig`, counter, `bidHeld` |
| `Marketplace` | `Listings` and `Auctions` over one `Custody` | the union |
| `PagedIndex` | the paged index engine of `storage.rs` under its shrinking client | `pages`, `len`, `pos` |
| `ActiveIndex` | the same index as one array with swap-removal | `idx`, `pos` |
| `ActiveSet` | what callers believe the index is | `paged`, `keyed` |
| `PayoutSplit` | recipients, fee configuration and payout of one sale (`math.rs`, `validate_recipients`, `distribute_payout_tracked`) | `sale`, `stage`, running totals, fee rates, `balance`, `received`, `claim` |
| `Keeper` | `keeper/runner.ts`, `tx-pipeline.ts`, `idempotency.ts`, `candidates.ts` | `actions` (rows), `keeper` (one process each), `txs` and `account` (the network), `chain`, `db`, two clocks |
| `LedgerRepair` | `gap-repair.ts`, `backfill.ts`, the commands of `cli.ts`, and what they see of the poller | `gap` and `job` rows, advisory `lock`, `proc` (where each process is), `cursor`, `indexed`; history: `lost`, `orphans` |
| `RealtimeHub` | `realtime/hub.ts` and `stream-ids.ts` | `stream`, `inflight`, `hub`, `client` (queue, socket, replay), `received` (the browser's Last-Event-ID) |
| `TxLifecycle` | `hooks/useTxLifecycle.ts` and `lib/txIntentDedup.ts` | `inst` (hook instances and their refs), `runs`, `tx` (the chain), `reg` (localStorage), `saved` (sessionStorage), `told` (announcements under way); history: `remover` (whose page removed the entry), `overridden` (a slot was given away) |
| `SequenceProofs` (paged index and hub), `ListingsProofs`, `MarketplaceProofs`, `LifecycleProofs`, `PayoutSplitProofs`, `KeeperProofs`, `LedgerRepairProofs`, `TxLifecycleProofs` | TLAPS proofs | |
| `MC*` | instances for TLC | |

An action has the name of its entry point in camel case. A Soroban invocation either commits
completely or leaves no trace, so an entry point is one action, a panic is a disabled action and the
reentrancy locks are invisible. `held` and `bidHeld` are history variables: what the contract took in
minus what it paid out on account of one offer or one auction. They guard nothing.

The keeper is not atomic: one action is what the process does between two awaits (a query, an RPC
call, a row update), `Crash` can come between any two of them, and everything but the rows is lost
with it. What the network does with a transaction, the lag of the projection and the two clocks are
actions of the environment. A request that fails, one that arrived although it failed and an answer
that comes after the poll gave up are all separate outcomes.

The same holds for the other three. In `LedgerRepair` every database statement is a step that can fail
and the batches of a window end in any order; the advisory lock belongs to a session, so it can outlive
the code that took it. In `RealtimeHub` an event is first appended to the stream and later broadcast,
so instances overtake each other between the two; a `PUBLISH` whose reply is lost was relayed all the
same. In `TxLifecycle` the JavaScript of one page does not interleave with itself between awaits, pages
do, and a run is an object of its own because it goes on after its hook was reset or unmounted. A
localStorage that refuses a read or a write is a separate outcome of every call that needs it.

Definitions that stand next to an action with a name like `SellKeepingIndex` or `BidWithoutRefund`
are deliberately wrong variants. They are used only to confirm that a property notices the mistake.

### What is abstracted

* One payment token. Every record is paid in and out in its own token, so two tokens never mix.
* Price and amount bounds of the price policy: the constants hold amounts inside them.
* `paused` stands for "some pause axis covers this entry point", `tokenAccepted` for the outcome of
  the token policy. The entry points that consult neither are modelled without the guard.
* In `Listings` and `Auctions` a settlement pays out exactly the amount. `PayoutSplit` models how it
  is split, over one sale; `SettlementExact`, proved there, is what justifies the abstraction.
* Quantity 1; storage TTLs; timestamps that overflow 64 bits.
* `create_listings` and `update_listings` repeat their single forms in one transaction and reach no
  state that the single forms do not.
* In the keeper: the three entry points it calls are one ("close the target if it is open and due");
  the account is used by keepers only; the daily fee budget is left out because the fee that the
  pipeline reports is always 0, so the budget never fills (`tx-pipeline.ts:288`). A contract that is
  paused, and any other reason for which a simulation or a send may be refused, is the choice of the
  step: it may skip an open, due target at any time.
* In gap repair: the events of a batch are the set of its ledgers; a dry run writes nothing and is left
  out; which Open gap a worker takes first is any. The poller is two actions: it records a gap, and its
  cursor moves. A session keeps its advisory lock until it unlocks or its process ends; a pooled
  connection that PostgreSQL drops under a running job would free the lock early. That it does not is
  an assumption of `OneRunnerPerJob`.
* In the hub: a stream id is its ordinal, a local id compares below all of them; a filter is the set of
  events it lets through. Heartbeats carry no id and are left out. An armed timer and an attach that is
  under way are both pending attempts (`pending`): all of them are attaches, or all but the one the timer
  holds, and since the timer can fire at any moment only the number matters. `close()` ends them all; an
  attach that survived it would add a subscription to a hub whose process is going away.
* In the transaction lifecycle: one intent, and only runs that ask for deduplication. The hash of run r
  is r. Progress texts and error wording are left out, and sessionStorage is always available.

## 3. Model checking

| Run | Instance | What it shows |
|---|---|---|
| `offers` | one listing, three offers, two amounts, three users, deadlines | the pending index and its cap are exact; each deposit is paid out exactly once; with no counter-offers the balance is the sum of the deposits |
| `policy` | two listings, two NFTs, pause, de-listing of the token, revocation, reservations, transfers outside the market | custody, escrow records and active index agree; the revocation sweep leaves nothing behind; a sale or cancellation delivers the NFT; a pause lets nothing in |
| `auctions` | two successive auctions of one NFT, three bidders, two anti-sniping configurations | custody, bid accounts, history, extension caps, the reserve under accepted bids, settlement |
| `marketplace` | a listing, an offer and an auction over the same NFTs, with pausing, de-listing of the token and a blocked bidder in between | one sale per NFT; one balance covers offers and bids; policy changes in mid-auction disturb neither |
| `payouts` | every list of up to two recipients and some longer ones, valid or not; small, odd and overflowing prices; rates from 0 to 100 % that change while the sale is open | a settlement pays exactly the price, the last recipient absorbs the rounding, a safe price never overflows, the claim records state what was paid, a change of the global fee does not reach an open sale |
| `keeper` | one process, a listing and an auction, two transactions, one fee bump, one action per cycle | the rows claim only what happened on chain; a finished target is left alone; every cycle ends |
| `paged_index` | five ids, pages of two | the pages are packed, positions match slots, and the whole is a set |
| `ledger_repair` | one worker and one operator over one gap of three ledgers; batches of one, two at a time; two attempts, one job, one crash | one runner per job; an exclusive claim that is not dropped; no ledger of a Completed job or a Repaired gap was left unattempted; an Open gap is settled |
| `realtime_hub` | two hubs, one browser that comes and goes between them, two events, a stream trimmed to one entry, one lost or refused subscriber connection | frames in order and at most once per connection; no frame without somebody to send it; backlogs drain; a hub resubscribes |
| `tx_lifecycle` | two pages, two hook instances (symmetric), two runs | the guard belongs to a live run; screen, session storage and registry name only transactions that were sent, and success, or a run's own indexer_pending, one that succeeded; one live run per intent; only the page that removed the entry may be left untold |
| `escrow_conservation`, `bid_paid_twice` | | see section 5 |

**Bounds.** Three users give an artist, a buyer and a rival. Three offers give one being closed, a
sibling and a counter-offer; the cap of two is reached. The clock runs to 1 in the
listing runs, where a deadline is only compared with it, and to 3 in the auction runs, enough for
before, at and after an end time and for an extension to move it. Two auctions in a row on one NFT
show whether the first leaves anything behind. Five ids over pages of two give a full page, an
emptied page and a removal from a page that is not the last. In the payout runs `Base` is the real
10 000, the recipient limit is 3 and the integer limit 10^9, so that prices on both sides of the
overflow threshold occur. In the keeper runs both clocks run to 1 (a deadline that has passed for the
process and not for the ledger) and an
extension moves a deadline past them, `MaxTx` = 2 gives a transaction and its fee bump, or one before a
crash and one after, and one action per cycle makes the cap bind with two targets. Safety of two
processes that share the account and the rows is proved (section 4).

In `ledger_repair` three ledgers in batches of one, two at a time, give a full window and a partial one,
so a checkpoint falls inside the range and a resume has work left; worker and operator can both reach
the one job, one as a repair and one as a resume. In `realtime_hub` two events published by two hubs
are enough to be broadcast in the wrong order, for a replay to meet a live message and, with a stream of
one, for the entry that a client asks for to be gone; a local event can be evicted from the ring. In
`tx_lifecycle` two instances on one page or on two, and two runs, give a second click, a second tab, and
a stale run that ends while its successor is going. The proofs of `LedgerRepair` and `TxLifecycle` have
no bound on processes, gaps, ledgers, pages, instances or runs.

**Deadlock** is checked except in `payouts`, where a sale that is settled or refused is over, in
`realtime_hub`, where every event may have been published and every hub closed, and in `tx_lifecycle`,
where the bounded runs are over and every instance may be unmounted.

**Fairness.** The contract obliges nobody to call it, so the contract runs assume none and check
safety only. `CyclesEnd` assumes weak fairness of the steps of a running cycle and nothing of the
network, the clocks, the indexer or the start of a cycle. The code justifies it: the cycle is one
async function, every await in it is a query, a request or a sleep that is answered or rejected, and
polling has a deadline of its own. A cycle that is restarted by sequence collisions ends because a
collision needs another transaction of the same account to have been included meanwhile, and `MaxTx`
bounds those.

`OpenGapsSettle` assumes weak fairness of each process while it is inside a repair or a backfill, since
every await there is a query or a request that settles, and of a worker's look for an Open gap, since
the loop comes round every interval. Nobody has to run a command, and a crash excuses the gap it
orphans. `BacklogsDrain` and `HubsResubscribe` assume that an `XRANGE` is answered or fails, that an
armed timer fires and, strongly, that a congested socket of a connected client drains: a socket that
never does is closed by TCP, and then the client is gone. `TxLifecycle` assumes nothing and is checked
for safety only: a wallet prompt may stay open for ever.

## 4. Proofs

TLAPS proves, for every value of the constants that satisfies the named assumptions:

* `SequenceProofs`, the paged index: `PagesCorrect`, `PagesImplementArray`, `PagedPositionsCorrect`,
  `PagesImplementSet`, for every page size. The invariant is that pages are packed; a removal is one
  write when the id is in the last slot and two otherwise, on one page or on two, and each case is
  shown to be the array's swap-removal. That the array is a set needs more than its types: positions
  must be known to match slots before a swap-removal can be seen to remove one id.
  The hub: `FramesInOrderCorrect` and `PumpArmedCorrect`, for any number of hubs, clients and events and
  any bounds of stream, ring and queues. The order of the frames is not inductive. The monotonic skip
  compares a message with `lastSentId` and not with what was sent, so every frame must be no higher than
  `lastSentId` (`Covered`); a local delivery compares with nothing, so no client and no ring may hold a
  local id above the counter of its hub (`Within`), and a client that moves to another hub, whose ids
  start again, must start without frames. That replay keeps this is an induction over its entries, done
  with a least counterexample (`LeastNatural`, `StepByStep`) on the recursive function of the loop, which
  is first shown to exist (`LoopExists`). A flush, a dropped frame and a drained socket keep the order
  because what remains is a tail of the queue (`NewestIsTail`, `FlushSound`).
* `ListingsProofs`: `TypeCorrect`, `CustodyCorrect`, `ActiveIndexCorrect`, `DepositsCorrect`. None of
  these is inductive alone: that a release finds the NFT in custody needs the correspondence between
  escrow records and Active listings, and that a refund closes the right account needs the pending
  index to hold only offers of its own listing. `LInv` conjoins them; each action has one lemma.
* `MarketplaceProofs`: the auctions by themselves, `BidsBackedCorrect`, `BidHistoryCorrect`,
  `ReserveCorrect`, `ExtensionsCorrect`, `AuctionCustodyCorrect`, `AuctionsSettleCorrect`, and the whole
  contract, `MarketCustodyCorrect`, `OneSaleCorrect`. What holds of one auction depends on its record,
  history, refund records and account alone (`Sound`), so each call is shown to keep it for its own
  auction. `BidsBacked` is not inductive: `refund_losing_bid` must find no settled highest bid to pay,
  which needs that a cancelled auction with bids has a refund record for its highest bidder. For the
  whole contract `MInv` joins `LInv` with the auctions' invariant: a call on one side only takes an NFT
  without a record, or releases one whose record is its own.
* `LifecycleProofs`: what follows from those invariants about whole lives and about the one balance.
  `SweepCorrect` needs `SweepInv`: an artist's index lists all the artist's listings, none before the
  sweep's cursor is Active, and the cursor of an artist who is not revoked is at the start.
  `TransitionsCorrect` needs that two Active listings are of two NFTs, so a batch cancellation returns
  each to its own artist. `PendingIndexCorrect` counts: only `make_offer` grows a pending set, and below
  the cap, while a counter-offer takes the place of its parent (`Capped`).
  The balance is one number, so that it equals what is owed is a statement about a sum, and it is not
  inductive. Inductive is that the balance is the sum of the *accounts*, unconditionally: of the offers
  (`OfferBooks`, theorem `OfferBooksBalance`), and of offers and auctions together (`Books`, theorem
  `BooksBalance`), counter-offers and `refund_losing_bid` included. A call that settles one offer changes
  one term; a purchase, a cancellation and a sweep set a whole set of accounts to zero and pay out their
  sum (`OfferMoney`, `BidMoney`). Together with `DepositsBacked` and `BidsBacked`, which say what is in each
  account, the books give `ConservationCorrect`, `MarketConservationCorrect` and, with what a paused
  contract lets through, `PauseCorrect`, for any number of offers, listings and auctions.
  The lemmas on sums (`SumUnfolds`, `SumMinus`, `SumChange`, `SumOver`) are proved from the library's
  definition. Induction over a finite set is done by hand: a set of counterexamples has one of least
  size (`LeastNatural`, `SubsetInduction`). `Total` and `Size` are names for the library's sum and
  cardinality, given before the theorems on finite sets are brought in.
* `PayoutSplitProofs`: `PayoutTypeCorrect`, `SettlementCorrect`, `DustCorrect`, `NoOverflow`,
  `ClaimsCorrect`, `GlobalFeeSpared`, for all prices, rates and recipient lists. The provers cannot sum
  over a list, so the model keeps the running totals that the code's loops keep, and the invariant
  bounds what has been paid by the running total of the shares: below it by less than one unit per
  recipient.
* `KeeperProofs`: `KeeperTypeCorrect` and `RecordsCorrect` for any number of processes,
  `FinishedCorrect` for one. `RecordsTellChain` is not inductive: what is about to be recorded depends
  on where the process is (`StagesSound`), a row keeps its hash when its status moves on
  (`HashesSound`), and a success closes its target for good (`SuccessCloses`). `FinishedCorrect` adds
  `OpenRows`: between the idempotency check and the record of the outcome nobody else writes the row.
  That is where the assumption of a single process (`OneKeeper`) enters.
* `LedgerRepairProofs`: `OneRunner`, `ClaimsHeld` and `RangesAreAttempted`, for any number of workers,
  operators, gaps and jobs. Exclusion of runners rests on the lock: whoever executes a job is the holder
  of its lock (`Runs`), whatever other sessions left behind. A claim is exclusive because the
  conditional update finds the row Open, and a claimed gap is never Open again (`Claims`). It need not
  stay Repairing: a repair that made no claim may write its own verdict. `RangesAreAttempted` holds for
  every batch size and concurrency. Its invariant says, for a job at each point of its run, that every
  ledger up to its checkpoint and every ledger before the next window of a run is indexed, lost or in
  flight, and that the batches in flight end before that window (`Checkpoints`, `Going`). When the one
  runner of the job (`Runs`) has nothing in flight at the end of the range, all of it was attempted.
* `TxLifecycleProofs`: `GuardsHeld`, `ScreensTellChain`, `OneRunAtATime`, `OthersAreTold`, for any
  number of pages, instances and runs. What ties instances, runs and pages together comes first
  (`Typed`, `Linked`). `ScreensTellChain` follows a hash through the run, the instance, the session and
  the registry (`Hashes`); that an instance calls a hash of its own confirmed only after its run saw the
  success needs that the screen shows indexer_pending for it only from then on (`Confirmed`).
  `OthersAreTold` names the page that removed the entry. `OneRunAtATime` needs `Held`: unless a slot was
  given away, a live run's entry is pending, its instance would free it, and nobody is about to
  register.

Types of `Listings`, `PayoutSplit` and `Keeper`, and that the pages implement the array, are proved and
not model-checked on their own.

Only model-checked: the liveness properties `CyclesEnd`, `OpenGapsSettle`, `BacklogsDrain` and
`HubsResubscribe`, because the provers do not handle fairness, and the two violations of section 5.

## 5. Where the code and its own statements differ

Two have a run whose counterexample shows the difference:

* `escrow_conservation`: a counter-offer has no deposit, but its withdrawal or rejection pays one
  out; `invariant_tests.rs:13` states escrow conservation.
* `bid_paid_twice`: `place_bid` already returned an outbid bid when `refund_losing_bid` pays it; the
  comment at `contract.rs:3361` says a refund cannot be replayed.

The others were met while modelling. The models allow what the code does, and no property denies it.

**Contract.** `expire_listing` leaves Pending offers open, where `types.rs:286` says they must be
refunded first (the offerer can still withdraw). A collection's fee override is read at settlement and
wins over the rate stored in the listing, where the documentation of `set_collection_fee_bps`
(`contract.rs:1301`) says existing listings are unaffected; for the global rate that is true and proved
(`GlobalFeeSpared`). `reconcile_listing_owner` can set an owner on a listing
that is not Sold (`contract.rs:4279`); `accept_counter_offer` accepts any buyer, not only the
original one (`contract.rs:3967`); `counter_offer` is not stopped by a pause (matrix at
`contract.rs:1546`); an extension can move an auction's end earlier when the window is shorter than
the trigger; when the recipients' percentages add up to less than 10 000 the last one takes
everything that is not assigned; a royalty receiver who is also a recipient has one claim record, the
later one; only `update_listing_price` bounds a price by `i128::MAX / 10_000`.

**Keeper.** "Not expired yet" and "not ended yet" are classified permanent, so a keeper whose clock is
ahead of the ledger, or whose projection has missed an extension, marks a target Skipped that the
contract accepts a moment later; `error-classifier.ts:7` says a permanent failure "will never succeed on
retry". The same happens to an open, due target when the contract is paused (`ContractPaused` is in the
list, `error-classifier.ts:37`) or the message says "contract error". `attempts` is incremented only by
`markSubmitted`, which is called after a success, so the retry cap on Failed rows never binds; a row
becomes Submitted only after its transaction succeeded, so a crash after sending leads to a second
submission, which the contract refuses (`idempotency.ts:13` speaks of preventing it); the rebuild after
a sequence collision is not limited to one; with two processes `markFailed` of one can overwrite
Succeeded of the other.

**Gap repair and backfill.** A batch that fails is logged and skipped, and its job still ends Completed
and its gap Repaired (`backfill.ts:310-314`, `477-484`), where `backfill-integration.test.ts:349-374`
rejects every batch and expects the gap to be Failed: `RangesAttempted` says attempted and not indexed
for that reason. A window's last batch to commit sets the checkpoint, so a resume does not go back for a
failed one below it. Whether a job is ahead of the cursor is decided once, before its batches, so a long
job can set `SyncState` back although the header (`backfill.ts:9`) states a no-clobber rule. A crash
leaves its gap in Repairing, from where nothing takes it. The update to Running (`backfill.ts:376`)
stands before the `try` that unlocks, and the unlock may be sent over another pooled connection than the
lock, so a lock can stay behind. Cancelling does not stop a running job, whose Completed then overwrites
Cancelled. `gaps repair --gap=` claims nothing, and its verdict may overwrite that of the claimant.
`persistLedgerGap` leaves an existing row as it is.

**Realtime hub.** A live event that arrives during the `XRANGE` raises `lastSentId`, and the older
entries of the replay are then skipped, where `hub.ts:258-262` promises exactly-once, in-order delivery;
in the same way a broadcast that was overtaken is dropped by the monotonic skip. `FramesInOrder`
states what remains: at most once and in order. Resuming with a local id replays the whole window. The
poller's events go through the separate registry of `routes.ts:69-160`; the hub's `publish` is reached
only through `realtime/index.ts`.

**Transaction lifecycle.** The registry's window (20 s) is shorter than the wait for the indexer
(30 s), so an entry can expire under a live run. A watcher on the writer's own page, or on an entry that
expired, is never released, against the comments at `useTxLifecycle.ts:447-452` and `461`;
`OtherPagesTold` states what holds. `useTxLifecycle.ts:55` and `726` define indexer_pending as confirmed
on chain, but the mount effect (`413-430`) shows it for any hash found in sessionStorage, whose
transaction was sent and may be pending or have failed; `ScreenTellsChain` holds the instance that ran
the transaction to the definition, and a page that restored the hash only to its having been sent. A run
that was reset and ends later clears `runningRef` and the controller of the run that replaced it and
finalizes its registry entry: `GuardHeldByLiveRun` says that a held guard has a live run, not that a
live run has the guard. A reset with an old scope frees the slot of another run. Callers
such as `useBuyArtwork` return `false` where `run` expects a rejection, so success without a hash says
nothing about the chain, and `ScreenTellsChain` speaks of success with a hash.

## 6. Not modelled

* **Poller, checkpoint and reorganisations.** `pollContract` and `startPolling` call checkpoint
  functions that they do not import and assign to a constant (`poller.ts:784`, `791`), and
  `checkpoint.ts` declares `assertCheckpointShape` twice (lines 62 and 88). The order of writes that
  crash safety depends on cannot be read off code that does not build. Two facts to settle with it:
  `revertLedgers` deletes the events of all contracts while only the detecting contract's cursor is set
  back, and `findReorgSafePoint` compares no hashes.
* **Worker lease.** `acquireLease` inserts a row keyed by role and a random owner id, so two processes
  never compete for one row and no exclusion can be stated. The fenced lease is used by its tests and the
  health endpoint only.
* **Dead letters, reconcilers, projection rebuild.** They act on what the poller's handlers write.
* **Roles, two-step rotations, timelocks, migration; launchpad; collections.** Each call is one
  transaction over entries of its own; the sales depend on them only through switches that are modelled.
* **Recovery modes, circuit breakers, provider pool.** In-memory state of one process; a repair runs
  without a breaker (`retry.ts`, `selectBreaker`).
* **Other intents and undeduplicated runs** of the frontend, `tx-intent.ts`, `useReconciliation.ts`. All
  intents of an account share one stored map, and every write rewrites the whole of it from what its tab
  read before: a write for another intent in another tab can erase an entry that was just made or bring
  back one that was just removed. With one intent this appears only as the race of two registrations.
* HTTP handlers, rendering, metrics, event encoding, generated bindings, deployment manifests. They hold
  no state whose order matters.
