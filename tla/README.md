# Formal model of the MATRA token merger

The repository turns legacy FLUX-family tokens and NFTs into cMATRA: a pool of
cMATRA sits at a Cardano script address, a claimant sends legacy assets to a
quarantine address, and one transaction, signed by the claimant and by two
admins, pays them out of the pool.  This directory holds TLA+ modules that model
that system, the TLC configurations that check them, and proofs for TLAPS.

Paths below are relative to the repository root.

## 1. Inventory

| Component | Code | State it keeps | Operations | Talks to |
|---|---|---|---|---|
| Pool-tip chainer | `services/pool_tip.py` | the tip (output, balance, confirmed/pending, depth), one `asyncio.Lock`, the token and start time of the build that holds it | `acquire_for_build`, `release_build`, `advance_on_submit`, `seed_from_chain`, `reconcile_with_chain`, `evict_if_stale`, `sweep_stuck_build` | Blockfrost through two callbacks |
| Surrender service | `services/surrender_api.py` | `pending_tx_hashes`, `pending_tx_cbor`, `build_ctx`, `built_bodies`, `cosign_inputs`, `reserved_collateral`, `user_pending`, all in memory | `/build-surrender`, `/submit-surrender`, `/evaluate-surrender`, `/prepare-defrag`, status; the watchdog task | tip manager, node (submit), Blockfrost, co-signer, its own ledger |
| Co-signer | `services/cosigner_api.py`, `cosign_policy.py`, `chain_check.py` | key, policy, its ledger | `/cosign` | Blockfrost, its own ledger |
| Redemption ledger (one per signer) | `services/redemption_ledger.py` | SQLite table of approvals | `check`, `record`, `recorded`, `init` | - |
| Wallet transaction builder | `services/surrender_api.py` 1157-1813, `services/defrag.py` | reserved collateral and carried-forward change (in the service) | coin and collateral selection, canonical inputs, defragmentation | Blockfrost |
| Validators | `onchain/*/validators/*.ak` | the outputs at the script addresses | spend of a pool output (surrender, withdraw), quarantine (never), mint | the ledger |
| Mint and sweep ceremonies | `scripts/mint-ceremony.sh`, `scripts/admin-sweep-ceremony.sh`, `tools/sweep_helpers.py` | files written by one stage and read by the next, two hosts | apply, params, preflight, build, sign 1, sign 2, assemble, submit | node, Koios |
| Admin reclaim | `tools/admin_reclaim.py` | one run's batch and signatures | discover, build, sign here, sign over SSH, assemble, submit | node |
| Redemption arithmetic and pin | `tools/process_surrender.py`, `scripts/pin_redemption.py` | rate table, pin file | entitlement, remaining per unit, drift check, batch of surrenders | Blockfrost |
| Valuation and allocation | `tools/flux_merge_valuation_int.py`, `tools/snapshot_allocate_flux.py`, `tools/twap_snapshot_pools.py`, `scripts/regen_v5_1_artifacts.py`, `src/_run_full_pipeline.py` | CSV/JSON artefacts | TWAP, integer buckets, rates, holder listing, per-holder allocation | Blockfrost, Taptools |
| Builders | `tools/build_surrender_pool.py`, `tools/build_claim_utxos_flux.py`, `tools/*index*.py` | transactions, index files | split the supply over pool outputs, claim outputs | node |
| API clients | `tools/api_clients.py` | rate limiter | retries with back-off, pagination, submit (no retry) | Blockfrost, Taptools |
| Scripts and deployment | `scripts/`, `services/deploy/` | - | ceremonies, rehearsals, canaries | - |

### What is hard here

* **Single flight across a human.** The build lock is taken in one HTTP request
  and given up in another, minutes later, by the wallet's owner, or never.  Four
  parties may end a build: its failure, its submission (several at once), the
  sweep at the signing timeout, a restart.
* **Awaits.** The watchdog looks at the tip, asks Blockfrost twice, and acts on
  what it saw; builds and submissions run in between.  The lock is released
  some turns before its next holder takes it.
* **Three views of one pool.** The tip in memory, the mempool, and Blockfrost's
  index, which lags.  Submissions may fail with the transaction accepted.
* **Two ledgers.** Two signers record approvals separately, with answers lost
  or late, and each must bound what can land.
* **Money arithmetic.** Integer division, buckets, caps at equality, one floor
  per surrender, a waiver that is partly in quarantine already.
* **Tools that stop half-way.** A run of batches, or a ceremony of stages on two
  hosts, fails between two transactions, or its submission gets no answer; what
  it reports must be what the chain holds.
* **A clock with one deadline.** Two paths out of the pool, told apart by where a
  validity interval lies, with open and exact ends.
* **A wallet seen late.** A claimant surrenders chunk after chunk while the index
  still lists what the last chunk spent.

Correctness, per component: the tip is always true to the chain, one build at a
time owns it, the lock never leaks, the unconfirmed chain stays within the cap,
stale tips are replaced (chainer and service); no set of approvals that can
land together passes a limit, and each approval can land (ledgers); what a signer
approves is a trade at the fixed price and nothing else (policy); units leave the
pool to users before the deadline and to the admins after it (validators); reports
tell what happened (tools); no unit is paid for beyond its bucket over the life of
the pool (rates and pin); a bucket is given out once (allocation); a wallet is
refused only when it cannot pay, and no collateral is offered twice (wallet
builder).

## 2. Modules

```
PoolChain          node + Blockfrost, as far as the pool is concerned (external)
  PoolTip          pool_tip.py, one action per step between two awaits
    Surrender      surrender_api.py: the two handlers, watchdog, restart, properties
      MCSurrender  small pools for TLC
      SurrenderProofs  types, safety, the depth of the real chain, and that
                       Surrender implements SingleFlight
SingleFlight       abstract: what the chainer promises
SumProofs          lemmas: sums and maxima over finite sets, smallest
                   counterexamples, and that recursive functions exist
RedemptionLedger   redemption_ledger.py: the check and what it promises
  LedgerProofs     the recursion over the trees computes what it is meant to
  SignerLedger     one ledger, approvals in any order
    MCSignerLedger   every forest of four surrenders
    SignerLedgerProofs   limits and counts of one ledger
  Cosign           the two signers, their ledgers and their views of the chain
    MCCosign         chosen pairs and triples of surrenders
    CosignProofs     both record what is signed, and both ledgers' limits and paths
RateTable          buckets, rates, what a surrender is owed (pure)
  Redemption       units, rates, surrenders, the pin and what the signers admit
    MCRedemption     a token and a collection with an edition
    Merge          the pipeline that feeds it; Twap, Blockfrost, Allocation
      MCMerge        three DEX pools, a token with a waiver, two NFTs, four holders
      MergeProofs    types, rates, unit lifetimes, buckets, records; that Merge
                     implements Redemption; prices, the snapshot, allocations
Twap               price of an asset (pure)
Allocation         shares of a bucket (pure)
Blockfrost         a paged, retried listing
PoolScript         the validator and the mint policy (pure)
  Policy           what a signer checks (pure)
  PoolLedger       outputs at the pool's address, clock, wallet, node
    PoolBuilder    build_surrender_pool.py
    BatchDriver    process_surrender_batch
    AdminReclaim   admin_reclaim.py
    Ceremonies     the mint and sweep scripts
WalletBuild        a claimant's wallet under the service's transaction builder
  WalletProofs     its invariants, proved of WalletInit and WalletNext
Operations         PoolBuilder, BatchDriver, AdminReclaim, Ceremonies,
                   WalletBuild and Policy over one ledger
  MCOperations       four units, a deadline at slot two
  OperationsProofs   supply, deadline, reports, offers, and the wallet's theorems
                     carried over
```

### PoolChain (external)

A transaction is what it does to the pool: the output it spends and what it
returns.  It is unknown, in the mempool, confirmed (indexed by Blockfrost) or
dropped.  A transaction in a block that Blockfrost has not indexed is still
"mempool", because the service cannot tell the two apart.  The admins may spend
any unspent pool output with a transaction of their own (rotate: the balance
stays; withdraw: nothing stays).  Rollbacks of indexed transactions are not
modelled.  `LivePool` is `find_pool_utxos`; `IsConfirmed` is `_tx_is_confirmed`.

### PoolTip

| Variable | Code |
|---|---|
| `tip` | `_tip` (reference, balance, status, depth; the ADA amount is left out) |
| `tipStale` | `is_pending_stale()`: time has passed since `pending_since` |
| `locked`, `waiters` | `_lock`: `asyncio.Lock.locked()` and its queue |
| `token`, `overdue` | `_build_token`; `_build_started_at` is older than the signing timeout |
| `wd` | the watchdog: the await it stands at, the reference it decided on, whether the tip it read was settled |

Everything between two awaits of a coroutine is one action, because the service
has one event loop: `seed_from_chain` blocks it, so a re-seed is atomic.  The
watchdog's tick is split at `asyncio.to_thread` (three times) and at
`_lock.acquire()` (twice).  `seed_from_chain` may pick any of several largest
outputs and may fail.

`asyncio.Lock` is modelled with its queue because it matters: `release()`
unlocks and only schedules the first waiter, so for a while `locked()` is False
although somebody waits, and a newcomer queues behind them.

### Surrender

A *build* is one `/build-surrender` request, with its token and its transaction.
A *call* is a slot for one `/submit-surrender` request at a time.  Any request
may name any registered build, again and again, at once or in sequence.
`pc` is where a build request is (`chaining` if it builds on a pending tip and
skips the preflight); `registered` is `pending_tx_hashes` with
`pending_tx_cbor` and `build_ctx`; `expired` the part past `TX_HASH_TTL`.

`ahead` is the ready queue of the event loop, as far as it matters: tasks that
may be ready before the waiter just woken.  Each of them runs at most once
before that waiter.  Without it the model would let the watchdog run around the
lock for ever while a woken build starves, which asyncio's FIFO queue excludes.

What other parts of the system do to a request (wallet that cannot pay, spent
wallet input, policy or ledger refusal, co-signer unreachable, reserved
collateral) shows as a build that fails (`BuildFails`), a signing step that is
refused or crashes (`SignRefused`, `SignCrashes`), or a node that rejects
(`NodeRejects`), each possible at any time.  A submission can fail with the
transaction accepted, or still on its way (`SubmitFails`, then `call` is
"lost" and `NodeAccepts` may still come).  `Restart` loses all memory and keeps
what is on the wire.  Cancelled requests (a client that disconnects while
waiting for the lock) are not modelled; FastAPI runs the handler to its end.

### SingleFlight

The promise without lock, queue, coroutine or network: `Acquire`, `Release`
(only by a build that is over, or late), `Advance` (only by the owner, only once
its transaction has landed, by exactly its amount), `Reseed` (to an output the
chain lists), `Forget` (restart).  `Surrender` implements it under the mapping
`holder <- token`, `late <- overdue`, `over <- Over`, `landed <- Landed`.

### RedemptionLedger, SignerLedger

A transaction hash fixes what the transaction does, so `approval` maps each hash
to what `evaluate_surrender` would return and never changes.  A ledger maps each
hash to the time it was recorded at.  `Scenarios` are the families of
transactions an instance looks at together; `Age` says that a transaction can
only spend outputs of older ones, which hashes guarantee.  Each surrender makes
one pool output and one change output.  The policy demands exactly one pool
continuation, so a surrender that drains its output, which the pool-tip chainer
can follow, is never co-signed.

`Heaviest` and `CannotLand` translate `_heaviest` and
`_refuse_if_it_cannot_land`.  `Producer` is the recorded surrender that made a
pool output, `Followers` those that spend the output of another, and `Roots` those
whose output no recorded one made; `PathWeights` and `Upstream` are recursive
functions on them, down from a root and up from a surrender.  `Admits` is the check, `WithRow` the insert.  What they
are compared with is written without trees: `CoLandable` are the sets of
recorded transactions that spend nothing twice and contain what they need, and
`Overall` is the greatest weight of a set of non-competing pool paths.  Units a
transaction does not redeem are not tested, as in the code.

`SignerLedger` records with the time the handler began at, which may be one tick
ago: the time is taken before the policy, the chain and the lock of the file.

### Cosign

| Variable | Code |
|---|---|
| `ledger[s]` | the SQLite file of signer `s` |
| `pc[t]`, `began[t]` | where `_cosign` stands for `t`, and its `now` |
| `wire`, `co[t]` | requests on their way to `/cosign`, and its handler for `t` |
| `landed`, `gone` | the chain: surrenders that landed, outputs spent by others |

Handlers are threads.  Each ledger transaction, each chain confirmation and each
message is a step, and everything else may happen in between.  `ServiceGivesUp`
covers every way `_cosign` ends without a witness: refusal, timeout, chain or
ledger unavailable, crash; the same transaction may be submitted again, and a
late answer to an earlier request is as good as a new one because the witness is
the same.  `CosignerDrops` is the same on the other side, and the loss of a
request.  A process may die after recording and before signing
(`ServiceRecords` to "idle").  Several copies of one request at once are one
here: recording is idempotent.

`confirm_on_chain` looks up each output on its own, so each lookup may see
another past state of the chain (`Views`); outputs of recorded transactions are
not looked up.  Its supply and mint-history checks, the per-transaction cap and
the rest of the policy change no state and can refuse at any time.

Two things the model shows by what it does not claim.  After a lost answer the
co-signer holds approvals the service does not, so `BothRecorded` goes one way
only, and the co-signer may refuse what the service's own check admitted.  And
`PathsHold` is about the transactions a surrender builds on, as the check is: two
surrenders of different pool outputs may share a wallet input, and a third that
needs both is recorded although it can never land.

### RateTable, Redemption

| Variable | Code |
|---|---|
| `free`, `reserve`, `quarantine` | where the legacy units are: with holders, at the waived treasury addresses, at the quarantine address, whose validator never succeeds |
| `largest`, `changed` | what the pin's checks read from the chain's history: the most of a unit one transaction sent to quarantine, units minted or burned since the supply slot |
| `report`, `rate` | `build_merge_report` and `build_rate_table`: buckets with counted supplies, and the fraction per asset |
| `pin` | `pin_redemption.py` from the supply slot to the file that is deployed |
| `serving` | whether the service runs without a pin, is stopped, or runs with one |
| `ledger` | the signers' units approved since the pin (`RedemptionLedger` has the whole ledger) |
| `sold`, `counted`, `paid` | ghosts: units surrendered, units paid for and cMATRA paid, ever |

A surrender is priced as `surrendered_entitlement` and `compute_redemption` do:
units are summed per asset, then one multiplication and one floor.  Before the pin
a surrender may bring any quantity of any redeemable name; with the pin,
`SignersAdmit` is the limit of the ledgers, the supply and the mint history of
`confirm_on_chain`.  `ReadSupply` and `ReadQuarantine` are apart because the code
reads supplies as of a past slot and quarantine at the tip; `WritePin` and
`Deploy` test a record of waived units against the chain, and `Drift` is the
check before deployment, after which nothing is served until the pin is live.
Everybody else may mint and burn collection units, move units in and out of the
reserve and send units to quarantine for nothing, at any time.  Approvals are
taken to land; that ones which do not are still counted is the ledgers' matter.

### Twap, Allocation, Blockfrost, Merge

The phases of `_run_full_pipeline.py` in order.  `Price` reduces a market to one
price per asset, `Report` cuts the pool into buckets, and `Redeem` is every later
step of `Redemption`, which `Merge` implements: `PipelineRedeems` is the
specification of `Redemption` with the buckets left open.  Phase 3 lists holders
page by page with retries, then each NFT's owner, while holders go on trading
(`TransferToken`, `TransferNft`); its result is a reference for audits and nothing
later reads it.  Only the allocation options the pipeline uses are modelled:
eligible denominator, no whitelist, no dust sweep.

Prices and means are whole numbers, rounded down.  A bucket is `int(weight * pool)`
in floating point, so `Truncated` leaves it open within a relative error of one part
in `Fine`: a share that should be a whole number may come out as the unit below (as
0.29 * 100 gives 28), and the last asset takes what is left.  Doubles err by
at most 8 parts in 2^53 here, and the pool has 7.2 * 10^14 units, which is why
`Pool < Fine` may be asked.  An NFT counts in the one row of its owner (`Tallied`), or
in the unresolved.  Allotments are per payment key; what is left over is worked
out from the balance of one address of the key (`BalanceOf`), as the table written
again keeps the last address only.

Sorting is stated by what it decides: a pool is among the deepest if fewer than
`TopPools` are `Ahead` of it (deeper, or listed before it, as the sort is stable),
and the k-th price in order is the one with fewer than k below it and k not above.
Rows that a filter leaves out keep their positions, which nothing looks at.

### PoolScript, Policy

`Validates` and `MintPolicy` are the two Aiken validators; a validity interval is
half-open in slots and may be unbounded on either side.  `Policy` is
`evaluate_surrender` check by check, each assuming the ones before.  A transaction
is what strict decoding makes of it; a price is a function of the bag that goes to
quarantine.  What it is for is stated on the ledger's terms: `ApprovedOpensPool`
(the validator's surrender path accepts it and the other never can) and
`ApprovedTrades` (net of everything, the claimant gives the units that reach
quarantine and gets their price out of the pool, and the ADA that leaves the pool
is bounded and ends at the claimant's, in quarantine, or in the fee).

### PoolLedger and the operator's tools

`PoolLedger` is what the tools share: the outputs at the pool's address, the slot,
the funding wallet as a sequence of states, and a node that takes a transaction if
it is in time, signed as its body requires, and its script accepts.  The amounts a
transaction states for its inputs must be the ones they hold, which is how a
transaction built on a stale view fails.  `script` is the script the tool is
pointed at: the pool's, or another one whose source is not in the repository
(`build_surrender_pool.py` and the batch driver sign with one admin, which the
pool's own validator never accepts; the tools predate it).

A tool is a record of where its run stands.  Each network call, signature and
submission is a step that may fail, and a submission may be taken without an
answer.  The stages of the two ceremonies run in any order and any number of
times, over the files that are there; the two signing hosts may hold signatures of
older bodies.  `cardano-cli` is taken to accept the datum file the sweep passes
for the pool's inline datum.  Koios shows the address as it is.

### WalletBuild

| Variable | Code |
|---|---|
| `coins`, `live`, `listed` | outputs at the claimant's address: all there have been, the unspent ones with the mempool counted, the ones Blockfrost lists |
| `pending`, `head`, `tip` | accepted surrenders that have not settled, the pool's current output, what the service believes it is |
| `reserved`, `carried` | `reserved_collateral`, `user_pending` |
| `open` | surrenders handed to the wallet and not submitted |
| `forgot`, `moved`, `moves` | ghosts: reservations cleared with a surrender in flight; outputs the holder has spent by himself |

A build selects and reserves collateral, judges the wallet (`Shortfall`,
`MustFail`), and spends any sufficient set of outputs, since pycardano's selection
is its own affair.  It fails and keeps its reservation, tells the wallet what it lacks
and gives the reservation back (`Told`: before the build, or when the builder's own
selection fails on a wallet that is short), or hands the surrender out;
`/evaluate-surrender` reserves and never hands out.  A submission advances the tip
and carries the change forward, or re-seeds; a re-seed (`Evict`, which is also how the
watchdog promotes a tip that has settled) forgets reservations and
change before it asks the chain.  The index settles in order, the mempool drops
from the end, other claimants move the pool, and the holder may spend by himself,
as `/prepare-defrag` offers him to.  The fee is constant.  Minimum ADA depends on
the kinds of tokens an output holds, not on their amounts (`MinAda`); ADA-only
outputs below `SpareFloor` are not offered beside carried change.

### Operations

A behaviour starts in one of six situations, and the parts that belong to it run:
nothing minted (both ceremonies), the supply in the wallet (builder), requests
(batch driver), closing (reclaim), a wallet's chunks (`WalletBuild`), and an offer
to a signer (`Policy`).  In the first four the service, strangers who send or burn
units, and the clock run beside the tool.

## 3. Runs

| Run | Instance | What it shows |
|---|---|---|
| `SurrenderSafety` | 2 pool outputs (3, 2), builds of 1 and 2, one admin transaction, cap 2, 2 calls | `TypeOK`, `TipTruth`, `LockHasToken`, `HolderCanFinish`, `WatchdogNeverStomps`, and that the service implements `SingleFlight` |
| `SurrenderChain` | 1 output of 4, 3 builds of 1, cap 2, 2 calls, 1 restart | `UnsettledChainBounded`: the real chain in the mempool, also across a restart |
| `SurrenderLiveness` | 1 output, 2 builds, admin transaction, cap 1, 1 call, fair | `ReclaimedUnlessQueued`, `WaiterServedUnlessQueued`, `PoisonedTipReplaced`, `StrandedTipReplaced` |
| `SurrenderSweep` | 1 output of 3, builds of 1, 2, 2, cap 2, 1 call, fair | **violated**: `StuckBuildReclaimed` |
| `SurrenderFlush` | 1 output, 2 builds, cap 1, 2 calls | **violated**: `TipFixedWhileHeld` |
| `LedgerLimits` | 4 surrenders on 2 pool outputs in all 60 forests, limit 3, 24 h = 2 ticks | `LimitsHold`, `UnitCountExact` |
| `CosignSafety` | 3 surrenders, the third needing both others (3 shapes), and 2 with a clock (2 shapes); unit limit 2, daily cap 3, 24 h = 2 ticks, one outside spend | `BothRecorded`, `LimitsHold`, `PathsHold` |
| `LedgerDaily` | as `LedgerLimits` | **violated**: `DailyCountExact` |
| `MergeLifecycle` | a token of 3 units with 1 waived, a collection of 2 (its names symmetric), a pool of 5, shares within one part in 50, 128 markets, 4 holders on pages of 2, 1 retry, 1 move | `PriceHolds`, `FairBuckets`, `PipelineRedeems`; `PaidAtRate`, `UnitLifetime`, `FungibleWithinBucket`, `RecordedPinPromise`; `SnapshotFaithful`, `AllotmentBound`, `CarveFits` |
| `MergeEditions` | a token, and a collection with an NFT and an edition of 2 | **violated**: `CollectionWithinBucket` |
| `Operations` | 4 units, deadline 2, slots to 4, minimum ADA of 1 (2 with two kinds), the situations of `MCOperations` | tools: `MintSound`, `DeadlineSplits`, `SweepEmpties`, `ManifestTells`, `ReportedIsPaid`, `ReportedReclaimed`; policy: `OffersOpenPool`, `OffersTrade`; wallet: `ChangeFollowsPool`, `CollateralOnce`, `RefusedRightly`, `LeanOutputs` |
| `OperationsReclaim` | as `Operations` | **violated**: `Reclaimable` |

Bounds.  Two builds and two calls give every pair of parties that can meet: two
owners in turn, a late submission of a swept build beside a new owner, and two
submissions of one build.  Three builds are needed for a waiter behind a waiter
and for a fork of the chain after a reset of the depth.  The amounts let a build
drain an output, leave a remainder that ties with another output, and ask for
more than is there.  One admin transaction is enough to poison a tip once, and
it can only be told from a surrender by not being the service's own.  One
restart separates a first and a second life; a further one would start from the
same kind of state.  `CallSymmetry` and `FullSymmetry` are used only in runs
without liveness; calls, and builds of equal amount, are only compared, never
ordered.

For the ledgers, four transactions give every shape in which a path, a fork
below a fork and a second root meet; limits are between the lightest and the
heaviest total, so some approvals are admitted and some refused in each shape.
Three surrenders are the least that let one need two others.  Two ticks of
window and two of clock let a row leave the window while its follower stays, and
while a handler that began before still has to record.

For the redemption, three units with one waived let one be surrendered before the
pin or donated, another after it, and the waived one be in the reserve, outside it
or in quarantine with a record.  Two names of a collection let one be priced and
surrendered while the other is not, and one owner hold both.  With shares off by
up to one part in 50 of a pool of 5, some are open between a whole number and the
one below.  A listing of
four holders on pages of two ends with a full page and an empty one, or with a
short one.  Three pools per token are the least where one of them could move a
median.  One move during the snapshot is enough for a row to be lost or doubled.

For the tools, slots 0 to 4 are the day before the deadline, the deadline, the
buffer, and the sweep's window with its end.  Three outputs in batches of two give
a full and a rest batch.  `MaxGifts` bounds what strangers send to one, which is
enough to block the sweep; `MaxBuilds` and the driver's and reclaim's single runs
bound repetition, a second run starting from an initial state of the same kind.
The wallets hold three outputs at most and one surrender is open at once
(`MaxOpen`): more open ones compete for the same pool output, and only one lands.
`MaxPool` is four accepted surrenders, so a chain of three builds on each other;
`MaxInputs` bounds inputs chosen beyond the explicit ones and `MaxMoves` what the
holder does by himself.  The offers are 48 variations of one good surrender in
signers, interval, redeemer and collateral return, 162 in outputs, and 336 in
inputs, collateral, redeemed inputs and additional outputs.

Deadlock is not checked: requests are finite in the instances, and with no
build left and time used up the service is rightly idle.

Fairness (`Fairness`).  The event loop runs whatever is ready, so each step of a
request already made and each watchdog step is weakly fair; the thread and
network steps of the watchdog that may succeed or fail are strongly fair in
success (Blockfrost answers one who keeps asking, and lists a pool it has);
time passes; the node answers a submission.  Nothing is assumed of wallets: no
submission ever has to start, and no transaction has to confirm.

### What the violations say

*The sweeper can be blocked by the lock it should reclaim.*
`evict_if_stale` (and `reconcile_with_chain`) read `self._lock.locked()` and then
`await self._lock.acquire()`.  Build C's tip is pending and stale; B builds, A
waits; B fails and releases: the lock is now unlocked with A scheduled.  The
watchdog, ready in the same turn, sees it unlocked and queues behind A.  A takes
the lock and its wallet never signs: the watchdog waits for the lock inside its
own tick, and `sweep_stuck_build` runs only at the start of a tick.
`services/pool_tip.py:246-247` promises "the timeout sweeper reclaims a stuck
lock"; line 494-495 that the eviction skips the round if a build holds the lock.
A submission or abandonment by A's wallet still ends the wait, which is why
`ReclaimedUnlessQueued` holds.

*The flush after a refused advance touches another build's tip.*
When a submission comes back after its build was swept, `advance_on_submit`
raises for the stale token before its `try`, so nothing is released, and
`submit_surrender` re-seeds although another build holds the lock.
`services/surrender_api.py:2138-2139` says the lock was already released.
`TipTruth` and `SingleFlightPromise` hold all the same: the tip goes to an output
that exists, and the running build's transaction at worst meets a guard or a node
that rejects it.

*The daily count is not exact.*  `_within_limits` keeps the rows of the last 24
hours and only then builds the tree.  When T1 leaves the window and its follower
T2 stays, T2 is the root of a tree of its own and is added to T1's rival T3,
although T1 and T3 spend one output and T2 and T3 cannot both land.
`services/redemption_ledger.py:12-20` promises that what is superseded is not
counted twice.  `LimitsHold` holds: the count is too high, never too low.

*A collection with editions is paid more than its bucket.*  The rate of a
collection is its bucket over the names with a supply of one
(`tools/config.py:361-381`), while the pin makes all live names redeemable,
"editions with supply > 1 included" (`scripts/pin_redemption.py:79`), and each unit
of an edition is paid the rate.  `audit_pack/2026-02-12/ELIGIBILITY_RULES.md:246`
divides the bucket by the redeemable count.  In the committed files T2_ADAM_PASS is
priced over 95 and pinned with a supply of 150 in 119 names.  `UnitLifetime`, which
is per unit, holds.

*After a surrender the rest of the pool cannot be taken back with these tools.*
A surrender built by the service leaves the pool output with 1.5 ADA; the sweep
refuses less than 2 ADA (`scripts/admin-sweep-ceremony.sh:469`), though its
preflight says "sweep will still work" after claims (line 361).
`tools/admin_reclaim.py` decodes the pool's Void datum as a claim's and raises, and
would use the redeemer of a surrender, which the validator refuses after the
deadline.  `README.md:87-88` promises the reclaim.  The validator itself allows it:
a withdrawal put together by hand, or a floor of 1.5 ADA, goes through.

## 4. Proofs

The proofs are about every value of the constants that the named assumptions
allow; TLC evaluates each of them in the runs.  What they ask, and why the code
gives it:

| Assumption | Asks | Because |
|---|---|---|
| `ChainAssumption`, `TipAssumption`, `NoneIsNoTip`, `SurrenderAssumption` | disjoint names, positive amounts, a cap of at least one | outputs are named by hashes; a surrender that pays nothing is refused |
| `LedgerAssumption` of `RedemptionLedger` | finitely many transactions; each spends what it names; none needs an output of a younger one | a transaction's hash covers its inputs, so there is no circle of them |
| `ClockAssumption`, `CosignAssumption` | natural bounds | - |
| `RedemptionAssumption` | a fungible asset is one unit; a waiver is within the supply, and only fungible assets have one | the configuration's assets and its treasury addresses |
| `MergeAssumption` | each asset is in the configured order; collections have no burned units; closes are prices or missing; an address is listed once; the buckets a report may state include every split of the pool; the error of a share is less than a unit (`Pool < Fine`) | `config.py`'s assets and supplies; Taptools' candles; Blockfrost aggregates an asset's holders by address |
| `BlockfrostAssumption` | a page has a row at least | the client's page size |
| `ScriptAssumption` | two different admins, a supply that is not zero, `Open` is no slot | the validator's parameters |
| `PolicyAssumption`, `OfferAssumption` | script addresses are locked by no key; cMATRA has no price; a transaction has the shape strict decoding leaves | the policy module refuses anything else before it looks further |
| `LedgerAssumption` of `PoolLedger`, `BuilderAssumption`, `DriverAssumption`, `ReclaimAssumption`, `CeremonyAssumption`, `LeftoverAssumption` | batches and windows of at least one, some request, a pool share within the supply | arguments the tools reject otherwise, and the ceremony's constants |
| `WalletAssumption` | finitely many tokens; minimum ADA grows with the kinds and that of two outputs covers one with both their kinds; that of cMATRA alone is within what a surrender pays in ADA; the collateral target covers the need and a returned output and is above the collateral floor; wallets start with the holder's own outputs, each with its minimum | the ledger's minimum is a constant plus a price per byte; `COLLATERAL_TARGET_LOVELACE`; "more ADA than the minimum" an offered output adds (`_wallet_shortfall`) |

This list is all the proofs take for granted: no theorem has a further hypothesis on
a constant.

**The pool tip** (`SurrenderProofs`).

| Theorem | States | By |
|---|---|---|
| `TypeCorrect` | `TypeOK` | `TypeInv`: types need the tip's balance to be what its output holds (`t.balance - Amount[b]` must stay natural), bodies to be grounded in outputs, `wd` and `waiters` to be shaped for their uses |
| `LockAlwaysHasToken` | `LockHasToken` | inductive with the types |
| `DepthStaysBounded` | `DepthBounded` | `DepthInv`: while a build holds the lock its tip is below the cap, and only a holder advances |
| `TipIsTrue` | `TipTruth` | the tip's balance and reference follow from where each change of the tip comes from: a seed, or a transaction the node took with the body the guards compared |
| `HolderCanAlwaysFinish` | `HolderCanFinish` | `LifeInv`, `HolderInv`: each build goes through its stages once, and a registration is only dropped together with the lock or after the timeout |
| `WatchdogNeverStompsHolds` | `WatchdogNeverStomps` | under the lock there is no other holder |
| `ImplementsSingleFlight` | `Spec => SingleFlightPromise` | each step maps to a step or a stutter, by the invariants above |
| `ChainStaysBounded` | `UnsettledChainBounded` | below |

`UnsettledChainBounded` is about the chain in the mempool, while the guard is about
a number in memory that re-seeds and restarts set back to zero.  The invariant
says that there are a label `dep` for every build and a set `D` of builds such that
each build's label is within the cap, labels grow along each spend outside `D`
(`Deeper`), a pending tip's depth in memory is no less than the label of what it
stands on (`TipDepth`), and a tip seeded from the chain holds more than any
unconfirmed build outside `D` leaves, so that none of those is later taken for its
successor (`Peak`).  The builds of `D` never land: they are not on the wire, and what
each spends is in `D` or spent by a confirmed transaction (`Doomed`); a re-seed puts
into `D` what it cuts off.  That the chain has no circle is `Ranked`, and along it
the mempool's recursion is the label at most.  `SoundInv` says where bodies come
from: `Fresh` (a build has one only once it is built), `Rooted`, `Connected`.

**The ledgers** (`LedgerProofs`, `SignerLedgerProofs`, `CosignProofs`).

| Theorem | States | By |
|---|---|---|
| `UnitCountsAreExact` | `UnitCountExact` | `HeaviestExact`: the sum over roots of the heaviest path equals the greatest weight of a set of non-competing paths, in both directions |
| `LedgerKeepsLimits` | `LimitsHold` | `TypeOK`, and what `Admits` weighs is at least what any landing set weighs (`PathsWithin`) |
| `BothSignersRecord` | `BothRecorded` | `IInv`: an answer the service holds is recorded by the co-signer, which `BothRecorded` alone does not say; `Never` is no time |
| `BothKeepLimits` | `LimitsHold` of `Cosign` | `RecordKeeps`, for a handler whose `now` is of an earlier step |
| `BothPathsHold` | `PathsHold` | what a handler looked up on the chain was there in some past state, and landed transactions stay; `UpstreamStable`: a later approval does not change the path of an earlier one |

The ledger's daily count forgets rows after a day and is then not exact, so its
theorem has one direction only: it never counts too little.

**Redemption** (`MergeProofs`).

| Theorem | States | By |
|---|---|---|
| `TypeCorrect` | `TypeOK` | the reserve never exceeds what there is, and a rate's denominator is never zero |
| `PaymentsAtRate` | `PaidAtRate` | one floor per payment: floors of parts add up to no more than the floor of the sum, and the rate is fixed before the first payment |
| `LifetimeOfUnits` | `UnitLifetime` | `Conserved`, `SoldInQuarantine` (what is sold is in quarantine) and `SoldOnLedger` (since the pin, what is sold beyond its quarantine count is on the ledger, which `Remaining` bounds); the drift check joins the two readings of the chain |
| `FungibleBuckets` | `FungibleWithinBucket` | from the two above and `Reported`: a counted supply is the supply, since fungible policies are closed |
| `RecordsPromised` | `RecordedPinPromise` | the drift check looks at the reserve and at quarantine in the step that deploys |

These are theorems of `Redemption`'s `Spec`, with the buckets any split of the
pool; `PipelineImplements` carries them to the pipeline.

**The pipeline** (`MergeProofs`).

| Theorem | States | By |
|---|---|---|
| `PipelineImplements` | `MergeSpec => PipelineRedeems` | `BucketsSplit`: with something of value, floors leave a remainder that is not negative, so the last bucket is a number too and all add up to the pool; every other step is one of `Redemption` or leaves it alone (`SnapshotAside`) |
| `BucketsFair` | `FairBuckets` | `TruncatedOff`, `TruncatedSum`: each share is below the exact one by less than a unit and the asset's own part of one, and above it by that part at most; parts add up to less than the pool's, so the last bucket is off by less than one for each asset; `Waiting` says that values are those of the report as long as they are kept |
| `PricesHold` | `PriceHolds` | `MedianOfThree`: of three prices the middle one lies between any two; `MeanWithin`: a mean lies between the least and the greatest close; `KthFound`: the median exists |
| `SnapshotsFaithful` | `SnapshotFaithful` | `Snapped`: as long as nobody has moved, the rows so far are a prefix of what the provider lists, as long as the pages asked for; refused and broken requests change neither (`PageAnswered`); `RowsListed`: the full listing has each holder once; `TalliedRows`: one more NFT adds one to what its owner's row or the unresolved count, and an owner keeps one row |
| `BucketsAllotted` | `AllotmentBound` | `AllocationFits`: what is set aside and the floors of what remains fit in the bucket, each floor less than one short; `DistributedSum`: summed by key or by row, the units are the same |
| `CarvesFit` | `CarveFits` | `RatePaid`: floors at the rate are within the bucket's share; `BalancesPaid`: a key is paid for one of its rows; `EligibleHold`: what eligible holders hold is the supply less the team's and the scripts' |

`Snapshotting` is the inductive invariant of the last three: the stage and the
counters of phase 3 (`Snapped`), and that a report is priced while it runs, since
the shares are taken of the report's buckets and supplies.  `SnapshotFaithful`
alone is not inductive, as it speaks of the finished listing only.

**Policy, validators and tools** (`OperationsProofs`).

| Theorem | States | By |
|---|---|---|
| `OffersAlwaysOpenPool` | `OffersOpenPool` | interval arithmetic: a validity that starts by now and ends by the deadline is before it, so the other path is shut |
| `OffersAlwaysTrade` | `OffersTrade` | an output is at the pool, in quarantine or at the claimant's, which are three places (`ThreeWays`); the rest is sums over the three |
| `SupplyAlwaysAddsUp` | `MintSound` | `SupplyInv`: `Stock` (pool, wallet and every account add up to what was minted), `Books` (what the ceremonies' files say was minted), `Funded` (what the builder believes its wallet holds, it holds), with `Serving` for the driver's view |
| `DeadlineAlwaysSplits` | `DeadlineSplits` | `Parted`, one lemma per tool |
| `SweepAlwaysEmpties` | `SweepEmpties` | `Viewing` (a sweep's body lists what its preflight saw) and that a number of an output is never used again |
| `ManifestAlwaysTells` | `ManifestTells` | `Listed`: what left the wallet so far is in the batches done so far, position by position |
| `ReportAlwaysPaid` | `ReportedIsPaid` | `Counted`: what the accounts got is the worth of the results, plus that of a submission without an answer |
| `ReclaimAlwaysReported` | `ReportedReclaimed` | `Reclaiming`: the outputs of the batches before the present one are spent and their units back; a spent output's number never returns, whatever strangers send meanwhile |
| `TypesAlwaysHold` | `TypeOK` | `Staged` and the invariants above: that balances stay within the supply is conservation, no mere typing |

**The claimant's wallet** (`WalletProofs`, carried to `Spec` of `Operations`).

| Theorem | States | By |
|---|---|---|
| `ChangeAlwaysFollows` | `ChangeFollowsPool` | `ChangeInv`: the promise with a state in it, for every pool output up to the present one and every set the service carries; `InOrder`: pending surrenders are numbered by the pool outputs they spend, settle in order and drop from the end |
| `CollateralAlwaysOnce` | `CollateralOnce` | `CollateralInv`: a pending or open surrender's collateral is reserved |
| `RefusalsAlwaysRight` | `RefusedRightly` | if nothing more could be spent, no choice holds more; the least fee is the fee of no further input; what is bound to fail is short by the measure the wallet is told |
| `SplitsAlwaysLean` | `LeanOutputs` | the planner's division cuts the ordered kinds into stretches of at most the limit |

Sums, maxima and recursion.  The models sum and fold with the community modules'
operators.  The library's induction theorems take an operator, which these
provers cannot instantiate; its theorem on minimal elements takes a set, so
`SumProofs` argues by a smallest counterexample.  `RecursionExists` is that a
function which refers to its own values below an argument exists, with the
recursion given as a function of pairs; from it, `SumUnfold` gives the fold's
first step, and the rest (`SumUnion`, `SumInjection`, `SumBound`...) follows.  The
ledger's trees and the mempool's depth are unfolded in the same way, along `Age`
and `Ranked`.

Model-checked only.  Liveness (`ReclaimedUnlessQueued`, `WaiterServedUnlessQueued`,
`PoisonedTipReplaced`, `StrandedTipReplaced`) is out of the provers' reach.  The
properties that are violated have no theorem.  Every other property of a run is
stated by one.

## 5. Not modelled, and why

See `PROJECT.json` for the list by component.

* Parsing and encoding of CBOR, pycardano's coin selection and fee arithmetic, HTTP,
  logging, CSV and JSON: no property here depends on them that a model of this size
  could state better than the tests do.
* `build_claim_utxos_flux.py`, `build_flux_claim_index.py`, `claim_flux_indexed.py`:
  the claim flow the surrender pool replaced.  `cross_check_holders.py`,
  `funding_calculator.py`: they read and print.  The harnesses, canaries and
  rehearsals drive the program and are not part of it.
* The `COLLATERAL_UTXO` setting: the policy accepts the claimant's collateral only.
* Rollbacks of indexed transactions.

Known limits of the code that nothing promises otherwise about, so that no property
is stated: an approval that expired counts against its units for ever, and one that
needs two surrenders competing for a wallet output is recorded although it cannot
land (`redemption_ledger.py:220`, `:102`); a build that fails for another reason than
the wallet's ADA keeps its collateral reserved until the next re-seed
(`surrender_api.py:1611`); a chained build may offer a pure-ADA output the pending
chunk has spent, and then fails (`:1648`); a build's ttl reaches past the deadline in
the last hours of the window and is refused (`cosign_policy.py:485`); a rate whose
floor is zero is refused although its fraction would pay (`process_surrender.py:175`);
a holder who trades while the snapshot is listed may be listed twice or not at all
(`snapshot_allocate_flux.py:46`); what happens between a pin's drift check and its
deployment is left to the signers' own checks; the sweep's window is counted from the
deadline and cannot be used later (`sweep_helpers.py:85`), and any other output at
the pool's address stops it; a surrender that drains the pool output is refused by
the policy.

## 6. Plan

Every invariant and action property of the passing runs has a theorem.  What is
left is the models: the service's restart between a build and its submission in
`WalletBuild` (reservations are lost with the process), and a second surrender open
at once (`MaxOpen`) in the run of `Operations`, which is now bounded to one.
