# eth-mon-svr in TLA+

eth-mon-svr listens to an Ethereum network through several providers, keeps the
pending transactions it hears of, follows the blocks, predicts gas prices every
two seconds and uploads predictions and fee statistics over gRPC. This directory
models the program from the subscriptions to the uploads, checks it with TLC and
proves its safety properties with TLAPS.

## The system

| Part | State | Operations | Shares with |
|---|---|---|---|
| pending pool (`mempool`) | `Accounts`/`NonceMap`, `HashIndex`, `ExpireBuckets` under one `RWMutex` | `PushBatch`, `RemoveByReceipts`, `RemoveExpired`, `Clear`, `Snapshot` | processor, analyzer |
| block pipeline (`coordinator/blockPipeline.go`) | `headerChan`, `failedBlockChan`, `wakeupChan`, `nextBlockNum`, `pendingBlock` | `push`, `blockProcLoop`, `failBlockLoop`, `procAvailable`, `checkBlockGap`, `resync` | calls the processor, is fed by ingestion |
| pending pipeline (`coordinator/pendingPipeline.go`) | `jobs`, a batch per worker | `push`, `worker` | calls `GetTxInfo`, is fed by ingestion |
| processor (`processor`) | none of its own | `Initialize`, `ProcessBlock`, `Resync`, `CleanupFailedBlock`, `GetTxInfo`, `SendFeeBucketsToGrpc` | pool, block store, analyzer, gRPC client |
| block store (`blockstore`) | the last blocks, newest first | `Clear`, `AddBlock`, `GetBlockData` | processor |
| analyzer (`gasanalyzer`) | `ready`, `latestBlockData`, `latestResult` under `mu`; `runMu` over a whole analysis | `Start` (ticker), `AnalyzeGasPrice`, `Reset`, `SetReady`, the `Update...` functions | processor, pool, gRPC client |
| gRPC client (`network/grpcClient`) | `GasPredictCh`, `FeeBucketCh`, last acknowledged block | `GasPredictResultSend`, `enqueue`, stream worker, `FeeBucketSend`, unary worker | analyzer, processor, server |
| RPC manager (`network/rpcManager`) | `active`, `lastRotateAt` under a lock that no call holds; rate limits | `EthClientFunc` | every RPC |
| ingestion (`network/ingestion`) | subscription sessions, `pendingSwitch`, dedup cache | header and pending subscriptions, rotation, handover, watchdog | pushes to the coordinator |
| authentication (`network/auth`) | cached token, the refresh in flight | `GetAccessToken` | both gRPC workers, through the interceptors |
| server (`cmd/server`) | the context | start, wait for a fatal error or a signal, shut down | everything |

What is hard here: five kinds of goroutines share the pool and the analyzer; the
pipeline lives on unreliable announcements and failing calls; a resync replaces
the state under everyone else; channels drop what does not fit; the stream loses
what was in flight. The list of places is `hazards` in `PROJECT.json`, with the
properties that watch each of them.

What makes each part correct: the pool's three indexes describe the same
transactions and nothing outlives them; the pipeline deals with every block once,
in order, and never falls asleep over one; a prediction is made from data of one
lifecycle, its fees are quantiles of the tips it saw and its base fee is the one
the chain will charge; the newest prediction and the newest statistics are what
the server gets in the end, with a token that is never replaced by an older one;
no copy of a hash is fetched twice; subscriptions come back after any failure
without leaving a session behind; a call asks every provider once before it gives
up; everything stops when asked.

## Modules

| Module | Models | Variables and actions |
|---|---|---|
| `Maps` | Go maps as functions with a changing domain | |
| `PoolTypes` | transactions: sender, nonce, fee limits; the replacement rule `Outbids` | |
| `PoolSpec` | what the pool promises: a set of live transactions with the block each was seen at | `live`; `Offer`, `Include`, `Expire`, `Clear` |
| `PendingMemPool` | `mempool/pool.go` | `pool` (the three indexes), the lock `mu`, the loop in progress (`todo`, `cur`, `stats`). An operation that loops takes the lock, does one iteration per step (`PushNext`, `ReceiptNext`) and unlocks; `RemoveExpired` and `Clear` are one step |
| `PoolSnapshot` | `Snapshot` of `mempool/pool.go`, an operator on `pool` | |
| `...Proofs` | the theorems about the module whose name they begin with: `PendingMemPool` (with `PoolSnapshot`), `BlockPipeline`, `Processor`, `PendingPipeline`, `Ingestion`, `RpcManager`, `GasStream`; and `FeeProofs`, about `FeeUpload` with `TokenManager`, and `FeeAnalysis` with the modules it uses | |
| `BlockPipeline` | `coordinator/blockPipeline.go` | the two goroutines' places `pc`, `fpc`; every call of the processor is a step that succeeds or fails; the chain (`head`, `chain`) and the providers (`healthy`) move by themselves |
| `Processor` | `processor`, `blockstore`, the locks of `gasanalyzer`, on top of `PoolSpec` | one place per goroutine (`bpc`, `fpc`, `wpc`, `apc`), one step per critical section |
| `BaseFee` | `gasanalyzer/fee.go` | operators: effective tips and `CalculateNextBaseFee` |
| `Percentiles` | `gasanalyzer/util.go`, `type.go`, the two `Percentiles` functions | operators: from weighted tips to a fee per level |
| `FeeStatistics` | the sums of `processor_block.go` | operators: `aggregateFeeBucket`, `convertFeeBucketToProto` |
| `FeeAnalysis` | the computations of `ProcessBlock`, `Resync` and `AnalyzeGasPrice` on a chain that follows EIP-1559; uses the three modules above | `head`, `blocks`, `latestBlockData`, `latestResult`, `request` |
| `PendingPipeline` | the hash's way: `ingestion/cache.go`, `coordinator/pendingPipeline.go`, the chunks of `GetTxInfo` | sessions (`coming`, `new`), `cache`, `jobs`, workers (`wpc`, `batch`, `from`) |
| `Ingestion` | `ingestion/header.go`, `pending.go`, `Subscriber.go`, the end of `main` | the header goroutine (`hpc`), the pending goroutine (`ppc`, `session`, `next`), sessions nobody refers to any more (`stray`), `pendingSwitch`, `errChan`, `mpc` |
| `RpcManager` | `network/rpcManager` | `active`, `lastRotateAt`; per caller the locals of `EthClientFunc` (`now`, `idx`, `i`) |
| `GasStream` | prediction half of `grpcClient/client.go` | `GasPredictCh`, the three selects of `enqueue` (`ppc`), the stream worker (`spc`) |
| `TokenManager` | `network/auth` | `accessToken`, the refresh in flight (`leader`), per caller its place in `GetAccessToken` |
| `FeeUpload` | statistics half of `grpcClient/client.go`, composed with `TokenManager`, which both gRPC workers use | `FeeBucketCh`, the three selects of `FeeBucketSend` (`ppc`), the unary worker (`upc`) |

`MC...` modules give the constants their values for TLC. `PROJECT.json` (`map`)
names the lines behind every definition. Definitions whose comment begins with
"Mutant of" are deliberate faults of the definition that follows; they take part
in no specification and show that the properties notice.

How the modules fit together. `Ingestion` says that headers and hashes keep coming,
`BlockPipeline` and `PendingPipeline` what becomes of them, `Processor` how the
steps they cause interleave, `FeeAnalysis` what those steps compute, and
`GasStream` and `FeeUpload` how the results leave. Each module treats its
neighbours by what their own modules show: `Processor` has `PoolSpec` for the pool,
which `PendingMemPool` is proved to implement; `BlockPipeline` and `Processor` have
calls that answer or fail and end when cancelled, which `RpcManager` shows;
`Ingestion` has a coordinator that stops, which the two pipelines show.

### Abstractions

Hashes, senders and headers are model values or numbers; a header is a number and a
version, and a reorg raises the version; a provider that lags answers with any
version so far, and a header belongs to an empty block or not (`EmptyBlocks`). Fees
in `Processor` are reduced to the block update they were computed from, because its
properties ask where a number comes from; `FeeAnalysis` has the numbers and no
interleaving. Its weights are integers in a unit in which the square roots and halves
of the instance are whole, its percentages are exact: truncation to integers is
modelled, the rounding of floating point is not. In `FeeStatistics` an average is the
pair it is the quotient of. A token is the time of its exp claim. A session of
`Ingestion` is a record of its provider, whether it was ready and whether it was
cancelled; the headers and hashes it carries are in the pipelines. A request of
`FeeUpload` is its number. The limiter of `RpcManager` lets a call pass at some time
or refuses it for its cost; rates are left out. Logging, counters and printing are
left out, `CompareFeeHistory` included. Uint64 differences in the statistics are
guarded in the code and the guard is part of `StatsBalance`; the 32-bit fee bucket,
the 64-bit sums of the outer bound and of a bid, and the conversion of the base fees
to uint64 keep their width.

## Runs

| Run | Checks |
|---|---|
| `pool` | indexes agree (`IndexesAgree`), no empty account or bucket (`NoLeak`), counters balance and never wrap (`StatsBalance`), a snapshot has every transaction once and marks exactly those behind a hole in the nonces (`SnapshotFlagsGaps`), replacement only by a higher bid, expiry is complete, and the pool implements `PoolSpec` |
| `pipeline` | every block is done with once and in order (`ExactlyOnceInOrder`), no waiting block is slept over (`NoLostWakeup`), while no provider lags a waiting header never goes back to a replaced block (`ReorgsMoveForward`) |
| `pipeline_progress` | a header leads past its block, or waits where a resync could not use the newest one (`NewHeaderAdvances`), both goroutines end (`StopsOnCancel`) |
| `processor` | the store is ordered (`BlocksNewestFirst`), predictions do not mix lifecycles (`PredictionOfOneLifecycle`) and have block fees at most one update older than their block data (`PredictionAtMostOneBehind`), a resync gets through (`AnalysisResumes`) |
| `fees` | block and pending fees are the weighted quantiles of a reference definition (`FeesAreQuantiles`), levels are ordered (`LevelsOrdered`), base fee, tips and bids forecast for the next block come true if its base fee is a uint64 (`ForecastHolds`), a request has the sums over the stored blocks (`RequestSumsWindow`) |
| `pending` | nothing is lost or fetched twice between cache, channel and workers (`FetchedOnce`), a hash passes the cache again only after an eviction (`NoRepeats`), `EveryHashFetched`, `WorkersStop` |
| `ingestion` | a session that was left is cancelled (`NoStraySession`), headers and pending transactions come back with any provider that works (`HeadersComeBack`, `PendingComesBack`), `ShutsDown` |
| `rpc` | a call asks no provider twice and fails only after all have failed it (`EveryProviderOnce`), the rotation clock never goes back (`RotationClockAdvances`), `CallsEndOnCancel` |
| `stream` | the newest prediction is last in the channel (`NewestIsLast`), a gap joins an acknowledged prediction to the one behind it (`GapAfterAcknowledged`), `FastRetriesFirst`, the newest prediction arrives unless it is the message that finds a broken stream (`NewestDelivered`), `WorkerStops` |
| `fee_upload` | retries never take the server back (`ServerNeverGoesBack`), the newest statistics arrive whatever happens to the token (`NewestUploaded`), the cached token only gets newer (`TokensOnlyNewer`) |
| `processor_waits` | fails: a transaction stamped between `Reset` and the next update counts as waiting since block 0 |
| `stream_gap_lost` | fails: a lost gap event is not always made again, against `docs/CODE_REVIEW.md` |

The two failing runs are findings, described with their lines in `PROJECT.json`.
The first is worth a fix: read the block number after the pool is cleared, or let
`Resync` replace the block data instead of zeroing it first.

### What the models showed besides

* The cap on outliers in `PendingPercentiles` never shows in a result: it only
  changes tips above the 95th percentile, and no level uses a higher one.
* A pending transaction that would pay no tip counts with a tip of zero when its
  tip limit is zero; once it is in a block, `EffectiveTipFromReceipt` leaves it
  out. `ForecastHolds` names the exception.
* After a failed backfill the comment in `checkBlockGap` (line 260) says that the
  next header tries again. `handleHeader` returns before that (lines 128-131) when
  the header is for a block that already waits; a header for another block is
  needed, and that is what `NewHeaderAdvances` is about.
* A hash enters the cache before it is pushed; one that the full channel refuses is
  not taken when another provider announces it.
* With one provider configured the pending goroutine returns when it is
  disconnected, and the program goes on without pending transactions.
* `checkStale` follows whatever other version of the block it is given. A provider
  that lags gives the replaced one, which is then processed; two providers that
  disagree can send a block back and forth as long as they do.
  `ReorgsMoveForward` is therefore about the time when no provider lags.
* `Resync` and `Initialize` refuse a newest block that is empty, or that was
  replaced between their two calls. The program then does not start, or the pipeline
  stands still with its headers waiting until a header for another block comes, with
  every provider working (`stalled = "newest"`).
* The stream worker does not watch its stream while it waits for a message. A stream
  that broke in an outage costs the first prediction after it, even if the server has
  been back for long; `NewestDelivered` starts from a stream that is whole, or from
  another message that will find out.
* After a resync on a provider that lags the predictions' numbers go back. A gap event
  can then cover blocks whose predictions were acknowledged; what it joins together is
  `GapAfterAcknowledged`.
* A next base fee above 2^64 - 1 would be stored as its low 64 bits; `ForecastHolds`
  excludes it.
* A token that the server no longer accepts stays in the cache until it nears its
  expiry; nothing forgets it earlier.
* `EthClientFunc` waits for the limiter of the active provider; the comment about a
  failover on the rate limit applies only to a cost above the burst, which no call
  of the program has, and to a cancelled context.

### Bounds

* `pool`: one nonce with three competing transactions, one of which raises only
  the tip, a hole behind it and two nonces behind the hole, a second sender and a
  malformed transaction, so that replacement, its refusal, the swap removal, shared
  buckets and gaps that open and close happen in every order; the blocks include
  two siblings of one height.
* `pipeline`: blocks 1 to 5, channels of one, two attempts, a resync at a distance of
  three; reorgs that begin with block 1, 2 or 4 (`ReorgBlocks`), one version of each
  block more; the last block is empty until a reorg replaces it, the first becomes
  empty by one (`EmptyBlocks`). A gap of two, a lag, a reorg in the middle of a
  retry, a provider that answers with the replaced version, a resync that the newest
  block stops and a full channel all occur; the code's own constants (buffers, lag of
  10, three attempts) only make the same cases longer. `pipeline_progress` has four
  blocks, a resync at a distance of two and reorgs of block 3 and what is behind it,
  because its graph is searched for fair cycles.
* `processor`: three blocks, one resync to any of them (a provider may lag), a
  store of two blocks, one worker, one announced and two unannounced transactions
  distributed over the blocks in every way, up to exchanging the two. A second
  worker adds nothing to properties of the analyzer and the store; the wait finding
  needs one.
* `fees`: chains of three blocks of any content made of five transactions that can
  pay, from base fees where an eighth is nothing and where it is not; prices below
  32, so that twice a tip overflows, and 31 the largest base fee, from where the next
  one wraps; weights between 2 and 8 with halves for gaps
  and two ages, so that an outlier can hold less than a twentieth; a store of two
  blocks that overflows.
* `pending`: three hashes from one session, one of them from a second session too,
  a cache of two, a channel of one, two workers, batches of three in chunks of two:
  an eviction, an overflow, a full and a short chunk, and a hash that only the
  ticker flushes. No symmetry, since the run checks liveness too.
* `ingestion`: the two providers of the configuration with and without their URLs,
  each up, silent or down at any time; a `pendingSwitch` of one that overflows; two
  initial attempts; one session at a time that was left and has not ended yet
  (`MaxStray`), since a step that would make a second one waits for the first.
* `rpc`: the two providers with the bursts of `rpcPolicies`, two callers, a clock
  that passes two rotations.
* `stream`: four predictions over four numbers in any order, a channel of two, one
  fast retry and three delays: overflow, gaps of one and two blocks, numbers that go
  back over acknowledged blocks, a stream that breaks while the worker is idle, and a
  capped delay.
* `fee_upload`: three requests, a channel of one, two attempts, tokens that live
  three ticks with a margin of one, and five ticks: a refresh, a shared refresh and
  a token that expires between two attempts.

### Fairness

A goroutine that can run does; timers and tickers fire: weak fairness of the steps
outside a `select`. Go's `select` chooses uniformly among ready branches, so a
branch that is ready again and again is taken: strong fairness of such a branch.
`Reset` competes with the ticker for `runMu`: a Go mutex in starvation mode hands
over to the waiter, hence strong fairness. Nothing is assumed of the network:
headers, outages, reorgs and cancellations may come or not. `NewHeaderAdvances`
starts from a header that is already in the channel and assumes the providers
answer from then on; whether the newest block is empty when a resync asks for it is
left open, and so is a reorg between the calls. `NewestDelivered` gives up when the
server fails again.

Calls without a deadline are only as fair as the other side. In `RpcManager`
nothing makes a provider answer; only a cancelled context ends a call. In
`FeeUpload` the worker and the refresh progress while the server works; a working
server answers within the refresh margin (`Prompt`: the clock does not run ahead of
it). In `Ingestion` a dial and a subscription end: the pending goroutine waits five
seconds at most, but the header goroutine sets no deadline (`header.go` 148-159),
so that a provider which accepts the connection and then never answers the
subscription is assumed not to exist; the watchdog starts only afterwards. A
provider that works sends a header within the timeout of the watchdog.

## Proofs

Each module `XProofs` proves theorems about the specification of `X` for every
value of the constants: any number of transactions, providers, callers, workers,
any capacities and any retry parameters. `PROJECT.json` lists the theorems with the
properties they state; together they cover every invariant, every action property
and the refinement that the passing runs check. The bounds of the runs,
`MaxBlock`, `MaxTime` and their like, are arbitrary numbers.

The proofs about specifications have one shape. `Inv` is an inductive invariant;
`InitInv` shows that it holds initially, one lemma per action that the action
preserves it, `NextInv` puts these together, `Invariance` is `Spec => []Inv`, and the
properties follow from it. TLC finds every `Inv` true on the instance of its run,
too.

The assumptions are those the component modules state of their constants (`ASSUME`,
evaluated by TLC in the runs): numbers are natural, buffers and counts at least one
where the code's constants are, no absent value is a real one. `PendingPipeline`
also assumes that sessions and workers are finitely many, `PoolSnapshot` that a
nonce is a uint64. `FeeAnalysis` assumes finitely many transactions, each with some
gas; that a root is positive and a whole number of units when it is halved; that
the default fees are in order, as those of `defaultValue` are; and of the
statistics of a block what `StatisticsBalance` proves of the pool that made them:
a bucket that is there counts a transaction, and its histogram counts each once.

### Pending pool

`TypeCorrect`, `IndexesAlwaysAgree`, `NothingLeaks`, `BidsOnlyRise`,
`ExpiryAlwaysComplete`, `StatisticsBalance`, and `PoolRefinement`:
`PendingMemPool` implements `PoolSpec`, which justifies that `Processor` uses
`PoolSpec` for the pool.

`Inv` is `TypeOK`, `IndexesAgree`, `NoLeak`, and two facts without which it is not
inductive. `ExpiryDerived` says that a transaction's `ExpireBlock` is its
`SeenBlock` plus the TTL: the abstract pool knows only the first, the code's buckets
only the second. `CalledWithBlock` says that an operation in progress has a block.
Within an iteration of `PushBatch` the indexes disagree on purpose: after the old
transaction has left the buckets and the hash index its slot is still taken.
`OneStaleSlot` describes that state; `EvictOK` reaches it, `InsertOK` leaves it.
`BucketRemoval` is the heart: the swap in `removeExpireBucket`, with its three early
returns, takes out exactly one transaction and corrects the index of the one it
moved. `RemoveExpired` skips transactions that do not match the nonce map;
`ExpireOK` shows that none is skipped because the indexes agree.

`StatisticsBalance` is about sums over the wait histogram, which `SumOver` defines
by a recursive function. That the function exists (`SumsExist`) is the library's
theorem about recursive functions on the naturals; that adding one to a slot adds
one to the sum (`SumRaised`), and that the sum of zeros is zero (`SumOfZeros`), are
shown with a least counterexample (`Smallest`) instead of an induction principle.

`SnapshotAlwaysFlagsGaps` needs no more of the pool than its indexes, but needs to
know the loop of `Snapshot`. `SortedNoncesList` shows that sorting lists the nonces
of an account once and in order; `MissingStep`, that one nonce more adds a hole right
before it or none; `GapFlagsRight`, that the flags of the loop are therefore the
holes. `expected` wraps after the largest uint64, which no nonce follows, so that a
wrapped one is never compared.

### Block pipeline

`OnceInOrder`, `WakeupKept`, `ReorgsForward`. `NoLostWakeup` is part of `Inv`. What
it takes besides: no block waits for a turn that is over (`PendingAhead`); the log is
the run of blocks after `base` and ends right before `nextBlockNum` (`InOrder`); the
header at work is the waiting one whose turn it is (`AtWork`), or a failure would
give up another block; a gap begins at the next block and ends at one that waits
(`InGap`), or a backfill could run past it; and no header anywhere is newer than the
chain's version of its block (`HeadersProduced`), which is why the sibling that
`checkStale` fetches from a provider that does not lag is never older than the one it
replaces. Of a provider that lags `ReorgsForward` says nothing.

### Processor, block store, analyzer

`StoreNewestFirst`, `OneLifecycle`, and `OneBehind`, which bounds by how much the
block fees of a prediction may be older than its data, not newer. `StoreOrdered` says
for every place of the block goroutine how the store lies below the block in hand,
which is what makes prepending without a look at the numbers right. `FeesFits` says
for every place which update the two halves of the analyzer's state come from, and
`AnalysisFits` what an analysis has read; the analysis holds `runMu` from its first
to its last step, so that no `Reset` comes between.

### Pending pipeline

`EveryHashOnce`, `NoHashRepeated`. The invariant is a balance: what was accepted of
a hash is what sessions hold of it, what is in the channel, what lies ahead of the
workers in their batches, what was refused and what was settled (`Settled`). The
proof counts: a step moves indexes from one set to another, and the lemmas
`InAppended`, `InTail`, `InPart` and `Taken` say by how much the number of indexes
of a hash changes when it is appended, taken from the front, when a chunk is cut
out, and when a worker empties places of its batch. `WorkersFit` keeps a batch
within its capacity and its first index at the front while it is being filled.
`Remembers` is `NoRepeats` sharpened by whether the cache has the hash.

### Ingestion

`NoSessionLeft`. `RetryLeft` says that a delay in the initial attempts leaves an
attempt, so that the loop that follows does not end with a session in hand.
`AlternateIsProvider` shows that the search around the ring of providers for one
with a URL ends at a provider, again by a least counterexample.

### RPC manager

`ProvidersOnce`, `RotationClock`. `TriedIsRing` says that what a call has tried is
the ring of providers from the one it started with, in order, whatever other calls
did to `active`; `RingIsRemainder`, `RingInjective` and `RingOnto` are the facts
about `%` behind it: within one round every provider is met once.

### gRPC client and authentication

`NewestLast`, `GapsReal`, `FastRetries` (`GasStream`). What `enqueue` still has to do
ends with the newest prediction, and there is room for it after the oldest message
was dropped, because only the analyzer sends (`EnqueueInv`). A gap event that it is
about to put into the channel ends right before that prediction, and no other gap
event is last in the channel (`NoOpenGap`), so that nothing comes between a gap and
the prediction behind it; the number it was made from was acknowledged (`LastAcked`).
No order of the numbers is assumed.

`ServerOrder`, `TokenOrder` (`FeeUpload` with `TokenManager`): what the server took,
what is being sent, what waits and what the block goroutine holds go from older to
newer; only the leader is inside a refresh, and an answer on its way to it is no
older than the token in the cache.

### Fee analysis

`PredictionsOrdered`, `ForecastComesTrue`, `FeesAlwaysQuantiles` and
`RequestsSumWindow`, from `AnalysisInvariance` and, for the last two, a second
invariant on top of it (`SourcesInv`). `IteratesExist` shows that the values of a
loop exist as a function; what a loop computes is shown with least counterexamples.

`AnalysisInv` keeps types, the order of the fees of each half of a result
(`FeesOrdered`), and the forecast right (`ForecastRight`): the block data are about
the head or an older block, and when they are about the head their base fee is the
chain's, in 64 bits. `Uint64Is` says that the conversion changes no uint64, and
`ForecastComesTrue` is about the blocks whose base fee is one. `BaseFeeRight` is the
arithmetic behind it: dividing by the target and then by eight is dividing by both
(`DivDiv`), and the EIP's single fraction, which rounds the other way for a fall, is
the same number. `BidPays` has the condition that the sum of the two fees is a
uint64; beyond that `MaxFee` wraps and the bid pays less. `LevelsOrdered` follows
because the tips are sorted (`Sorts`: ranks are a permutation), so that the
percentiles rise (`PercentilesRise`), and because a mean of an earlier group is at
most a mean of a later one (`GroupOf5`, `GroupOf3`), in integers.

That the fees are quantiles is the longest argument. A list of tips stands for a
finite set of things with a tip and a weight when its positions map one to one onto
the things (`ListedBy`). Sorting keeps this (`SortLists`), and so do appending and
flattening (`ListsJoined`, `ListsFlattened`), so it does not matter in which order
a map of the pool or a block was walked. `SumOfSet` shows that the library's sum
over a finite set is what one expects; `PrefixSums` that the running sum of a sorted
list is the sum over the things seen so far; `QuantileIs` that the first tip at
which it reaches the target is the least tip whose things and those below hold that
share. `PercentileIs` shows that the loop with its two indexes finds that tip for
every target, and that the loop after it, which repeats the last tip, adds nothing.
`CapKeepsPercentiles` shows that capping outliers moves no percentile, also where
twice the 95th percentile overflows. `SourcesInv` says that the store is the record
of the mined blocks that the reference is about, entry by entry also after the
oldest was dropped, and which snapshot and base fee the pending half was made from.

`RequestsSumWindow` is about sums as well: `TotalsAre` shows that the maps after
each block hold the sums over the blocks so far, `AggregateGood` that no bucket is
lost and that histograms which add up still do when added (`SumOfPlus`),
`SumOfSent` that leaving out the empty slots of a histogram keeps its sum, and
`SortedBucketsList` that every bucket is sent once and in order.

### Only model-checked

* Liveness under fairness (`NewHeaderAdvances`, `StopsOnCancel`, `AnalysisResumes`,
  `NewestDelivered`, `WorkerStops`, `NewestUploaded`, `EveryHashFetched`,
  `WorkersStop`, `HeadersComeBack`, `PendingComesBack`, `ShutsDown`,
  `CallsEndOnCancel`): the prover has no rules for fairness.
* The two findings: a violation is an execution, which TLC shows.

No theorem is about the rounding of floating point: weights and percentages are
exact in the model (see Abstractions).

## Not modelled

Configuration, logging, reports, generated code, TLS and JWT parsing (pure I/O or
library code); `gasOracle.go`, `histogram.go`, `fetchReceiptsBatch` and
`connectInitialHeader` (not called); `CompareFeeHistory`, which only prints, and
reads the map of a copied result while the analysis may write it; the start of
`main`, which runs once and in order, and the closing of the RPC and authentication
clients by its deferred calls.

## Plan

Every safety property of the passing runs is proved. What could follow: the error
bound under which the float weights and percentages give the quantiles of the exact
ones, which needs a model of floating point.
