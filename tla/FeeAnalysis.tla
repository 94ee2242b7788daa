------------------------------ MODULE FeeAnalysis ------------------------------
(***************************************************************************)
(* What the program computes for every new block and every analysis: tips  *)
(* and weights of the stored blocks (CalculateBlockTxTip,                  *)
(* UpdateBlockInfoForAnalysis), of the pending transactions                *)
(* (collectPendingTx), the prediction blended from the two (UpdateResult), *)
(* and the statistics sent with a block (SendFeeBucketsToGrpc).            *)
(*                                                                         *)
(* Module Processor has the interleavings of these computations; here each *)
(* is one step and the numbers are real ones.  The chain is part of the    *)
(* model: it charges the base fee that EIP-1559 prescribes and includes    *)
(* transactions that can pay it, so a forecast can be compared with what   *)
(* happens next.                                                           *)
(***************************************************************************)
EXTENDS Percentiles, FeeStatistics

CONSTANTS
    Tx, TipCap, FeeCap, Gas,    \* the transactions and their fields
    GasLimit, FirstBaseFee,     \* of the blocks; base fees the chain may start with
    Root,           \* Root[g] is sqrt(g / GasLimit), in units of weight
    DecayTable,     \* exp(-0.7 * age), in units of decay, for each age
    MaxBlockCount,  \* capacity of the block store
    StatsOf,        \* the statistics RemoveByReceipts returns for a block
    Snapshots,      \* what Snapshot may return: sets of [Tx, NonceGap]
    MaxBlock        \* bound: length of the chain

ASSUME FeeAnalysisAssumption ==
    /\ TipCap \in [Tx -> 0 .. MaxUint] /\ FeeCap \in [Tx -> 0 .. MaxUint]
    /\ Gas \in [Tx -> 1 .. GasLimit] /\ GasLimit \in Nat /\ GasLimit > 1
    /\ FirstBaseFee \subseteq 0 .. MaxUint
    /\ IsFiniteSet(Tx)
    /\ \A t \in Tx : Root[Gas[t]] \in Nat \ {0} /\ Root[Gas[t]] % 2 = 0    \* it can be halved
    /\ MaxBlockCount \in Nat \ {0} /\ MaxBlock \in Nat \ {0}
    /\ DecayTable \in [1 .. MaxBlockCount -> Nat \ {0}]
    /\ \A content \in SUBSET Tx :
          /\ IsMap(StatsOf[content], Nat, StatType) /\ IsFiniteSet(DOMAIN StatsOf[content])
          /\ \A b \in DOMAIN StatsOf[content] :      \* StatsBalance of the pool
                /\ StatsOf[content][b].TxCount > 0
                /\ SumFunction(StatsOf[content][b].WaitBlockCount) = StatsOf[content][b].TxCount
    /\ Snapshots \subseteq SUBSET [Tx : Tx, NonceGap : BOOLEAN]

VARIABLES
    head,               \* the newest block of the chain
    blocks,             \* the block store, newest first
    latestBlockData, latestResult,
    request,            \* buckets of the newest statistics request
    mined, seen         \* history: the blocks behind the store and the snapshot
                        \* and base fee behind AnalyzerPending

avars == <<head, blocks, latestBlockData, latestResult, request, mined, seen>>

NoLevels == EmptyMap
ZeroResult == [AnalyzerBlock |-> NoLevels, AnalyzerPending |-> NoLevels,
               PredictResult |-> NoLevels, NextBlockNumber |-> 0, NextBaseFee |-> 0]
NothingSeen == [Snapshot |-> {}, BaseFee |-> 0]

SumGas(content) == MapThenSumSet(LAMBDA t : Gas[t], content)

-----------------------------------------------------------------------------
(* The chain.                                                              *)

(* EIP-1559: the fee moves towards base * (7 * target + used) / (8 *       *)
(* target), rounded towards the present one, but a rise is a rise.         *)
BaseFeeAfter(header) ==
    LET target == GasLimit \div 2
        num == header.BaseFee * (7 * target + header.GasUsed)
        den == 8 * target
    IN CASE header.GasUsed > target -> Max({header.BaseFee + 1, num \div den})
         [] header.GasUsed < target -> (num + den - 1) \div den
         [] OTHER -> header.BaseFee

NextHeader(content) ==
    [Number |-> head.Number + 1, BaseFee |-> BaseFeeAfter(head), GasUsed |-> SumGas(content)]

(* A block holds transactions that can pay its base fee.                   *)
Minable(content, header) ==
    /\ header.Number <= MaxBlock
    /\ header.GasUsed \in 0 .. GasLimit
    /\ \A t \in content : FeeCap[t] >= header.BaseFee

EffectiveGasPrice(t, baseFee) ==
    IF FeeCap[t] < baseFee + TipCap[t] THEN FeeCap[t] ELSE baseFee + TipCap[t]

-----------------------------------------------------------------------------
(* The processor and the analyzer, value by value.                         *)

CalculateWeightForGasUsed(gas) == Root[gas]

PaidTip(t, header) == EffectiveTipFromReceipt(EffectiveGasPrice(t, header.BaseFee), header.BaseFee)

CalculateBlockTxTip(content, header) ==
    LET paying == SetToSeq({t \in content : PaidTip(t, header) # NoTip})
    IN [i \in DOMAIN paying |-> [Tip |-> PaidTip(paying[i], header),
                                 Weight |-> CalculateWeightForGasUsed(Gas[paying[i]])]]

Kept(list) == SubSeq(list, 1, IF Len(list) > MaxBlockCount THEN MaxBlockCount ELSE Len(list))

(* The weight of a block is its position in the store.                     *)
Decay(age) == DecayTable[age]

DecayedTips(store) ==
    FlattenSeq([age \in DOMAIN store |->
        [i \in DOMAIN store[age].Txs |->
            [store[age].Txs[i] EXCEPT !.Weight = @ * Decay(age)]]])

(* big.Int.Uint64 keeps the low 64 bits.                                   *)
AsUint64(x) == x % (MaxUint + 1)

(* UpdateBlockInfoForAnalysis, on top of a store and a result.             *)
UpdateBlockInfoForAnalysis(header, store, result) ==
    LET block == BlockPercentiles(DecayedTips(store))
    IN /\ latestBlockData' =
             [BlockNumber |-> header.Number, BaseFee |-> AsUint64(header.BaseFee),
              NextBaseFee |->
                  AsUint64(CalculateNextBaseFee(header.BaseFee, header.GasUsed, GasLimit)),
              GasUsed |-> header.GasUsed, Cutoff |-> block.Cutoff]
       /\ latestResult' = [result EXCEPT !.AnalyzerBlock = block.Fees]

(* Halved for a transaction that has to wait for another one.              *)
PendingWeight(tx) ==
    LET weight == CalculateWeightForGasUsed(Gas[tx.Tx])
    IN IF tx.NonceGap THEN weight \div 2 ELSE weight

collectPendingTx(snapshot, nextBaseFee) ==
    LET Tip(tx) == EffectiveTip(FeeCap[tx.Tx], TipCap[tx.Tx], nextBaseFee)
        able == SetToSeq({tx \in snapshot : Tip(tx) # NoTip})
    IN [i \in DOMAIN able |-> [Tip |-> Tip(able[i]), Weight |-> PendingWeight(able[i])]]

(* A fifth of the block fee and four fifths of the pending fee.            *)
Blend(anaBlock, anaPending) == (anaBlock + 4 * anaPending) \div 5

GasLevel(nextBaseFee, priorityFee) ==
    [PriorityFee |-> priorityFee, MaxFee |-> AsUint64(nextBaseFee + priorityFee)]

UpdateResult(pending) ==
    LET next == latestBlockData.NextBaseFee
        known == DOMAIN latestResult.AnalyzerBlock \cap Levels
        fees == [level \in known |-> Blend(latestResult.AnalyzerBlock[level], pending[level])]
    IN [AnalyzerBlock |-> latestResult.AnalyzerBlock, AnalyzerPending |-> pending,
        PredictResult |-> [level \in known |-> GasLevel(next, fees[level])],
        NextBlockNumber |-> latestBlockData.BlockNumber + 1, NextBaseFee |-> next]

(* The statistics of the stored blocks, newest first.                      *)
FeeBuckets(store) == [i \in DOMAIN store |-> store[i].FeeBuckets]

-----------------------------------------------------------------------------

AnalysisInit ==
    /\ head \in [Number : {0}, BaseFee : FirstBaseFee, GasUsed : {GasLimit \div 2}]
    /\ blocks = <<>> /\ mined = <<>>
    /\ latestBlockData = [BlockNumber |-> 0, BaseFee |-> 0, NextBaseFee |-> 0, GasUsed |-> 0, Cutoff |-> 0]
    /\ latestResult = ZeroResult
    /\ request = <<>> /\ seen = NothingSeen

BlockData(content, header, stats) ==
    [Txs |-> CalculateBlockTxTip(content, header), FeeBuckets |-> stats]

(* Initialize at the first block, or Resync at a later one: a store with   *)
(* one block, without statistics.                                          *)
StartOver(content) ==
    /\ content # {}
    /\ LET header == NextHeader(content)
       IN /\ Minable(content, header)
          /\ head' = header
          /\ blocks' = <<BlockData(content, header, EmptyMap)>>
          /\ mined' = <<[Content |-> content, BaseFee |-> header.BaseFee, Stats |-> EmptyMap]>>
          /\ UpdateBlockInfoForAnalysis(header, blocks', ZeroResult)
    /\ seen' = NothingSeen
    /\ UNCHANGED request

(* An empty block leaves the store and the statistics alone.               *)
ProcessBlock(content) ==
    /\ blocks # <<>>
    /\ LET header == NextHeader(content)
       IN /\ Minable(content, header)
          /\ head' = header
          /\ IF content = {} THEN UNCHANGED <<blocks, mined>>
             ELSE /\ blocks' = Kept(<<BlockData(content, header, StatsOf[content])>> \o blocks)
                  /\ mined' = Kept(<<[Content |-> content, BaseFee |-> header.BaseFee,
                                      Stats |-> StatsOf[content]]>> \o mined)
          /\ UpdateBlockInfoForAnalysis(header, blocks', latestResult)
    /\ LET buckets == convertFeeBucketToProto(aggregateFeeBucket(FeeBuckets(blocks')))
       IN request' = IF content = {} \/ buckets = <<>> THEN request ELSE buckets
    /\ UNCHANGED seen

(* Processing fails, and the block is given up.                            *)
SkipBlock(content) ==
    /\ blocks # <<>>
    /\ Minable(content, NextHeader(content))
    /\ head' = NextHeader(content)
    /\ UNCHANGED <<blocks, latestBlockData, latestResult, request, mined, seen>>

AnalyzeGasPrice(snapshot) ==
    /\ blocks # <<>>
    /\ LET next == latestBlockData.NextBaseFee
       IN /\ latestResult' = UpdateResult(PendingPercentiles(collectPendingTx(snapshot, next)))
          /\ seen' = [Snapshot |-> snapshot, BaseFee |-> next]
    /\ UNCHANGED <<head, blocks, latestBlockData, request, mined>>

AnalysisNext ==
    \/ \E content \in SUBSET Tx : StartOver(content) \/ ProcessBlock(content) \/ SkipBlock(content)
    \/ \E snapshot \in Snapshots : AnalyzeGasPrice(snapshot)

AnalysisSpec == AnalysisInit /\ [][AnalysisNext]_avars

-----------------------------------------------------------------------------
(* Properties.                                                             *)

(* Reference: how much of the weight is in the tips up to each tip, of     *)
(* things with a tip and a weight, and the least tip that makes up p       *)
(* percent.                                                                *)
Distribution(tip, weight) ==
    {<<t, SumFunctionOnSet(weight, {s \in DOMAIN tip : tip[s] <= t})>> : t \in Range(tip)}

Quantile(distribution, total, p) ==
    Min({d[1] : d \in {e \in distribution : 100 * e[2] >= p * total}})

(* The levels: means of the quantiles around 50, 75 and 90 percent.        *)
ReferenceFees(tip, weight) ==
    LET distribution == Distribution(tip, weight)
        total == SumFunction(weight)
        Q(p) == Quantile(distribution, total, p)
    IN IF DOMAIN tip = {} THEN DefaultFees
       ELSE [market |-> (Q(40) + Q(45) + 4 * Q(50) + Q(55) + Q(60)) \div 8,
             fast   |-> (Q(65) + 5 * Q(70) + 10 * Q(75) + 5 * Q(80) + Q(85)) \div 22,
             urgent |-> (Q(85) + 3 * Q(90) + Q(95)) \div 5]

Offers(t, baseFee) == IF TipCap[t] < FeeCap[t] - baseFee THEN TipCap[t] ELSE FeeCap[t] - baseFee

BlockReference ==
    LET paying == {p \in (DOMAIN mined) \X Tx :
                      p[2] \in mined[p[1]].Content /\ Offers(p[2], mined[p[1]].BaseFee) > 0}
    IN ReferenceFees([p \in paying |-> Offers(p[2], mined[p[1]].BaseFee)],
                     [p \in paying |-> Root[Gas[p[2]]] * DecayTable[p[1]]])

PendingReference ==
    LET able == {tx \in seen.Snapshot : FeeCap[tx.Tx] > seen.BaseFee}
    IN ReferenceFees([tx \in able |-> Offers(tx.Tx, seen.BaseFee)],
                     [tx \in able |-> IF tx.NonceGap THEN Root[Gas[tx.Tx]] \div 2 ELSE Root[Gas[tx.Tx]]])

(* The fees of the blocks and of the pending transactions are the weighted *)
(* quantiles of the tips that were paid or are offered, in whatever order  *)
(* the program met them; the cap on outliers never shows in a result, not  *)
(* even where twice the 95th percentile overflows.                         *)
FeesAreQuantiles ==
    /\ blocks # <<>> => latestResult.AnalyzerBlock = BlockReference
    /\ latestResult.AnalyzerPending # NoLevels => latestResult.AnalyzerPending = PendingReference

(* A prediction asks no less for a faster inclusion, whatever it was made  *)
(* from: blocks and pending tips, or the default fees for one or both.     *)
LevelsOrdered ==
    latestResult.PredictResult # NoLevels =>
        LET Fee(level) == latestResult.PredictResult[level].PriorityFee
        IN Fee("market") <= Fee("fast") /\ Fee("fast") <= Fee("urgent")

(* What was forecast for the block after the last processed one comes true *)
(* when the chain makes that block, if its base fee is a uint64: the base  *)
(* fee, the tip of every transaction able to pay it (except that a tip of  *)
(* zero is offered by a pending transaction but not counted in a receipt), *)
(* and that a transaction bid as the prediction says pays the priority fee *)
(* in full, where the sum of the two fees is a uint64.                     *)
ForecastHolds ==
    [][(/\ head'.Number = head.Number + 1 /\ latestBlockData.BlockNumber = head.Number
        /\ blocks # <<>> /\ head'.BaseFee <= MaxUint) =>
          /\ head'.BaseFee = latestBlockData.NextBaseFee
          /\ \A t \in {u \in Tx : FeeCap[u] >= head'.BaseFee} :
                LET offered == EffectiveTip(FeeCap[t], TipCap[t], latestBlockData.NextBaseFee)
                IN PaidTip(t, head') = IF offered = 0 THEN NoTip ELSE offered
          /\ latestResult.NextBlockNumber = head'.Number =>
                \A level \in DOMAIN latestResult.PredictResult :
                   LET bid == latestResult.PredictResult[level]
                   IN bid.PriorityFee \in 1 .. MaxUint - head'.BaseFee =>
                        EffectiveTip(bid.MaxFee, bid.PriorityFee, head'.BaseFee) = bid.PriorityFee]_avars

(* The sums over recorded blocks, bucket by bucket and in order: the       *)
(* histogram adds up to the number of transactions the average divides by. *)
SumsWindow(r, m) ==
    LET At(k, b) == StatAt(m[k].Stats, b)
    IN /\ {r[i].Bucket : i \in DOMAIN r} = UNION {DOMAIN m[k].Stats : k \in DOMAIN m}
       /\ \A i, j \in DOMAIN r : i < j => r[i].Bucket < r[j].Bucket
       /\ \A i \in DOMAIN r :
            LET fb == r[i]
                count == SumFunction([k \in DOMAIN m |-> At(k, fb.Bucket).TxCount])
                waits == SumFunction([k \in DOMAIN m |-> At(k, fb.Bucket).TotalWaitBlocks])
            IN /\ fb.TotalTxCount = count /\ fb.AvrWaitBlocks = <<waits, count>>
               /\ SumFunction([w \in fb.WaitBlockCount |-> w[2]]) = count
               /\ \A w \in fb.WaitBlockCount :
                     w[2] = SumFunction([k \in DOMAIN m |-> At(k, fb.Bucket).WaitBlockCount[w[1]]])

(* A request has these sums of exactly the stored blocks.                  *)
RequestSumsWindow == [][request' # request => SumsWindow(request', mined')]_avars

=============================================================================
