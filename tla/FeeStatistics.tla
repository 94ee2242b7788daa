---------------------------- MODULE FeeStatistics ----------------------------
(***************************************************************************)
(* The fee statistics of internal/processor/processor_block.go: the sums   *)
(* over the stored blocks and the messages made of them.                   *)
(*                                                                         *)
(* The statistics of a block are a map from fee buckets to records, as     *)
(* RemoveByReceipts of PendingMemPool collects them; TotalWaitSeconds,     *)
(* which is added up and divided like TotalWaitBlocks, is left out, and so *)
(* are the bounds of a bucket, which are multiples of its number.          *)
(***************************************************************************)
EXTENDS Integers, Sequences, FiniteSets, Maps

CONSTANT MaxWaitBlock       \* last index of WaitBlockCount in use

ASSUME StatisticsAssumption == MaxWaitBlock \in Nat

WaitRange == 0 .. MaxWaitBlock
StatType == [TxCount : Nat, TotalWaitBlocks : Nat, WaitBlockCount : [WaitRange -> Nat]]

NoWaits == [TxCount |-> 0, TotalWaitBlocks |-> 0, WaitBlockCount |-> [i \in WaitRange |-> 0]]

(* Mutant of Plus: the histogram of the oldest block wins.                 *)
PlusLast(s, t) ==
    [TxCount |-> s.TxCount + t.TxCount, TotalWaitBlocks |-> s.TotalWaitBlocks + t.TotalWaitBlocks,
     WaitBlockCount |-> t.WaitBlockCount]

Plus(s, t) ==
    [TxCount |-> s.TxCount + t.TxCount, TotalWaitBlocks |-> s.TotalWaitBlocks + t.TotalWaitBlocks,
     WaitBlockCount |-> [i \in WaitRange |-> s.WaitBlockCount[i] + t.WaitBlockCount[i]]]

StatAt(stats, b) == IF b \in DOMAIN stats THEN stats[b] ELSE NoWaits

(* The inner loop of aggregateFeeBucket: the buckets of one block, each    *)
(* once, are added into the map.                                           *)
AddStats(block, stats) ==
    [b \in DOMAIN stats \cup DOMAIN block |->
        IF b \in DOMAIN block THEN Plus(StatAt(stats, b), block[b]) ELSE stats[b]]

(* The map after each block.                                               *)
AddedUp(list) ==
    LET stats[i \in 0 .. Len(list)] == IF i = 0 THEN EmptyMap ELSE AddStats(list[i], stats[i - 1])
    IN stats

aggregateFeeBucket(list) == AddedUp(list)[Len(list)]

(* SendFeeBucketsToGrpc sorts the buckets.                                 *)
SortedBuckets(S) ==
    CHOOSE s \in [1 .. Cardinality(S) -> S] : \A i, j \in DOMAIN s : i < j => s[i] < s[j]

(* One message per bucket, in order.  The average is the exact quotient,   *)
(* kept as a pair; of the histogram only the non-zero entries are sent.    *)
FeeBucket(b, stat) ==
    [Bucket |-> b, TotalTxCount |-> stat.TxCount,
     AvrWaitBlocks |-> <<stat.TotalWaitBlocks, stat.TxCount>>,
     WaitBlockCount |-> {<<i, stat.WaitBlockCount[i]>> : i \in {j \in WaitRange : stat.WaitBlockCount[j] # 0}}]

convertFeeBucketToProto(stats) ==
    LET sent == SortedBuckets({b \in DOMAIN stats : stats[b].TxCount # 0})
    IN [i \in DOMAIN sent |-> FeeBucket(sent[i], stats[sent[i]])]

=============================================================================
