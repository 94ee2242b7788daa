---------------------------- MODULE PendingMemPool ----------------------------
(***************************************************************************)
(* The pool of pending transactions, internal/mempool/pool.go.             *)
(*                                                                         *)
(* One transaction is indexed three times: by sender and nonce (Accounts   *)
(* and the NonceMap of each account), by hash (HashIndex), and by the      *)
(* block at which it expires (ExpireBuckets, where the transaction also    *)
(* remembers its position, ExpireIndex, for a swap-with-last removal).     *)
(* Every operation must keep the three indexes telling the same story.     *)
(*                                                                         *)
(* A *PendingTx pointer is modelled by the transaction's hash and the      *)
(* object it points to by the record HashIndex keeps for that hash.        *)
(* Consistent says no index holds a hash that HashIndex does not, so two   *)
(* objects with one hash are never reachable at the same time.             *)
(*                                                                         *)
(* Every operation holds pool.mu to its end.  PushBatch and                *)
(* RemoveByReceipts loop over their argument, and the model takes one step *)
(* per iteration with the lock held; nothing else can run in between.      *)
(***************************************************************************)
EXTENDS PoolTypes, Functions

CONSTANTS
    FeeBucketSize,  \* width of a fee bucket, in the unit of TipCap
    MaxWaitBlock,   \* the last wait counted separately
    WaitSlots,      \* length of the WaitBlockCount array
    U32, U64        \* 2^32 and 2^64 in the code, the moduli of its integers

ASSUME PoolAssumption ==
    /\ FeeBucketSize \in Nat \ {0}
    /\ MaxWaitBlock \in Nat
    /\ WaitSlots \in Nat
    /\ MaxWaitBlock < WaitSlots
    /\ U32 \in Nat \ {0}
    /\ U64 \in Nat \ {0}

VARIABLES
    pool,     \* the four maps of PendingMemPool
    mu,       \* which operation holds pool.mu
    todo,     \* what the loop of that operation has left
    cur,      \* the block the operation was called with
    stats     \* the fee statistics RemoveByReceipts is collecting

vars == <<pool, mu, todo, cur, stats>>

-----------------------------------------------------------------------------
EmptyPool == [Accounts |-> {}, NonceMap |-> EmptyMap,
              ExpireBuckets |-> EmptyMap, HashIndex |-> EmptyMap]

Bucket(p, b) == IF b \in DOMAIN p.ExpireBuckets THEN p.ExpireBuckets[b] ELSE <<>>

-----------------------------------------------------------------------------
(* The helpers of pool.go, from a pool to a pool.                          *)

(* Mutant of Position: addExpireBucket forgets to set ExpireIndex.         *)
Unset(list) == -1

(* A transaction appended to a bucket remembers where it stands.           *)
Position(list) == Len(list)

(* The new transaction h, with the end of PushBatch and addExpireBucket.   *)
Insert(p, h, block) ==
    LET expire == block.Number + TTLBlock
        list   == Bucket(p, expire)
    IN [Accounts |-> p.Accounts \cup {From[h]},
        NonceMap |-> With(p.NonceMap, Slot(h), h),
        ExpireBuckets |-> With(p.ExpireBuckets, expire, Append(list, h)),
        HashIndex |-> With(p.HashIndex, h,
                           [SeenBlock |-> block.Number,
                            SeenBlockTime |-> block.Time,
                            ExpireBlock |-> expire,
                            ExpireIndex |-> Position(list)])]

(* Mutant of Reindex: the moved transaction keeps its old position.        *)
KeepIndex(index, moved, i) == index

(* The object behind a moved hash learns its new position.                 *)
Reindex(index, moved, i) ==
    [h \in DOMAIN index |->
        IF h = moved THEN [index[h] EXCEPT !.ExpireIndex = i] ELSE index[h]]

removeExpireBucket(p, h, tx) ==
    LET list == Bucket(p, tx.ExpireBlock)
        i    == tx.ExpireIndex
        last == Len(list) - 1
        rest == SubSeq([list EXCEPT ![i + 1] = list[last + 1]], 1, last)
    IN IF list = <<>> \/ i < 0 \/ i > last \/ list[i + 1] # h
       THEN p
       ELSE [Accounts |-> p.Accounts,
             NonceMap |-> p.NonceMap,
             ExpireBuckets |-> IF last = 0
                               THEN Without(p.ExpireBuckets, {tx.ExpireBlock})
                               ELSE With(p.ExpireBuckets, tx.ExpireBlock, rest),
             HashIndex |-> IF i = last THEN p.HashIndex
                           ELSE Reindex(p.HashIndex, list[last + 1], i)]

(* Mutant of LiveAccounts: an emptied account is never deleted.            *)
AllAccounts(accounts, nonceMap, touched) == accounts

(* An account whose last nonce went away leaves Accounts with it.          *)
LiveAccounts(accounts, nonceMap, touched) ==
    {a \in accounts : a \in touched => \E s \in DOMAIN nonceMap : s[1] = a}

removeByHash(p, h) ==
    LET nonces == Without(p.NonceMap, {Slot(h)})
    IN removeExpireBucket(
         [Accounts |-> LiveAccounts(p.Accounts, nonces, {From[h]}),
          NonceMap |-> nonces,
          ExpireBuckets |-> p.ExpireBuckets,
          HashIndex |-> Without(p.HashIndex, {h})],
         h, p.HashIndex[h])

(* Mutant of Evict: the hash index keeps the replaced transaction.         *)
EvictKeepingHash(p, old) == removeExpireBucket(p, old, p.HashIndex[old])

(* The transaction a better one for the same nonce replaces.  Its NonceMap *)
(* entry is overwritten by Insert.                                         *)
Evict(p, old) ==
    LET q == removeExpireBucket(p, old, p.HashIndex[old])
    IN [Accounts |-> q.Accounts, NonceMap |-> q.NonceMap,
        ExpireBuckets |-> q.ExpireBuckets,
        HashIndex |-> Without(q.HashIndex, {old})]

PushOne(p, h, block) ==
    LET taken == Slot(h) \in DOMAIN p.NonceMap
        old   == p.NonceMap[Slot(h)]
    IN IF ~taken THEN Insert(p, h, block)
       ELSE IF Outbids(h, old) THEN Insert(Evict(p, old), h, block)
       ELSE p

(* Mutant of Due: a bucket survives the block it expires at.               *)
DueLate(p, curBlock) == {b \in DOMAIN p.ExpireBuckets : b < curBlock}

Due(p, curBlock) == {b \in DOMAIN p.ExpireBuckets : b <= curBlock}

(* The two nested loops of RemoveExpired.  A transaction of an overdue     *)
(* bucket goes if the NonceMap still holds it; the bucket goes either way. *)
Expire(p, curBlock) ==
    LET due    == Due(p, curBlock)
        gone   == {h \in UNION {Range(p.ExpireBuckets[b]) : b \in due} :
                     /\ Slot(h) \in DOMAIN p.NonceMap
                     /\ p.NonceMap[Slot(h)] = h}
        nonces == Without(p.NonceMap, {Slot(h) : h \in gone})
    IN [Accounts |-> LiveAccounts(p.Accounts, nonces, {From[h] : h \in gone}),
        NonceMap |-> nonces,
        ExpireBuckets |-> Without(p.ExpireBuckets, due),
        HashIndex |-> Without(p.HashIndex, gone)]

-----------------------------------------------------------------------------
(* The fee statistics of RemoveByReceipts.                                 *)

getFeeBucket(tip) == (tip \div FeeBucketSize) % U32

NoWaits == [TxCount |-> 0, TotalWaitBlocks |-> 0, TotalWaitSeconds |-> 0,
            WaitBlockCount |-> [i \in 0 .. WaitSlots - 1 |-> 0]]

WaitIndex(wait) == IF wait > MaxWaitBlock THEN MaxWaitBlock ELSE wait

CountWait(stat, blocks, seconds) ==
    [TxCount |-> stat.TxCount + 1,
     TotalWaitBlocks |-> stat.TotalWaitBlocks + blocks,
     TotalWaitSeconds |-> stat.TotalWaitSeconds + seconds,
     WaitBlockCount |-> [stat.WaitBlockCount EXCEPT ![WaitIndex(blocks)] = @ + 1]]

(* Mutant of SeenTooLate: the guard is forgotten.                          *)
NeverSeenTooLate(tx, block) == FALSE

(* The hash reached the pool after its block did: it never waited.         *)
SeenTooLate(tx, block) ==
    tx.SeenBlock > block.Number \/ tx.SeenBlockTime > block.Time

Counted(st, h, tx, block) ==
    LET b == getFeeBucket(TipCap[h])
    IN With(st, b, CountWait(IF b \in DOMAIN st THEN st[b] ELSE NoWaits,
                             (block.Number - tx.SeenBlock) % U64,
                             (block.Time - tx.SeenBlockTime) % U64))

-----------------------------------------------------------------------------
(* The operations.  Blocks are records with a Number and a Time.           *)

NoBlock == [Number |-> 0, Time |-> 0]

Init ==
    /\ pool = EmptyPool
    /\ mu = "free"
    /\ todo = <<>>
    /\ cur = NoBlock
    /\ stats = EmptyMap

Locked(op, list, block) ==
    /\ mu = "free"
    /\ mu' = op
    /\ todo' = list
    /\ cur' = block
    /\ UNCHANGED <<pool, stats>>

(* PushBatch does not even take the lock when every transaction of the     *)
(* batch is malformed.  Otherwise the malformed ones are passed over: the  *)
(* code does that before it locks, but reads nothing but its argument.     *)
PushBatch(txs, block) ==
    /\ \E i \in DOMAIN txs : txs[i] \notin Malformed
    /\ Locked("PushBatch", txs, block)

PushNext ==
    /\ mu = "PushBatch"
    /\ todo # <<>>
    /\ pool' = IF Head(todo) \in Malformed THEN pool ELSE PushOne(pool, Head(todo), cur)
    /\ todo' = Tail(todo)
    /\ UNCHANGED <<mu, cur, stats>>

RemoveByReceipts(receipts, header) == Locked("RemoveByReceipts", receipts, header)

ReceiptNext ==
    /\ mu = "RemoveByReceipts"
    /\ todo # <<>>
    /\ LET h == Head(todo)
       IN IF h \notin DOMAIN pool.HashIndex
          THEN UNCHANGED <<pool, stats>>
          ELSE /\ pool' = removeByHash(pool, h)
               /\ stats' = IF SeenTooLate(pool.HashIndex[h], cur) THEN stats
                           ELSE Counted(stats, h, pool.HashIndex[h], cur)
    /\ todo' = Tail(todo)
    /\ UNCHANGED <<mu, cur>>

(* The deferred Unlock; RemoveByReceipts hands its statistics over.        *)
Unlock ==
    /\ mu # "free"
    /\ todo = <<>>
    /\ mu' = "free"
    /\ cur' = NoBlock
    /\ stats' = EmptyMap
    /\ UNCHANGED <<pool, todo>>

RemoveExpired(curBlock) ==
    /\ mu = "free"
    /\ pool' = Expire(pool, curBlock)
    /\ UNCHANGED <<mu, todo, cur, stats>>

Clear ==
    /\ mu = "free"
    /\ pool' = EmptyPool
    /\ UNCHANGED <<mu, todo, cur, stats>>

-----------------------------------------------------------------------------
(* What callers pass: batches of transactions and the receipts of a block. *)

CONSTANTS Batches, Receipts

ASSUME InputAssumption ==
    /\ Batches \subseteq Seq(Hash)
    /\ Receipts \subseteq Seq(Hash)

Next ==
    \/ \E txs \in Batches, block \in Blocks : PushBatch(txs, block)
    \/ PushNext
    \/ \E receipts \in Receipts, header \in Blocks : RemoveByReceipts(receipts, header)
    \/ ReceiptNext
    \/ Unlock
    \/ \E block \in Blocks : RemoveExpired(block.Number)
    \/ Clear

Spec == Init /\ [][Next]_vars

-----------------------------------------------------------------------------
(* Properties.                                                             *)

TxType == [SeenBlock : Nat, SeenBlockTime : Nat, ExpireBlock : Nat, ExpireIndex : Nat]

StatType == [TxCount : Nat, TotalWaitBlocks : Nat, TotalWaitSeconds : Nat,
             WaitBlockCount : [0 .. WaitSlots - 1 -> Nat]]

PoolTypeOK(p) ==
    /\ p = [Accounts |-> p.Accounts, NonceMap |-> p.NonceMap,
            ExpireBuckets |-> p.ExpireBuckets, HashIndex |-> p.HashIndex]
    /\ p.Accounts \subseteq Addr
    /\ IsMap(p.NonceMap, Addr \X Nonces, Hash)
    /\ IsMap(p.ExpireBuckets, Nat, Seq(Hash))
    /\ IsMap(p.HashIndex, Hash, TxType)

(* Every field keeps the type its declaration gives it: the maps of        *)
(* PendingMemPool, the PendingTx and FeeBucketStat structs.                *)
TypeOK ==
    /\ PoolTypeOK(pool)
    /\ mu \in {"free", "PushBatch", "RemoveByReceipts"}
    /\ todo \in Seq(Hash)
    /\ cur \in BlockType
    /\ IsMap(stats, Nat, StatType)

(* Accounts/NonceMap and HashIndex hold the same transactions, each in the *)
(* slot of its own sender and nonce.                                       *)
NonceConsistent(p) ==
    /\ \A h \in DOMAIN p.HashIndex :
          Slot(h) \in DOMAIN p.NonceMap /\ p.NonceMap[Slot(h)] = h
    /\ \A s \in DOMAIN p.NonceMap :
          p.NonceMap[s] \in DOMAIN p.HashIndex /\ Slot(p.NonceMap[s]) = s

(* Every transaction stands in its bucket at the position it remembers,    *)
(* and a bucket holds nothing else.                                        *)
BucketConsistent(p) ==
    /\ \A h \in DOMAIN p.HashIndex :
          /\ p.HashIndex[h].ExpireBlock \in DOMAIN p.ExpireBuckets
          /\ p.HashIndex[h].ExpireIndex < Len(p.ExpireBuckets[p.HashIndex[h].ExpireBlock])
          /\ p.ExpireBuckets[p.HashIndex[h].ExpireBlock][p.HashIndex[h].ExpireIndex + 1] = h
    /\ \A b \in DOMAIN p.ExpireBuckets : \A i \in 1 .. Len(p.ExpireBuckets[b]) :
          /\ p.ExpireBuckets[b][i] \in DOMAIN p.HashIndex
          /\ p.HashIndex[p.ExpireBuckets[b][i]].ExpireBlock = b
          /\ p.HashIndex[p.ExpireBuckets[b][i]].ExpireIndex = i - 1

(* No account and no bucket outlives its last transaction.                 *)
NoEmptyEntries(p) ==
    /\ p.Accounts = {s[1] : s \in DOMAIN p.NonceMap}
    /\ \A b \in DOMAIN p.ExpireBuckets : p.ExpireBuckets[b] # <<>>

(* The three indexes of the pool agree after every iteration of every      *)
(* operation, replacement, swap-removal and expiry included.               *)
IndexesAgree ==
    NonceConsistent(pool) /\ BucketConsistent(pool)

(* The pool keeps no empty account or bucket, however long it runs.        *)
NoLeak == NoEmptyEntries(pool)

(* A slot never changes hands for less: the transaction for a nonce is     *)
(* replaced only by one that raises both fee limits, and only by PushBatch.*)
ReplacedOnlyByHigherBid ==
    [][\A s \in DOMAIN pool.NonceMap \cap DOMAIN pool'.NonceMap :
          pool'.NonceMap[s] # pool.NonceMap[s] =>
             /\ TipCap[pool'.NonceMap[s]] > TipCap[pool.NonceMap[s]]
             /\ FeeCap[pool'.NonceMap[s]] > FeeCap[pool.NonceMap[s]]]_vars

SumOver(f, n) ==
    LET sum[i \in 0 .. n] == IF i = 0 THEN 0 ELSE sum[i - 1] + f[i - 1]
    IN sum[n]

(* No wait is negative, which unsigned subtraction would turn into a huge  *)
(* one: the totals stay within what TxCount waits up to block cur can be.  *)
WaitsNeverUnderflow ==
    \A b \in DOMAIN stats :
        /\ stats[b].TotalWaitBlocks <= stats[b].TxCount * cur.Number
        /\ stats[b].TotalWaitSeconds <= stats[b].TxCount * cur.Time

(* The statistics of a block add up: every counted transaction is in       *)
(* exactly one wait slot, and the total wait is at least what the slots    *)
(* say, with equality unless some wait was cut at MaxWaitBlock; no wait    *)
(* wrapped around below zero.                                              *)
StatsBalance ==
    /\ \A b \in DOMAIN stats :
        LET stat == stats[b]
            weighted == [i \in 0 .. WaitSlots - 1 |-> i * stat.WaitBlockCount[i]]
        IN /\ SumOver(stat.WaitBlockCount, WaitSlots) = stat.TxCount
           /\ SumOver(weighted, WaitSlots) <= stat.TotalWaitBlocks
           /\ stat.WaitBlockCount[MaxWaitBlock] = 0 =>
                SumOver(weighted, WaitSlots) = stat.TotalWaitBlocks
    /\ WaitsNeverUnderflow

(* RemoveExpired, which walks the buckets, leaves no overdue transaction   *)
(* reachable by hash.                                                      *)
ExpiryIsComplete ==
    [][\A block \in Blocks : RemoveExpired(block.Number) =>
          \A h \in DOMAIN pool'.HashIndex :
             pool'.HashIndex[h].ExpireBlock > block.Number]_vars

-----------------------------------------------------------------------------
(* The pool the callers see.                                               *)
Live ==
    [h \in DOMAIN pool.HashIndex |->
        [SeenBlock |-> pool.HashIndex[h].SeenBlock,
         SeenBlockTime |-> pool.HashIndex[h].SeenBlockTime]]

Abstract == INSTANCE PoolSpec WITH live <- Live

(* Whatever its indexes do, the pool behaves like the map of PoolSpec: a   *)
(* transaction enters, is replaced, is included or expires as that says.   *)
ImplementsPoolSpec == Abstract!Spec

=============================================================================
