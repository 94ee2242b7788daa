------------------------- MODULE PendingMemPoolProofs -------------------------
(***************************************************************************)
(* The pending pool keeps its three indexes in agreement, for any set of   *)
(* transactions, any bounds and any sequence of calls.                     *)
(*                                                                         *)
(* PoolOK is inductive at the end of every loop iteration.  In the middle  *)
(* of one it is not: a replacement leaves the NonceMap pointing to the     *)
(* evicted transaction until Insert overwrites the entry.  OneStaleSlot is *)
(* what holds there.                                                       *)
(***************************************************************************)
EXTENDS PoolSnapshot, FiniteSetTheorems, NaturalsInduction, WellFoundedInduction, TLAPS

PoolOK(p) ==
    PoolTypeOK(p) /\ NonceConsistent(p) /\ BucketConsistent(p) /\ NoEmptyEntries(p)

(* The indexes agree on every slot but s, whose transaction is in no other *)
(* index than the NonceMap.                                                *)
OneStaleSlot(p, s) ==
    /\ \A h \in DOMAIN p.HashIndex :
          Slot(h) # s /\ Slot(h) \in DOMAIN p.NonceMap /\ p.NonceMap[Slot(h)] = h
    /\ \A t \in DOMAIN p.NonceMap \ {s} :
          p.NonceMap[t] \in DOMAIN p.HashIndex /\ Slot(p.NonceMap[t]) = t

(* ExpireBlock is a derived value: TTLBlock blocks after SeenBlock.        *)
ExpiryDerived(p) ==
    \A h \in DOMAIN p.HashIndex :
        p.HashIndex[h].ExpireBlock = p.HashIndex[h].SeenBlock + TTLBlock

(* q holds the transactions of p outside S, each with the data p has.      *)
KeepsAllBut(q, p, S) ==
    /\ DOMAIN q.HashIndex = DOMAIN p.HashIndex \ S
    /\ \A g \in DOMAIN q.HashIndex :
          /\ q.HashIndex[g].SeenBlock = p.HashIndex[g].SeenBlock
          /\ q.HashIndex[g].SeenBlockTime = p.HashIndex[g].SeenBlockTime
          /\ q.HashIndex[g].ExpireBlock = p.HashIndex[g].ExpireBlock

-----------------------------------------------------------------------------
(* Sequences and slots.                                                    *)

(* Overwriting position i + 1 with the last element and cutting the end    *)
(* moves one element and drops one.                                        *)
LEMMA SwapSeq ==
  ASSUME NEW list \in Seq(Hash), NEW i \in Nat, NEW last \in Nat,
         Len(list) = last + 1, i <= last
  PROVE  LET rest == SubSeq([list EXCEPT ![i + 1] = list[last + 1]], 1, last)
         IN /\ rest \in Seq(Hash)
            /\ Len(rest) = last
            /\ \A j \in 1 .. last : rest[j] = IF j = i + 1 THEN list[last + 1] ELSE list[j]
  <1> DEFINE ex == [list EXCEPT ![i + 1] = list[last + 1]]
  <1>1. ex \in Seq(Hash) /\ Len(ex) = last + 1
    OBVIOUS
  <1>2. \A j \in 1 .. last + 1 : ex[j] = IF j = i + 1 THEN list[last + 1] ELSE list[j]
    OBVIOUS
  <1> HIDE DEF ex
  <1>3. /\ SubSeq(ex, 1, last) \in Seq(Hash)
        /\ Len(SubSeq(ex, 1, last)) = last
        /\ \A j \in 1 .. last : SubSeq(ex, 1, last)[j] = ex[j]
    BY <1>1
  <1> QED BY <1>2, <1>3 DEF ex

(* A slot is a pair of a sender and a nonce.                               *)
LEMMA SlotType ==
  ASSUME NEW h \in Hash
  PROVE  Slot(h) \in Addr \X Nonces /\ Slot(h)[1] = From[h] /\ From[h] \in Addr
  BY TxAssumption DEF Slot

-----------------------------------------------------------------------------
(* The helpers of the pool.                                                *)

(* Insert completes a pool in which only the slot of h is stale or free.   *)
LEMMA InsertOK ==
  ASSUME NEW p, NEW h \in Hash, NEW block \in BlockType,
         PoolTypeOK(p), OneStaleSlot(p, Slot(h)), BucketConsistent(p), NoEmptyEntries(p)
  PROVE  PoolOK(Insert(p, h, block))
  <1> DEFINE expire == block.Number + TTLBlock
             list == Bucket(p, expire)
             tx == [SeenBlock |-> block.Number, SeenBlockTime |-> block.Time,
                    ExpireBlock |-> expire, ExpireIndex |-> Len(list)]
             q == Insert(p, h, block)
  <1>1. /\ q.Accounts = p.Accounts \cup {From[h]}
        /\ q.NonceMap = With(p.NonceMap, Slot(h), h)
        /\ q.ExpireBuckets = With(p.ExpireBuckets, expire, Append(list, h))
        /\ q.HashIndex = With(p.HashIndex, h, tx)
        /\ q = [Accounts |-> q.Accounts, NonceMap |-> q.NonceMap,
                ExpireBuckets |-> q.ExpireBuckets, HashIndex |-> q.HashIndex]
    BY DEF Insert, Position
  <1>2. expire \in Nat /\ block.Number \in Nat /\ block.Time \in Nat
    BY TxAssumption DEF BlockType
  <1>3. list \in Seq(Hash)
    BY <1>2 DEF Bucket, PoolTypeOK, IsMap
  <1>4. tx \in TxType
    BY <1>2, <1>3 DEF TxType
  <1>5. /\ Append(list, h) \in Seq(Hash)
        /\ Len(Append(list, h)) = Len(list) + 1
        /\ Append(list, h)[Len(list) + 1] = h
        /\ \A j \in 1 .. Len(list) : Append(list, h)[j] = list[j]
    BY <1>3
  <1>6. h \notin DOMAIN p.HashIndex
    BY DEF OneStaleSlot
  <1>t. /\ tx.SeenBlock = block.Number
        /\ tx.SeenBlockTime = block.Time
        /\ tx.ExpireBlock = expire
        /\ tx.ExpireIndex = Len(list)
    OBVIOUS
  <1> HIDE DEF q, tx, list, expire
  <1>7. PoolTypeOK(q)
    <2>1. IsMap(q.NonceMap, Addr \X Nonces, Hash)
      BY <1>1, SlotType DEF PoolTypeOK, IsMap, With
    <2>2. IsMap(q.ExpireBuckets, Nat, Seq(Hash))
      BY <1>1, <1>2, <1>5 DEF PoolTypeOK, IsMap, With
    <2>3. IsMap(q.HashIndex, Hash, TxType)
      BY <1>1, <1>4 DEF PoolTypeOK, IsMap, With
    <2> QED BY <1>1, <2>1, <2>2, <2>3, SlotType DEF PoolTypeOK
  <1>8. NonceConsistent(q)
    BY <1>1, <1>6 DEF NonceConsistent, OneStaleSlot, With
  <1>9. BucketConsistent(q)
    <2>1. /\ DOMAIN q.HashIndex = DOMAIN p.HashIndex \cup {h}
          /\ q.HashIndex[h] = tx
          /\ \A g \in DOMAIN p.HashIndex : q.HashIndex[g] = p.HashIndex[g]
      BY <1>1, <1>6 DEF With
    <2>2. /\ DOMAIN q.ExpireBuckets = DOMAIN p.ExpireBuckets \cup {expire}
          /\ q.ExpireBuckets[expire] = Append(list, h)
          /\ \A b \in DOMAIN p.ExpireBuckets : b # expire => q.ExpireBuckets[b] = p.ExpireBuckets[b]
      BY <1>1 DEF With
    <2>3. expire \in DOMAIN p.ExpireBuckets => list = p.ExpireBuckets[expire]
      BY DEF list, Bucket
    <2>4. expire \notin DOMAIN p.ExpireBuckets => Len(list) = 0
      BY DEF list, Bucket
    <2>5. ASSUME NEW g \in DOMAIN q.HashIndex
          PROVE  /\ q.HashIndex[g].ExpireBlock \in DOMAIN q.ExpireBuckets
                 /\ q.HashIndex[g].ExpireIndex < Len(q.ExpireBuckets[q.HashIndex[g].ExpireBlock])
                 /\ q.ExpireBuckets[q.HashIndex[g].ExpireBlock][q.HashIndex[g].ExpireIndex + 1] = g
      <3>1. CASE g = h
        BY <3>1, <2>1, <2>2, <1>t, <1>3, <1>5
      <3>2. CASE g # h /\ p.HashIndex[g].ExpireBlock = expire
        <4>1. p.HashIndex[g].ExpireIndex \in Nat
          BY <3>2, <2>1 DEF PoolTypeOK, IsMap, TxType
        <4>2. /\ expire \in DOMAIN p.ExpireBuckets
              /\ p.HashIndex[g].ExpireIndex < Len(list)
              /\ list[p.HashIndex[g].ExpireIndex + 1] = g
          BY <3>2, <2>1, <2>3 DEF BucketConsistent
        <4>3. p.HashIndex[g].ExpireIndex + 1 \in 1 .. Len(list)
          BY <4>1, <4>2, <1>3
        <4>4. q.HashIndex[g] = p.HashIndex[g]
          BY <3>2, <2>1
        <4>5. q.ExpireBuckets[expire][p.HashIndex[g].ExpireIndex + 1] = g
          BY <4>2, <4>3, <2>2, <1>5
        <4>6. p.HashIndex[g].ExpireIndex < Len(q.ExpireBuckets[expire])
          BY <4>1, <4>2, <2>2, <1>3, <1>5
        <4> QED BY <4>4, <4>5, <4>6, <3>2, <2>2
      <3>3. CASE g # h /\ p.HashIndex[g].ExpireBlock # expire
        BY <3>3, <2>1, <2>2 DEF BucketConsistent
      <3> QED BY <3>1, <3>2, <3>3
    <2>6. ASSUME NEW b \in DOMAIN q.ExpireBuckets, NEW i \in 1 .. Len(q.ExpireBuckets[b])
          PROVE  /\ q.ExpireBuckets[b][i] \in DOMAIN q.HashIndex
                 /\ q.HashIndex[q.ExpireBuckets[b][i]].ExpireBlock = b
                 /\ q.HashIndex[q.ExpireBuckets[b][i]].ExpireIndex = i - 1
      <3>1. CASE b # expire
        BY <3>1, <2>1, <2>2 DEF BucketConsistent
      <3>2. CASE b = expire /\ i = Len(list) + 1
        BY <3>2, <2>1, <2>2, <1>t, <1>3, <1>5
      <3>3. CASE b = expire /\ i # Len(list) + 1
        <4>1. i \in 1 .. Len(list)
          BY <3>3, <2>2, <1>3, <1>5
        <4>2. expire \in DOMAIN p.ExpireBuckets
          BY <4>1, <2>4, <1>3
        <4> QED BY <4>1, <4>2, <3>3, <2>1, <2>2, <2>3, <1>5 DEF BucketConsistent
      <3> QED BY <3>1, <3>2, <3>3
    <2> QED BY <2>5, <2>6 DEF BucketConsistent
  <1>10. NoEmptyEntries(q)
    <2>1. q.Accounts = {s[1] : s \in DOMAIN q.NonceMap}
      BY <1>1, SlotType DEF NoEmptyEntries, With
    <2>2. \A b \in DOMAIN q.ExpireBuckets : q.ExpireBuckets[b] # <<>>
      BY <1>1, <1>3, <1>5 DEF NoEmptyEntries, With
    <2> QED BY <2>1, <2>2 DEF NoEmptyEntries
  <1> QED BY <1>7, <1>8, <1>9, <1>10 DEF PoolOK, q

(* removeExpireBucket takes h, already gone from HashIndex, out of its     *)
(* bucket: the transaction moved into its place learns its new position,   *)
(* every other one keeps its own, and an emptied bucket disappears.        *)
LEMMA BucketRemoval ==
  ASSUME NEW p, NEW accounts, NEW nonces,
         PoolTypeOK(p), BucketConsistent(p), NoEmptyEntries(p),
         NEW h \in DOMAIN p.HashIndex
  PROVE  LET q == removeExpireBucket(
                    [Accounts |-> accounts, NonceMap |-> nonces,
                     ExpireBuckets |-> p.ExpireBuckets,
                     HashIndex |-> Without(p.HashIndex, {h})], h, p.HashIndex[h])
         IN /\ q = [Accounts |-> accounts, NonceMap |-> nonces,
                    ExpireBuckets |-> q.ExpireBuckets, HashIndex |-> q.HashIndex]
            /\ IsMap(q.ExpireBuckets, Nat, Seq(Hash))
            /\ IsMap(q.HashIndex, Hash, TxType)
            /\ KeepsAllBut(q, p, {h})
            /\ BucketConsistent(q)
            /\ \A b \in DOMAIN q.ExpireBuckets : q.ExpireBuckets[b] # <<>>
  <1> DEFINE p0 == [Accounts |-> accounts, NonceMap |-> nonces,
                    ExpireBuckets |-> p.ExpireBuckets,
                    HashIndex |-> Without(p.HashIndex, {h})]
             tx == p.HashIndex[h]
             E == tx.ExpireBlock
             i == tx.ExpireIndex
             list == p.ExpireBuckets[E]
             last == Len(list) - 1
             moved == list[last + 1]
             rest == SubSeq([list EXCEPT ![i + 1] = list[last + 1]], 1, last)
             q == removeExpireBucket(p0, h, tx)
  <1>1. tx \in TxType /\ E \in Nat /\ i \in Nat /\ h \in Hash
    BY DEF PoolTypeOK, IsMap, TxType
  <1>2. E \in DOMAIN p.ExpireBuckets /\ list \in Seq(Hash) /\ i < Len(list) /\ list[i + 1] = h
    BY DEF PoolTypeOK, IsMap, BucketConsistent
  <1>3. last \in Nat /\ i <= last /\ Len(list) = last + 1
    BY <1>1, <1>2
  <1>4. /\ moved \in DOMAIN p.HashIndex
        /\ p.HashIndex[moved].ExpireBlock = E
        /\ p.HashIndex[moved].ExpireIndex = last
    <2>1. PICK k : k = Len(list)
      OBVIOUS
    <2>2. k \in 1 .. Len(list) /\ k - 1 = last
      BY <1>3, <2>1
    <2>3. moved = list[k]
      <3> HIDE DEF list
      <3> QED BY <1>3, <2>1
    <2> HIDE DEF moved, last, E
    <2>4. /\ list[k] \in DOMAIN p.HashIndex
          /\ p.HashIndex[list[k]].ExpireBlock = E
          /\ p.HashIndex[list[k]].ExpireIndex = k - 1
      BY <1>2, <2>2 DEF BucketConsistent
    <2> HIDE DEF list
    <2> QED BY <2>2, <2>3, <2>4
  <1>5. moved = h <=> i = last
    <2>1. moved = h => i = last
      <3> HIDE DEF moved, last
      <3> QED BY <1>4
    <2>2. i = last => moved = h
      BY <1>2
    <2> QED BY <2>1, <2>2
  <1>6. /\ rest \in Seq(Hash)
        /\ Len(rest) = last
        /\ \A j \in 1 .. last : rest[j] = IF j = i + 1 THEN moved ELSE list[j]
    <2> HIDE DEF list, i, last
    <2> QED BY <1>1, <1>2, <1>3, SwapSeq
  <1>7. Bucket(p0, E) = list
    BY <1>2 DEF Bucket
  <1>8. q = [Accounts |-> accounts, NonceMap |-> nonces,
             ExpireBuckets |-> IF last = 0 THEN Without(p.ExpireBuckets, {E})
                               ELSE With(p.ExpireBuckets, E, rest),
             HashIndex |-> IF i = last THEN Without(p.HashIndex, {h})
                           ELSE Reindex(Without(p.HashIndex, {h}), moved, i)]
    <2>1. ~(list = <<>> \/ i < 0 \/ i > last \/ list[i + 1] # h)
      BY <1>1, <1>2, <1>3
    <2> HIDE DEF list, i, E
    <2> QED BY <1>7, <2>1 DEF removeExpireBucket, p0, i, E, list
  <1> HIDE DEF q, rest, moved, last, list
  <1>9. /\ DOMAIN q.HashIndex = DOMAIN p.HashIndex \ {h}
        /\ \A g \in DOMAIN p.HashIndex \ {h} :
              q.HashIndex[g] = IF g = moved THEN [p.HashIndex[g] EXCEPT !.ExpireIndex = i]
                               ELSE p.HashIndex[g]
    BY <1>5, <1>8 DEF Without, Reindex
  <1>10. /\ DOMAIN q.ExpireBuckets = IF last = 0 THEN DOMAIN p.ExpireBuckets \ {E}
                                     ELSE DOMAIN p.ExpireBuckets
         /\ last # 0 => q.ExpireBuckets[E] = rest
         /\ \A b \in DOMAIN p.ExpireBuckets \ {E} : q.ExpireBuckets[b] = p.ExpireBuckets[b]
    BY <1>2, <1>8 DEF With, Without
  <1>11. \A g \in DOMAIN p.HashIndex : p.HashIndex[g] \in TxType
    BY DEF PoolTypeOK, IsMap
  <1>12. IsMap(q.ExpireBuckets, Nat, Seq(Hash))
    BY <1>1, <1>6, <1>8 DEF PoolTypeOK, IsMap, With, Without
  <1>13. IsMap(q.HashIndex, Hash, TxType)
    <2>1. \A g \in DOMAIN q.HashIndex : q.HashIndex[g] \in TxType
      BY <1>1, <1>9, <1>11 DEF TxType
    <2>2. q.HashIndex = [g \in DOMAIN q.HashIndex |-> q.HashIndex[g]]
      BY <1>8 DEF Without, Reindex
    <2> QED BY <1>9, <2>1, <2>2 DEF PoolTypeOK, IsMap
  <1>14. \A g \in DOMAIN q.HashIndex :
            /\ q.HashIndex[g].SeenBlock = p.HashIndex[g].SeenBlock
            /\ q.HashIndex[g].SeenBlockTime = p.HashIndex[g].SeenBlockTime
            /\ q.HashIndex[g].ExpireBlock = p.HashIndex[g].ExpireBlock
            /\ q.HashIndex[g].ExpireIndex = IF g = moved THEN i ELSE p.HashIndex[g].ExpireIndex
    BY <1>9, <1>11 DEF TxType
  <1>15. ASSUME NEW g \in DOMAIN q.HashIndex
         PROVE  /\ q.HashIndex[g].ExpireBlock \in DOMAIN q.ExpireBuckets
                /\ q.HashIndex[g].ExpireIndex < Len(q.ExpireBuckets[q.HashIndex[g].ExpireBlock])
                /\ q.ExpireBuckets[q.HashIndex[g].ExpireBlock][q.HashIndex[g].ExpireIndex + 1] = g
    <2>1. g \in DOMAIN p.HashIndex /\ g # h /\ p.HashIndex[g].ExpireIndex \in Nat
      BY <1>9, <1>11 DEF TxType
    <2>2. CASE p.HashIndex[g].ExpireBlock # E
      <3>1. g # moved
        BY <2>2, <1>4
      <3>2. /\ q.HashIndex[g].ExpireBlock = p.HashIndex[g].ExpireBlock
            /\ q.HashIndex[g].ExpireIndex = p.HashIndex[g].ExpireIndex
        BY <3>1, <1>14
      <3>3. /\ p.HashIndex[g].ExpireBlock \in DOMAIN q.ExpireBuckets
            /\ q.ExpireBuckets[p.HashIndex[g].ExpireBlock] = p.ExpireBuckets[p.HashIndex[g].ExpireBlock]
        BY <2>1, <2>2, <1>10 DEF BucketConsistent
      <3> QED BY <2>1, <3>2, <3>3 DEF BucketConsistent
    <2>3. CASE g = moved
      <3>1. i < last
        BY <2>1, <2>3, <1>1, <1>3, <1>5
      <3>2. i + 1 \in 1 .. last /\ last # 0
        BY <3>1, <1>1, <1>3
      <3>3. q.HashIndex[g].ExpireBlock = E /\ q.HashIndex[g].ExpireIndex = i
        BY <2>3, <1>4, <1>14
      <3>4. E \in DOMAIN q.ExpireBuckets /\ q.ExpireBuckets[E] = rest
        BY <3>2, <1>2, <1>10
      <3>5. rest[i + 1] = g
        BY <2>3, <3>2, <1>6
      <3> HIDE DEF i, E
      <3> QED BY <3>1, <3>3, <3>4, <3>5, <1>6
    <2>4. CASE p.HashIndex[g].ExpireBlock = E /\ g # moved
      <3>1. p.HashIndex[g].ExpireIndex < last + 1 /\ list[p.HashIndex[g].ExpireIndex + 1] = g
        BY <2>1, <2>4, <1>3 DEF BucketConsistent, list
      <3>2. p.HashIndex[g].ExpireIndex # last /\ p.HashIndex[g].ExpireIndex # i
        BY <2>1, <2>4, <3>1, <1>2 DEF moved
      <3>3. p.HashIndex[g].ExpireIndex + 1 \in 1 .. last /\ last # 0
        BY <2>1, <3>1, <3>2, <1>3
      <3>4. /\ q.HashIndex[g].ExpireBlock = E
            /\ q.HashIndex[g].ExpireIndex = p.HashIndex[g].ExpireIndex
        BY <2>4, <1>14
      <3>5. E \in DOMAIN q.ExpireBuckets /\ q.ExpireBuckets[E] = rest
        BY <3>3, <1>2, <1>10
      <3>6. rest[p.HashIndex[g].ExpireIndex + 1] = g /\ p.HashIndex[g].ExpireIndex < last
        BY <2>1, <3>1, <3>2, <3>3, <1>1, <1>3, <1>6
      <3> HIDE DEF i, E
      <3> QED BY <3>4, <3>5, <3>6, <1>6
    <2> QED BY <2>2, <2>3, <2>4
  <1>16. ASSUME NEW b \in DOMAIN q.ExpireBuckets, NEW j \in 1 .. Len(q.ExpireBuckets[b])
         PROVE  /\ q.ExpireBuckets[b][j] \in DOMAIN q.HashIndex
                /\ q.HashIndex[q.ExpireBuckets[b][j]].ExpireBlock = b
                /\ q.HashIndex[q.ExpireBuckets[b][j]].ExpireIndex = j - 1
    <2>1. CASE b # E
      <3>1. /\ b \in DOMAIN p.ExpireBuckets
            /\ q.ExpireBuckets[b] = p.ExpireBuckets[b]
        BY <2>1, <1>10
      <3>2. /\ q.ExpireBuckets[b][j] \in DOMAIN p.HashIndex
            /\ p.HashIndex[q.ExpireBuckets[b][j]].ExpireBlock = b
            /\ p.HashIndex[q.ExpireBuckets[b][j]].ExpireIndex = j - 1
        BY <3>1 DEF BucketConsistent
      <3> QED BY <2>1, <3>2, <1>4, <1>9, <1>14
    <2>2. CASE b = E
      <3>1. last # 0 /\ q.ExpireBuckets[b] = rest /\ j \in 1 .. last
        BY <2>2, <1>10, <1>6
      <3>2. CASE j = i + 1
        <4>1. rest[j] = moved /\ i # last
          BY <3>1, <3>2, <1>1, <1>3, <1>6
        <4> QED BY <2>2, <3>1, <3>2, <4>1, <1>1, <1>4, <1>5, <1>9, <1>14
      <3>3. CASE j # i + 1
        <4>1. rest[j] = list[j] /\ j \in 1 .. Len(list)
          BY <3>1, <3>3, <1>3, <1>6
        <4>2. /\ list[j] \in DOMAIN p.HashIndex
              /\ p.HashIndex[list[j]].ExpireBlock = E
              /\ p.HashIndex[list[j]].ExpireIndex = j - 1
          BY <4>1, <1>2 DEF BucketConsistent, list
        <4>3. list[j] # h /\ list[j] # moved
          BY <3>1, <3>3, <4>2, <1>1, <1>3, <1>4
        <4> QED BY <2>2, <3>1, <4>1, <4>2, <4>3, <1>9, <1>14
      <3> QED BY <3>2, <3>3
    <2> QED BY <2>1, <2>2
  <1>17. BucketConsistent(q)
    BY <1>15, <1>16 DEF BucketConsistent
  <1>18. \A b \in DOMAIN q.ExpireBuckets : q.ExpireBuckets[b] # <<>>
    BY <1>6, <1>10, <1>3 DEF NoEmptyEntries
  <1>19. q = [Accounts |-> accounts, NonceMap |-> nonces,
              ExpireBuckets |-> q.ExpireBuckets, HashIndex |-> q.HashIndex]
    BY <1>8
  <1> QED BY <1>9, <1>12, <1>13, <1>14, <1>17, <1>18, <1>19 DEF q, KeepsAllBut

(* An inclusion takes its transaction out of every index.                  *)
LEMMA RemoveByHashOK ==
  ASSUME NEW p, PoolOK(p), NEW h \in DOMAIN p.HashIndex
  PROVE  /\ PoolOK(removeByHash(p, h))
         /\ KeepsAllBut(removeByHash(p, h), p, {h})
         /\ removeByHash(p, h).NonceMap = Without(p.NonceMap, {Slot(h)})
  <1> DEFINE nonces == Without(p.NonceMap, {Slot(h)})
             accounts == LiveAccounts(p.Accounts, nonces, {From[h]})
             q == removeByHash(p, h)
  <1>1. PoolTypeOK(p) /\ NonceConsistent(p) /\ BucketConsistent(p) /\ NoEmptyEntries(p)
    BY DEF PoolOK
  <1>2. h \in Hash
    BY <1>1 DEF PoolTypeOK, IsMap
  <1>3. q = removeExpireBucket([Accounts |-> accounts, NonceMap |-> nonces,
                                ExpireBuckets |-> p.ExpireBuckets,
                                HashIndex |-> Without(p.HashIndex, {h})], h, p.HashIndex[h])
    BY DEF removeByHash
  <1> HIDE DEF q, accounts, nonces
  <1>4. /\ q = [Accounts |-> accounts, NonceMap |-> nonces,
                ExpireBuckets |-> q.ExpireBuckets, HashIndex |-> q.HashIndex]
        /\ IsMap(q.ExpireBuckets, Nat, Seq(Hash))
        /\ IsMap(q.HashIndex, Hash, TxType)
        /\ KeepsAllBut(q, p, {h})
        /\ BucketConsistent(q)
        /\ \A b \in DOMAIN q.ExpireBuckets : q.ExpireBuckets[b] # <<>>
    BY <1>1, <1>3, BucketRemoval
  <1>5. q.Accounts = accounts /\ q.NonceMap = nonces
    BY <1>4
  <1>6. accounts = {s[1] : s \in DOMAIN nonces}
    <2>1. /\ DOMAIN nonces = DOMAIN p.NonceMap \ {Slot(h)}
          /\ p.Accounts = {s[1] : s \in DOMAIN p.NonceMap}
          /\ Slot(h)[1] = From[h]
      BY <1>1, <1>2, SlotType DEF nonces, Without, NoEmptyEntries
    <2> QED BY <2>1 DEF accounts, LiveAccounts
  <1>7. IsMap(nonces, Addr \X Nonces, Hash) /\ accounts \subseteq Addr
    BY <1>1 DEF PoolTypeOK, IsMap, Without, nonces, accounts, LiveAccounts
  <1>8. PoolTypeOK(q)
    BY <1>4, <1>5, <1>7 DEF PoolTypeOK
  <1>9. NonceConsistent(q)
    BY <1>1, <1>4, <1>5 DEF NonceConsistent, KeepsAllBut, nonces, Without
  <1>10. NoEmptyEntries(q)
    BY <1>4, <1>5, <1>6 DEF NoEmptyEntries
  <1> QED BY <1>4, <1>5, <1>8, <1>9, <1>10 DEF PoolOK, q, nonces

(* A replacement takes the old transaction out of every index but its slot.*)
LEMMA EvictOK ==
  ASSUME NEW p, PoolOK(p), NEW old \in DOMAIN p.HashIndex
  PROVE  /\ PoolTypeOK(Evict(p, old))
         /\ OneStaleSlot(Evict(p, old), Slot(old))
         /\ BucketConsistent(Evict(p, old))
         /\ NoEmptyEntries(Evict(p, old))
         /\ KeepsAllBut(Evict(p, old), p, {old})
         /\ Evict(p, old).NonceMap = p.NonceMap
  <1> DEFINE tx == p.HashIndex[old]
             list == Bucket(p, tx.ExpireBlock)
             i == tx.ExpireIndex
             last == Len(list) - 1
             p0 == [Accounts |-> p.Accounts, NonceMap |-> p.NonceMap,
                    ExpireBuckets |-> p.ExpireBuckets,
                    HashIndex |-> Without(p.HashIndex, {old})]
             q == Evict(p, old)
  <1>1. PoolTypeOK(p) /\ NonceConsistent(p) /\ BucketConsistent(p) /\ NoEmptyEntries(p)
    BY DEF PoolOK
  <1>2. q = removeExpireBucket(p0, old, tx)
    <2>1. i \in Nat /\ i < Len(list) /\ list[i + 1] = old /\ list \in Seq(Hash)
      BY <1>1 DEF PoolTypeOK, IsMap, TxType, BucketConsistent, Bucket
    <2>2. /\ ~(list = <<>> \/ i < 0 \/ i > last \/ list[i + 1] # old)
          /\ i # last => list[last + 1] # old
      <3>1. i # last => p.HashIndex[list[last + 1]].ExpireIndex = last
        BY <1>1, <2>1 DEF BucketConsistent, Bucket
      <3> QED BY <2>1, <3>1
    <2>3. Bucket(p0, tx.ExpireBlock) = list
      BY DEF Bucket
    <2>4. \A m : m # old => Without(Reindex(p.HashIndex, m, i), {old})
                            = Reindex(Without(p.HashIndex, {old}), m, i)
      BY DEF Without, Reindex
    <2> HIDE DEF list, i, last
    <2> QED BY <2>2, <2>3, <2>4 DEF Evict, removeExpireBucket, list, i, last
  <1> HIDE DEF q, tx
  <1>3. /\ q = [Accounts |-> p.Accounts, NonceMap |-> p.NonceMap,
                ExpireBuckets |-> q.ExpireBuckets, HashIndex |-> q.HashIndex]
        /\ IsMap(q.ExpireBuckets, Nat, Seq(Hash))
        /\ IsMap(q.HashIndex, Hash, TxType)
        /\ KeepsAllBut(q, p, {old})
        /\ BucketConsistent(q)
        /\ \A b \in DOMAIN q.ExpireBuckets : q.ExpireBuckets[b] # <<>>
    BY <1>1, <1>2, BucketRemoval DEF tx
  <1>4. q.Accounts = p.Accounts /\ q.NonceMap = p.NonceMap
    BY <1>3
  <1>5. PoolTypeOK(q)
    BY <1>1, <1>3, <1>4 DEF PoolTypeOK
  <1>6. OneStaleSlot(q, Slot(old))
    BY <1>1, <1>3, <1>4 DEF NonceConsistent, OneStaleSlot, KeepsAllBut
  <1>7. NoEmptyEntries(q)
    BY <1>1, <1>3, <1>4 DEF NoEmptyEntries
  <1> QED BY <1>3, <1>4, <1>5, <1>6, <1>7 DEF q

(* PushOne refuses, inserts, or evicts and inserts.                        *)
LEMMA PushOneOK ==
  ASSUME NEW p, PoolOK(p), NEW h \in Hash, NEW block \in BlockType
  PROVE  PoolOK(PushOne(p, h, block))
  <1> DEFINE old == p.NonceMap[Slot(h)]
  <1>1. CASE Slot(h) \notin DOMAIN p.NonceMap
    <2>1. OneStaleSlot(p, Slot(h))
      BY <1>1 DEF PoolOK, NonceConsistent, OneStaleSlot
    <2> QED BY <1>1, <2>1, InsertOK DEF PoolOK, PushOne
  <1>2. CASE Slot(h) \in DOMAIN p.NonceMap /\ Outbids(h, old)
    <2>1. old \in DOMAIN p.HashIndex /\ Slot(old) = Slot(h)
      BY <1>2 DEF PoolOK, NonceConsistent
    <2> HIDE DEF old
    <2>2. /\ PoolTypeOK(Evict(p, old))
          /\ OneStaleSlot(Evict(p, old), Slot(h))
          /\ BucketConsistent(Evict(p, old))
          /\ NoEmptyEntries(Evict(p, old))
      BY <2>1, EvictOK
    <2>3. PoolOK(Insert(Evict(p, old), h, block))
      BY <2>2, InsertOK
    <2> QED BY <1>2, <2>3 DEF PushOne, old
  <1>3. CASE Slot(h) \in DOMAIN p.NonceMap /\ ~Outbids(h, old)
    BY <1>3 DEF PushOne
  <1> QED BY <1>1, <1>2, <1>3

(* RemoveExpired removes the overdue transactions from every index.  Every *)
(* transaction of an overdue bucket passes its NonceMap check, because the *)
(* indexes agree.                                                          *)
LEMMA ExpireOK ==
  ASSUME NEW p, PoolOK(p), NEW n \in Nat
  PROVE  /\ PoolOK(Expire(p, n))
         /\ KeepsAllBut(Expire(p, n), p,
                        {h \in DOMAIN p.HashIndex : p.HashIndex[h].ExpireBlock <= n})
         /\ \A s \in DOMAIN Expire(p, n).NonceMap :
               s \in DOMAIN p.NonceMap /\ Expire(p, n).NonceMap[s] = p.NonceMap[s]
  <1> DEFINE due == Due(p, n)
             listed == UNION {Range(p.ExpireBuckets[b]) : b \in due}
             gone == {h \in listed : Slot(h) \in DOMAIN p.NonceMap /\ p.NonceMap[Slot(h)] = h}
             nonces == Without(p.NonceMap, {Slot(h) : h \in gone})
             accounts == LiveAccounts(p.Accounts, nonces, {From[h] : h \in gone})
             q == Expire(p, n)
  <1>1. PoolTypeOK(p) /\ NonceConsistent(p) /\ BucketConsistent(p) /\ NoEmptyEntries(p)
    BY DEF PoolOK
  <1>2. /\ q = [Accounts |-> accounts, NonceMap |-> nonces,
                ExpireBuckets |-> Without(p.ExpireBuckets, due),
                HashIndex |-> Without(p.HashIndex, gone)]
        /\ q.Accounts = accounts
        /\ q.NonceMap = nonces
        /\ q.ExpireBuckets = Without(p.ExpireBuckets, due)
        /\ q.HashIndex = Without(p.HashIndex, gone)
    BY DEF Expire
  <1>3. /\ \A h \in DOMAIN p.HashIndex : p.HashIndex[h] \in TxType /\ h \in Hash
        /\ \A b \in DOMAIN p.ExpireBuckets : p.ExpireBuckets[b] \in Seq(Hash) /\ b \in Nat
    BY <1>1 DEF PoolTypeOK, IsMap
  <1>4. gone = {h \in DOMAIN p.HashIndex : p.HashIndex[h].ExpireBlock <= n}
    <2>1. ASSUME NEW h \in gone
          PROVE  h \in DOMAIN p.HashIndex /\ p.HashIndex[h].ExpireBlock <= n
      <3>1. PICK b \in due : h \in Range(p.ExpireBuckets[b])
        OBVIOUS
      <3>2. b \in DOMAIN p.ExpireBuckets /\ b <= n
        BY DEF Due
      <3>3. PICK j \in 1 .. Len(p.ExpireBuckets[b]) : p.ExpireBuckets[b][j] = h
        BY <3>1, <3>2, <1>3 DEF Range
      <3> QED BY <3>2, <3>3, <1>1 DEF BucketConsistent
    <2>2. ASSUME NEW h \in DOMAIN p.HashIndex, p.HashIndex[h].ExpireBlock <= n
          PROVE  h \in gone
      <3> DEFINE b == p.HashIndex[h].ExpireBlock
                 j == p.HashIndex[h].ExpireIndex + 1
      <3>0. p.HashIndex[h].ExpireIndex \in Nat
        BY <1>3 DEF TxType
      <3>1. /\ b \in DOMAIN p.ExpireBuckets
            /\ j \in 1 .. Len(p.ExpireBuckets[b])
            /\ p.ExpireBuckets[b][j] = h
        <4>1. /\ b \in DOMAIN p.ExpireBuckets
              /\ p.HashIndex[h].ExpireIndex < Len(p.ExpireBuckets[b])
              /\ p.ExpireBuckets[b][j] = h
          BY <1>1 DEF BucketConsistent
        <4>2. Len(p.ExpireBuckets[b]) \in Nat
          BY <4>1, <1>3
        <4> QED BY <3>0, <4>1, <4>2
      <3> HIDE DEF b, j
      <3>2. h \in Range(p.ExpireBuckets[b])
        BY <3>1, <1>3 DEF Range
      <3>3. b \in due
        BY <2>2, <3>1 DEF Due, b
      <3> QED BY <3>2, <3>3, <1>1 DEF NonceConsistent
    <2> QED BY <2>1, <2>2
  <1> HIDE DEF q, accounts, nonces, gone, listed, due
  <1>5. /\ DOMAIN q.HashIndex = DOMAIN p.HashIndex \ gone
        /\ \A h \in DOMAIN q.HashIndex : q.HashIndex[h] = p.HashIndex[h]
        /\ DOMAIN q.ExpireBuckets = DOMAIN p.ExpireBuckets \ due
        /\ \A b \in DOMAIN q.ExpireBuckets : q.ExpireBuckets[b] = p.ExpireBuckets[b]
        /\ DOMAIN nonces = DOMAIN p.NonceMap \ {Slot(h) : h \in gone}
        /\ \A s \in DOMAIN nonces : nonces[s] = p.NonceMap[s]
    BY <1>2 DEF Without, nonces
  <1>6. \A b \in DOMAIN p.ExpireBuckets : b \in due <=> b <= n
    BY DEF due, Due
  <1>7. PoolTypeOK(q)
    <2>1. IsMap(q.NonceMap, Addr \X Nonces, Hash) /\ q.Accounts \subseteq Addr
      BY <1>1, <1>2 DEF PoolTypeOK, IsMap, Without, nonces, accounts, LiveAccounts
    <2>2. IsMap(q.ExpireBuckets, Nat, Seq(Hash)) /\ IsMap(q.HashIndex, Hash, TxType)
      BY <1>1, <1>2 DEF PoolTypeOK, IsMap, Without
    <2> QED BY <1>2, <2>1, <2>2 DEF PoolTypeOK
  <1>8. NonceConsistent(q)
    <2>1. ASSUME NEW h \in DOMAIN q.HashIndex
          PROVE  Slot(h) \in DOMAIN nonces /\ nonces[Slot(h)] = h
      <3>1. Slot(h) \in DOMAIN p.NonceMap /\ p.NonceMap[Slot(h)] = h
        BY <1>1, <1>5 DEF NonceConsistent
      <3>2. \A g \in gone : p.NonceMap[Slot(g)] = g
        BY <1>1, <1>4 DEF NonceConsistent
      <3> QED BY <3>1, <3>2, <1>5
    <2>2. ASSUME NEW s \in DOMAIN nonces
          PROVE  nonces[s] \in DOMAIN q.HashIndex /\ Slot(nonces[s]) = s
      BY <1>1, <1>5 DEF NonceConsistent
    <2> QED BY <1>2, <2>1, <2>2 DEF NonceConsistent
  <1>9. BucketConsistent(q)
    <2>1. ASSUME NEW h \in DOMAIN q.HashIndex
          PROVE  /\ q.HashIndex[h].ExpireBlock \in DOMAIN q.ExpireBuckets
                 /\ q.HashIndex[h].ExpireIndex < Len(q.ExpireBuckets[q.HashIndex[h].ExpireBlock])
                 /\ q.ExpireBuckets[q.HashIndex[h].ExpireBlock][q.HashIndex[h].ExpireIndex + 1] = h
      <3>1. p.HashIndex[h].ExpireBlock \in DOMAIN p.ExpireBuckets \ due
        BY <1>1, <1>4, <1>5, <1>6 DEF BucketConsistent
      <3> QED BY <3>1, <1>1, <1>5 DEF BucketConsistent
    <2>2. ASSUME NEW b \in DOMAIN q.ExpireBuckets, NEW j \in 1 .. Len(q.ExpireBuckets[b])
          PROVE  /\ q.ExpireBuckets[b][j] \in DOMAIN q.HashIndex
                 /\ q.HashIndex[q.ExpireBuckets[b][j]].ExpireBlock = b
                 /\ q.HashIndex[q.ExpireBuckets[b][j]].ExpireIndex = j - 1
      <3>1. /\ p.ExpireBuckets[b][j] \in DOMAIN p.HashIndex
            /\ p.HashIndex[p.ExpireBuckets[b][j]].ExpireBlock = b
            /\ p.HashIndex[p.ExpireBuckets[b][j]].ExpireIndex = j - 1
        BY <1>1, <1>5 DEF BucketConsistent
      <3>2. p.ExpireBuckets[b][j] \notin gone
        BY <3>1, <1>4, <1>5, <1>6
      <3> QED BY <3>1, <3>2, <1>5
    <2> QED BY <2>1, <2>2 DEF BucketConsistent
  <1>10. NoEmptyEntries(q)
    <2>1. \A h \in gone : Slot(h)[1] = From[h]
      BY <1>3, <1>4, SlotType
    <2>2. accounts = {s[1] : s \in DOMAIN nonces}
      BY <1>1, <1>5, <2>1 DEF accounts, LiveAccounts, NoEmptyEntries
    <2> QED BY <1>1, <1>2, <1>5, <2>2 DEF NoEmptyEntries
  <1>11. KeepsAllBut(q, p, gone)
    BY <1>5 DEF KeepsAllBut
  <1> QED BY <1>2, <1>4, <1>5, <1>7, <1>8, <1>9, <1>10, <1>11 DEF PoolOK, q

-----------------------------------------------------------------------------
(* The derived ExpireBlock, kept by every helper.                          *)

(* Removing transactions keeps the derived ExpireBlock of the others.      *)
LEMMA ExpiryKept ==
  ASSUME NEW p, NEW q, NEW S, ExpiryDerived(p), KeepsAllBut(q, p, S)
  PROVE  ExpiryDerived(q)
  BY DEF ExpiryDerived, KeepsAllBut

(* Insert derives the ExpireBlock of the new transaction.                  *)
LEMMA ExpiryInserted ==
  ASSUME NEW p, ExpiryDerived(p), NEW h, NEW block
  PROVE  ExpiryDerived(Insert(p, h, block))
  BY DEF ExpiryDerived, Insert, With

(* So does PushOne, whether it refuses, inserts or replaces.               *)
LEMMA ExpiryPushed ==
  ASSUME NEW p, PoolOK(p), ExpiryDerived(p), NEW h, NEW block
  PROVE  ExpiryDerived(PushOne(p, h, block))
  <1> DEFINE old == p.NonceMap[Slot(h)]
  <1>1. CASE Slot(h) \in DOMAIN p.NonceMap /\ Outbids(h, old)
    <2>1. old \in DOMAIN p.HashIndex
      BY <1>1 DEF PoolOK, NonceConsistent
    <2>2. ExpiryDerived(Evict(p, old))
      <3>1. KeepsAllBut(Evict(p, old), p, {old})
        BY <2>1, EvictOK
      <3> QED BY <3>1, ExpiryKept
    <2> QED BY <1>1, <2>2, ExpiryInserted DEF PushOne
  <1>2. CASE ~(Slot(h) \in DOMAIN p.NonceMap /\ Outbids(h, old))
    BY <1>2, ExpiryInserted DEF PushOne
  <1> QED BY <1>1, <1>2

(* Raising one entry of the wait histogram keeps its type.                 *)
LEMMA CountUp ==
  ASSUME NEW S, NEW f \in [S -> Nat], NEW k \in S
  PROVE  [f EXCEPT ![k] = @ + 1] \in [S -> Nat]
  <1>1. f[k] + 1 \in Nat
    OBVIOUS
  <1>2. \A v \in Nat : [f EXCEPT ![k] = v] \in [S -> Nat]
    OBVIOUS
  <1> QED BY <1>1, <1>2

(* A counted inclusion keeps the statistics well-typed: the wait index     *)
(* stays within the array.                                                 *)
LEMMA CountedType ==
  ASSUME NEW st, IsMap(st, Nat, StatType), NEW h \in Hash,
         NEW tx \in TxType, NEW block \in BlockType
  PROVE  IsMap(Counted(st, h, tx, block), Nat, StatType)
  <1> DEFINE b == getFeeBucket(TipCap[h])
             blocks == (block.Number - tx.SeenBlock) % U64
             seconds == (block.Time - tx.SeenBlockTime) % U64
             old == IF b \in DOMAIN st THEN st[b] ELSE NoWaits
  <1>1. b \in Nat
    <2>1. TipCap[h] \div FeeBucketSize \in Nat
      BY TxAssumption, PoolAssumption
    <2> QED BY <2>1, PoolAssumption DEF getFeeBucket
  <1>2. blocks \in Nat /\ seconds \in Nat
    BY PoolAssumption DEF TxType, BlockType
  <1>3. NoWaits \in StatType
    BY DEF NoWaits, StatType
  <1>4. old \in StatType
    BY <1>3 DEF IsMap
  <1>5. WaitIndex(blocks) \in 0 .. WaitSlots - 1
    <2> HIDE DEF blocks
    <2> QED BY <1>2, PoolAssumption DEF WaitIndex
  <1> HIDE DEF b, blocks, seconds, old
  <1>6. CountWait(old, blocks, seconds) \in StatType
    <2>1. /\ old.TxCount + 1 \in Nat
          /\ old.TotalWaitBlocks + blocks \in Nat
          /\ old.TotalWaitSeconds + seconds \in Nat
      BY <1>2, <1>4 DEF StatType
    <2>2. [old.WaitBlockCount EXCEPT ![WaitIndex(blocks)] = @ + 1] \in [0 .. WaitSlots - 1 -> Nat]
      <3>1. old.WaitBlockCount \in [0 .. WaitSlots - 1 -> Nat]
        BY <1>4 DEF StatType
      <3> QED BY <3>1, <1>5, CountUp
    <2> QED BY <2>1, <2>2 DEF CountWait, StatType
  <1>7. Counted(st, h, tx, block) = With(st, b, CountWait(old, blocks, seconds))
    BY DEF Counted, b, blocks, seconds, old
  <1> QED BY <1>1, <1>6, <1>7 DEF IsMap, With

-----------------------------------------------------------------------------
(* The fee statistics of RemoveByReceipts add up.                          *)

(* A set of numbers that is not empty has a smallest: what induction over  *)
(* the wait slots rests on.                                                *)
LEMMA Smallest ==
    ASSUME NEW T, T \subseteq Nat, T # {}
    PROVE  \E m \in T : \A k \in T : m <= k
<1> DEFINE R == OpToRel(<, Nat)
<1>1. IsWellFoundedOn(R, Nat) BY NatLessThanWellFounded, Zenon
<1>2. \A k, m \in Nat : k < m => <<k, m>> \in R BY DEF OpToRel
<1> HIDE DEF R
<1>3. PICK m \in T : \A k \in T : ~(<<k, m>> \in R) BY <1>1, WFMin
<1>4. \A k \in T : ~(k < m) BY <1>2, <1>3
<1>5. \A k \in T : k \in Nat /\ m \in Nat OBVIOUS
<1>6. QED BY <1>4, <1>5

(* The partial sums of f.                                                  *)
Sums(f, n, g) == g = [k \in 0 .. n |-> IF k = 0 THEN 0 ELSE g[k - 1] + f[k - 1]]

(* There are partial sums for any f and n: the smallest n without them     *)
(* would have a predecessor that has them.                                 *)
LEMMA SumsExist ==
    ASSUME NEW f, NEW n \in Nat
    PROVE  \E g : Sums(f, n, g)
<1> DEFINE T == {m \in Nat : ~ \E g : Sums(f, m, g)}
<1>1. SUFFICES ASSUME T # {} PROVE FALSE OBVIOUS
<1>2. PICK m \in T : \A k \in T : m <= k BY <1>1, Smallest
<1>3. m \in Nat /\ ~ \E g : Sums(f, m, g) OBVIOUS
<1>4. m # 0
  <2>1. ASSUME m = 0 PROVE FALSE
    <3> DEFINE z == [k \in 0 .. 0 |-> 0]
    <3>1. z = [k \in 0 .. 0 |-> IF k = 0 THEN 0 ELSE z[k - 1] + f[k - 1]] OBVIOUS
    <3>2. QED BY <1>3, <2>1, <3>1 DEF Sums
  <2>2. QED BY <2>1
<1>5. m - 1 \in Nat /\ m - 1 \notin T BY <1>2, <1>3, <1>4
<1>6. PICK g : Sums(f, m - 1, g) BY <1>5
<1> DEFINE h == [k \in 0 .. m |-> IF k = m THEN g[m - 1] + f[m - 1] ELSE g[k]]
<1>7. ASSUME NEW k \in 0 .. m PROVE h[k] = IF k = 0 THEN 0 ELSE h[k - 1] + f[k - 1]
  <2>1. CASE k = 0
    <3>1. g[0] = 0 BY <1>5, <1>6 DEF Sums
    <3>2. QED BY <1>3, <1>4, <2>1, <3>1
  <2>2. CASE k # 0 /\ k # m
    <3>1. k \in 0 .. m - 1 /\ k - 1 \in 0 .. m /\ k - 1 # m BY <1>3, <2>2
    <3>2. g[k] = g[k - 1] + f[k - 1] BY <1>6, <2>2, <3>1 DEF Sums
    <3>3. QED BY <2>2, <3>1, <3>2
  <2>3. CASE k = m
    <3>1. m - 1 \in 0 .. m /\ m - 1 # m BY <1>3, <1>4
    <3>2. QED BY <1>4, <2>3, <3>1
  <2>4. QED BY <2>1, <2>2, <2>3
<1>8. h = [k \in 0 .. m |-> IF k = 0 THEN 0 ELSE h[k - 1] + f[k - 1]]
  <2> HIDE DEF h
  <2>1. h = [k \in 0 .. m |-> h[k]] BY DEF h
  <2>2. QED BY <1>7, <2>1
<1>9. QED BY <1>3, <1>8 DEF Sums

(* SumOver is the last of the partial sums.                                *)
LEMMA SumOverIs ==
    ASSUME NEW f, NEW n \in Nat
    PROVE  \E g : Sums(f, n, g) /\ SumOver(f, n) = g[n]
<1> DEFINE s == CHOOSE g : g = [k \in 0 .. n |-> IF k = 0 THEN 0 ELSE g[k - 1] + f[k - 1]]
<1>1. \E g : g = [k \in 0 .. n |-> IF k = 0 THEN 0 ELSE g[k - 1] + f[k - 1]] BY SumsExist DEF Sums
<1>2. Sums(f, n, s) BY <1>1 DEF Sums
<1>3. SumOver(f, n) = s[n] BY DEF SumOver
<1>4. QED BY <1>2, <1>3

(* Raising one summand raises the sum by as much.                          *)
LEMMA SumRaised ==
    ASSUME NEW n \in Nat, NEW f \in [0 .. n - 1 -> Nat], NEW e \in [0 .. n - 1 -> Nat],
           NEW j \in 0 .. n - 1, NEW d \in Nat, e[j] = f[j] + d,
           \A k \in 0 .. n - 1 : k # j => e[k] = f[k]
    PROVE  SumOver(f, n) \in Nat /\ SumOver(e, n) = SumOver(f, n) + d
<1>1. PICK g : Sums(f, n, g) /\ SumOver(f, n) = g[n] BY SumOverIs
<1>2. PICK h : Sums(e, n, h) /\ SumOver(e, n) = h[n] BY SumOverIs
<1>3. \A k \in 0 .. n : g[k] = (IF k = 0 THEN 0 ELSE g[k - 1] + f[k - 1])
                        /\ h[k] = (IF k = 0 THEN 0 ELSE h[k - 1] + e[k - 1])
  BY <1>1, <1>2 DEF Sums
<1> DEFINE Right(k) == g[k] \in Nat /\ h[k] = g[k] + (IF k > j THEN d ELSE 0)
           T == {k \in 0 .. n : ~Right(k)}
<1>4. ASSUME T # {} PROVE FALSE
  <2>1. T \subseteq Nat OBVIOUS
  <2>2. PICK m \in T : \A k \in T : m <= k
    <3> HIDE DEF T
    <3>1. QED BY <1>4, <2>1, Smallest
  <2>3. m \in 0 .. n /\ ~Right(m) OBVIOUS
  <2>4. m # 0 BY <1>3, <2>3
  <2>5. m - 1 \in 0 .. n /\ m - 1 \in 0 .. n - 1 /\ Right(m - 1) BY <2>2, <2>3, <2>4
  <2>6. g[m] = g[m - 1] + f[m - 1] /\ h[m] = h[m - 1] + e[m - 1] BY <1>3, <2>3, <2>4
  <2>7. f[m - 1] \in Nat /\ e[m - 1] = f[m - 1] + (IF m - 1 = j THEN d ELSE 0) BY <2>5
  <2>8. m \in Int /\ j \in Int /\ (m > j <=> m - 1 > j \/ m - 1 = j) BY <2>3
  <2>9. g[m] \in Nat BY <2>5, <2>6, <2>7
  <2>10. h[m] = g[m] + (IF m > j THEN d ELSE 0)
    <3>1. CASE m - 1 = j
      <4>1. h[m - 1] = g[m - 1] /\ e[m - 1] = f[m - 1] + d BY <2>5, <2>7, <2>8, <3>1
      <4>2. g[m - 1] \in Nat /\ f[m - 1] \in Nat BY <2>5, <2>7
      <4>3. QED BY <2>6, <2>8, <3>1, <4>1, <4>2
    <3>2. CASE m - 1 # j
      <4>1. /\ h[m - 1] = g[m - 1] + (IF m > j THEN d ELSE 0) /\ e[m - 1] = f[m - 1]
        BY <2>5, <2>7, <2>8, <3>2
      <4>2. g[m - 1] \in Nat /\ f[m - 1] \in Nat BY <2>5, <2>7
      <4>3. QED BY <2>6, <4>1, <4>2
    <3>3. QED BY <3>1, <3>2
  <2>11. QED BY <2>3, <2>9, <2>10
<1>5. Right(n)
  <2>1. T = {}
    <3> HIDE DEF T
    <3>1. QED BY <1>4
  <2>2. n \in 0 .. n OBVIOUS
  <2>3. QED BY <2>1, <2>2
<1>6. QED BY <1>1, <1>2, <1>5

(* Zeros add up to zero.                                                   *)
LEMMA SumOfZeros ==
    ASSUME NEW n \in Nat, NEW f, \A k \in 0 .. n - 1 : f[k] = 0
    PROVE  SumOver(f, n) = 0
<1>1. PICK g : Sums(f, n, g) /\ SumOver(f, n) = g[n] BY SumOverIs
<1>2. \A k \in 0 .. n : g[k] = (IF k = 0 THEN 0 ELSE g[k - 1] + f[k - 1]) BY <1>1 DEF Sums
<1> DEFINE T == {k \in 0 .. n : g[k] # 0}
<1>3. ASSUME T # {} PROVE FALSE
  <2>1. T \subseteq Nat OBVIOUS
  <2>2. PICK m \in T : \A k \in T : m <= k
    <3> HIDE DEF T
    <3>1. QED BY <1>3, <2>1, Smallest
  <2>3. m \in 0 .. n /\ g[m] # 0 /\ m # 0 BY <1>2
  <2>4. m - 1 \in 0 .. n /\ m - 1 \in 0 .. n - 1 /\ g[m - 1] = 0 BY <2>2, <2>3
  <2>5. QED BY <1>2, <2>3, <2>4
<1>4. QED BY <1>1, <1>3

(* What StatsBalance says of one bucket.                                   *)
Weighted(stat) == [k \in 0 .. WaitSlots - 1 |-> k * stat.WaitBlockCount[k]]

Balanced(stat) ==
    /\ SumOver(stat.WaitBlockCount, WaitSlots) = stat.TxCount
    /\ SumOver(Weighted(stat), WaitSlots) <= stat.TotalWaitBlocks
    /\ stat.WaitBlockCount[MaxWaitBlock] = 0 =>
          SumOver(Weighted(stat), WaitSlots) = stat.TotalWaitBlocks

Bounded(stat, block) ==
    /\ stat.TotalWaitBlocks <= stat.TxCount * block.Number
    /\ stat.TotalWaitSeconds <= stat.TxCount * block.Time

(* A bucket begins in balance.                                             *)
LEMMA NoWaitsBalanced ==
    ASSUME NEW block \in BlockType PROVE Balanced(NoWaits) /\ Bounded(NoWaits, block)
<1>1. WaitSlots \in Nat /\ MaxWaitBlock \in 0 .. WaitSlots - 1 BY PoolAssumption
<1>2. NoWaits.WaitBlockCount = [k \in 0 .. WaitSlots - 1 |-> 0] BY DEF NoWaits
<1>3. \A k \in 0 .. WaitSlots - 1 : NoWaits.WaitBlockCount[k] = 0 /\ Weighted(NoWaits)[k] = 0
  BY <1>2 DEF Weighted
<1>4. SumOver(NoWaits.WaitBlockCount, WaitSlots) = 0 /\ SumOver(Weighted(NoWaits), WaitSlots) = 0
  BY <1>1, <1>3, SumOfZeros
<1>5. NoWaits.TxCount = 0 /\ NoWaits.TotalWaitBlocks = 0 /\ NoWaits.TotalWaitSeconds = 0
  BY DEF NoWaits
<1>6. QED BY <1>4, <1>5 DEF Balanced, Bounded, BlockType

(* Counting a wait keeps the balance, also when the wait is cut at         *)
(* MaxWaitBlock: then the last slot is no longer empty.                    *)
LEMMA CountWaitBalanced ==
    ASSUME NEW stat \in StatType, Balanced(stat), NEW block \in BlockType, Bounded(stat, block),
           NEW blocks \in Nat, NEW seconds \in Nat, blocks <= block.Number, seconds <= block.Time
    PROVE  LET c == CountWait(stat, blocks, seconds) IN Balanced(c) /\ Bounded(c, block)
<1> DEFINE c == CountWait(stat, blocks, seconds)
           slots == 0 .. WaitSlots - 1
           j == WaitIndex(blocks)
           old == stat.WaitBlockCount
           new == c.WaitBlockCount
<1>1. WaitSlots \in Nat /\ MaxWaitBlock \in Nat /\ MaxWaitBlock \in slots BY PoolAssumption
<1>2. j \in slots /\ j \in Nat /\ j <= blocks /\ (j # MaxWaitBlock => j = blocks)
  BY <1>1 DEF WaitIndex
<1>3. old \in [slots -> Nat] BY DEF StatType
<1>4. /\ c.TxCount = stat.TxCount + 1
      /\ c.TotalWaitBlocks = stat.TotalWaitBlocks + blocks
      /\ c.TotalWaitSeconds = stat.TotalWaitSeconds + seconds
      /\ new = [old EXCEPT ![j] = @ + 1]
  BY DEF CountWait
<1>5. stat.TxCount \in Nat /\ stat.TotalWaitBlocks \in Nat /\ stat.TotalWaitSeconds \in Nat
  BY DEF StatType
<1> HIDE DEF c, j, new, old
<1>6. new \in [slots -> Nat] /\ new[j] = old[j] + 1 /\ \A k \in slots : k # j => new[k] = old[k]
  BY <1>2, <1>3, <1>4
<1>7. SumOver(new, WaitSlots) = SumOver(old, WaitSlots) + 1
  <2>1. 1 \in Nat OBVIOUS
  <2>2. QED BY <1>1, <1>2, <1>3, <1>6, <2>1, SumRaised
<1>8. Weighted(stat) = [k \in slots |-> k * old[k]] /\ Weighted(c) = [k \in slots |-> k * new[k]]
  BY DEF Weighted, old, new
<1>9. \A x, y \in Nat : x * y \in Nat /\ x * (y + 1) = x * y + x OBVIOUS
<1>10. \A k \in slots : k \in Nat BY <1>1
<1>11. Weighted(stat) \in [slots -> Nat] /\ Weighted(c) \in [slots -> Nat]
  BY <1>3, <1>6, <1>8, <1>9, <1>10
<1>12. /\ Weighted(c)[j] = Weighted(stat)[j] + j
       /\ \A k \in slots : k # j => Weighted(c)[k] = Weighted(stat)[k]
  BY <1>2, <1>3, <1>6, <1>8, <1>9
<1>13. /\ SumOver(Weighted(stat), WaitSlots) \in Nat
       /\ SumOver(Weighted(c), WaitSlots) = SumOver(Weighted(stat), WaitSlots) + j
  BY <1>1, <1>2, <1>11, <1>12, SumRaised
<1>14. Balanced(c)
  <2>1. SumOver(new, WaitSlots) = c.TxCount BY <1>4, <1>7 DEF Balanced, old
  <2>2. SumOver(Weighted(c), WaitSlots) <= c.TotalWaitBlocks
    BY <1>2, <1>4, <1>5, <1>13 DEF Balanced
  <2>3. ASSUME new[MaxWaitBlock] = 0
        PROVE  SumOver(Weighted(c), WaitSlots) = c.TotalWaitBlocks
    <3>1. old[j] + 1 # 0 BY <1>2, <1>3
    <3>2. j # MaxWaitBlock BY <1>6, <2>3, <3>1
    <3>3. old[MaxWaitBlock] = 0 BY <1>1, <1>6, <2>3, <3>2
    <3>4. SumOver(Weighted(stat), WaitSlots) = stat.TotalWaitBlocks BY <3>3 DEF Balanced, old
    <3>5. QED BY <1>2, <1>4, <1>13, <3>2, <3>4
  <2>4. QED BY <2>1, <2>2, <2>3 DEF Balanced, new
<1>15. Bounded(c, block)
  <2>1. block.Number \in Nat /\ block.Time \in Nat BY DEF BlockType
  <2>2. \A x, y \in Nat : (x + 1) * y = x * y + y /\ x * y \in Nat OBVIOUS
  <2>3. QED BY <1>4, <1>5, <2>1, <2>2 DEF Bounded
<1>16. QED BY <1>14, <1>15 DEF c

(* An included transaction is counted only if it was seen before its       *)
(* block, so that neither subtraction goes below zero.                     *)
LEMMA CountedBalanced ==
    ASSUME NEW st, IsMap(st, Nat, StatType), NEW h \in Hash,
           NEW tx \in TxType, NEW block \in BlockType, ~SeenTooLate(tx, block),
           \A b \in DOMAIN st : Balanced(st[b]) /\ Bounded(st[b], block)
    PROVE  \A b \in DOMAIN Counted(st, h, tx, block) :
              /\ Balanced(Counted(st, h, tx, block)[b])
              /\ Bounded(Counted(st, h, tx, block)[b], block)
<1> DEFINE f == getFeeBucket(TipCap[h])
           blocks == (block.Number - tx.SeenBlock) % U64
           seconds == (block.Time - tx.SeenBlockTime) % U64
           old == IF f \in DOMAIN st THEN st[f] ELSE NoWaits
<1>1. old \in StatType /\ Balanced(old) /\ Bounded(old, block)
  <2>1. NoWaits \in StatType BY DEF NoWaits, StatType
  <2>2. QED BY <2>1, NoWaitsBalanced DEF IsMap
<1>2. /\ block.Number \in Nat /\ block.Time \in Nat /\ tx.SeenBlock \in Nat /\ tx.SeenBlockTime \in Nat
      /\ U64 \in Nat /\ U64 > 0
  BY PoolAssumption DEF TxType, BlockType
<1>3. block.Number >= tx.SeenBlock /\ block.Time >= tx.SeenBlockTime BY <1>2 DEF SeenTooLate
<1>4. \A x, u \in Nat : u > 0 => x % u \in Nat /\ x % u <= x OBVIOUS
<1>5. blocks \in Nat /\ seconds \in Nat /\ blocks <= block.Number /\ seconds <= block.Time
  <2>1. /\ block.Number - tx.SeenBlock \in Nat /\ block.Number - tx.SeenBlock <= block.Number
        /\ block.Time - tx.SeenBlockTime \in Nat /\ block.Time - tx.SeenBlockTime <= block.Time
    BY <1>2, <1>3
  <2>2. /\ blocks \in Nat /\ blocks <= block.Number - tx.SeenBlock
        /\ seconds \in Nat /\ seconds <= block.Time - tx.SeenBlockTime
    BY <1>2, <1>4, <2>1
  <2> HIDE DEF blocks, seconds
  <2>3. QED BY <1>2, <2>1, <2>2
<1>6. Counted(st, h, tx, block) = With(st, f, CountWait(old, blocks, seconds)) BY DEF Counted
<1> HIDE DEF f, blocks, seconds, old
<1>7. LET c == CountWait(old, blocks, seconds) IN Balanced(c) /\ Bounded(c, block)
  BY <1>1, <1>5, CountWaitBalanced
<1>8. QED BY <1>6, <1>7 DEF With

-----------------------------------------------------------------------------
(* The invariant.                                                          *)

(* A running operation was called with a block of its caller.              *)
CalledWithBlock == mu # "free" => cur \in Blocks

Inv == TypeOK /\ IndexesAgree /\ NoLeak /\ ExpiryDerived(pool) /\ CalledWithBlock

(* The empty pool of NewPendingMemPool and Clear is in order.              *)
LEMMA EmptyPoolOK == PoolOK(EmptyPool) /\ ExpiryDerived(EmptyPool)
  BY DEF PoolOK, EmptyPool, EmptyMap, PoolTypeOK, IsMap, NonceConsistent,
         BucketConsistent, NoEmptyEntries, ExpiryDerived

(* The inductive invariant holds at the start.                             *)
LEMMA InitInv == Init => Inv
  <1> SUFFICES ASSUME Init PROVE Inv
    OBVIOUS
  <1>1. PoolOK(pool) /\ ExpiryDerived(pool)
    BY EmptyPoolOK DEF Init
  <1>2. IsMap(stats, Nat, StatType)
    BY DEF Init, EmptyMap, IsMap
  <1> QED BY <1>1, <1>2 DEF Init, Inv, TypeOK, IndexesAgree, NoLeak, PoolOK, NoBlock,
                            BlockType, CalledWithBlock

(* Every operation and every iteration of its loop keeps the invariant.    *)
LEMMA NextInv == Inv /\ [Next]_vars => Inv'
  <1> SUFFICES ASSUME Inv, [Next]_vars PROVE Inv'
    OBVIOUS
  <1> USE DEF Inv
  <1>0. /\ PoolOK(pool) /\ ExpiryDerived(pool)
        /\ mu \in {"free", "PushBatch", "RemoveByReceipts"}
        /\ todo \in Seq(Hash) /\ cur \in BlockType /\ IsMap(stats, Nat, StatType)
        /\ CalledWithBlock
    BY DEF TypeOK, IndexesAgree, NoLeak, PoolOK
  <1>s. SUFFICES /\ PoolOK(pool') /\ ExpiryDerived(pool')
                 /\ mu' \in {"free", "PushBatch", "RemoveByReceipts"}
                 /\ todo' \in Seq(Hash) /\ cur' \in BlockType
                 /\ IsMap(stats', Nat, StatType)
                 /\ CalledWithBlock'
    BY DEF TypeOK, IndexesAgree, NoLeak, PoolOK
  <1> HIDE DEF Inv
  <1> USE DEF CalledWithBlock
  <1>1. CASE \E txs \in Batches, block \in Blocks : PushBatch(txs, block)
    BY <1>0, <1>1, InputAssumption, TxAssumption DEF PushBatch, Locked
  <1>2. CASE PushNext
    <2>1. Head(todo) \in Hash /\ Tail(todo) \in Seq(Hash)
      BY <1>0, <1>2 DEF PushNext
    <2>2. PoolOK(pool') /\ ExpiryDerived(pool')
      BY <1>0, <1>2, <2>1, PushOneOK, ExpiryPushed DEF PushNext
    <2> QED BY <1>0, <1>2, <2>1, <2>2 DEF PushNext
  <1>3. CASE \E receipts \in Receipts, header \in Blocks : RemoveByReceipts(receipts, header)
    BY <1>0, <1>3, InputAssumption, TxAssumption DEF RemoveByReceipts, Locked
  <1>4. CASE ReceiptNext
    <2>1. Head(todo) \in Hash /\ Tail(todo) \in Seq(Hash)
      BY <1>0, <1>4 DEF ReceiptNext
    <2>2. CASE Head(todo) \notin DOMAIN pool.HashIndex
      BY <1>0, <1>4, <2>1, <2>2 DEF ReceiptNext
    <2>3. CASE Head(todo) \in DOMAIN pool.HashIndex
      <3>1. PoolOK(pool') /\ ExpiryDerived(pool')
        BY <1>0, <1>4, <2>3, RemoveByHashOK, ExpiryKept DEF ReceiptNext
      <3>2. pool.HashIndex[Head(todo)] \in TxType
        BY <1>0, <2>3 DEF PoolOK, PoolTypeOK, IsMap
      <3>3. IsMap(stats', Nat, StatType)
        BY <1>0, <1>4, <2>1, <2>3, <3>2, CountedType DEF ReceiptNext
      <3> QED BY <1>0, <1>4, <2>1, <3>1, <3>3 DEF ReceiptNext
    <2> QED BY <2>2, <2>3
  <1>5. CASE Unlock
    BY <1>0, <1>5 DEF Unlock, NoBlock, BlockType, EmptyMap, IsMap
  <1>6. CASE \E block \in Blocks : RemoveExpired(block.Number)
    <2>1. PICK block \in Blocks : RemoveExpired(block.Number)
      BY <1>6
    <2>2. block.Number \in Nat
      BY TxAssumption DEF BlockType
    <2>3. PoolOK(pool') /\ ExpiryDerived(pool')
      <3>1. /\ PoolOK(Expire(pool, block.Number))
            /\ \E S : KeepsAllBut(Expire(pool, block.Number), pool, S)
        BY <1>0, <2>2, ExpireOK
      <3>2. ExpiryDerived(Expire(pool, block.Number))
        BY <1>0, <3>1, ExpiryKept
      <3> QED BY <2>1, <3>1, <3>2 DEF RemoveExpired
    <2> QED BY <1>0, <2>1, <2>3 DEF RemoveExpired
  <1>7. CASE Clear
    BY <1>0, <1>7, EmptyPoolOK DEF Clear
  <1>8. CASE UNCHANGED vars
    BY <1>0, <1>8 DEF vars
  <1> QED BY <1>1, <1>2, <1>3, <1>4, <1>5, <1>6, <1>7, <1>8 DEF Next

(* So it holds in every execution.                                         *)
LEMMA Invariance == Spec => []Inv
  BY InitInv, NextInv, PTL DEF Spec

(* Every map, struct and counter of the pool keeps its type in every       *)
(* execution, the array index of the wait histogram included.              *)
THEOREM TypeCorrect == Spec => []TypeOK
  <1>1. Inv => TypeOK
    BY DEF Inv
  <1> QED BY <1>1, Invariance, PTL

(* The nonce map, the hash index and the expiry buckets of the pool agree  *)
(* after every iteration of every operation, for any set of transactions.  *)
THEOREM IndexesAlwaysAgree == Spec => []IndexesAgree
  <1>1. Inv => IndexesAgree
    BY DEF Inv
  <1> QED BY <1>1, Invariance, PTL

(* No account and no bucket outlives its transactions.                     *)
THEOREM NothingLeaks == Spec => []NoLeak
  <1>1. Inv => NoLeak
    BY DEF Inv
  <1> QED BY <1>1, Invariance, PTL

-----------------------------------------------------------------------------
(* Steps.                                                                  *)

(* A slot changes hands only by a replacement that raises both fee limits; *)
(* no inclusion, expiry or Clear can put another transaction in a slot.    *)
THEOREM BidsOnlyRise == Spec => ReplacedOnlyByHigherBid
  <1> DEFINE Rise(s) == pool'.NonceMap[s] # pool.NonceMap[s] =>
                           /\ TipCap[pool'.NonceMap[s]] > TipCap[pool.NonceMap[s]]
                           /\ FeeCap[pool'.NonceMap[s]] > FeeCap[pool.NonceMap[s]]
             A == \A s \in DOMAIN pool.NonceMap \cap DOMAIN pool'.NonceMap : Rise(s)
  <1>1. Inv /\ [Next]_vars => A
    <2> SUFFICES ASSUME Inv, [Next]_vars,
                        NEW s \in DOMAIN pool.NonceMap \cap DOMAIN pool'.NonceMap
                 PROVE  Rise(s)
      OBVIOUS
    <2>0. PoolOK(pool) /\ todo \in Seq(Hash)
      BY DEF Inv, TypeOK, IndexesAgree, NoLeak, PoolOK
    <2>1. CASE PushNext
      <3> DEFINE h == Head(todo)
                 old == pool.NonceMap[Slot(h)]
      <3>1. CASE pool' = pool
        BY <3>1
      <3>2. CASE pool' # pool /\ Slot(h) \in DOMAIN pool.NonceMap
        <4>1. Outbids(h, old) /\ pool' = Insert(Evict(pool, old), h, cur)
          BY <2>1, <3>2 DEF PushNext, PushOne
        <4>2. old \in DOMAIN pool.HashIndex
          BY <2>0, <3>2 DEF PoolOK, NonceConsistent
        <4>3. pool'.NonceMap = With(pool.NonceMap, Slot(h), h)
          BY <2>0, <4>1, <4>2, EvictOK DEF Insert
        <4> QED BY <4>1, <4>3 DEF With, Outbids
      <3>3. CASE pool' # pool /\ Slot(h) \notin DOMAIN pool.NonceMap
        <4>1. pool'.NonceMap = With(pool.NonceMap, Slot(h), h)
          BY <2>1, <3>3 DEF PushNext, PushOne, Insert
        <4> QED BY <3>3, <4>1 DEF With
      <3> QED BY <3>1, <3>2, <3>3
    <2>2. CASE ReceiptNext
      <3>1. CASE Head(todo) \in DOMAIN pool.HashIndex
        <4>1. pool'.NonceMap = Without(pool.NonceMap, {Slot(Head(todo))})
          BY <2>0, <2>2, <3>1, RemoveByHashOK DEF ReceiptNext
        <4> QED BY <4>1 DEF Without
      <3>2. CASE Head(todo) \notin DOMAIN pool.HashIndex
        BY <2>2, <3>2 DEF ReceiptNext
      <3> QED BY <3>1, <3>2
    <2>3. CASE \E block \in Blocks : RemoveExpired(block.Number)
      <3>1. PICK block \in Blocks : RemoveExpired(block.Number)
        BY <2>3
      <3>2. block.Number \in Nat /\ pool' = Expire(pool, block.Number)
        BY <3>1, TxAssumption DEF BlockType, RemoveExpired
      <3>3. pool'.NonceMap[s] = pool.NonceMap[s]
        BY <2>0, <3>2, ExpireOK
      <3> QED BY <3>3
    <2>4. CASE Clear
      BY <2>4 DEF Clear, EmptyPool, EmptyMap
    <2>5. CASE pool' = pool
      BY <2>5
    <2> QED BY <2>1, <2>2, <2>3, <2>4, <2>5
            DEF Next, PushBatch, RemoveByReceipts, Locked, Unlock, vars
  <1>2. Inv /\ [Next]_vars => [A]_vars
    BY <1>1
  <1> QED BY <1>2, Invariance, PTL DEF Spec, ReplacedOnlyByHigherBid

(* RemoveExpired leaves no transaction behind that is due by the hash      *)
(* index, although it only walks the buckets.                              *)
THEOREM ExpiryAlwaysComplete == Spec => ExpiryIsComplete
  <1> DEFINE A == \A block \in Blocks : RemoveExpired(block.Number) =>
                     \A h \in DOMAIN pool'.HashIndex :
                        pool'.HashIndex[h].ExpireBlock > block.Number
  <1>1. Inv /\ [Next]_vars => [A]_vars
    <2> SUFFICES ASSUME Inv, NEW block \in Blocks, RemoveExpired(block.Number),
                        NEW h \in DOMAIN pool'.HashIndex
                 PROVE  pool'.HashIndex[h].ExpireBlock > block.Number
      OBVIOUS
    <2>1. PoolOK(pool)
      BY DEF Inv, TypeOK, IndexesAgree, NoLeak, PoolOK
    <2>2. block.Number \in Nat /\ pool' = Expire(pool, block.Number)
      BY TxAssumption DEF BlockType, RemoveExpired
    <2>3. /\ h \in DOMAIN pool.HashIndex
          /\ ~(pool.HashIndex[h].ExpireBlock <= block.Number)
          /\ pool'.HashIndex[h].ExpireBlock = pool.HashIndex[h].ExpireBlock
      BY <2>1, <2>2, ExpireOK DEF KeepsAllBut
    <2>4. pool.HashIndex[h].ExpireBlock \in Nat
      BY <2>1, <2>3 DEF PoolOK, PoolTypeOK, IsMap, TxType
    <2> QED BY <2>2, <2>3, <2>4
  <1> QED BY <1>1, Invariance, PTL DEF Spec, ExpiryIsComplete

(* What callers see of a pool p.                                           *)
Visible(p) ==
    [h \in DOMAIN p.HashIndex |-> [SeenBlock |-> p.HashIndex[h].SeenBlock,
                                   SeenBlockTime |-> p.HashIndex[h].SeenBlockTime]]

(* What callers see after a removal: the same without the removed ones.    *)
LEMMA VisibleRest ==
  ASSUME NEW p, NEW q, NEW S, KeepsAllBut(q, p, S)
  PROVE  Visible(q) = Without(Visible(p), S)
  BY DEF Visible, Without, KeepsAllBut

(* What callers see after Insert: the same and the new transaction.        *)
LEMMA VisibleInsert ==
  ASSUME NEW p, NEW h, NEW block
  PROVE  Visible(Insert(p, h, block)) = With(Visible(p), h, Abstract!Seen(block))
  BY DEF Visible, Insert, With, Abstract!Seen

(* The pool implements PoolSpec: every iteration of PushBatch is an Offer, *)
(* every iteration of RemoveByReceipts an Include, RemoveExpired is Expire *)
(* for the same block, and nothing else changes what callers see.          *)
THEOREM PoolRefinement == Spec => ImplementsPoolSpec
  <1> USE DEF Abstract!With, Abstract!Without, Abstract!Slot, Abstract!EmptyMap
  <1>1. Init => Abstract!Init
    BY DEF Init, Abstract!Init, Live, EmptyPool, EmptyMap
  <1>2. Inv /\ [Next]_vars => [Abstract!Next]_Live
    <2> SUFFICES ASSUME Inv, [Next]_vars PROVE Abstract!Next \/ UNCHANGED Live
      OBVIOUS
    <2>0. /\ PoolOK(pool) /\ ExpiryDerived(pool)
          /\ todo \in Seq(Hash) /\ CalledWithBlock
      BY DEF Inv, TypeOK, IndexesAgree, NoLeak, PoolOK
    <2>l. Live = Visible(pool) /\ Live' = Visible(pool')
      BY DEF Live, Visible
    <2>1. CASE pool' = pool
      BY <2>1, <2>l
    <2>2. CASE PushNext /\ pool' # pool
      <3> DEFINE h == Head(todo)
                 old == pool.NonceMap[Slot(h)]
      <3>1. h \in Hash \ Malformed /\ cur \in Blocks /\ pool' = PushOne(pool, h, cur)
        BY <2>0, <2>2 DEF PushNext, CalledWithBlock
      <3>2. Live' = Abstract!Offered(Live, h, cur)
        <4> HIDE DEF h
        <4>1. CASE Slot(h) \notin DOMAIN pool.NonceMap
          <5>1. Abstract!Rivals(Live, h) = {}
            BY <4>1, <2>0, <2>l DEF PoolOK, NonceConsistent, Visible, Abstract!Rivals, Slot
          <5>2. Live' = With(Live, h, Abstract!Seen(cur))
            BY <3>1, <4>1, <2>l, VisibleInsert DEF PushOne
          <5> QED BY <5>1, <5>2, <2>l DEF Abstract!Offered, With, Visible
        <4>2. CASE Slot(h) \in DOMAIN pool.NonceMap
          <5>1. Outbids(h, old) /\ pool' = Insert(Evict(pool, old), h, cur)
            BY <2>2, <3>1, <4>2 DEF PushOne
          <5>2. old \in DOMAIN pool.HashIndex /\ Slot(old) = Slot(h)
            BY <2>0, <4>2 DEF PoolOK, NonceConsistent
          <5>3. Abstract!Rivals(Live, h) = {old}
            BY <5>2, <2>0, <2>l DEF PoolOK, NonceConsistent, Visible, Abstract!Rivals, Slot
          <5>4. Visible(Evict(pool, old)) = Without(Live, {old})
            <6>1. KeepsAllBut(Evict(pool, old), pool, {old})
              BY <5>2, <2>0, EvictOK
            <6> QED BY <6>1, <2>l, VisibleRest
          <5>5. Live' = With(Without(Live, {old}), h, Abstract!Seen(cur))
            BY <5>1, <5>4, <2>l, VisibleInsert
          <5> QED BY <5>1, <5>3, <5>5 DEF Abstract!Offered, With, Without, Outbids, Abstract!Outbids
        <4> QED BY <4>1, <4>2
      <3> QED BY <3>1, <3>2 DEF Abstract!Next, Abstract!Offer
    <2>3. CASE ReceiptNext /\ pool' # pool
      <3> DEFINE h == Head(todo)
      <3>1. h \in DOMAIN pool.HashIndex /\ pool' = removeByHash(pool, h)
        BY <2>3 DEF ReceiptNext
      <3>2. KeepsAllBut(pool', pool, {h}) /\ h \in Hash
        BY <3>1, <2>0, RemoveByHashOK DEF PoolOK, PoolTypeOK, IsMap
      <3>3. Live' = Without(Live, {h})
        BY <3>2, <2>l, VisibleRest
      <3> QED BY <3>2, <3>3 DEF Abstract!Next, Abstract!Include, Without
    <2>4. CASE \E block \in Blocks : RemoveExpired(block.Number)
      <3>1. PICK block \in Blocks : RemoveExpired(block.Number)
        BY <2>4
      <3> DEFINE n == block.Number
                 S == {h \in DOMAIN pool.HashIndex : pool.HashIndex[h].ExpireBlock <= n}
      <3>2. n \in Nat /\ pool' = Expire(pool, n)
        BY <3>1, TxAssumption DEF BlockType, RemoveExpired
      <3>3. KeepsAllBut(pool', pool, S)
        BY <3>2, <2>0, ExpireOK
      <3>4. S = {h \in DOMAIN Live : Live[h].SeenBlock + TTLBlock <= n}
        BY <2>0, <2>l DEF Visible, ExpiryDerived
      <3>5. Live' = Without(Live, S)
        <4> HIDE DEF S
        <4> QED BY <3>3, <2>l, VisibleRest
      <3> QED BY <3>4, <3>5 DEF Abstract!Next, Abstract!Expire, Abstract!Fresh, Without
    <2>5. CASE Clear
      BY <2>5 DEF Clear, Abstract!Next, Abstract!Clear, Live, EmptyPool, EmptyMap
    <2> QED BY <2>1, <2>2, <2>3, <2>4, <2>5
            DEF Next, PushBatch, RemoveByReceipts, Locked, Unlock, vars
  <1> QED BY <1>1, <1>2, Invariance, PTL DEF Spec, ImplementsPoolSpec, Abstract!Spec

-----------------------------------------------------------------------------
(* The statistics.                                                         *)

(* Only RemoveByReceipts has statistics, and they are right for its block. *)
StatsRight ==
    /\ mu # "RemoveByReceipts" => stats = EmptyMap
    /\ \A b \in DOMAIN stats : Balanced(stats[b]) /\ Bounded(stats[b], cur)

(* Every iteration over the receipts keeps them right.                     *)
LEMMA StatsStep == Inv /\ StatsRight /\ [Next]_vars => StatsRight'
<1> SUFFICES ASSUME Inv, StatsRight, [Next]_vars PROVE StatsRight' OBVIOUS
<1>1. DOMAIN EmptyMap = {} BY DEF EmptyMap
<1>2. CASE ReceiptNext
  <2>1. mu = "RemoveByReceipts" /\ UNCHANGED <<mu, cur>> BY <1>2 DEF ReceiptNext
  <2>2. CASE UNCHANGED stats BY <2>1, <2>2 DEF StatsRight
  <2>3. CASE ~UNCHANGED stats
    <3> DEFINE h == Head(todo)
    <3>1. h \in Hash BY <1>2 DEF ReceiptNext, Inv, TypeOK
    <3>2. /\ h \in DOMAIN pool.HashIndex /\ ~SeenTooLate(pool.HashIndex[h], cur)
          /\ stats' = Counted(stats, h, pool.HashIndex[h], cur)
      BY <1>2, <2>3 DEF ReceiptNext
    <3>3. /\ pool.HashIndex[h] \in TxType /\ cur \in BlockType
          /\ IsMap(stats, Nat, StatType)
      BY <3>2 DEF Inv, TypeOK, PoolTypeOK, IsMap
    <3> HIDE DEF h
    <3>4. \A b \in DOMAIN stats' : Balanced(stats'[b]) /\ Bounded(stats'[b], cur)
      BY <3>1, <3>2, <3>3, CountedBalanced DEF StatsRight
    <3>5. QED BY <2>1, <3>4 DEF StatsRight
  <2>4. QED BY <2>2, <2>3
<1>3. CASE Unlock BY <1>1, <1>3 DEF Unlock, StatsRight
<1>4. CASE \/ \E txs \in Batches, block \in Blocks : PushBatch(txs, block)
           \/ \E receipts \in Receipts, header \in Blocks : RemoveByReceipts(receipts, header)
  <2>1. mu = "free" /\ UNCHANGED stats BY <1>4 DEF PushBatch, RemoveByReceipts, Locked
  <2>2. stats' = EmptyMap BY <2>1 DEF StatsRight
  <2>3. QED BY <1>1, <2>2 DEF StatsRight
<1>5. CASE PushNext \/ (\E block \in Blocks : RemoveExpired(block.Number)) \/ Clear
  BY <1>5 DEF PushNext, RemoveExpired, Clear, StatsRight
<1>6. CASE UNCHANGED vars BY <1>6 DEF vars, StatsRight
<1>7. QED BY <1>2, <1>3, <1>4, <1>5, <1>6 DEF Next

(* The wait statistics of every block add up: each counted transaction is  *)
(* in one slot of the histogram, the totals fit the slots, and no unsigned *)
(* subtraction wrapped around.                                             *)
THEOREM StatisticsBalance == Spec => []StatsBalance
<1>1. Init => StatsRight BY DEF Init, StatsRight, EmptyMap
<1>2. StatsRight => StatsBalance
  BY DEF StatsRight, StatsBalance, WaitsNeverUnderflow, Balanced, Bounded, Weighted
<1>3. QED BY <1>1, <1>2, Invariance, StatsStep, PTL DEF Spec

-----------------------------------------------------------------------------
(* What the analyzer reads of the pool.                                    *)

(* s lists S in increasing order.                                          *)
Lists(s, m, S) ==
    /\ s \in [1 .. m -> S]
    /\ \A i, j \in 1 .. m : i < j => s[i] < s[j]
    /\ \A x \in S : \E i \in 1 .. m : s[i] = x

(* The numbers below any bound can be listed: take a set for the smallest  *)
(* bound where one cannot; without its largest element it has a list, and  *)
(* that element goes to the end.                                           *)
LEMMA ListExists ==
    ASSUME NEW n \in Nat, NEW S, S \subseteq 0 .. n - 1
    PROVE  \E m \in Nat : \E s : Lists(s, m, S)
<1> DEFINE All(k) == \A U \in SUBSET (0 .. k - 1) : \E m \in Nat : \E s : Lists(s, m, U)
           T == {k \in Nat : ~All(k)}
<1>1. ASSUME T # {} PROVE FALSE
  <2>1. PICK k \in T : \A l \in T : k <= l
    <3>1. T \subseteq Nat OBVIOUS
    <3> HIDE DEF T
    <3>2. QED BY <1>1, <3>1, Smallest
  <2>2. k \in Nat /\ ~All(k) OBVIOUS
  <2>3. PICK U \in SUBSET (0 .. k - 1) : ~ \E m \in Nat : \E s : Lists(s, m, U) BY <2>2
  <2>4. k # 0
    <3>1. ASSUME k = 0 PROVE FALSE
      <4>1. U = {} BY <3>1
      <4> DEFINE e == [i \in 1 .. 0 |-> 0]
      <4>2. Lists(e, 0, U) BY <4>1 DEF Lists
      <4>3. QED BY <2>3, <4>2
    <3>2. QED BY <3>1
  <2>5. k - 1 \in Nat /\ All(k - 1)
    <3> HIDE DEF All
    <3>1. k - 1 \in Nat /\ ~(k <= k - 1) BY <2>2, <2>4
    <3>2. k - 1 \notin T
      <4> HIDE DEF T
      <4>1. QED BY <2>1, <3>1
    <3>3. QED BY <3>1, <3>2
  <2>6. U \ {k - 1} \in SUBSET (0 .. (k - 1) - 1) BY <2>2, <2>5
  <2>6a. PICK m \in Nat : \E s : Lists(s, m, U \ {k - 1}) BY <2>5, <2>6
  <2>7. PICK s : Lists(s, m, U \ {k - 1}) BY <2>6a
  <2>8. CASE k - 1 \notin U
    <3>1. U \ {k - 1} = U BY <2>8
    <3>2. QED BY <2>3, <2>7, <3>1
  <2>9. CASE k - 1 \in U
    <3> DEFINE t == [i \in 1 .. m + 1 |-> IF i = m + 1 THEN k - 1 ELSE s[i]]
    <3>1. m + 1 \in Nat OBVIOUS
    <3>2. \A i \in 1 .. m : s[i] \in U /\ s[i] < k - 1
      <4>1. \A i \in 1 .. m : s[i] \in U \ {k - 1} BY <2>7 DEF Lists
      <4>2. \A x \in U \ {k - 1} : x < k - 1 BY <2>5, <2>6
      <4>3. QED BY <4>1, <4>2
    <3>3. \A i \in 1 .. m + 1 : i \in 1 .. m \/ i = m + 1 OBVIOUS
    <3>4. t \in [1 .. m + 1 -> U] BY <2>9, <3>2, <3>3
    <3>5. ASSUME NEW i \in 1 .. m + 1, NEW j \in 1 .. m + 1, i < j PROVE t[i] < t[j]
      <4>1. i \in 1 .. m /\ i # m + 1 BY <3>5
      <4>2. CASE j = m + 1 BY <3>2, <4>1, <4>2
      <4>3. CASE j # m + 1
        <5>1. j \in 1 .. m BY <4>3
        <5>2. s[i] < s[j] BY <2>7, <3>5, <4>1, <5>1 DEF Lists
        <5>3. QED BY <4>1, <4>3, <5>2
      <4>4. QED BY <4>2, <4>3
    <3>6. ASSUME NEW x \in U PROVE \E i \in 1 .. m + 1 : t[i] = x
      <4>1. CASE x = k - 1 BY <4>1
      <4>2. CASE x # k - 1
        <5>1. PICK i \in 1 .. m : s[i] = x BY <2>7, <4>2 DEF Lists
        <5>2. i \in 1 .. m + 1 /\ i # m + 1 OBVIOUS
        <5>3. QED BY <5>1, <5>2
      <4>3. QED BY <4>1, <4>2
    <3> HIDE DEF t
    <3>7. Lists(t, m + 1, U) BY <3>4, <3>5, <3>6 DEF Lists
    <3>8. QED BY <2>3, <3>1, <3>7
  <2>10. QED BY <2>8, <2>9
<1>2. All(n)
  <2>1. T = {}
    <3> HIDE DEF T
    <3>1. QED BY <1>1
  <2>2. QED BY <2>1
<1>3. QED BY <1>2

(* So the sorted nonces are all of them, lowest first.                     *)
LEMMA SortedNoncesList ==
    ASSUME NEW S, S \subseteq Nonces
    PROVE  /\ Cardinality(S) \in Nat
           /\ DOMAIN SortedNonces(S) = 1 .. Cardinality(S)
           /\ Lists(SortedNonces(S), Cardinality(S), S)
<1>1. U64 \in Nat /\ S \subseteq 0 .. U64 - 1 BY PoolAssumption, NonceAssumption
<1>1a. PICK m \in Nat : \E s : Lists(s, m, S) BY <1>1, ListExists
<1>2. PICK s : Lists(s, m, S) BY <1>1a
<1>3. IsFiniteSet(1 .. m) /\ Cardinality(1 .. m) = m
  <2>1. /\ IsFiniteSet(1 .. m) /\ Cardinality(1 .. m) = IF 1 > m THEN 0 ELSE m - 1 + 1 BY FS_Interval
  <2>2. QED BY <2>1
<1>4. s \in Bijection(1 .. m, S)
  <2>1. \A i, j \in 1 .. m : s[i] = s[j] => i = j
    <3>1. \A i \in 1 .. m : s[i] \in Int
      <4>1. \A x \in S : x \in Int BY <1>1
      <4>2. QED BY <1>2, <4>1 DEF Lists
    <3>2. \A i, j \in 1 .. m : i < j => s[i] < s[j] BY <1>2 DEF Lists
    <3>3. \A i, j \in 1 .. m : i < j \/ j < i \/ i = j OBVIOUS
    <3>4. QED BY <3>1, <3>2, <3>3
  <2>2. QED BY <1>2, <2>1 DEF Lists, Bijection, Injection, Surjection, IsInjective
<1>5. IsFiniteSet(S) /\ Cardinality(S) = m
  <2>1. ExistsBijection(1 .. m, S) BY <1>4 DEF ExistsBijection
  <2>2. QED BY <1>3, <2>1, FS_Bijection
<1>6. s \in [1 .. Cardinality(S) -> S] /\ Increasing(s) BY <1>2, <1>5 DEF Lists, Increasing
<1> DEFINE c == SortedNonces(S)
<1>7. c \in [1 .. Cardinality(S) -> S] /\ Increasing(c) BY <1>6 DEF SortedNonces
<1> HIDE DEF c
<1>8. c \in [1 .. m -> S] /\ \A i, j \in 1 .. m : i < j => c[i] < c[j] BY <1>5, <1>7 DEF Increasing
<1>9. c \in Injection(1 .. m, S)
  <2>1. \A i, j \in 1 .. m : c[i] = c[j] => i = j
    <3>1. \A i \in 1 .. m : c[i] \in Int
      <4>1. \A x \in S : x \in Int BY <1>1
      <4>2. QED BY <1>8, <4>1
    <3>2. \A i, j \in 1 .. m : i < j \/ j < i \/ i = j OBVIOUS
    <3>3. QED BY <1>8, <3>1, <3>2
  <2>2. QED BY <1>8, <2>1 DEF Injection, IsInjective
<1>10. c \in Surjection(1 .. m, S) BY <1>3, <1>5, <1>9, FS_Injection
<1>11. Lists(c, m, S) BY <1>8, <1>10 DEF Lists, Surjection
<1>12. QED BY <1>5, <1>8, <1>11 DEF c

(* Some number between the lowest of S and s[k] is missing.                *)
Missing(s, S, k) == \E x \in s[1] .. s[k] : x \notin S

(* One more nonce: a hole before it, or right before it.                   *)
LEMMA MissingStep ==
    ASSUME NEW S, S \subseteq Nat, NEW m \in Nat, NEW s, Lists(s, m, S), NEW k \in 1 .. m, k # 1
    PROVE  Missing(s, S, k) <=> Missing(s, S, k - 1) \/ s[k] # s[k - 1] + 1
<1>1. k - 1 \in 1 .. m /\ 1 \in 1 .. m /\ k - 1 < k OBVIOUS
<1>2. s[k] \in S /\ s[k - 1] \in S /\ s[1] \in S BY <1>1 DEF Lists
<1>3. s[k] \in Nat /\ s[k - 1] \in Nat /\ s[1] \in Nat BY <1>2
<1>4. s[k - 1] < s[k] BY <1>1 DEF Lists
<1>5. s[1] <= s[k - 1]
  <2>1. k - 1 = 1 \/ 1 < k - 1 BY <1>1
  <2>2. CASE k - 1 = 1 BY <1>3, <2>2
  <2>3. CASE 1 < k - 1
    <3>1. s[1] < s[k - 1] BY <1>1, <2>3 DEF Lists
    <3>2. QED BY <1>3, <3>1
  <2>4. QED BY <2>1, <2>2, <2>3
<1>6. ASSUME NEW x \in S, s[k - 1] < x, x < s[k] PROVE FALSE
  <2>1. PICK j \in 1 .. m : s[j] = x BY DEF Lists
  <2>2. j <= k - 1 \/ k <= j BY <1>1
  <2>3. \A i, l \in 1 .. m : i < l => s[i] < s[l] BY DEF Lists
  <2>4. x \in Nat OBVIOUS
  <2>5. CASE j <= k - 1
    <3>1. j = k - 1 \/ j < k - 1 BY <1>1, <2>5
    <3>2. x <= s[k - 1] BY <1>1, <1>3, <2>1, <2>3, <2>4, <3>1
    <3>3. QED BY <1>3, <1>6, <2>4, <3>2
  <2>6. CASE k <= j
    <3>1. k = j \/ k < j BY <1>1, <2>6
    <3>2. s[k] <= x BY <1>1, <1>3, <2>1, <2>3, <2>4, <3>1
    <3>3. QED BY <1>3, <1>6, <2>4, <3>2
  <2>7. QED BY <2>2, <2>5, <2>6
<1>7. ASSUME Missing(s, S, k), s[k] = s[k - 1] + 1 PROVE Missing(s, S, k - 1)
  <2>1. PICK x \in s[1] .. s[k] : x \notin S BY <1>7 DEF Missing
  <2>2. x # s[k] BY <1>2, <2>1
  <2>3. x \in s[1] .. s[k - 1] BY <1>3, <1>7, <2>1, <2>2
  <2>4. QED BY <2>1, <2>3 DEF Missing
<1>8. ASSUME Missing(s, S, k - 1) PROVE Missing(s, S, k)
  <2>1. PICK x \in s[1] .. s[k - 1] : x \notin S BY <1>8 DEF Missing
  <2>2. x \in s[1] .. s[k] BY <1>3, <1>4, <2>1
  <2>3. QED BY <2>1, <2>2 DEF Missing
<1>9. ASSUME s[k] # s[k - 1] + 1 PROVE Missing(s, S, k)
  <2>1. s[k - 1] + 1 < s[k] /\ s[k - 1] < s[k - 1] + 1 BY <1>3, <1>4, <1>9
  <2>2. s[k - 1] + 1 \notin S BY <1>6, <2>1
  <2>3. s[k - 1] + 1 \in s[1] .. s[k] BY <1>3, <1>5, <2>1
  <2>4. QED BY <2>2, <2>3 DEF Missing
<1>10. QED BY <1>7, <1>8, <1>9

(* The loop finds a gap exactly where a nonce is missing.                  *)
LEMMA GapFlagsRight ==
    ASSUME NEW S, S \subseteq Nonces, NEW m \in Nat, NEW s, Lists(s, m, S)
    PROVE  GapFlags(s) = [k \in 1 .. m |-> Missing(s, S, k)]
<1> DEFINE Loop(g) == [k \in DOMAIN s |->
                         IF k = 1 THEN HasGap(FALSE, s[1], s[1])
                         ELSE HasGap(g[k - 1], (s[k - 1] + 1) % U64, s[k])]
           c == [k \in 1 .. m |-> Missing(s, S, k)]
<1>1. U64 \in Nat /\ U64 # 0 /\ S \subseteq 0 .. U64 - 1 /\ S \subseteq Nat
  BY PoolAssumption, NonceAssumption
<1>2. DOMAIN s = 1 .. m BY DEF Lists
<1>3. ASSUME NEW k \in 1 .. m, k # 1 PROVE k - 1 \in 1 .. m /\ (s[k - 1] + 1) % U64 = s[k - 1] + 1
  <2>1. k - 1 \in 1 .. m /\ k - 1 < k BY <1>3
  <2>2. s[k - 1] < s[k] /\ s[k] \in S /\ s[k - 1] \in S BY <2>1 DEF Lists
  <2>3. s[k - 1] \in Nat /\ s[k - 1] + 1 < U64
    <3>1. \A x \in S : x \in Nat /\ x < U64 BY <1>1
    <3>2. s[k] \in Nat /\ s[k] < U64 /\ s[k - 1] \in Nat BY <2>2, <3>1
    <3>3. QED BY <1>1, <2>2, <3>2
  <2>4. \A x, n \in Nat : x < n => x % n = x OBVIOUS
  <2>5. s[k - 1] + 1 \in Nat BY <2>3
  <2>6. QED BY <1>1, <2>1, <2>3, <2>4, <2>5
<1>4. \A k \in 1 .. m : k # 1 => (Missing(s, S, k) <=> Missing(s, S, k - 1) \/ s[k] # s[k - 1] + 1)
  BY <1>1, MissingStep
<1>5. 1 \in 1 .. m => ~Missing(s, S, 1)
  <2>1. SUFFICES ASSUME 1 \in 1 .. m PROVE ~Missing(s, S, 1) OBVIOUS
  <2>2. s[1] \in S BY <2>1 DEF Lists
  <2>3. s[1] \in Nat BY <1>1, <2>2
  <2>4. s[1] .. s[1] = {s[1]} BY <2>3
  <2>5. QED BY <2>2, <2>4 DEF Missing
<1>6. c = Loop(c)
  <2>1. ASSUME NEW k \in 1 .. m PROVE c[k] = Loop(c)[k]
    <3>1. CASE k = 1
      <4>1. Loop(c)[k] = FALSE BY <1>2, <3>1 DEF HasGap
      <4>2. c[k] = Missing(s, S, 1) /\ Missing(s, S, 1) \in BOOLEAN BY <3>1 DEF Missing
      <4>3. QED BY <1>5, <3>1, <4>1, <4>2
    <3>2. CASE k # 1
      <4>1. c[k] = Missing(s, S, k) /\ c[k - 1] = Missing(s, S, k - 1) BY <1>3, <3>2
      <4>2. Loop(c)[k] = (c[k - 1] \/ s[k] # s[k - 1] + 1) BY <1>2, <1>3, <3>2 DEF HasGap
      <4>3. Missing(s, S, k) \in BOOLEAN /\ Missing(s, S, k - 1) \in BOOLEAN BY DEF Missing
      <4> HIDE DEF c, Loop
      <4>4. QED BY <1>4, <3>2, <4>1, <4>2, <4>3, Zenon
    <3>3. QED BY <3>1, <3>2
  <2>2. c = [k \in 1 .. m |-> c[k]] OBVIOUS
  <2>3. Loop(c) = [k \in 1 .. m |-> Loop(c)[k]] BY <1>2
  <2> HIDE DEF c, Loop
  <2>4. QED BY <2>1, <2>2, <2>3
<1> DEFINE g == GapFlags(s)
<1>7. g = Loop(g)
  <2> HIDE DEF c
  <2>1. \E f : f = Loop(f) BY <1>6
  <2>2. g = CHOOSE f : f = Loop(f) BY DEF GapFlags
  <2> HIDE DEF g, Loop
  <2>3. QED BY <2>1, <2>2
<1> HIDE DEF g
<1> DEFINE T == {k \in 1 .. m : g[k] # c[k]}
<1>8. ASSUME T # {} PROVE FALSE
  <2>1. PICK k \in T : \A l \in T : k <= l
    <3>1. T \subseteq Nat OBVIOUS
    <3> HIDE DEF T
    <3>2. QED BY <1>8, <3>1, Smallest
  <2>2. k \in 1 .. m /\ g[k] # c[k] OBVIOUS
  <2>3. CASE k = 1
    <3>1. g[k] = HasGap(FALSE, s[1], s[1]) BY <1>2, <1>7, <2>2, <2>3
    <3>2. c[k] = HasGap(FALSE, s[1], s[1]) BY <1>2, <1>6, <2>2, <2>3
    <3>3. QED BY <2>2, <3>1, <3>2
  <2>4. CASE k # 1
    <3> HIDE DEF c
    <3>1. k - 1 \in 1 .. m /\ ~(k <= k - 1) BY <2>2, <2>4
    <3>2. g[k - 1] = c[k - 1] BY <2>1, <3>1
    <3>3. g[k] = HasGap(g[k - 1], (s[k - 1] + 1) % U64, s[k]) BY <1>2, <1>7, <2>2, <2>4
    <3>4. c[k] = HasGap(c[k - 1], (s[k - 1] + 1) % U64, s[k]) BY <1>2, <1>6, <2>2, <2>4
    <3>5. QED BY <2>2, <3>2, <3>3, <3>4
  <2>5. QED BY <2>3, <2>4
<1>9. \A k \in 1 .. m : g[k] = c[k] BY <1>8
<1>10. g = [k \in 1 .. m |-> g[k]]
  <2>1. g = [k \in 1 .. m |->
                 IF k = 1 THEN HasGap(FALSE, s[1], s[1])
                 ELSE HasGap(g[k - 1], (s[k - 1] + 1) % U64, s[k])] BY <1>2, <1>7
  <2>2. QED BY <2>1
<1>11. QED BY <1>9, <1>10 DEF g

(* With consistent indexes the snapshot is right.                          *)
LEMMA SnapshotRight ==
    ASSUME PoolTypeOK(pool), NonceConsistent(pool), NoEmptyEntries(pool)
    PROVE  SnapshotFlagsGaps
<1> DEFINE S(a) == NoncesOf(pool, a)
           m(a) == Cardinality(S(a))
           s(a) == SortedNonces(S(a))
           D == DOMAIN pool.NonceMap
<1>1. D \subseteq Addr \X Nonces BY DEF PoolTypeOK, IsMap
<1>2. \A a, n : n \in S(a) <=> <<a, n>> \in D
  <2>1. \A t \in D : t = <<t[1], t[2]>> BY <1>1
  <2> HIDE DEF D
  <2>2. \A a : S(a) = {t[2] : t \in {u \in D : u[1] = a}} BY DEF NoncesOf, D
  <2>3. QED BY <2>1, <2>2
<1>3. \A a : S(a) \subseteq Nonces
  <2> HIDE DEF D, S
  <2>1. ASSUME NEW a, NEW n \in S(a) PROVE n \in Nonces
    <3>1. <<a, n>> \in Addr \X Nonces BY <1>1, <1>2
    <3>2. QED BY <3>1
  <2>2. QED BY <2>1
<1>4. \A a : m(a) \in Nat /\ DOMAIN s(a) = 1 .. m(a) /\ Lists(s(a), m(a), S(a))
  <2> HIDE DEF S
  <2>1. QED BY <1>3, SortedNoncesList
<1>5. \A a : GapFlags(s(a)) = [k \in 1 .. m(a) |-> Missing(s(a), S(a), k)]
  <2> HIDE DEF S, s, m
  <2>1. ASSUME NEW a PROVE GapFlags(s(a)) = [k \in 1 .. m(a) |-> Missing(s(a), S(a), k)]
    <3>1. S(a) \subseteq Nonces /\ m(a) \in Nat /\ Lists(s(a), m(a), S(a)) BY <1>3, <1>4
    <3>2. QED BY <3>1, GapFlagsRight
  <2>2. QED BY <2>1
<1> HIDE DEF S, s, m
<1>6. \A a : \A n \in S(a) : n \in Nat /\ n \in Nonces
  <2>1. \A n \in Nonces : n \in Nat BY NonceAssumption, PoolAssumption
  <2>2. ASSUME NEW a, NEW n \in S(a) PROVE n \in Nonces BY <1>3
  <2>3. QED BY <2>1, <2>2
<1>7. ASSUME NEW h \in DOMAIN pool.HashIndex, NEW k \in 1 .. m(From[h]), s(From[h])[k] = Nonce[h]
      PROVE  /\ Lowest(h) = s(From[h])[1]
             /\ Missing(s(From[h]), S(From[h]), k)
                  <=> \E n \in Lowest(h) .. Nonce[h] : <<From[h], n>> \notin D
  <2> DEFINE a == From[h]
             low == s(a)[1]
  <2>1. 1 \in 1 .. m(a) /\ m(a) \in Nat BY <1>4, <1>7
  <2>2. low \in S(a) BY <1>4, <2>1 DEF Lists
  <2>3. ASSUME NEW n \in S(a) PROVE low <= n
    <3>1. PICK i \in 1 .. m(a) : s(a)[i] = n BY <1>4 DEF Lists
    <3>2. i = 1 \/ 1 < i BY <2>1
    <3>3. i = 1 \/ low < n BY <1>4, <2>1, <3>1, <3>2 DEF Lists
    <3>4. low \in Nat /\ n \in Nat BY <1>6, <2>2
    <3> HIDE DEF a
    <3>5. CASE i = 1 BY <3>1, <3>4, <3>5
    <3>6. CASE low < n
      <4> HIDE DEF low
      <4>1. QED BY <3>4, <3>6
    <3>7. QED BY <3>3, <3>5, <3>6
  <2> HIDE DEF low
  <2>4. low \in Nonces /\ <<a, low>> \in D BY <1>2, <1>6, <2>2
  <2>5. \A n \in Nonces : <<a, n>> \in D => low <= n BY <1>2, <2>3
  <2>6. ASSUME NEW n \in Nonces, <<a, n>> \in D, \A l \in Nonces : <<a, l>> \in D => n <= l
        PROVE  n = low
    <3>1. n <= low /\ low <= n BY <2>4, <2>5, <2>6
    <3>2. n \in Nat /\ low \in Nat BY <1>2, <1>6, <2>2, <2>6
    <3>3. QED BY <3>1, <3>2
  <2>7. Lowest(h) = low
    <3> HIDE DEF D
    <3>1. Lowest(h) = CHOOSE n \in Nonces : <<a, n>> \in D /\ \A l \in Nonces : <<a, l>> \in D => n <= l
      BY DEF Lowest, D
    <3> HIDE DEF a
    <3>2. QED BY <2>4, <2>5, <2>6, <3>1
  <2>8. Missing(s(a), S(a), k) <=> \E n \in low .. Nonce[h] : n \notin S(a) BY <1>7 DEF Missing, low
  <2>9. Missing(s(a), S(a), k) <=> \E n \in low .. Nonce[h] : <<a, n>> \notin D
    <3> HIDE DEF a, D
    <3>1. QED BY <1>2, <2>8
  <2>10. QED BY <2>7, <2>9 DEF low
<1> DEFINE Right(h) == [Hash |-> h, NonceGap |-> \E n \in Lowest(h) .. Nonce[h] : <<From[h], n>> \notin D]
           Made(a, k) == [Hash |-> pool.NonceMap[<<a, s(a)[k]>>], NonceGap |-> GapFlags(s(a))[k]]
<1>8. ASSUME NEW h \in DOMAIN pool.HashIndex, NEW k \in 1 .. m(From[h]), s(From[h])[k] = Nonce[h]
      PROVE  Made(From[h], k) = Right(h)
  <2>1. pool.NonceMap[<<From[h], s(From[h])[k]>>] = h BY <1>8 DEF NonceConsistent, Slot
  <2>2. GapFlags(s(From[h]))[k] = Missing(s(From[h]), S(From[h]), k) BY <1>5
  <2>3. GapFlags(s(From[h]))[k] = \E n \in Lowest(h) .. Nonce[h] : <<From[h], n>> \notin D
    <3> HIDE DEF D
    <3>1. (\E n \in Lowest(h) .. Nonce[h] : <<From[h], n>> \notin D) \in BOOLEAN OBVIOUS
    <3>2. Missing(s(From[h]), S(From[h]), k) \in BOOLEAN BY DEF Missing
    <3>3. QED BY <1>7, <1>8, <2>2, <3>1, <3>2
  <2>4. QED BY <2>1, <2>3
<1>9. Snapshot(pool) = UNION {{Made(a, k) : k \in 1 .. m(a)} : a \in pool.Accounts}
  <2>1. \A a : SnapshotAccount(pool, a) = {Made(a, k) : k \in 1 .. m(a)}
    BY <1>4 DEF SnapshotAccount, s, S
  <2> HIDE DEF Made
  <2>2. QED BY <2>1 DEF Snapshot
<1>10. ASSUME NEW h \in DOMAIN pool.HashIndex
       PROVE  From[h] \in pool.Accounts /\ \E k \in 1 .. m(From[h]) : Made(From[h], k) = Right(h)
  <2>1. <<From[h], Nonce[h]>> \in D BY DEF NonceConsistent, Slot
  <2>2. Nonce[h] \in S(From[h]) BY <1>2, <2>1
  <2>3. PICK k \in 1 .. m(From[h]) : s(From[h])[k] = Nonce[h] BY <1>4, <2>2 DEF Lists
  <2>4. Made(From[h], k) = Right(h) BY <1>8, <2>3
  <2>5. From[h] \in pool.Accounts
    <3>1. \E t \in D : t[1] = From[h] BY <2>1
    <3>2. QED BY <3>1 DEF NoEmptyEntries
  <2>6. QED BY <2>4, <2>5
<1>11. ASSUME NEW a \in pool.Accounts, NEW k \in 1 .. m(a)
       PROVE  \E h \in DOMAIN pool.HashIndex : Made(a, k) = Right(h)
  <2>1. s(a)[k] \in S(a) BY <1>4 DEF Lists
  <2>2. <<a, s(a)[k]>> \in D BY <1>2, <2>1
  <2> DEFINE h == pool.NonceMap[<<a, s(a)[k]>>]
  <2>3. h \in DOMAIN pool.HashIndex /\ Slot(h) = <<a, s(a)[k]>> BY <2>2 DEF NonceConsistent
  <2> HIDE DEF h
  <2>4. From[h] = a /\ Nonce[h] = s(a)[k] BY <2>3 DEF Slot
  <2> HIDE DEF Made, Right
  <2>5. Made(a, k) = Right(h) BY <1>8, <2>3, <2>4
  <2>6. QED BY <2>3, <2>5
<1>12. Snapshot(pool) = {Right(h) : h \in DOMAIN pool.HashIndex}
  <2> HIDE DEF Made, Right
  <2>1. QED BY <1>9, <1>10, <1>11
<1>13. QED BY <1>12 DEF SnapshotFlagsGaps

(* The snapshot the analyzer gets between any two operations has every     *)
(* transaction of the pool once, and its gap flag is right, whatever       *)
(* nonces a sender has left.                                               *)
THEOREM SnapshotAlwaysFlagsGaps == Spec => []SnapshotFlagsGaps
<1>1. Inv => SnapshotFlagsGaps BY SnapshotRight DEF Inv, TypeOK, IndexesAgree, NoLeak
<1>2. QED BY <1>1, Invariance, PTL

=============================================================================
