------------------------- MODULE PendingPipelineProofs -------------------------
(***************************************************************************)
(* The way of a hash to the pool, proved for any hashes, any finite number *)
(* of sessions and workers and any sizes of the cache, the channel, the    *)
(* batches and the chunks.                                                 *)
(***************************************************************************)
EXTENDS PendingPipeline, SequenceTheorems, FiniteSetTheorems, TLAPS

(* Where h waits before it is in a batch.                                  *)
InNew(h) == {s \in Sessions : new[s] = h}
In(list, h) == {k \in DOMAIN list : list[k] = h}

Settled ==
    \A h \in Hash :
        accepted[h] = Cardinality(InNew(h)) + Cardinality(In(jobs, h))
                      + Cardinality(Undone(h)) + dropped[h] + handled[h]

(* A worker that collects has room in its batch and begins at its front.   *)
WorkersFit ==
    \A w \in Workers :
        /\ from[w] >= 1
        /\ wpc[w] = "select" => from[w] = 1 /\ Len(batch[w]) < MaxBatch
        /\ wpc[w] = "stopped" => batch[w] = <<>>

(* The cache owes a hash that it remembers one eviction.                   *)
Owed(h) == IF h \in Range(cache) THEN 1 ELSE 0
Remembers == \A h \in Hash : accepted[h] <= evicted[h] + Owed(h)

Inv == TypeOK /\ Settled /\ WorkersFit /\ Remembers

-----------------------------------------------------------------------------
(* Counting.                                                               *)

(* Sets that a function maps one to one have the same number of elements.  *)
LEMMA SameSize ==
    ASSUME NEW S, NEW T, IsFiniteSet(S), NEW f \in [S -> T],
           \A a, b \in S : f[a] = f[b] => a = b, \A t \in T : \E s \in S : f[s] = t
    PROVE  IsFiniteSet(T) /\ Cardinality(T) = Cardinality(S)
<1>1. f \in Bijection(S, T) BY DEF Bijection, Injection, Surjection, IsInjective
<1>2. ExistsBijection(S, T) BY <1>1 DEF ExistsBijection
<1>3. QED BY <1>2, FS_Bijection

(* The same indexes, counted from another one.                             *)
LEMMA Shifted ==
    ASSUME NEW S, IsFiniteSet(S), S \subseteq Int, NEW d \in Int,
           NEW T, \A t : t \in T <=> t \in Int /\ t - d \in S
    PROVE  IsFiniteSet(T) /\ Cardinality(T) = Cardinality(S)
<1> DEFINE f == [k \in S |-> k + d]
<1>1. \A k \in S : k + d \in T /\ k + d - d = k
  <2>1. \A k \in S : k \in Int /\ k + d \in Int /\ k + d - d = k OBVIOUS
  <2>2. QED BY <2>1
<1>2. f \in [S -> T] BY <1>1
<1>3. \A a, b \in S : f[a] = f[b] => a = b OBVIOUS
<1>4. \A t \in T : \E s \in S : f[s] = t
  <2>1. ASSUME NEW t \in T PROVE t - d \in S /\ f[t - d] = t
    <3>1. t \in Int /\ t - d \in S BY <2>1
    <3>2. t - d + d = t BY <3>1
    <3>3. QED BY <3>1, <3>2
  <2>2. QED BY <2>1
<1> HIDE DEF f
<1>5. QED BY <1>2, <1>3, <1>4, SameSize

(* The indexes of h in a list are finitely many.                           *)
LEMMA CountedIn ==
    ASSUME NEW list \in Seq(Hash), NEW h
    PROVE  /\ DOMAIN list = 1 .. Len(list) /\ Len(list) \in Nat
           /\ IsFiniteSet(In(list, h)) /\ Cardinality(In(list, h)) \in Nat
<1>1. DOMAIN list = 1 .. Len(list) /\ Len(list) \in Nat BY LenProperties
<1>2. IsFiniteSet(1 .. Len(list)) BY <1>1, FS_Interval
<1>3. In(list, h) \in SUBSET (1 .. Len(list)) BY <1>1 DEF In
<1>4. IsFiniteSet(In(list, h)) BY <1>2, <1>3, FS_Subset
<1>5. QED BY <1>1, <1>4, FS_CardinalityType

(* One more for the hash that is appended.                                 *)
LEMMA InAppended ==
    ASSUME NEW list \in Seq(Hash), NEW e \in Hash, NEW h
    PROVE  Cardinality(In(Append(list, e), h))
              = Cardinality(In(list, h)) + (IF e = h THEN 1 ELSE 0)
<1> DEFINE n == Len(list) + 1
           longer == Append(list, e)
<1>1. /\ DOMAIN list = 1 .. Len(list) /\ Len(list) \in Nat
      /\ IsFiniteSet(In(list, h)) /\ Cardinality(In(list, h)) \in Nat
  BY CountedIn
<1>2. /\ longer \in Seq(Hash) /\ Len(longer) = n /\ longer[n] = e
      /\ \A k \in 1 .. Len(list) : longer[k] = list[k]
  BY AppendProperties
<1>3. DOMAIN longer = 1 .. n BY <1>2, LenProperties
<1>4. 1 .. n = (1 .. Len(list)) \cup {n} /\ n \notin 1 .. Len(list) BY <1>1
<1> HIDE DEF longer, n
<1>5. n \notin In(list, h) BY <1>1, <1>4 DEF In
<1>6. In(longer, h) = IF e = h THEN In(list, h) \cup {n} ELSE In(list, h)
  BY <1>1, <1>2, <1>3, <1>4 DEF In
<1>7. Cardinality(In(list, h) \cup {n}) = Cardinality(In(list, h)) + 1
  BY <1>1, <1>5, FS_AddElement
<1>8. QED BY <1>1, <1>6, <1>7 DEF longer

(* A list of one.                                                          *)
LEMMA InSingleton ==
    ASSUME NEW e \in Hash, NEW h
    PROVE  Copies(<<e>>, h) = IF e = h THEN 1 ELSE 0
<1>1. DOMAIN <<e>> = {1} /\ <<e>>[1] = e OBVIOUS
<1>2. {k \in DOMAIN <<e>> : <<e>>[k] = h} = IF e = h THEN {1} ELSE {} BY <1>1
<1>3. QED BY <1>2, FS_EmptySet, FS_Singleton DEF Copies

(* One less for the hash that is taken from the front.                     *)
LEMMA InTail ==
    ASSUME NEW list \in Seq(Hash), list # <<>>, NEW h
    PROVE  Cardinality(In(list, h))
              = Cardinality(In(Tail(list), h)) + (IF Head(list) = h THEN 1 ELSE 0)
<1> DEFINE rest == Tail(list)
           S == In(list, h) \ {1}
<1>1. /\ DOMAIN list = 1 .. Len(list) /\ Len(list) \in Nat
      /\ IsFiniteSet(In(list, h)) /\ Cardinality(In(list, h)) \in Nat
  BY CountedIn
<1>2. Len(list) > 0 BY <1>1, EmptySeq
<1>3. /\ rest \in Seq(Hash) /\ Len(rest) = Len(list) - 1 /\ Head(list) = list[1]
      /\ \A k \in 1 .. Len(rest) : rest[k] = list[k + 1]
  BY HeadTailProperties
<1>4. DOMAIN rest = 1 .. Len(rest) /\ IsFiniteSet(In(rest, h)) /\ Cardinality(In(rest, h)) \in Nat
  BY <1>3, CountedIn
<1> HIDE DEF rest
<1>5. Cardinality(S) = Cardinality(In(rest, h))
  <2>1. \A t : t \in S <=> t \in Int /\ t - 1 \in In(rest, h)
    <3>1. \A t \in Int : t \in 1 .. Len(list) /\ t # 1 <=> t - 1 \in 1 .. Len(rest) BY <1>1, <1>3
    <3>2. \A t \in Int : t - 1 + 1 = t OBVIOUS
    <3>3. \A t : t \in S <=> t \in Int /\ t \in 1 .. Len(list) /\ t # 1 /\ list[t] = h BY <1>1 DEF In
    <3>4. \A t \in Int : t - 1 \in In(rest, h) <=> t - 1 \in 1 .. Len(rest) /\ list[t] = h
      BY <1>3, <1>4, <3>2 DEF In
    <3>5. QED BY <3>1, <3>3, <3>4
  <2>2. In(rest, h) \subseteq Int BY <1>3, <1>4 DEF In
  <2> HIDE DEF S
  <2>3. QED BY <1>4, <2>1, <2>2, Shifted
<1>6. Cardinality(S) = IF 1 \in In(list, h) THEN Cardinality(In(list, h)) - 1
                       ELSE Cardinality(In(list, h))
  BY <1>1, FS_RemoveElement
<1>7. 1 \in In(list, h) <=> Head(list) = h BY <1>1, <1>2, <1>3 DEF In
<1> HIDE DEF S
<1>8. QED BY <1>1, <1>4, <1>5, <1>6, <1>7 DEF rest

(* A part of a list.                                                       *)
LEMMA InPart ==
    ASSUME NEW list \in Seq(Hash), NEW a \in Nat, NEW b \in Nat, a >= 1, a <= b, b <= Len(list), NEW h
    PROVE  Copies(SubSeq(list, a, b), h) = Cardinality({k \in a .. b : list[k] = h})
<1> DEFINE part == SubSeq(list, a, b)
           T == {k \in a .. b : list[k] = h}
<1>1. Len(list) \in Nat BY LenProperties
<1>2. \A k \in a .. b : list[k] \in Hash
  <2>1. \A k \in a .. b : k \in 1 .. Len(list) BY <1>1
  <2>2. QED BY <2>1, ElementOfSeq
<1>3. /\ part \in Seq(Hash) /\ Len(part) = b - a + 1
      /\ \A k \in 1 .. b - a + 1 : part[k] = list[a + k - 1]
  BY <1>2, SubSeqProperties
<1>4. DOMAIN part = 1 .. Len(part) /\ IsFiniteSet(In(part, h)) BY <1>3, CountedIn
<1> HIDE DEF part
<1>5. \A t : t \in T <=> t \in Int /\ t - (a - 1) \in In(part, h)
  <2>1. \A t \in Int : t \in a .. b <=> t - (a - 1) \in 1 .. b - a + 1 OBVIOUS
  <2>2. \A t \in Int : a + (t - (a - 1)) - 1 = t OBVIOUS
  <2>3. \A t : t \in T <=> t \in Int /\ t \in a .. b /\ list[t] = h OBVIOUS
  <2>4. \A t \in Int : t - (a - 1) \in In(part, h) <=> t - (a - 1) \in 1 .. b - a + 1 /\ list[t] = h
    BY <1>3, <1>4, <2>2 DEF In
  <2>5. QED BY <2>1, <2>3, <2>4
<1>6. In(part, h) \subseteq Int /\ a - 1 \in Int BY <1>3, <1>4 DEF In
<1> HIDE DEF T
<1>7. Cardinality(T) = Cardinality(In(part, h)) BY <1>4, <1>5, <1>6, Shifted
<1>8. QED BY <1>7 DEF Copies, In, part, T

-----------------------------------------------------------------------------
(* The places of a hash.                                                   *)

(* What the assumption says of each constant.                              *)
LEMMA Constants ==
    /\ BufferSize \in Nat /\ BufferSize > 0 /\ MaxBatch \in Nat /\ MaxBatch > 0
    /\ ChunkSize \in Nat /\ ChunkSize > 0 /\ CacheSize \in Nat /\ CacheSize > 0
    /\ NoHash \notin Hash /\ IsFiniteSet(Sessions) /\ IsFiniteSet(Workers)
    /\ Announced \in [Sessions -> SUBSET Hash]
  BY PendingAssumption

Places == Workers \X (1 .. MaxBatch)

(* The places are finitely many, and so are the sessions with a hash.      *)
LEMMA PlacesFinite ==
    /\ IsFiniteSet(Places)
    /\ \A S \in SUBSET Places : IsFiniteSet(S) /\ Cardinality(S) \in Nat
    /\ \A S \in SUBSET Sessions : IsFiniteSet(S) /\ Cardinality(S) \in Nat
<1>1. IsFiniteSet(1 .. MaxBatch) BY Constants, FS_Interval
<1>2. IsFiniteSet(Places) BY <1>1, Constants, FS_Product DEF Places
<1>3. QED BY <1>2, Constants, FS_Subset, FS_CardinalityType

(* From the places before to the places after, worker w empties those with *)
(* an index of K, and no other.                                            *)
Empties(w, K, before, after) ==
    /\ before \in SUBSET Places /\ after \in SUBSET Places /\ K \subseteq 1 .. MaxBatch
    /\ \A k \in K : <<w, k>> \in before
    /\ \A p \in Places : p \in after <=> p \in before /\ ~(p[1] = w /\ p[2] \in K)

(* These are as many as the indexes.                                       *)
LEMMA Taken ==
    ASSUME NEW U, NEW V, NEW w \in Workers, NEW K, Empties(w, K, U, V)
    PROVE  Cardinality(U) = Cardinality(V) + Cardinality(K) /\ Cardinality(K) \in Nat
<1>0. /\ U \in SUBSET Places /\ V \in SUBSET Places /\ K \subseteq 1 .. MaxBatch
      /\ \A k \in K : <<w, k>> \in U
      /\ \A p \in Places : p \in V <=> p \in U /\ ~(p[1] = w /\ p[2] \in K)
  BY DEF Empties
<1> DEFINE D == {p \in U : p[1] = w /\ p[2] \in K}
           f == [k \in K |-> <<w, k>>]
<1>1. IsFiniteSet(K)
  <2>1. IsFiniteSet(1 .. MaxBatch) BY Constants, FS_Interval
  <2>2. QED BY <1>0, <2>1, FS_Subset
<1>2. IsFiniteSet(U) /\ IsFiniteSet(V) /\ Cardinality(U) \in Nat /\ Cardinality(V) \in Nat
  BY <1>0, PlacesFinite
<1>3. f \in [K -> D] BY <1>0
<1>4. \A a, b \in K : f[a] = f[b] => a = b OBVIOUS
<1>5. ASSUME NEW p \in D PROVE p[2] \in K /\ f[p[2]] = p
  <2>1. p \in Workers \X (1 .. MaxBatch) /\ p[1] = w /\ p[2] \in K BY <1>0 DEF Places
  <2>2. p = <<p[1], p[2]>> BY <2>1
  <2>3. QED BY <2>1, <2>2
<1>6. \A p \in D : \E k \in K : f[k] = p BY <1>5
<1>7. Cardinality(D) = Cardinality(K)
  <2> HIDE DEF f, D
  <2>1. QED BY <1>1, <1>3, <1>4, <1>6, SameSize
<1>8. V = U \ D /\ U \cap D = D
  <2>1. \A p : p \in V <=> p \in U /\ p \notin D
    <3>1. ASSUME NEW p PROVE p \in V <=> p \in U /\ p \notin D
      <4>1. CASE p \in Places BY <1>0, <4>1
      <4>2. CASE p \notin Places BY <1>0, <4>2
      <4>3. QED BY <4>1, <4>2
    <3>2. QED BY <3>1
  <2>2. QED BY <2>1
<1> HIDE DEF D
<1>9. Cardinality(V) = Cardinality(U) - Cardinality(D) BY <1>0, <1>2, <1>8, FS_Difference
<1>10. Cardinality(K) \in Nat BY <1>1, FS_CardinalityType
<1>11. QED BY <1>2, <1>7, <1>9, <1>10

-----------------------------------------------------------------------------
(* The cache.                                                              *)

(* A hash that is used becomes the last of the list, once.                 *)
LEMMA UsedIsLast ==
    ASSUME NEW list \in Seq(Hash), IsInjective(list), NEW h \in Hash
    PROVE  /\ Used(list, h) \in Seq(Hash) /\ IsInjective(Used(list, h))
           /\ Len(Used(list, h)) \in Nat /\ Len(Used(list, h)) >= 1
           /\ Len(Used(list, h)) <= (IF h \in Range(list) THEN Len(list) ELSE Len(list) + 1)
           /\ Used(list, h)[Len(Used(list, h))] = h
<1>1. /\ DOMAIN list = 1 .. Len(list) /\ Len(list) \in Nat
      /\ \A k \in 1 .. Len(list) : list[k] \in Hash
  BY LenProperties, ElementOfSeq
<1> DEFINE rest == IF h \in Range(list) THEN RemoveAt(list, Place(list, h)) ELSE list
<1>2. /\ rest \in Seq(Hash) /\ IsInjective(rest) /\ DOMAIN rest = 1 .. Len(rest) /\ Len(rest) \in Nat
      /\ \A k \in 1 .. Len(rest) : rest[k] # h
      /\ Len(rest) <= (IF h \in Range(list) THEN Len(list) - 1 ELSE Len(list))
  <2>1. CASE h \notin Range(list) BY <1>1, <2>1 DEF Range
  <2>2. CASE h \in Range(list)
    <3> DEFINE i == Place(list, h)
               n == Len(list)
               front == SubSeq(list, 1, i - 1)
               back == SubSeq(list, i + 1, n)
    <3>1. \E k \in DOMAIN list : list[k] = h BY <2>2 DEF Range
    <3>2. i \in DOMAIN list /\ list[i] = h BY <3>1 DEF Place
    <3> HIDE DEF i
    <3>3. i \in 1 .. n /\ i \in Int /\ n \in Int BY <1>1, <3>2
    <3>4. /\ front \in Seq(Hash) /\ Len(front) = i - 1
          /\ \A k \in 1 .. i - 1 : front[k] = list[k]
      <4>1. \A k \in 1 .. i - 1 : list[k] \in Hash BY <1>1, <3>3
      <4>2. /\ front \in Seq(Hash) /\ Len(front) = IF 1 <= i - 1 THEN i - 1 - 1 + 1 ELSE 0
            /\ \A k \in 1 .. i - 1 - 1 + 1 : front[k] = list[1 + k - 1]
        BY <3>3, <4>1, SubSeqProperties
      <4>3. \A k \in 1 .. i - 1 : k \in 1 .. i - 1 - 1 + 1 /\ 1 + k - 1 = k BY <3>3
      <4>4. QED BY <3>3, <4>2, <4>3
    <3>5. /\ back \in Seq(Hash) /\ Len(back) = n - i
          /\ \A k \in 1 .. n - i : back[k] = list[i + k]
      <4>1. \A k \in i + 1 .. n : list[k] \in Hash BY <1>1, <3>3
      <4>2. /\ back \in Seq(Hash) /\ Len(back) = IF i + 1 <= n THEN n - (i + 1) + 1 ELSE 0
            /\ \A k \in 1 .. n - (i + 1) + 1 : back[k] = list[i + 1 + k - 1]
        BY <3>3, <4>1, SubSeqProperties
      <4>3. \A k \in 1 .. n - i : k \in 1 .. n - (i + 1) + 1 /\ i + 1 + k - 1 = i + k BY <3>3
      <4>4. QED BY <3>3, <4>2, <4>3
    <3>6. rest = front \o back BY <2>2 DEF RemoveAt, i
    <3> HIDE DEF front, back, rest
    <3>7. /\ rest \in Seq(Hash) /\ Len(rest) = Len(front) + Len(back)
          /\ \A k \in 1 .. Len(front) + Len(back) :
                rest[k] = IF k <= Len(front) THEN front[k] ELSE back[k - Len(front)]
      BY <3>4, <3>5, <3>6, ConcatProperties
    <3>8. Len(rest) = n - 1 BY <3>3, <3>4, <3>5, <3>7
    <3>9. ASSUME NEW k \in 1 .. n - 1 PROVE rest[k] = list[IF k < i THEN k ELSE k + 1]
      <4>1. CASE k < i
        <5>1. k \in 1 .. i - 1 /\ k <= Len(front) /\ k \in 1 .. Len(front) + Len(back)
          BY <3>3, <3>4, <3>5, <4>1
        <5>2. QED BY <3>4, <3>7, <4>1, <5>1
      <4>2. CASE ~(k < i)
        <5>1. /\ ~(k <= Len(front)) /\ k \in 1 .. Len(front) + Len(back)
              /\ k - Len(front) \in 1 .. n - i /\ i + (k - Len(front)) = k + 1
          BY <3>3, <3>4, <3>5, <4>2
        <5>2. QED BY <3>5, <3>7, <4>2, <5>1
      <4>3. QED BY <4>1, <4>2
    <3> DEFINE at(k) == IF k < i THEN k ELSE k + 1
    <3>10. \A k \in 1 .. n - 1 : at(k) \in DOMAIN list /\ at(k) # i BY <1>1, <3>3
    <3>11. \A j, k \in 1 .. n - 1 : at(j) = at(k) => j = k BY <3>3
    <3>12. \A k \in 1 .. n - 1 : rest[k] = list[at(k)] BY <3>9
    <3> HIDE DEF at
    <3>13. \A k \in 1 .. n - 1 : rest[k] # h BY <3>2, <3>10, <3>12 DEF IsInjective
    <3>14. DOMAIN rest = 1 .. n - 1 /\ n - 1 \in Nat BY <1>1, <3>3, <3>7, <3>8, LenProperties
    <3>15. IsInjective(rest) BY <3>10, <3>11, <3>12, <3>14 DEF IsInjective
    <3>16. QED BY <2>2, <3>7, <3>8, <3>13, <3>14, <3>15
  <2>3. QED BY <2>1, <2>2
<1>3. Used(list, h) = Append(rest, h) BY DEF Used
<1> HIDE DEF rest
<1> DEFINE longer == Append(rest, h)
<1>4. /\ longer \in Seq(Hash) /\ Len(longer) = Len(rest) + 1 /\ longer[Len(rest) + 1] = h
      /\ \A k \in 1 .. Len(rest) : longer[k] = rest[k]
  BY <1>2, AppendProperties
<1>5. DOMAIN longer = 1 .. Len(rest) + 1 BY <1>4, LenProperties
<1> HIDE DEF longer
<1>6. IsInjective(longer)
  <2>1. ASSUME NEW j \in 1 .. Len(rest) + 1, NEW k \in 1 .. Len(rest) + 1, longer[j] = longer[k]
        PROVE  j = k
    <3>1. CASE j \in 1 .. Len(rest) /\ k \in 1 .. Len(rest) BY <1>2, <1>4, <2>1, <3>1 DEF IsInjective
    <3>2. CASE j = Len(rest) + 1 /\ k \in 1 .. Len(rest) BY <1>2, <1>4, <2>1, <3>2
    <3>3. CASE k = Len(rest) + 1 /\ j \in 1 .. Len(rest) BY <1>2, <1>4, <2>1, <3>3
    <3>4. QED BY <1>2, <3>1, <3>2, <3>3
  <2>2. QED BY <1>5, <2>1 DEF IsInjective
<1>7. QED BY <1>1, <1>2, <1>3, <1>4, <1>6 DEF longer

(* The cache remembers the hash it was last asked for and keeps its size.  *)
LEMMA RememberedKeeps ==
    ASSUME NEW list \in Seq(Hash), IsInjective(list), Len(list) <= CacheSize, NEW h \in Hash
    PROVE  /\ Remembered(list, h) \in Seq(Hash) /\ IsInjective(Remembered(list, h))
           /\ Len(Remembered(list, h)) <= CacheSize
           /\ h \in Range(Remembered(list, h))
<1> DEFINE used == Used(list, h)
           n == Len(used)
<1>1. /\ used \in Seq(Hash) /\ IsInjective(used) /\ n \in Nat /\ n >= 1 /\ used[n] = h
      /\ n <= Len(list) + 1 /\ Len(list) \in Nat
  BY UsedIsLast, LenProperties
<1>2. DOMAIN used = 1 .. n BY <1>1, LenProperties
<1> HIDE DEF used
<1>3. CASE ~(n > CacheSize)
  <2>1. Remembered(list, h) = used BY <1>3 DEF Remembered, used
  <2>2. n \in DOMAIN used BY <1>1, <1>2
  <2>3. QED BY <1>1, <1>3, <2>1, <2>2, Constants DEF Range
<1>4. CASE n > CacheSize
  <2> DEFINE rest == Tail(used)
  <2>1. Remembered(list, h) = rest BY <1>4 DEF Remembered, used
  <2>2. used # <<>> BY <1>1, EmptySeq
  <2>3. /\ rest \in Seq(Hash) /\ Len(rest) = n - 1 /\ \A k \in 1 .. Len(rest) : rest[k] = used[k + 1]
    BY <1>1, <2>2, HeadTailProperties
  <2>4. DOMAIN rest = 1 .. Len(rest) BY <2>3, LenProperties
  <2> HIDE DEF rest
  <2>5. n - 1 \in 1 .. Len(rest) /\ n - 1 + 1 = n BY <1>1, <1>4, <2>3, Constants
  <2>6. h \in Range(rest) BY <1>1, <2>3, <2>4, <2>5 DEF Range
  <2>7. \A k \in 1 .. Len(rest) : k + 1 \in DOMAIN used BY <1>1, <1>2, <2>3
  <2>8. IsInjective(rest)
    <3>1. ASSUME NEW j \in 1 .. Len(rest), NEW k \in 1 .. Len(rest), rest[j] = rest[k] PROVE j = k
      <4>1. used[j + 1] = used[k + 1] BY <2>3, <3>1
      <4>2. j + 1 = k + 1 BY <1>1, <2>7, <4>1 DEF IsInjective
      <4>3. QED BY <4>2
    <3>2. QED BY <2>4, <3>1 DEF IsInjective
  <2>9. Len(rest) <= CacheSize BY <1>1, <2>3, Constants
  <2>10. QED BY <2>1, <2>3, <2>6, <2>8, <2>9
<1>5. QED BY <1>3, <1>4

-----------------------------------------------------------------------------
(* The steps.                                                              *)

(* What the proofs below use of the types.                                 *)
LEMMA Typed ==
    ASSUME Inv
    PROVE  /\ accepted \in [Hash -> Nat] /\ evicted \in [Hash -> Nat]
           /\ dropped \in [Hash -> Nat] /\ handled \in [Hash -> Nat]
           /\ jobs \in Seq(Hash) /\ Len(jobs) \in Nat /\ Len(jobs) <= BufferSize
           /\ new \in [Sessions -> Hash \cup {NoHash}]
           /\ batch \in [Workers -> Seq(Hash)] /\ from \in [Workers -> Nat]
           /\ wpc \in [Workers -> {"select", "fetch", "stopped"}]
           /\ \A w \in Workers : /\ batch[w] \in Seq(Hash) /\ Len(batch[w]) \in Nat
                                 /\ Len(batch[w]) <= MaxBatch /\ from[w] \in Nat /\ from[w] >= 1
                                 /\ DOMAIN batch[w] = 1 .. Len(batch[w])
<1>1. TypeOK BY DEF Inv
<1>2. jobs \in Seq(Hash) /\ Len(jobs) \in Nat BY <1>1, LenProperties DEF TypeOK
<1>3. \A w \in Workers : /\ batch[w] \in Seq(Hash) /\ Len(batch[w]) \in Nat
                         /\ DOMAIN batch[w] = 1 .. Len(batch[w])
  <2>1. \A w \in Workers : batch[w] \in Seq(Hash) BY <1>1 DEF TypeOK
  <2>2. QED BY <2>1, LenProperties
<1>4. QED BY <1>1, <1>2, <1>3 DEF TypeOK, Inv, WorkersFit

(* The numbers of places are numbers.                                      *)
LEMMA Sizes ==
    ASSUME Inv, NEW h \in Hash
    PROVE  /\ InNew(h) \in SUBSET Sessions /\ IsFiniteSet(InNew(h)) /\ Cardinality(InNew(h)) \in Nat
           /\ Cardinality(In(jobs, h)) \in Nat
           /\ Undone(h) \in SUBSET Places /\ IsFiniteSet(Undone(h)) /\ Cardinality(Undone(h)) \in Nat
           /\ accepted[h] \in Nat /\ evicted[h] \in Nat /\ dropped[h] \in Nat /\ handled[h] \in Nat
<1>1. InNew(h) \in SUBSET Sessions /\ Undone(h) \in SUBSET Places BY DEF InNew, Undone, Places
<1>2. Cardinality(In(jobs, h)) \in Nat BY Typed, CountedIn
<1>3. QED BY <1>1, <1>2, PlacesFinite, Typed

(* Adding a list to the counts.                                            *)
LEMMA PlusOne ==
    ASSUME NEW count \in [Hash -> Nat], NEW e \in Hash
    PROVE  /\ Plus(count, <<e>>) \in [Hash -> Nat]
           /\ \A h \in Hash : Plus(count, <<e>>)[h] = count[h] + (IF e = h THEN 1 ELSE 0)
<1>1. \A h \in Hash : Copies(<<e>>, h) = (IF e = h THEN 1 ELSE 0) BY InSingleton
<1>2. \A h \in Hash : Copies(<<e>>, h) \in Nat BY <1>1
<1>3. QED BY <1>1, <1>2 DEF Plus

LEMMA PlusMany ==
    ASSUME NEW count \in [Hash -> Nat], NEW list \in Seq(Hash)
    PROVE  /\ Plus(count, list) \in [Hash -> Nat]
           /\ \A h \in Hash : Plus(count, list)[h] = count[h] + Copies(list, h)
<1>1. \A h \in Hash : Copies(list, h) \in Nat BY CountedIn DEF Copies, In
<1>2. QED BY <1>1 DEF Plus

(* Nothing is where it could be.                                           *)
LEMMA InitInv == Init => Inv
<1> SUFFICES ASSUME Init PROVE Inv OBVIOUS
<1>1. <<>> \in Seq(Hash) /\ Len(<<>>) = 0 /\ DOMAIN <<>> = {}
  BY EmptySeq
<1>2. Zero \in [Hash -> Nat] /\ \A h \in Hash : Zero[h] = 0 BY DEF Zero
<1>3. TypeOK
  <2>1. IsInjective(<<>>) BY <1>1 DEF IsInjective
  <2>2. /\ Len(cache) <= CacheSize /\ Len(jobs) <= BufferSize
        /\ \A w \in Workers : Len(batch[w]) <= MaxBatch
    BY <1>1, Constants DEF Init
  <2>3. \A count \in {accepted, evicted, dropped, handled} : count \in [Hash -> Nat]
    BY <1>2 DEF Init
  <2>4. cache \in Seq(Hash) /\ jobs \in Seq(Hash) /\ batch \in [Workers -> Seq(Hash)]
    BY <1>1 DEF Init
  <2>5. QED BY <2>1, <2>2, <2>3, <2>4, Constants DEF Init, TypeOK
<1>4. Settled
  <2>1. ASSUME NEW h \in Hash
        PROVE  accepted[h] = Cardinality(InNew(h)) + Cardinality(In(jobs, h))
                             + Cardinality(Undone(h)) + dropped[h] + handled[h]
    <3>1. InNew(h) = {} BY Constants DEF Init, InNew
    <3>2. In(jobs, h) = {} BY <1>1 DEF Init, In
    <3>3. Undone(h) = {}
      <4>1. \A q \in Workers \X (1 .. MaxBatch) : Len(batch[q[1]]) = 0 /\ from[q[1]] = 1 BY <1>1 DEF Init
      <4>2. QED BY <4>1 DEF Undone
    <3>4. accepted[h] = 0 /\ dropped[h] = 0 /\ handled[h] = 0 BY <1>2 DEF Init
    <3>5. /\ Cardinality(InNew(h)) = 0 /\ Cardinality(In(jobs, h)) = 0
          /\ Cardinality(Undone(h)) = 0
      BY <3>1, <3>2, <3>3, FS_EmptySet
    <3>6. QED BY <3>4, <3>5
  <2>2. QED BY <2>1 DEF Settled
<1>5. WorkersFit BY <1>1, Constants DEF Init, WorkersFit
<1>6. Remembers BY <1>2 DEF Init, Remembers, Owed
<1>7. QED BY <1>3, <1>4, <1>5, <1>6 DEF Inv

(* A session takes a hash from its provider.                               *)
LEMMA SeenInv == ASSUME Inv, NEW s \in Sessions, NEW h \in Hash, Seen(s, h) PROVE Inv'
<1>1. /\ new[s] = NoHash /\ cache' = Remembered(cache, h)
      /\ evicted' = [g \in Hash |-> IF g \in Range(cache) \ Range(cache')
                                    THEN evicted[g] + 1 ELSE evicted[g]]
      /\ coming' = [coming EXCEPT ![s] = @ \ {h}]
      /\ UNCHANGED <<jobs, dropped, wpc, batch, from, ctxDone, handled>>
  BY DEF Seen, chan, wvars
<1>2. /\ cache' \in Seq(Hash) /\ IsInjective(cache') /\ Len(cache') <= CacheSize
      /\ h \in Range(cache')
  BY <1>1, RememberedKeeps DEF Inv, TypeOK
<1>3. evicted' \in [Hash -> Nat] /\ \A g \in Hash : evicted'[g] =
            IF g \in Range(cache) \ Range(cache') THEN evicted[g] + 1 ELSE evicted[g]
  BY <1>1, Typed
<1>4. \/ h \in Range(cache) /\ UNCHANGED <<new, accepted>>
      \/ /\ h \notin Range(cache) /\ new' = [new EXCEPT ![s] = h]
         /\ accepted' = Plus(accepted, <<h>>)
  BY DEF Seen
<1>5. new' \in [Sessions -> Hash \cup {NoHash}] /\ accepted' \in [Hash -> Nat]
  <2>1. new' \in [Sessions -> Hash \cup {NoHash}] BY <1>4, Typed
  <2>2. Plus(accepted, <<h>>) \in [Hash -> Nat] BY Typed, PlusOne
  <2>3. QED BY <1>4, <2>1, <2>2, Typed
<1>6. TypeOK'
  <2>1. coming' \in [Sessions -> SUBSET Hash] BY <1>1 DEF Inv, TypeOK
  <2>2. \A count \in {accepted', evicted', dropped', handled'} : count \in [Hash -> Nat]
    BY <1>1, <1>3, <1>5, Typed
  <2>3. QED BY <1>1, <1>2, <1>5, <2>1, <2>2 DEF Inv, TypeOK
<1>7. Settled'
  <2>1. ASSUME NEW g \in Hash
        PROVE  accepted'[g] = Cardinality(InNew(g)') + Cardinality(In(jobs, g)')
                              + Cardinality(Undone(g)') + dropped'[g] + handled'[g]
    <3>1. In(jobs, g)' = In(jobs, g) /\ Undone(g)' = Undone(g) BY <1>1 DEF In, Undone
    <3>2. accepted[g] = Cardinality(InNew(g)) + Cardinality(In(jobs, g))
                        + Cardinality(Undone(g)) + dropped[g] + handled[g]
      BY DEF Inv, Settled
    <3>3. CASE UNCHANGED <<new, accepted>>
      <4>1. InNew(g)' = InNew(g) BY <3>3 DEF InNew
      <4>2. QED BY <1>1, <3>1, <3>2, <3>3, <4>1
    <3>4. CASE new' = [new EXCEPT ![s] = h] /\ accepted' = Plus(accepted, <<h>>)
      <4>1. accepted'[g] = accepted[g] + (IF h = g THEN 1 ELSE 0) BY <3>4, Typed, PlusOne
      <4>2. InNew(g)' = (IF h = g THEN InNew(g) \cup {s} ELSE InNew(g)) /\ s \notin InNew(g)
        BY <1>1, <3>4, Typed, Constants DEF InNew
      <4>3. Cardinality(InNew(g) \cup {s}) = Cardinality(InNew(g)) + 1
        BY <4>2, Sizes, FS_AddElement
      <4>4. Cardinality(InNew(g)') = Cardinality(InNew(g)) + (IF h = g THEN 1 ELSE 0)
        BY <4>2, <4>3, Sizes
      <4>5. QED BY <1>1, <3>1, <3>2, <4>1, <4>4, Sizes
    <3>5. QED BY <1>4, <3>3, <3>4
  <2>2. QED BY <2>1 DEF Settled
<1>8. WorkersFit' BY <1>1 DEF Inv, WorkersFit
<1>9. Remembers'
  <2>1. ASSUME NEW g \in Hash PROVE accepted'[g] <= evicted'[g] + (IF g \in Range(cache') THEN 1 ELSE 0)
    <3>1. accepted[g] <= evicted[g] + (IF g \in Range(cache) THEN 1 ELSE 0)
      BY DEF Inv, Remembers, Owed
    <3>2. accepted'[g] = IF h = g /\ h \notin Range(cache) THEN accepted[g] + 1 ELSE accepted[g]
      <4>1. CASE UNCHANGED <<new, accepted>> /\ h \in Range(cache) BY <4>1
      <4>2. CASE h \notin Range(cache) /\ accepted' = Plus(accepted, <<h>>)
        <5>1. accepted'[g] = accepted[g] + (IF h = g THEN 1 ELSE 0) BY <4>2, Typed, PlusOne
        <5>2. QED BY <4>2, <5>1, Sizes
      <4>3. QED BY <1>4, <4>1, <4>2
    <3>3. accepted[g] \in Nat /\ evicted[g] \in Nat BY Sizes
    <3>4. QED BY <1>2, <1>3, <3>1, <3>2, <3>3
  <2>2. QED BY <2>1 DEF Remembers, Owed
<1>10. QED BY <1>6, <1>7, <1>8, <1>9 DEF Inv

(* A session hands its hash to the channel, or drops it.                   *)
LEMMA PushInv == ASSUME Inv, NEW s \in Sessions, push(s) PROVE Inv'
<1> DEFINE e == new[s]
<1>1. /\ e # NoHash /\ new' = [new EXCEPT ![s] = NoHash]
      /\ \/ Len(jobs) < BufferSize /\ jobs' = Append(jobs, e) /\ dropped' = dropped
         \/ jobs' = jobs /\ dropped' = Plus(dropped, <<e>>)
      /\ UNCHANGED <<coming, cache, accepted, evicted, wpc, batch, from, ctxDone, handled>>
  BY DEF push, wvars
<1>2. e \in Hash BY <1>1, Typed
<1> HIDE DEF e
<1>3. new' \in [Sessions -> Hash \cup {NoHash}] BY <1>1, Typed
<1>4. /\ jobs' \in Seq(Hash) /\ Len(jobs') <= BufferSize /\ dropped' \in [Hash -> Nat]
  <2>1. CASE Len(jobs) < BufferSize /\ jobs' = Append(jobs, e) /\ dropped' = dropped
    <3>1. jobs' \in Seq(Hash) /\ Len(jobs') = Len(jobs) + 1 BY <1>2, <2>1, Typed, AppendProperties
    <3>2. QED BY <2>1, <3>1, Typed, Constants
  <2>2. CASE jobs' = jobs /\ dropped' = Plus(dropped, <<e>>) BY <1>2, <2>2, Typed, PlusOne
  <2>3. QED BY <1>1, <2>1, <2>2
<1>5. TypeOK'
  <2>1. \A count \in {accepted', evicted', dropped', handled'} : count \in [Hash -> Nat]
    BY <1>1, <1>4, Typed
  <2>2. QED BY <1>1, <1>3, <1>4, <2>1 DEF Inv, TypeOK
<1>6. Settled'
  <2>1. ASSUME NEW g \in Hash
        PROVE  accepted'[g] = Cardinality(InNew(g)') + Cardinality(In(jobs, g)')
                              + Cardinality(Undone(g)') + dropped'[g] + handled'[g]
    <3> DEFINE one == IF e = g THEN 1 ELSE 0
    <3>1. Undone(g)' = Undone(g) BY <1>1 DEF Undone
    <3>2. accepted[g] = Cardinality(InNew(g)) + Cardinality(In(jobs, g))
                        + Cardinality(Undone(g)) + dropped[g] + handled[g]
      BY DEF Inv, Settled
    <3>3. InNew(g)' = InNew(g) \ {s} /\ (s \in InNew(g) <=> e = g)
      BY <1>1, Typed, Constants DEF InNew, e
    <3>4. Cardinality(InNew(g)') = Cardinality(InNew(g)) - one
      <4>1. Cardinality(InNew(g) \ {s}) = IF s \in InNew(g) THEN Cardinality(InNew(g)) - 1
                                          ELSE Cardinality(InNew(g))
        BY Sizes, FS_RemoveElement
      <4>2. QED BY <3>3, <4>1, Sizes
    <3>5. Cardinality(In(jobs, g)') + dropped'[g] = Cardinality(In(jobs, g)) + dropped[g] + one
      <4>1. CASE jobs' = Append(jobs, e) /\ dropped' = dropped
        <5>1. In(jobs, g)' = In(Append(jobs, e), g) BY <4>1 DEF In
        <5>2. Cardinality(In(Append(jobs, e), g)) = Cardinality(In(jobs, g)) + one
          BY <1>2, Typed, InAppended
        <5>3. one \in Nat OBVIOUS
        <5> HIDE DEF one
        <5>4. QED BY <4>1, <5>1, <5>2, <5>3, Sizes
      <4>2. CASE jobs' = jobs /\ dropped' = Plus(dropped, <<e>>)
        <5>1. In(jobs, g)' = In(jobs, g) BY <4>2 DEF In
        <5>2. dropped'[g] = dropped[g] + one BY <1>2, <4>2, Typed, PlusOne
        <5>3. QED BY <5>1, <5>2, Sizes
      <4>3. QED BY <1>1, <4>1, <4>2
    <3>6. dropped'[g] \in Nat /\ Cardinality(In(jobs, g)') \in Nat
      <4>1. In(jobs, g)' = In(jobs', g) BY DEF In
      <4>2. QED BY <1>4, <4>1, CountedIn
    <3>7. one \in Nat /\ accepted'[g] = accepted[g] /\ handled'[g] = handled[g] BY <1>1
    <3> HIDE DEF one
    <3>8. Cardinality(InNew(g)') + (Cardinality(In(jobs, g)') + dropped'[g])
             = Cardinality(InNew(g)) + Cardinality(In(jobs, g)) + dropped[g]
      BY <3>4, <3>5, <3>7, Sizes
    <3>9. Cardinality(InNew(g)') \in Int BY <3>4, <3>7, Sizes
    <3>10. QED BY <3>1, <3>2, <3>6, <3>7, <3>8, <3>9, Sizes
  <2>2. QED BY <2>1 DEF Settled
<1>7. WorkersFit' /\ Remembers' BY <1>1 DEF Inv, WorkersFit, Remembers, Owed
<1>8. QED BY <1>5, <1>6, <1>7 DEF Inv

(* A worker receives a hash into its batch.                                *)
LEMMA CollectInv == ASSUME Inv, NEW w \in Workers, Collect(w) PROVE Inv'
<1> DEFINE e == Head(jobs)
           n == Len(batch[w]) + 1
<1>1. /\ wpc[w] = "select" /\ jobs # <<>> /\ jobs' = Tail(jobs)
      /\ batch' = [batch EXCEPT ![w] = Append(@, e)]
      /\ wpc' = [wpc EXCEPT ![w] = IF Full(batch'[w]) THEN "fetch" ELSE "select"]
      /\ UNCHANGED <<coming, new, cache, accepted, evicted, dropped, from, ctxDone, handled>>
  BY DEF Collect, ivars
<1>2. from[w] = 1 /\ Len(batch[w]) < MaxBatch BY <1>1 DEF Inv, WorkersFit
<1>3. e \in Hash /\ Tail(jobs) \in Seq(Hash) /\ Len(Tail(jobs)) = Len(jobs) - 1
  BY <1>1, Typed, HeadTailProperties
<1> HIDE DEF e
<1>4. /\ batch'[w] = Append(batch[w], e) /\ \A v \in Workers : v # w => batch'[v] = batch[v]
  BY <1>1, Typed
<1>5. /\ batch'[w] \in Seq(Hash) /\ Len(batch'[w]) = n /\ batch'[w][n] = e
      /\ \A k \in 1 .. Len(batch[w]) : batch'[w][k] = batch[w][k]
  BY <1>3, <1>4, Typed, AppendProperties
<1>6. n \in 1 .. MaxBatch BY <1>2, Typed, Constants
<1>7. TypeOK'
  <2>1. jobs' \in Seq(Hash) /\ Len(jobs') <= BufferSize BY <1>1, <1>3, Typed, Constants
  <2>2. batch' \in [Workers -> Seq(Hash)] BY <1>1, <1>4, <1>5, Typed
  <2>3. \A v \in Workers : Len(batch'[v]) <= MaxBatch
    <3>1. Len(batch'[w]) <= MaxBatch BY <1>5, <1>6, Constants
    <3>2. QED BY <1>4, <3>1, Typed
  <2>4. wpc' \in [Workers -> {"select", "fetch", "stopped"}] BY <1>1, Typed
  <2>5. QED BY <1>1, <2>1, <2>2, <2>3, <2>4 DEF Inv, TypeOK
<1>8. Settled'
  <2>1. ASSUME NEW g \in Hash
        PROVE  accepted'[g] = Cardinality(InNew(g)') + Cardinality(In(jobs, g)')
                              + Cardinality(Undone(g)') + dropped'[g] + handled'[g]
    <3> DEFINE one == IF e = g THEN 1 ELSE 0
    <3>1. InNew(g)' = InNew(g) BY <1>1 DEF InNew
    <3>2. accepted[g] = Cardinality(InNew(g)) + Cardinality(In(jobs, g))
                        + Cardinality(Undone(g)) + dropped[g] + handled[g]
      BY DEF Inv, Settled
    <3>3. In(jobs, g)' = In(Tail(jobs), g) BY <1>1 DEF In
    <3>4. Cardinality(In(jobs, g)) = Cardinality(In(jobs, g)') + one
      BY <1>1, <3>3, Typed, InTail DEF e
    <3>5. Cardinality(In(jobs, g)') \in Nat BY <1>3, <3>3, CountedIn
    <3>6. <<w, n>> \notin Undone(g)
      <4>1. ~(n \in from[w] .. Len(batch[w])) BY Typed
      <4>2. QED BY <4>1 DEF Undone
    <3>7. Undone(g)' = IF e = g THEN Undone(g) \cup {<<w, n>>} ELSE Undone(g)
      <4>1. Undone(g)' = {q \in Places : q[2] \in from[q[1]] .. Len(batch'[q[1]]) /\ batch'[q[1]][q[2]] = g}
        BY <1>1 DEF Undone, Places
      <4>2. Undone(g) = {q \in Places : q[2] \in from[q[1]] .. Len(batch[q[1]]) /\ batch[q[1]][q[2]] = g}
        BY DEF Undone, Places
      <4>3. ASSUME NEW q \in Places
            PROVE  q \in Undone(g)' <=> q \in Undone(g) \/ (e = g /\ q = <<w, n>>)
        <5>1. q[1] \in Workers /\ q[2] \in 1 .. MaxBatch /\ q = <<q[1], q[2]>> BY DEF Places
        <5>2. CASE q[1] # w BY <1>4, <4>1, <4>2, <5>1, <5>2
        <5>3. CASE q[1] = w /\ q[2] = n
          <6>1. q[2] \in from[w] .. Len(batch'[w]) BY <1>2, <1>5, <1>6, <5>3, Typed
          <6>2. QED BY <1>5, <3>6, <4>1, <5>1, <5>3, <6>1
        <5>4. CASE q[1] = w /\ q[2] # n
          <6>1. q[2] \in from[w] .. Len(batch'[w]) <=> q[2] \in from[w] .. Len(batch[w])
            <7>1. \A l, k \in Nat : k # l + 1 => (k \in 1 .. l + 1 <=> k \in 1 .. l) OBVIOUS
            <7>2. Len(batch[w]) \in Nat BY Typed
            <7>3. q[2] \in Nat BY <5>1, Constants
            <7>4. from[w] = 1 /\ Len(batch'[w]) = Len(batch[w]) + 1 /\ q[2] # Len(batch[w]) + 1
              BY <1>2, <1>5, <5>4
            <7>5. QED BY <7>1, <7>2, <7>3, <7>4
          <6>2. q[2] \in from[w] .. Len(batch[w]) => batch'[w][q[2]] = batch[w][q[2]]
            BY <1>2, <1>5, Typed
          <6>3. QED BY <4>1, <4>2, <5>1, <5>4, <6>1, <6>2
        <5>5. QED BY <5>2, <5>3, <5>4
      <4>4. <<w, n>> \in Places BY <1>6 DEF Places
      <4>5. Undone(g)' \subseteq Places /\ Undone(g) \subseteq Places BY <4>1, <4>2
      <4>6. QED BY <4>3, <4>4, <4>5
    <3>8. Cardinality(Undone(g)') = Cardinality(Undone(g)) + one
      <4>1. Cardinality(Undone(g) \cup {<<w, n>>}) = Cardinality(Undone(g)) + 1
        BY <3>6, Sizes, FS_AddElement
      <4>2. QED BY <3>7, <4>1, Sizes
    <3>9. one \in Nat /\ accepted'[g] = accepted[g] /\ handled'[g] = handled[g] /\ dropped'[g] = dropped[g]
      BY <1>1
    <3> HIDE DEF one
    <3>10. QED BY <3>1, <3>2, <3>4, <3>5, <3>8, <3>9, Sizes
  <2>2. QED BY <2>1 DEF Settled
<1>9. WorkersFit'
  <2>1. ASSUME NEW v \in Workers
        PROVE  /\ from'[v] >= 1
               /\ wpc'[v] = "select" => from'[v] = 1 /\ Len(batch'[v]) < MaxBatch
               /\ wpc'[v] = "stopped" => batch'[v] = <<>>
    <3>1. CASE v # w BY <1>1, <1>4, <3>1, Typed DEF Inv, WorkersFit
    <3>2. CASE v = w
      <4>1. wpc'[w] = IF Full(batch'[w]) THEN "fetch" ELSE "select" BY <1>1, Typed
      <4>2. ~Full(batch'[w]) => Len(batch'[w]) < MaxBatch BY <1>5, <1>6, Constants DEF Full
      <4>3. QED BY <1>1, <1>2, <3>2, <4>1, <4>2
    <3>3. QED BY <3>1, <3>2
  <2>2. QED BY <2>1 DEF WorkersFit
<1>10. Remembers' BY <1>1 DEF Inv, Remembers, Owed
<1>11. QED BY <1>7, <1>8, <1>9, <1>10 DEF Inv

(* A worker settles the hashes of its batch from index a to b, and goes on *)
(* behind them or with an empty batch.                                     *)
LEMMA SettleInv ==
    ASSUME Inv, NEW w \in Workers, FetchChunk(w) \/ WorkerDone(w)
    PROVE  Settled' /\ handled' \in [Hash -> Nat]
<1> DEFINE a == from[w]
           n == Len(batch[w])
           b == IF FetchChunk(w) THEN ChunkEnd(a, n) ELSE n
           K(g) == {k \in a .. b : batch[w][k] = g}
<1>1. /\ UNCHANGED <<new, jobs, accepted, dropped>>
      /\ \A v \in Workers : v # w => from'[v] = from[v] /\ batch'[v] = batch[v]
  BY Typed DEF FetchChunk, WorkerDone, ivars, chan
<1>2. a \in Nat /\ a >= 1 /\ n \in Nat /\ n <= MaxBatch /\ batch[w] \in Seq(Hash)
  BY Typed
<1>3. b \in Nat /\ b <= n
  <2>1. CASE FetchChunk(w) BY <1>2, <2>1, Constants DEF ChunkEnd
  <2>2. CASE ~FetchChunk(w) BY <1>2, <2>2
  <2>3. QED BY <2>1, <2>2
<1>4. /\ handled' \in [Hash -> Nat]
      /\ \A g \in Hash : handled'[g] = handled[g] + Cardinality(K(g))
  <2>1. CASE FetchChunk(w)
    <3>1. a <= b /\ b = ChunkEnd(a, n) BY <1>2, <2>1, Constants DEF FetchChunk, ChunkEnd
    <3>2. handled' = Plus(handled, SubSeq(batch[w], a, b)) BY <2>1, <3>1 DEF FetchChunk, Chunk
    <3> HIDE DEF b, a, n
    <3>3. \A k \in a .. b : batch[w][k] \in Hash
      <4>1. \A k \in a .. b : k \in 1 .. Len(batch[w]) BY <1>2, <1>3 DEF n
      <4>2. QED BY <1>2, <4>1, ElementOfSeq
    <3>4. SubSeq(batch[w], a, b) \in Seq(Hash) BY <1>2, <1>3, <3>3, SubSeqProperties
    <3>5. \A g \in Hash : Copies(SubSeq(batch[w], a, b), g) = Cardinality(K(g))
      <4>1. b <= Len(batch[w]) BY <1>3 DEF n
      <4>2. \A g : Copies(SubSeq(batch[w], a, b), g) = Cardinality({k \in a .. b : batch[w][k] = g})
        BY <1>2, <1>3, <3>1, <4>1, InPart
      <4>3. QED BY <4>2
    <3> DEFINE part == SubSeq(batch[w], a, b)
    <3> HIDE DEF K, part
    <3>6. handled \in [Hash -> Nat] /\ part \in Seq(Hash) BY <3>4, Typed DEF part
    <3>7. /\ Plus(handled, part) \in [Hash -> Nat]
          /\ \A g \in Hash : Plus(handled, part)[g] = handled[g] + Copies(part, g)
      BY <3>6, PlusMany
    <3>8. handled' = Plus(handled, part) /\ \A g \in Hash : Copies(part, g) = Cardinality(K(g))
      BY <3>2, <3>5 DEF part
    <3>9. QED BY <3>7, <3>8
  <2>2. CASE ~FetchChunk(w)
    <3>1. wpc[w] = "select" /\ handled' = Plus(handled, batch[w]) BY <2>2 DEF WorkerDone
    <3>2. a = 1 /\ b = n BY <2>2, <3>1 DEF Inv, WorkersFit
    <3>3. \A g \in Hash : Copies(batch[w], g) = Cardinality(K(g)) BY <3>2, Typed DEF Copies
    <3> HIDE DEF K, a, b, n
    <3>4. /\ Plus(handled, batch[w]) \in [Hash -> Nat]
          /\ \A g \in Hash : Plus(handled, batch[w])[g] = handled[g] + Copies(batch[w], g)
      BY <1>2, Typed, PlusMany
    <3>5. QED BY <3>1, <3>3, <3>4
  <2>3. QED BY <2>1, <2>2
<1>5. \A k \in 1 .. MaxBatch : k \in from'[w] .. Len(batch'[w]) <=> k \in a .. n /\ ~(k \in a .. b)
  <2>1. CASE FetchChunk(w)
    <3>1. from'[w] = a + ChunkSize /\ batch'[w] = batch[w] BY <2>1, Typed DEF FetchChunk
    <3>2. b = IF a + ChunkSize - 1 > n THEN n ELSE a + ChunkSize - 1 BY <2>1 DEF ChunkEnd
    <3> HIDE DEF b
    <3>3. QED BY <1>2, <3>1, <3>2, Constants
  <2>2. CASE ~FetchChunk(w)
    <3>1. wpc[w] = "select" /\ batch'[w] = <<>> /\ from'[w] = from[w] BY <2>2, Typed DEF WorkerDone
    <3>2. a = 1 /\ b = n BY <2>2, <3>1 DEF Inv, WorkersFit
    <3>3. Len(batch'[w]) = 0 BY <3>1, EmptySeq
    <3>4. QED BY <1>2, <3>1, <3>2, <3>3
  <2>3. QED BY <2>1, <2>2
<1>6. \A k \in a .. n : k \notin a .. b => batch'[w][k] = batch[w][k]
  <2>1. CASE FetchChunk(w) BY <2>1 DEF FetchChunk
  <2>2. CASE ~FetchChunk(w) BY <2>2
  <2>3. QED BY <2>1, <2>2
<1> HIDE DEF a, b, n
<1>7. ASSUME NEW g \in Hash
      PROVE  accepted'[g] = Cardinality(InNew(g)') + Cardinality(In(jobs, g)')
                            + Cardinality(Undone(g)') + dropped'[g] + handled'[g]
  <2> DEFINE U == Undone(g)
             V == {q \in Places : q[2] \in from'[q[1]] .. Len(batch'[q[1]]) /\ batch'[q[1]][q[2]] = g}
  <2>1. Undone(g)' = V BY DEF Undone, Places
  <2>2. U = {q \in Places : q[2] \in from[q[1]] .. Len(batch[q[1]]) /\ batch[q[1]][q[2]] = g}
    BY DEF Undone, Places
  <2>3. K(g) \subseteq 1 .. MaxBatch BY <1>2, <1>3, Constants
  <2>4. \A k \in K(g) : <<w, k>> \in U
    <3>1. \A k \in K(g) : k \in from[w] .. Len(batch[w]) /\ batch[w][k] = g /\ <<w, k>> \in Places
      BY <1>2, <1>3, <2>3 DEF a, n, Places
    <3>2. QED BY <2>2, <3>1
  <2>5. ASSUME NEW q \in Places
        PROVE  q \in V <=> q \in U /\ ~(q[1] = w /\ q[2] \in K(g))
    <3>1. q[1] \in Workers /\ q[2] \in 1 .. MaxBatch BY DEF Places
    <3>2. CASE q[1] # w BY <1>1, <2>2, <3>1, <3>2
    <3>3. CASE q[1] = w
      <4>1. q \in V <=> q[2] \in from'[w] .. Len(batch'[w]) /\ batch'[w][q[2]] = g BY <3>3
      <4>2. q \in U <=> q[2] \in a .. n /\ batch[w][q[2]] = g BY <2>2, <3>3 DEF a, n
      <4>3. QED BY <1>5, <1>6, <3>1, <3>3, <4>1, <4>2
    <3>4. QED BY <3>2, <3>3
  <2>6. U \in SUBSET Places /\ V \in SUBSET Places BY <2>2
  <2> HIDE DEF U, V, K
  <2>7. Cardinality(U) = Cardinality(V) + Cardinality(K(g)) /\ Cardinality(K(g)) \in Nat
    <3>1. Empties(w, K(g), U, V) BY <2>3, <2>4, <2>5, <2>6 DEF Empties
    <3>2. QED BY <3>1, Taken
  <2>8. Cardinality(V) \in Nat BY <2>6, PlacesFinite
  <2>9. InNew(g)' = InNew(g) /\ In(jobs, g)' = In(jobs, g) BY <1>1 DEF InNew, In
  <2>10. accepted[g] = Cardinality(InNew(g)) + Cardinality(In(jobs, g))
                       + Cardinality(U) + dropped[g] + handled[g]
    BY DEF Inv, Settled, U
  <2>11. /\ accepted'[g] = accepted[g] /\ dropped'[g] = dropped[g]
         /\ handled'[g] = handled[g] + Cardinality(K(g))
    BY <1>1, <1>4
  <2>12. accepted'[g] = Cardinality(InNew(g)) + Cardinality(In(jobs, g))
                        + Cardinality(V) + dropped'[g] + handled'[g]
    BY <2>7, <2>8, <2>10, <2>11, Sizes
  <2>13. QED BY <2>1, <2>9, <2>12
<1>8. QED BY <1>4, <1>7 DEF Settled

(* The other steps of a worker move nothing.                               *)
LEMMA IdleSettled ==
    ASSUME Inv, NEW w \in Workers, Tick(w) \/ Flushed(w)
    PROVE  Settled'
<1>1. UNCHANGED <<new, jobs, accepted, dropped, handled>>
  BY DEF Tick, Flushed, ivars, chan
<1>2. ASSUME NEW g \in Hash PROVE Undone(g)' = Undone(g)
  <2>1. CASE Tick(w) BY <2>1 DEF Tick, Undone
  <2>2. CASE Flushed(w)
    <3>1. /\ from[w] > Len(batch[w]) /\ batch'[w] = <<>> /\ from'[w] = 1
          /\ \A v \in Workers : v # w => from'[v] = from[v] /\ batch'[v] = batch[v]
      BY <2>2, Typed DEF Flushed, Emptied
    <3>2. Len(batch'[w]) = 0 BY <3>1, EmptySeq
    <3>3. \A k \in 1 .. MaxBatch : k \notin from'[w] .. Len(batch'[w]) /\ k \notin from[w] .. Len(batch[w])
      BY <3>1, <3>2, Typed
    <3>4. \A q \in Workers \X (1 .. MaxBatch) :
             (q[2] \in from'[q[1]] .. Len(batch'[q[1]]) /\ batch'[q[1]][q[2]] = g)
             <=> (q[2] \in from[q[1]] .. Len(batch[q[1]]) /\ batch[q[1]][q[2]] = g)
      <4>1. ASSUME NEW q \in Workers \X (1 .. MaxBatch)
            PROVE  (q[2] \in from'[q[1]] .. Len(batch'[q[1]]) /\ batch'[q[1]][q[2]] = g)
                   <=> (q[2] \in from[q[1]] .. Len(batch[q[1]]) /\ batch[q[1]][q[2]] = g)
        <5>1. q[1] \in Workers /\ q[2] \in 1 .. MaxBatch OBVIOUS
        <5>2. CASE q[1] = w BY <3>3, <5>1, <5>2
        <5>3. CASE q[1] # w BY <3>1, <5>1, <5>3
        <5>4. QED BY <5>2, <5>3
      <4>2. QED BY <4>1
    <3>5. QED BY <3>4 DEF Undone
  <2>3. QED BY <2>1, <2>2
<1>3. \A g \in Hash : InNew(g)' = InNew(g) /\ In(jobs, g)' = In(jobs, g) BY <1>1 DEF InNew, In
<1>4. QED BY <1>1, <1>2, <1>3 DEF Inv, Settled

(* The worker's side of the invariant.                                     *)
LEMMA WorkerInv ==
    ASSUME Inv, NEW w \in Workers, Tick(w) \/ Working(w) \/ WorkerDone(w)
    PROVE  Inv'
<1>1. UNCHANGED <<coming, new, cache, accepted, evicted, jobs, dropped, ctxDone>>
  BY DEF Tick, Working, FetchChunk, Flushed, WorkerDone, ivars, chan
<1>2. Settled' /\ handled' \in [Hash -> Nat]
  <2>1. CASE Tick(w) \/ Flushed(w)
    <3>1. handled' = handled BY <2>1 DEF Tick, Flushed
    <3>2. QED BY <2>1, <3>1, IdleSettled, Typed
  <2>2. CASE FetchChunk(w) \/ WorkerDone(w) BY <2>2, SettleInv
  <2>3. QED BY <2>1, <2>2 DEF Working
<1>3. <<>> \in Seq(Hash) /\ Len(<<>>) = 0 BY EmptySeq
<1>4. /\ wpc' \in [Workers -> {"select", "fetch", "stopped"}]
      /\ batch' \in [Workers -> Seq(Hash)] /\ from' \in [Workers -> Nat]
      /\ \A v \in Workers : v # w => UNCHANGED <<wpc[v], batch[v], from[v]>>
      /\ Len(batch'[w]) <= MaxBatch /\ from'[w] >= 1
      /\ wpc'[w] = "select" => from'[w] = 1 /\ Len(batch'[w]) < MaxBatch
      /\ wpc'[w] = "stopped" => batch'[w] = <<>>
  <2>1. CASE Tick(w) BY <2>1, Typed DEF Tick
  <2>2. CASE FetchChunk(w)
    <3>1. from[w] + ChunkSize \in Nat /\ from[w] + ChunkSize >= 1 BY Typed, Constants
    <3>2. QED BY <2>2, <3>1, Typed DEF FetchChunk
  <2>3. CASE Flushed(w)
    <3>1. batch' = [batch EXCEPT ![w] = <<>>] BY <2>3 DEF Flushed, Emptied
    <3>2. QED BY <1>3, <2>3, <3>1, Typed, Constants DEF Flushed
  <2>4. CASE WorkerDone(w) BY <1>3, <2>4, Typed, Constants DEF WorkerDone
  <2>5. QED BY <2>1, <2>2, <2>3, <2>4 DEF Working
<1>5. TypeOK'
  <2>1. \A count \in {accepted', evicted', dropped', handled'} : count \in [Hash -> Nat]
    BY <1>1, <1>2, Typed
  <2>2. \A v \in Workers : Len(batch'[v]) <= MaxBatch BY <1>4, Typed
  <2>3. QED BY <1>1, <1>4, <2>1, <2>2 DEF Inv, TypeOK
<1>6. WorkersFit' BY <1>4 DEF Inv, WorkersFit
<1>7. Remembers' BY <1>1 DEF Inv, Remembers, Owed
<1>8. QED BY <1>2, <1>5, <1>6, <1>7 DEF Inv

(* Every step keeps the invariant.                                         *)
LEMMA NextInv == Inv /\ [Next]_vars => Inv'
<1> SUFFICES ASSUME Inv, [Next]_vars PROVE Inv' OBVIOUS
<1>1. CASE \E s \in Sessions : push(s) \/ \E h \in Hash : Seen(s, h) BY <1>1, PushInv, SeenInv
<1>2. CASE \E w \in Workers : Collect(w) \/ Tick(w) \/ Working(w) \/ WorkerDone(w)
  BY <1>2, CollectInv, WorkerInv
<1>3. CASE UNCHANGED <<ivars, chan, wvars, handled>> /\ ctxDone' \in BOOLEAN
  <2>1. UNCHANGED <<coming, new, cache, accepted, evicted, jobs, dropped, wpc, batch, from, handled>>
    BY <1>3 DEF ivars, chan, wvars
  <2>2. TypeOK' BY <1>3, <2>1 DEF Inv, TypeOK
  <2>3. QED BY <2>1, <2>2 DEF Inv, Settled, InNew, In, Undone, WorkersFit, Remembers, Owed
<1>4. Cancel \/ UNCHANGED vars => UNCHANGED <<ivars, chan, wvars, handled>> /\ ctxDone' \in BOOLEAN
  BY DEF Cancel, vars, Inv, TypeOK
<1>5. QED BY <1>1, <1>2, <1>3, <1>4 DEF Next, Terminated, Quiet

(* The invariant holds throughout.                                         *)
THEOREM Invariance == Spec => []Inv
  BY InitInv, NextInv, PTL DEF Spec

(* A hash is in one place or settled: no worker fetches what another one   *)
(* fetches, and a full channel, a short chunk or a cancellation loses no   *)
(* hash that is not counted.                                               *)
THEOREM EveryHashOnce == Spec => []FetchedOnce
<1>1. Inv => FetchedOnce BY DEF Inv, Settled, FetchedOnce, InNew, In, Copies
<1>2. QED BY <1>1, Invariance, PTL

(* Overlapping sessions repeat a hash only after the cache forgot it.      *)
THEOREM NoHashRepeated == Spec => []NoRepeats
<1>1. Inv => NoRepeats
  <2>1. ASSUME Inv, NEW h \in Hash PROVE accepted[h] <= evicted[h] + 1
    <3>1. accepted[h] <= evicted[h] + Owed(h) BY <2>1 DEF Inv, Remembers
    <3>2. accepted[h] \in Nat /\ evicted[h] \in Nat BY <2>1, Sizes
    <3>3. QED BY <3>1, <3>2 DEF Owed
  <2>2. QED BY <2>1 DEF NoRepeats
<1>2. QED BY <1>1, Invariance, PTL

=============================================================================
