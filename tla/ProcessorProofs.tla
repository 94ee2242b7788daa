---------------------------- MODULE ProcessorProofs ----------------------------
(***************************************************************************)
(* The processor, the block store and the locking of the analyzer, proved  *)
(* for any chain, any transactions, workers, resyncs and store capacity.   *)
(***************************************************************************)
EXTENDS Processor, SequenceTheorems, TLAPS

(* The job of the block goroutine, and where it is in it.                  *)
JobType ==
    [Kind : {"none", "init", "process", "empty", "resync"}, Number : {0} \cup Num,
     Waits : SUBSET (0 .. MaxBlock)]

JobFits ==
    /\ job \in JobType
    /\ bpc \notin {"start", "idle"} => job.Number \in Num
    /\ bpc \in {"reset", "clearStore", "clearPool"} => job.Kind = "resync"
    /\ bpc = "clear" => job.Kind = "process"
    /\ bpc \in {"idle", "clearPool", "ready"} => done \in Num

(* The store holds older blocks than the one about to be added.            *)
StoreBelow(b) == \A k \in 1 .. Len(blocks) : blocks[k].Number <= b

StoreOrdered ==
    /\ \A j, k \in 1 .. Len(blocks) : j < k => blocks[j].Number > blocks[k].Number
    /\ bpc = "start" => blocks = <<>>
    /\ bpc \in {"idle", "clearPool", "ready"} => StoreBelow(done)
    /\ bpc \in {"clear", "add"} => StoreBelow(job.Number - 1)
    /\ bpc \in {"expire", "latest", "analysis"} => StoreBelow(job.Number)

(* While the analyzer is ready, which it is not between a Reset and        *)
(* SetReady, its fees are those of the last update, or of the one before   *)
(* while the two halves of an update are apart.                            *)
FeesFits ==
    /\ bpc \in {"analysis", "clearPool", "ready"} => latestBlockData.gen = gen /\ gen > resetGen
    /\ bpc \in {"clearPool", "ready"} => latestResult.AnalyzerBlock = gen
    /\ ready =>
          /\ latestBlockData.gen = gen /\ latestResult.AnalyzerBlock > resetGen
          /\ latestResult.AnalyzerBlock = IF bpc = "analysis" THEN gen - 1 ELSE gen

(* The analysis holds runMu from its first to its last step, so that no    *)
(* Reset comes between.                                                    *)
AnalysisFits ==
    /\ apc # "idle" => runMu = "analysis" /\ ready /\ out.data > resetGen
    /\ apc = "result" => latestResult.AnalyzerPending = out.data
    /\ apc = "send" => /\ out.block > resetGen /\ out.block >= out.data - 1
                       /\ out.pending = out.data

WorkersFit ==
    /\ wblock \in [Workers -> [Number : 0 .. MaxBlock, Time : 0 .. MaxBlock]]
    /\ wtx \in [Workers -> Hash \cup {NoTx}]

Inv ==
    /\ TypeOK /\ JobFits /\ StoreOrdered /\ FeesFits /\ AnalysisFits /\ WorkersFit

-----------------------------------------------------------------------------

SeenType == [SeenBlock : 0 .. MaxBlock, SeenBlockTime : 0 .. MaxBlock]
EntryType == [Number : Num, Waits : SUBSET (0 .. MaxBlock)]

(* What the assumption says of each constant.                              *)
LEMMA Constants ==
    /\ StartBlock \in Nat /\ StartBlock > 0 /\ MaxBlock \in Nat /\ StartBlock <= MaxBlock
    /\ MaxResync \in Nat /\ MaxBlockCount \in Nat /\ MaxBlockCount > 0 /\ StartBlock \in Num
    /\ \A n \in Num : n \in Nat /\ n > 0 /\ n <= MaxBlock /\ n \in 0 .. MaxBlock
  BY ProcessorAssumption DEF Num

(* What the proofs below use of the types.                                 *)
LEMMA Typed ==
    ASSUME Inv
    PROVE  /\ gen \in Nat /\ resetGen \in Nat /\ resetGen <= gen
           /\ latestBlockData.gen \in Nat /\ latestBlockData.gen <= gen
           /\ latestBlockData.BlockNumber \in {0} \cup Num
           /\ latestResult.AnalyzerBlock \in Nat /\ latestResult.AnalyzerBlock <= gen
           /\ latestResult.AnalyzerPending \in Nat /\ latestResult.AnalyzerPending <= gen
           /\ out.data \in Nat /\ out.data <= gen
           /\ blocks \in Seq(EntryType) /\ Len(blocks) \in Nat
           /\ \A k \in 1 .. Len(blocks) : blocks[k].Number \in Nat
           /\ IsMap(live, Hash, SeenType)
<1>1. TypeOK BY DEF Inv
<1>2. gen \in Nat BY <1>1 DEF TypeOK
<1>3. \A x \in 0 .. gen : x \in Nat /\ x <= gen BY <1>2
<1>4. /\ resetGen \in 0 .. gen /\ latestBlockData.gen \in 0 .. gen
      /\ latestBlockData.BlockNumber \in {0} \cup Num
      /\ latestResult.AnalyzerBlock \in 0 .. gen /\ latestResult.AnalyzerPending \in 0 .. gen
      /\ out.data \in 0 .. gen
  BY <1>1 DEF TypeOK
<1>5. blocks \in Seq(EntryType) BY <1>1 DEF TypeOK, EntryType
<1>6. Len(blocks) \in Nat /\ \A k \in 1 .. Len(blocks) : blocks[k] \in EntryType
  BY <1>5, LenProperties, ElementOfSeq
<1>7. \A k \in 1 .. Len(blocks) : blocks[k].Number \in Nat BY <1>6, Constants DEF EntryType
<1>8. IsMap(live, Hash, SeenType) BY <1>1 DEF TypeOK, SeenType
<1>9. QED BY <1>2, <1>3, <1>4, <1>5, <1>6, <1>7, <1>8

(* Removal keeps the type of the pool.                                     *)
LEMMA WithoutType ==
    ASSUME NEW f, IsMap(f, Hash, SeenType), NEW S
    PROVE  IsMap(Without(f, S), Hash, SeenType)
<1>1. DOMAIN Without(f, S) = DOMAIN f \ S BY DEF Without
<1>2. QED BY <1>1 DEF Without, IsMap

(* So does an offer.                                                       *)
LEMMA OfferedType ==
    ASSUME IsMap(live, Hash, SeenType), NEW h \in Hash,
           NEW b \in [Number : 0 .. MaxBlock, Time : 0 .. MaxBlock]
    PROVE  IsMap(Pool!Offered(live, h, b), Hash, SeenType)
<1> DEFINE lv == Without(live, Pool!Rivals(live, h))
<1>1. IsMap(lv, Hash, SeenType) BY WithoutType
<1>2. Pool!Seen(b) \in SeenType BY DEF Pool!Seen, SeenType
<1> HIDE DEF lv
<1> DEFINE wl == With(lv, h, Pool!Seen(b))
<1>3. DOMAIN wl = DOMAIN lv \cup {h} BY DEF With
<1>4. \A g \in DOMAIN wl : wl[g] = IF g = h THEN Pool!Seen(b) ELSE lv[g] BY DEF With
<1>5. wl \in [DOMAIN wl -> SeenType] BY <1>1, <1>2, <1>3, <1>4 DEF IsMap, With
<1>6. IsMap(wl, Hash, SeenType) BY <1>1, <1>3, <1>5 DEF IsMap
<1>7. Pool!Offered(live, h, b) \in {wl, live}
  <2>1. \A f, S : Pool!Without(f, S) = Without(f, S) BY DEF Pool!Without, Without
  <2>2. \A f, x, v : Pool!With(f, x, v) = With(f, x, v) BY DEF Pool!With, With
  <2>3. QED BY <2>1, <2>2 DEF Pool!Offered, lv
<1>8. QED BY <1>6, <1>7

(* The waits recorded for a block are counts of blocks.                    *)
LEMMA WaitsType ==
    ASSUME Inv, NEW n \in Num
    PROVE  WaitsOf(n) \in SUBSET (0 .. MaxBlock)
<1>1. ASSUME NEW h \in DOMAIN live, live[h].SeenBlock <= n
      PROVE  n - live[h].SeenBlock \in 0 .. MaxBlock
  <2>1. live[h].SeenBlock \in 0 .. MaxBlock BY Typed DEF IsMap, SeenType
  <2>2. QED BY <1>1, <2>1, Constants
<1>2. QED BY <1>1 DEF WaitsOf, Included

(* The newest block goes in front of the store, which keeps its capacity.  *)
LEMMA AddedOrdered ==
    ASSUME Inv, NEW e \in EntryType, StoreBelow(e.Number - 1),
           blocks' = Truncated(<<e>> \o blocks)
    PROVE  /\ blocks' \in Seq(EntryType) /\ Len(blocks') <= MaxBlockCount
           /\ \A j, k \in 1 .. Len(blocks') : j < k => blocks'[j].Number > blocks'[k].Number
           /\ \A k \in 1 .. Len(blocks') : blocks'[k].Number <= e.Number
<1> DEFINE s == <<e>> \o blocks
           m == IF Len(s) > MaxBlockCount THEN MaxBlockCount ELSE Len(s)
<1>1. <<e>> \in Seq(EntryType) /\ Len(<<e>>) = 1 /\ <<e>>[1] = e OBVIOUS
<1>2. /\ s \in Seq(EntryType) /\ Len(s) = 1 + Len(blocks)
      /\ \A k \in 1 .. 1 + Len(blocks) : s[k] = IF k <= 1 THEN <<e>>[k] ELSE blocks[k - 1]
  BY <1>1, Typed, ConcatProperties
<1>3. s[1] = e /\ \A k \in 2 .. Len(s) : s[k] = blocks[k - 1] /\ k - 1 \in 1 .. Len(blocks)
  BY <1>1, <1>2, Typed
<1>4. \A k \in 1 .. Len(s) : s[k] \in EntryType BY <1>2, ElementOfSeq
<1> HIDE DEF s
<1>5. m \in Nat /\ m <= Len(s) /\ m <= MaxBlockCount /\ m >= 1 BY <1>2, Typed, Constants
<1>6. blocks' = SubSeq(s, 1, m) BY DEF Truncated, s
<1> HIDE DEF m
<1>7. /\ blocks' \in Seq(EntryType) /\ Len(blocks') = m
      /\ \A k \in 1 .. m : blocks'[k] = s[k]
  <2>1. \A k \in 1 .. m : s[k] \in EntryType BY <1>2, <1>4, <1>5, Typed
  <2>2. /\ SubSeq(s, 1, m) \in Seq(EntryType)
        /\ Len(SubSeq(s, 1, m)) = IF 1 <= m THEN m - 1 + 1 ELSE 0
        /\ \A k \in 1 .. m - 1 + 1 : SubSeq(s, 1, m)[k] = s[1 + k - 1]
    BY <1>5, <2>1, SubSeqProperties
  <2>3. m - 1 + 1 = m /\ \A k \in 1 .. m : 1 + k - 1 = k BY <1>5
  <2>4. QED BY <1>5, <1>6, <2>2, <2>3
<1>8. e.Number \in Nat BY Constants DEF EntryType
<1>9. ASSUME NEW k \in 2 .. m PROVE s[k].Number <= e.Number - 1 /\ s[k].Number \in Nat
  <2>1. k \in 2 .. Len(s) BY <1>2, <1>5, Typed
  <2>2. QED BY <1>3, <2>1, Typed DEF StoreBelow
<1>10. ASSUME NEW k \in 1 .. m PROVE s[k].Number <= e.Number
  BY <1>3, <1>5, <1>8, <1>9
<1>11. ASSUME NEW j \in 1 .. m, NEW k \in 1 .. m, j < k PROVE s[j].Number > s[k].Number
  <2>1. k \in 2 .. m BY <1>5, <1>11
  <2>2. CASE j = 1 BY <1>3, <1>8, <1>9, <2>1, <2>2
  <2>3. CASE j # 1
    <3>1. j \in 2 .. Len(s) /\ k \in 2 .. Len(s) /\ j - 1 < k - 1
      <4>1. j \in Nat /\ k \in Nat /\ j >= 1 /\ j <= m /\ k <= m /\ k >= 2 BY <1>5, <2>1
      <4>2. j >= 2 BY <2>3, <4>1
      <4>3. Len(s) \in Nat BY <1>2, Typed
      <4>4. QED BY <1>5, <1>11, <4>1, <4>2, <4>3
    <3>2. QED BY <1>3, <3>1 DEF Inv, StoreOrdered
  <2>4. QED BY <2>2, <2>3
<1>12. QED BY <1>5, <1>7, <1>10, <1>11

-----------------------------------------------------------------------------

(* Nothing has begun.                                                      *)
LEMMA InitInv == Init => Inv
<1> SUFFICES ASSUME Init PROVE Inv OBVIOUS
<1>1. <<>> \in Seq(EntryType) /\ Len(<<>>) = 0 BY EmptySeq
<1>2. IsMap(EmptyMap, Hash, SeenType) BY DEF EmptyMap, IsMap
<1>3. 0 \in 0 .. MaxBlock /\ 0 \in 0 .. 0 /\ 0 \in 0 .. MaxResync /\ 0 <= MaxBlockCount BY Constants
<1>4. TypeOK
  <2>1. ZeroData \in [BlockNumber : {0} \cup Num, gen : 0 .. 0]
        /\ ZeroResult \in [AnalyzerBlock : 0 .. 0, AnalyzerPending : 0 .. 0]
        /\ NoOut \in [data : 0 .. 0, block : 0 .. 0, pending : 0 .. 0]
    BY <1>3 DEF ZeroData, ZeroResult, NoOut
  <2>2. QED BY <1>1, <1>2, <1>3, <2>1 DEF Init, TypeOK, SeenType, EntryType
<1>5. JobFits BY <1>3 DEF Init, JobFits, JobType, NoJob
<1>6. StoreOrdered BY <1>1 DEF Init, StoreOrdered
<1>7. FeesFits /\ AnalysisFits BY DEF Init, FeesFits, AnalysisFits
<1>8. WorkersFit BY <1>3 DEF Init, WorkersFit, BlockAt
<1>9. QED BY <1>4, <1>5, <1>6, <1>7, <1>8 DEF Inv

(* The steps that begin a job.                                             *)
LEMMA BeginStep ==
    ASSUME Inv, Initialize \/ ProcessBlock \/ SkipBlock \/ \E n \in Num : Resync(n)
    PROVE  Inv'
<1>1. UNCHANGED <<content, pstate, analyzer, fpc, wvars, avars>> /\ bpc \in {"start", "idle"}
  BY DEF Initialize, ProcessBlock, SkipBlock, Resync, fvars
<1>2. bpc = "idle" => done \in Num /\ StoreBelow(done) BY DEF Inv, JobFits, StoreOrdered
<1>3. bpc = "idle" /\ done < MaxBlock => done + 1 \in Num BY <1>2, Constants DEF Num
<1>4. ASSUME bpc = "idle", done < MaxBlock
       PROVE  done + 1 \in Num /\ StoreBelow(done + 1 - 1) /\ StoreBelow(done + 1)
  <2>0. done \in Num BY <1>2, <1>4
  <2>1. done \in Nat BY <2>0, Constants
  <2>2. done + 1 - 1 = done BY <2>1
  <2>3. StoreBelow(done) BY <1>2, <1>4
  <2>4. ASSUME NEW k \in 1 .. Len(blocks) PROVE blocks[k].Number <= done + 1
    <3>1. blocks[k].Number \in Nat BY Typed
    <3>2. blocks[k].Number <= done BY <2>3 DEF StoreBelow
    <3>3. QED BY <2>1, <3>1, <3>2
  <2>5. QED BY <1>3, <1>4, <2>2, <2>3, <2>4 DEF StoreBelow
<1>5. /\ bpc' \in {"idle", "reset", "clear", "add", "expire"}
      /\ done' \in {0} \cup Num /\ (bpc' = "idle" => done' \in Num)
      /\ resyncs' \in 0 .. MaxResync /\ failed' \subseteq Num
      /\ job' \in JobType /\ (bpc' # "idle" => job'.Number \in Num)
      /\ bpc' = "reset" => job'.Kind = "resync"
      /\ bpc' = "clear" => job'.Kind = "process"
      /\ bpc' = "idle" => StoreBelow(done')
      /\ bpc' \in {"clear", "add"} => StoreBelow(job'.Number - 1)
      /\ bpc' = "expire" => StoreBelow(job'.Number)
  <2>0. /\ done \in {0} \cup Num /\ resyncs \in 0 .. MaxResync /\ failed \subseteq Num /\ job \in JobType
    BY DEF Inv, TypeOK, JobFits
  <2>1. \A n \in Num, kind \in {"init", "process", "empty", "resync"} :
           Job(kind, n) \in JobType /\ Job(kind, n).Kind = kind /\ Job(kind, n).Number = n
    BY DEF Job, JobType
  <2>2. CASE Initialize
    <3>1. blocks = <<>> /\ Len(blocks) = 0 BY <2>2, EmptySeq DEF Initialize, Inv, StoreOrdered
    <3>2. QED
      BY <2>0, <2>1, <2>2, <3>1, Constants DEF Initialize, fvars, StoreBelow
  <2>3. CASE ProcessBlock
    <3>1. /\ done + 1 \in Num /\ StoreBelow(done + 1 - 1) /\ StoreBelow(done + 1)
      BY <1>4, <2>3 DEF ProcessBlock
    <3>2. QED BY <2>0, <2>1, <2>3, <3>1 DEF ProcessBlock, fvars
  <2>4. CASE SkipBlock
    <3>1. done + 1 \in Num /\ StoreBelow(done + 1) BY <1>4, <2>4 DEF SkipBlock
    <3>2. QED BY <2>0, <2>4, <3>1 DEF SkipBlock
  <2>5. CASE \E n \in Num : Resync(n)
    <3>0. PICK n \in Num : Resync(n) BY <2>5
    <3>1. resyncs' \in 0 .. MaxResync BY <2>0, <3>0, Constants DEF Resync
    <3>2. QED BY <2>0, <2>1, <3>0, <3>1 DEF Resync, fvars
  <2>6. QED BY <2>2, <2>3, <2>4, <2>5
<1>6. TypeOK' BY <1>1, <1>5 DEF Inv, TypeOK, pstate, analyzer, wvars, avars
<1>7. JobFits' BY <1>5 DEF JobFits
<1>8. StoreOrdered' BY <1>1, <1>5 DEF Inv, StoreOrdered, StoreBelow, pstate
<1>9. FeesFits' BY <1>1, <1>5 DEF Inv, FeesFits, analyzer
<1>10. AnalysisFits' /\ WorkersFit' BY <1>1 DEF Inv, AnalysisFits, WorkersFit, analyzer, wvars, avars
<1>11. QED BY <1>6, <1>7, <1>8, <1>9, <1>10 DEF Inv

(* The steps that change the pool and leave the rest of the state alone.   *)
LEMMA PoolStep ==
    ASSUME Inv, ClearMempoolToReceipts \/ removeExpired \/ ClearPool \/ CleanupFailedBlock
    PROVE  Inv'
<1>1. IsMap(live', Hash, SeenType)
  <2>1. IsMap(live, Hash, SeenType) BY Typed
  <2>2. \A f, S : Pool!Without(f, S) = Without(f, S) BY DEF Pool!Without, Without
  <2>3. IsMap(EmptyMap, Hash, SeenType) /\ Pool!EmptyMap = EmptyMap
    BY DEF EmptyMap, Pool!EmptyMap, IsMap
  <2>4. QED
    BY <2>1, <2>2, <2>3, WithoutType
    DEF ClearMempoolToReceipts, removeExpired, ClearPool, CleanupFailedBlock, Pool!Expire,
        Pool!Fresh, Pool!Clear
<1>2. UNCHANGED <<content, blocks, analyzer, done, resyncs, failed, wvars, avars>>
  BY DEF ClearMempoolToReceipts, removeExpired, ClearPool, CleanupFailedBlock, bvars, fvars
<1>3. fpc' \in {fpc, 0} /\ fpc \in {0} \cup Num
  BY DEF ClearMempoolToReceipts, removeExpired, ClearPool, CleanupFailedBlock, fvars, Inv, TypeOK
<1>4. \/ bpc = "clear" /\ bpc' = "add" /\ job' = [job EXCEPT !.Waits = WaitsOf(job.Number)]
      \/ bpc = "expire" /\ bpc' = "latest" /\ job' = job
      \/ bpc = "clearPool" /\ bpc' = "ready" /\ job' = job
      \/ bpc' = bpc /\ job' = job
  BY DEF ClearMempoolToReceipts, removeExpired, ClearPool, CleanupFailedBlock, bvars
<1>5. job \in JobType /\ bpc \in {"start", "idle", "reset", "clearStore", "clear", "add", "expire",
                "latest", "analysis", "clearPool", "ready"}
  BY DEF Inv, TypeOK, JobFits
<1>6. job' \in JobType /\ job'.Number = job.Number /\ job'.Kind = job.Kind
  <2>1. CASE bpc = "clear" /\ job' = [job EXCEPT !.Waits = WaitsOf(job.Number)]
    <3>1. job.Number \in Num BY <2>1 DEF Inv, JobFits
    <3>2. WaitsOf(job.Number) \in SUBSET (0 .. MaxBlock) BY <3>1, WaitsType
    <3>3. QED BY <1>5, <2>1, <3>2 DEF JobType
  <2>2. CASE job' = job BY <1>5, <2>2
  <2>3. QED BY <1>4, <2>1, <2>2
<1>7. TypeOK'
  BY <1>1, <1>2, <1>3, <1>4, <1>5 DEF Inv, TypeOK, SeenType, analyzer, wvars, avars
<1>8. JobFits' BY <1>2, <1>4, <1>5, <1>6 DEF Inv, JobFits
<1>9. StoreOrdered' BY <1>2, <1>4, <1>6 DEF Inv, StoreOrdered, StoreBelow
<1>10. FeesFits' BY <1>2, <1>4 DEF Inv, FeesFits, analyzer
<1>11. AnalysisFits' /\ WorkersFit' BY <1>2 DEF Inv, AnalysisFits, WorkersFit, analyzer, wvars, avars
<1>12. QED BY <1>7, <1>8, <1>9, <1>10, <1>11 DEF Inv

(* Reset waits for runMu, and so for the end of a running analysis.        *)
LEMMA ResetStep == ASSUME Inv, Reset PROVE Inv'
<1>1. /\ bpc = "reset" /\ runMu = "free" /\ bpc' = "clearStore" /\ ready' = FALSE
      /\ latestResult' = ZeroResult /\ latestBlockData' = ZeroData /\ resetGen' = gen
      /\ UNCHANGED <<content, pstate, gen, job, done, resyncs, fvars, wvars, avars>>
  BY DEF Reset, runMuFree
<1>2. apc = "idle" BY <1>1 DEF Inv, AnalysisFits
<1>3. gen \in 0 .. gen /\ 0 \in 0 .. gen BY Typed
<1>4. /\ ZeroData \in [BlockNumber : {0} \cup Num, gen : 0 .. gen]
      /\ ZeroResult \in [AnalyzerBlock : 0 .. gen, AnalyzerPending : 0 .. gen]
  BY <1>3 DEF ZeroData, ZeroResult
<1>5. TypeOK' BY <1>1, <1>3, <1>4 DEF Inv, TypeOK, pstate, fvars, wvars, avars
<1>6. JobFits' BY <1>1 DEF Inv, JobFits
<1>7. StoreOrdered' BY <1>1 DEF Inv, StoreOrdered, pstate
<1>8. FeesFits' BY <1>1 DEF FeesFits
<1>9. AnalysisFits' /\ WorkersFit' BY <1>1, <1>2 DEF Inv, AnalysisFits, WorkersFit, wvars, avars
<1>10. QED BY <1>5, <1>6, <1>7, <1>8, <1>9 DEF Inv

(* The first half of an update: the block fees are now one update behind.  *)
LEMMA LatestStep == ASSUME Inv, UpdateLatestBlockData PROVE Inv'
<1>1. /\ bpc = "latest" /\ bpc' = "analysis" /\ gen' = gen + 1
      /\ latestBlockData' = [BlockNumber |-> job.Number, gen |-> gen + 1]
      /\ UNCHANGED <<content, pstate, ready, latestResult, resetGen, job, done, resyncs,
                     fvars, wvars, avars>>
  BY DEF UpdateLatestBlockData
<1>2. gen \in Nat /\ gen + 1 \in Nat /\ gen + 1 \in 0 .. gen + 1 /\ (\A x \in 0 .. gen : x \in 0 .. gen + 1)
  BY Typed
<1>3. job.Number \in Num BY <1>1 DEF Inv, JobFits
<1>4. latestBlockData' \in [BlockNumber : {0} \cup Num, gen : 0 .. gen'] BY <1>1, <1>2, <1>3
<1>5. /\ latestResult' \in [AnalyzerBlock : 0 .. gen', AnalyzerPending : 0 .. gen']
      /\ out' \in [data : 0 .. gen', block : 0 .. gen', pending : 0 .. gen']
      /\ gen' \in Nat /\ resetGen' \in 0 .. gen'
  BY <1>1, <1>2 DEF Inv, TypeOK, avars
<1>6. TypeOK' BY <1>1, <1>4, <1>5 DEF Inv, TypeOK, pstate, fvars, wvars, avars
<1>7. JobFits' BY <1>1 DEF Inv, JobFits
<1>8. StoreOrdered' BY <1>1 DEF Inv, StoreOrdered, StoreBelow, pstate
<1>9. FeesFits'
  <2>1. latestBlockData'.gen = gen' /\ gen' > resetGen' BY <1>1, Typed
  <2>2. ready' => latestResult'.AnalyzerBlock > resetGen' /\ latestResult'.AnalyzerBlock = gen' - 1
    BY <1>1, Typed DEF Inv, FeesFits
  <2>3. QED BY <1>1, <2>1, <2>2 DEF FeesFits
<1>10. AnalysisFits' /\ WorkersFit' BY <1>1 DEF Inv, AnalysisFits, WorkersFit, wvars, avars
<1>11. QED BY <1>6, <1>7, <1>8, <1>9, <1>10 DEF Inv

(* The second half, with which a job ends, or goes on to SetReady.         *)
LEMMA BlockFeesStep == ASSUME Inv, UpdateAnalBlock PROVE Inv'
<1>1. /\ bpc = "analysis" /\ done' = job.Number /\ bpc' = AfterAnalysis(job.Kind)
      /\ latestResult' = [latestResult EXCEPT !.AnalyzerBlock = gen]
      /\ job' = IF bpc' = "idle" THEN NoJob ELSE job
      /\ UNCHANGED <<content, pstate, ready, latestBlockData, gen, resetGen, resyncs,
                     fvars, wvars, avars>>
  BY DEF UpdateAnalBlock, BlockFees
<1>2. job \in JobType /\ job.Number \in Num BY <1>1 DEF Inv, JobFits
<1>3. /\ bpc' \in {"ready", "clearPool", "idle"}
      /\ bpc' = "ready" => job.Kind = "init"
      /\ bpc' = "clearPool" => job.Kind = "resync"
  <2>1. CASE job.Kind = "init" BY <1>1, <2>1 DEF AfterAnalysis
  <2>2. CASE job.Kind = "resync" BY <1>1, <2>2 DEF AfterAnalysis
  <2>3. CASE job.Kind # "init" /\ job.Kind # "resync" BY <1>1, <2>3 DEF AfterAnalysis
  <2>4. QED BY <2>1, <2>2, <2>3
<1>4. gen \in Nat /\ gen \in 0 .. gen BY Typed
<1>5. latestResult \in [AnalyzerBlock : 0 .. gen, AnalyzerPending : 0 .. gen] BY DEF Inv, TypeOK
<1>6. /\ latestResult' \in [AnalyzerBlock : 0 .. gen, AnalyzerPending : 0 .. gen]
      /\ latestResult'.AnalyzerBlock = gen
      /\ latestResult'.AnalyzerPending = latestResult.AnalyzerPending
  BY <1>1, <1>4, <1>5
<1>7. TypeOK' BY <1>1, <1>2, <1>3, <1>6 DEF Inv, TypeOK, pstate, fvars, wvars, avars
<1>8. JobFits'
  <2>1. NoJob \in JobType BY Constants DEF NoJob, JobType
  <2>2. QED BY <1>1, <1>2, <1>3, <2>1 DEF JobFits
<1>9. StoreOrdered' BY <1>1, <1>3 DEF Inv, StoreOrdered, StoreBelow, pstate
<1>10. FeesFits' BY <1>1, <1>3, <1>6 DEF Inv, FeesFits
<1>11. AnalysisFits' /\ WorkersFit' BY <1>1, <1>6 DEF Inv, AnalysisFits, WorkersFit, wvars, avars
<1>12. QED BY <1>7, <1>8, <1>9, <1>10, <1>11 DEF Inv

(* The analyzer becomes ready with fees of the new lifecycle.              *)
LEMMA ReadyStep == ASSUME Inv, SetReady PROVE Inv'
<1>1. /\ bpc = "ready" /\ bpc' = "idle" /\ ready' = TRUE /\ job' = NoJob
      /\ UNCHANGED <<content, pstate, latestBlockData, latestResult, gen, resetGen,
                     done, resyncs, fvars, wvars, avars>>
  BY DEF SetReady
<1>2. TypeOK' BY <1>1 DEF Inv, TypeOK, pstate, fvars, wvars, avars
<1>3. JobFits'
  <2>1. NoJob \in JobType BY Constants DEF NoJob, JobType
  <2>2. QED BY <1>1, <2>1 DEF Inv, JobFits
<1>4. StoreOrdered' BY <1>1 DEF Inv, StoreOrdered, StoreBelow, pstate
<1>5. FeesFits' BY <1>1 DEF Inv, FeesFits
<1>6. AnalysisFits' /\ WorkersFit' BY <1>1 DEF Inv, AnalysisFits, WorkersFit, wvars, avars
<1>7. QED BY <1>2, <1>3, <1>4, <1>5, <1>6 DEF Inv

(* The steps on the block store.                                           *)
LEMMA StoreStep == ASSUME Inv, ClearStore \/ AddBlock PROVE Inv'
<1>1. UNCHANGED <<content, live, analyzer, job, done, resyncs, fvars, wvars, avars>>
  BY DEF ClearStore, AddBlock
<1>2. bpc \in {"clearStore", "add"} /\ job \in JobType /\ job.Number \in Num
  BY DEF ClearStore, AddBlock, Inv, JobFits
<1>3. /\ bpc' \in {"add", "expire", "latest"}
      /\ blocks' \in Seq(EntryType) /\ Len(blocks') <= MaxBlockCount
      /\ \A j, k \in 1 .. Len(blocks') : j < k => blocks'[j].Number > blocks'[k].Number
      /\ \A k \in 1 .. Len(blocks') :
            blocks'[k].Number <= IF bpc' = "add" THEN job.Number - 1 ELSE job.Number
  <2>1. CASE ClearStore
    <3>1. blocks' = <<>> /\ bpc' = "add" BY <2>1 DEF ClearStore, Cleared
    <3>2. <<>> \in Seq(EntryType) /\ Len(<<>>) = 0 BY EmptySeq
    <3>3. QED BY <3>1, <3>2, Constants
  <2>2. CASE AddBlock
    <3> DEFINE e == [Number |-> job.Number, Waits |-> job.Waits]
    <3>1. e \in EntryType /\ e.Number = job.Number BY <1>2 DEF EntryType, JobType
    <3>2. StoreBelow(e.Number - 1) BY <2>2, <3>1 DEF AddBlock, Inv, StoreOrdered
    <3>3. blocks' = Truncated(<<e>> \o blocks) /\ bpc' \in {"expire", "latest"}
      BY <2>2 DEF AddBlock
    <3> HIDE DEF e
    <3>4. QED BY <3>1, <3>2, <3>3, AddedOrdered
  <2>3. QED BY <2>1, <2>2
<1>4. TypeOK' BY <1>1, <1>3 DEF Inv, TypeOK, EntryType, analyzer, fvars, wvars, avars
<1>5. JobFits' BY <1>1, <1>2, <1>3 DEF JobFits
<1>6. StoreOrdered' BY <1>1, <1>3 DEF StoreOrdered, StoreBelow
<1>7. FeesFits' BY <1>1, <1>2, <1>3 DEF Inv, FeesFits, analyzer
<1>8. AnalysisFits' /\ WorkersFit' BY <1>1 DEF Inv, AnalysisFits, WorkersFit, analyzer, wvars, avars
<1>9. QED BY <1>4, <1>5, <1>6, <1>7, <1>8 DEF Inv

(* The workers, and the fetch of a failed block.                           *)
LEMMA WorkerStep ==
    ASSUME Inv, FetchFailedBlock \/ \E w \in Workers : FetchTx(w) \/ StampTx(w) \/ PushTx(w)
    PROVE  Inv'
<1>1. UNCHANGED <<content, blocks, analyzer, bvars, avars>>
  BY DEF FetchFailedBlock, FetchTx, StampTx, PushTx, pstate
<1>2. /\ wblock \in [Workers -> [Number : 0 .. MaxBlock, Time : 0 .. MaxBlock]]
      /\ wtx \in [Workers -> Hash \cup {NoTx}]
      /\ wpc \in [Workers -> {"idle", "fetched", "stamped"}] /\ coming \subseteq Hash
      /\ fpc \in {0} \cup Num /\ failed \subseteq Num
      /\ IsMap(live, Hash, SeenType)
  BY Typed DEF Inv, WorkersFit, TypeOK
<1>3. \A n \in {0} \cup Num : BlockAt(n) \in [Number : 0 .. MaxBlock, Time : 0 .. MaxBlock]
  BY Constants DEF BlockAt
<1>4. /\ WorkersFit' /\ wpc' \in [Workers -> {"idle", "fetched", "stamped"}]
      /\ coming' \subseteq Hash /\ fpc' \in {0} \cup Num /\ failed' \subseteq Num
      /\ IsMap(live', Hash, SeenType)
  <2>1. CASE FetchFailedBlock
    <3>1. UNCHANGED <<live, wpc, wtx, wblock, coming>> BY <2>1 DEF FetchFailedBlock, pstate, wvars
    <3>2. fpc' \in {0} \cup Num /\ failed' \subseteq Num BY <1>2, <2>1 DEF FetchFailedBlock
    <3>3. QED BY <1>2, <3>1, <3>2 DEF WorkersFit
  <2>2. CASE \E w \in Workers : FetchTx(w)
    <3>0. PICK w \in Workers : FetchTx(w) BY <2>2
    <3>1. UNCHANGED <<live, wblock, fpc, failed>> BY <3>0 DEF FetchTx, pstate, fvars
    <3>2. QED BY <1>2, <3>0, <3>1 DEF FetchTx, WorkersFit
  <2>3. CASE \E w \in Workers : StampTx(w)
    <3>0. PICK w \in Workers : StampTx(w) BY <2>3
    <3>1. UNCHANGED <<live, wtx, coming, fpc, failed>> BY <3>0 DEF StampTx, pstate, fvars
    <3>2. BlockAt(latestBlockData.BlockNumber) \in [Number : 0 .. MaxBlock, Time : 0 .. MaxBlock]
      BY <1>3, Typed
    <3>3. QED BY <1>2, <3>0, <3>1, <3>2 DEF StampTx, WorkersFit
  <2>4. CASE \E w \in Workers : PushTx(w)
    <3>0. PICK w \in Workers : PushTx(w) BY <2>4
    <3>1. UNCHANGED <<coming, fpc, failed>> BY <3>0 DEF PushTx, fvars
    <3>2. BlockAt(0) \in [Number : 0 .. MaxBlock, Time : 0 .. MaxBlock] BY <1>3
    <3>3. IsMap(live', Hash, SeenType)
      BY <1>2, <3>0, OfferedType DEF PushTx, Pool!Offer
    <3>4. QED BY <1>2, <3>0, <3>1, <3>2, <3>3 DEF PushTx, WorkersFit
  <2>5. QED BY <2>1, <2>2, <2>3, <2>4
<1>5. TypeOK' BY <1>1, <1>4 DEF Inv, TypeOK, SeenType, analyzer, bvars, avars
<1>6. JobFits' BY <1>1 DEF Inv, JobFits, bvars
<1>7. StoreOrdered' BY <1>1 DEF Inv, StoreOrdered, StoreBelow, bvars
<1>8. FeesFits' BY <1>1 DEF Inv, FeesFits, analyzer, bvars
<1>9. AnalysisFits' BY <1>1 DEF Inv, AnalysisFits, analyzer, avars
<1>10. QED BY <1>4, <1>5, <1>6, <1>7, <1>8, <1>9 DEF Inv

(* An analysis: what it starts from, what it stores and what it sends.     *)
LEMMA AnalysisStep ==
    ASSUME Inv, StartAnalysis \/ UpdateAnalPending \/ UpdateResult \/ sendResultToGRPC
    PROVE  Inv'
<1>1. UNCHANGED <<content, pstate, ready, latestBlockData, gen, resetGen, bvars, fvars, wvars>>
  BY DEF StartAnalysis, UpdateAnalPending, UpdateResult, sendResultToGRPC, analyzer
<1>2. /\ out \in [data : 0 .. gen, block : 0 .. gen, pending : 0 .. gen]
      /\ latestResult \in [AnalyzerBlock : 0 .. gen, AnalyzerPending : 0 .. gen]
      /\ 0 \in 0 .. gen /\ latestBlockData.gen \in 0 .. gen
  BY Typed DEF Inv, TypeOK
<1>3. /\ out' \in [data : 0 .. gen, block : 0 .. gen, pending : 0 .. gen]
      /\ latestResult' \in [AnalyzerBlock : 0 .. gen, AnalyzerPending : 0 .. gen]
      /\ latestResult'.AnalyzerBlock = latestResult.AnalyzerBlock
      /\ apc' \in {"idle", "collect", "result", "send"} /\ runMu' \in {"free", "analysis"}
      /\ AnalysisFits'
  <2>1. CASE StartAnalysis
    <3>1. /\ out' = [NoOut EXCEPT !.data = latestBlockData.gen] /\ latestResult' = latestResult
          /\ apc' = "collect" /\ runMu' = "analysis" /\ ready
      BY <2>1 DEF StartAnalysis, analyzer
    <3>2. /\ out' \in [data : 0 .. gen, block : 0 .. gen, pending : 0 .. gen]
          /\ out'.data = latestBlockData.gen
      BY <1>2, <3>1 DEF NoOut
    <3>3. latestBlockData.gen > resetGen BY <3>1, Typed DEF Inv, FeesFits
    <3>4. QED BY <1>1, <1>2, <3>1, <3>2, <3>3 DEF AnalysisFits
  <2>2. CASE UpdateAnalPending
    <3>1. /\ latestResult' = [latestResult EXCEPT !.AnalyzerPending = out.data]
          /\ apc = "collect" /\ apc' = "result" /\ out' = out /\ runMu' = runMu
      BY <2>2 DEF UpdateAnalPending
    <3>2. /\ latestResult' \in [AnalyzerBlock : 0 .. gen, AnalyzerPending : 0 .. gen]
          /\ latestResult'.AnalyzerBlock = latestResult.AnalyzerBlock
          /\ latestResult'.AnalyzerPending = out.data
      BY <1>2, <3>1
    <3>3. QED BY <1>1, <1>2, <3>1, <3>2 DEF Inv, TypeOK, AnalysisFits
  <2>3. CASE UpdateResult
    <3>1. /\ out' = [out EXCEPT !.block = latestResult.AnalyzerBlock,
                                !.pending = latestResult.AnalyzerPending]
          /\ apc = "result" /\ apc' = "send" /\ latestResult' = latestResult /\ runMu' = runMu
      BY <2>3 DEF UpdateResult, analyzer
    <3>2. /\ out' \in [data : 0 .. gen, block : 0 .. gen, pending : 0 .. gen]
          /\ out'.data = out.data /\ out'.block = latestResult.AnalyzerBlock
          /\ out'.pending = latestResult.AnalyzerPending
      BY <1>2, <3>1
    <3>3. /\ runMu = "analysis" /\ ready /\ out.data > resetGen
          /\ latestResult.AnalyzerPending = out.data
      BY <3>1 DEF Inv, AnalysisFits
    <3>4. /\ latestResult.AnalyzerBlock > resetGen
          /\ latestResult.AnalyzerBlock >= out.data - 1
      BY <3>3, Typed DEF Inv, FeesFits
    <3>5. QED BY <1>1, <1>2, <3>1, <3>2, <3>3, <3>4 DEF AnalysisFits
  <2>4. CASE sendResultToGRPC
    <3>1. apc' = "idle" /\ out' = NoOut /\ runMu' = "free" /\ latestResult' = latestResult
      BY <2>4 DEF sendResultToGRPC, analyzer
    <3>2. QED BY <1>2, <3>1 DEF AnalysisFits, NoOut
  <2>5. QED BY <2>1, <2>2, <2>3, <2>4
<1>4. TypeOK' BY <1>1, <1>3 DEF Inv, TypeOK, pstate, bvars, fvars, wvars
<1>5. JobFits' BY <1>1 DEF Inv, JobFits, bvars
<1>6. StoreOrdered' BY <1>1 DEF Inv, StoreOrdered, StoreBelow, pstate, bvars
<1>7. FeesFits' BY <1>1, <1>3 DEF Inv, FeesFits, bvars
<1>8. WorkersFit' BY <1>1 DEF Inv, WorkersFit, wvars
<1>9. QED BY <1>3, <1>4, <1>5, <1>6, <1>7, <1>8 DEF Inv

(* Every step of every goroutine keeps the invariant.                      *)
LEMMA NextInv == Inv /\ [Next]_vars => Inv'
<1> SUFFICES ASSUME Inv, [Next]_vars PROVE Inv' OBVIOUS
<1>1. CASE BlockStep
  BY <1>1, BeginStep, PoolStep, ResetStep, LatestStep, BlockFeesStep, ReadyStep, StoreStep
  DEF BlockStep
<1>2. CASE ProcessBlock \/ SkipBlock \/ \E n \in Num : Resync(n) BY <1>2, BeginStep
<1>3. CASE CleanupFailedBlock BY <1>3, PoolStep
<1>4. CASE FetchFailedBlock \/ \E w \in Workers : FetchTx(w) \/ StampTx(w) \/ PushTx(w)
  BY <1>4, WorkerStep
<1>5. CASE StartAnalysis \/ AnalyzerStep BY <1>5, AnalysisStep DEF AnalyzerStep
<1>6. CASE UNCHANGED vars
  BY <1>6 DEF vars, pstate, analyzer, bvars, fvars, wvars, avars, Inv, TypeOK, JobFits,
              StoreOrdered, StoreBelow, FeesFits, AnalysisFits, WorkersFit
<1>7. QED BY <1>1, <1>2, <1>3, <1>4, <1>5, <1>6 DEF Next, Quiet

(* The invariant holds throughout.                                         *)
THEOREM Invariance == Spec => []Inv
  BY InitInv, NextInv, PTL DEF Spec

(* The store is newest first without repetition, whatever was skipped and  *)
(* wherever a Resync went back to.                                         *)
THEOREM StoreNewestFirst == Spec => []BlocksNewestFirst
<1>1. Inv => BlocksNewestFirst BY DEF Inv, StoreOrdered, BlocksNewestFirst
<1>2. QED BY <1>1, Invariance, PTL

(* runMu makes Reset and AnalyzeGasPrice exclude each other: no prediction *)
(* mixes the data of two lifecycles.                                       *)
THEOREM OneLifecycle == Spec => []PredictionOfOneLifecycle
<1>1. Inv => PredictionOfOneLifecycle BY DEF Inv, AnalysisFits, PredictionOfOneLifecycle
<1>2. QED BY <1>1, Invariance, PTL

(* The two critical sections of an update let the block fees of a          *)
(* prediction be older than its block data by at most one update.  Newer   *)
(* they may be by any number: the analysis reads the data first.           *)
THEOREM OneBehind == Spec => []PredictionAtMostOneBehind
<1>1. Inv => PredictionAtMostOneBehind BY DEF Inv, AnalysisFits, PredictionAtMostOneBehind
<1>2. QED BY <1>1, Invariance, PTL

=============================================================================
