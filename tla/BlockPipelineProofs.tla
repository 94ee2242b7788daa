-------------------------- MODULE BlockPipelineProofs --------------------------
(***************************************************************************)
(* The block pipeline, proved for any channel capacities, any number of    *)
(* attempts, any lag and a chain of any length with any reorgs.            *)
(***************************************************************************)
EXTENDS BlockPipeline, SequenceTheorems, WellFoundedInduction, TLAPS

(* What was done with is the run of blocks after base.                     *)
InOrder ==
    IF pc \in Unstarted THEN log = <<>> /\ pendingBlock = EmptyMap
    ELSE /\ base \in BlockNum /\ nextBlockNum = base + Len(log) + 1
         /\ \A k \in 1 .. Len(log) : log[k] = base + k

(* No header is newer than the chain's version of its block.               *)
Produced(h) == h.Hash <= chain[h.Number]

HeadersProduced ==
    /\ \A k \in 1 .. Len(headerChan) : Produced(headerChan[k])
    /\ \A n \in DOMAIN pendingBlock : Produced(pendingBlock[n])

(* The header at work is the waiting one whose turn it is, or the newest.  *)
AtWork ==
    /\ pc \in {"initialize", "newest"} => hdr \in HeaderType
    /\ pc \in {"attempt", "delay", "stale"} =>
          nextBlockNum \in DOMAIN pendingBlock /\ hdr = pendingBlock[nextBlockNum]
    /\ pc = "delay" => attempt < RetryCount

(* The gap begins at the next block and ends at a waiting one.             *)
InGap ==
    pc = "backfill" => nextBlockNum <= gapNum /\ gapNum <= gapTop /\ gapTop \in DOMAIN pendingBlock

Checking == fpc = "check" => fhdr \in HeaderType

Inv ==
    /\ TypeOK /\ InOrder /\ NoLostWakeup
    /\ HeadersProduced /\ AtWork /\ InGap /\ Checking

-----------------------------------------------------------------------------
(* A nonempty set of numbers has a smallest.                               *)
LEMMA Smallest ==
    ASSUME NEW T, T \subseteq Nat, T # {}
    PROVE  \E m \in T : \A k \in T : m <= k
<1> DEFINE R == OpToRel(<, Nat)
<1>1. IsWellFoundedOn(R, Nat) BY NatLessThanWellFounded, Zenon
<1>2. \A k, m \in Nat : k < m => <<k, m>> \in R BY DEF OpToRel
<1> HIDE DEF R
<1>3. PICK m \in T : \A k \in T : ~(<<k, m>> \in R) BY <1>1, WFMin
<1>4. \A k \in T : ~(k < m) BY <1>2, <1>3
<1>5. \A k \in T : k \in Nat /\ m \in Nat OBVIOUS
<1>6. QED BY <1>4, <1>5

(* A set of numbers with an upper bound has a largest.                     *)
LEMMA Largest ==
    ASSUME NEW b \in Nat, NEW S, S \subseteq 0 .. b, S # {}
    PROVE  Max(S) \in S /\ \A y \in S : y <= Max(S)
<1> DEFINE T == {b - x : x \in S}
<1>1. \A x \in S : x \in Nat /\ x <= b OBVIOUS
<1>2. T \subseteq Nat /\ T # {}
  <2>1. \A x \in S : b - x \in Nat BY <1>1
  <2>2. PICK x \in S : TRUE OBVIOUS
  <2>3. b - x \in T OBVIOUS
  <2>4. QED BY <2>1, <2>3
<1>3. PICK m \in T : \A k \in T : m <= k BY <1>2, Smallest
<1>4. PICK x \in S : m = b - x OBVIOUS
<1>5. ASSUME NEW y \in S PROVE x >= y
  <2>1. m <= b - y BY <1>3
  <2>2. QED BY <1>1, <1>4, <2>1
<1>6. \E z \in S : \A y \in S : z >= y BY <1>5
<1>7. Max(S) \in S /\ \A y \in S : Max(S) >= y BY <1>6 DEF Max
<1>8. QED BY <1>1, <1>7

(* What the assumption says of each constant.                              *)
LEMMA Constants ==
    /\ HeadBufferSize \in Nat /\ HeadBufferSize > 0
    /\ FailedBlockBufferSize \in Nat /\ FailedBlockBufferSize > 0
    /\ RetryCount \in Nat /\ RetryCount > 0 /\ MaxBlockLag \in Nat /\ MaxBlockLag > 0
    /\ InitHead \in Nat /\ InitHead > 0 /\ MaxBlock \in Nat /\ InitHead <= MaxBlock
    /\ MaxVersion \in Nat
  BY PipelineAssumption

(* What the proofs below use of the types.                                 *)
LEMMA Typed ==
    ASSUME Inv
    PROVE  /\ head \in Nat /\ 1 <= head /\ head <= MaxBlock
           /\ nextBlockNum \in Nat /\ base \in Nat /\ gapNum \in Nat /\ gapTop \in Nat
           /\ attempt \in Nat
           /\ DOMAIN pendingBlock \subseteq BlockNum
           /\ \A n \in DOMAIN pendingBlock :
                 /\ n \in Nat /\ 1 <= n /\ n <= MaxBlock /\ n >= nextBlockNum
                 /\ pendingBlock[n] \in HeaderType /\ pendingBlock[n].Number = n
           /\ headerChan \in Seq(HeaderType) /\ failedBlockChan \in Seq(HeaderType)
           /\ log \in Seq(BlockNum) /\ Len(log) \in Nat
<1>1. TypeOK BY DEF Inv
<1>2. head \in Nat /\ 1 <= head /\ head <= MaxBlock BY <1>1, Constants DEF TypeOK, BlockNum
<1>3. /\ nextBlockNum \in Nat /\ base \in Nat /\ gapNum \in Nat /\ gapTop \in Nat
      /\ attempt \in Nat
  BY <1>1, Constants DEF TypeOK
<1>4. DOMAIN pendingBlock \subseteq BlockNum /\ \A n \in DOMAIN pendingBlock : pendingBlock[n] \in HeaderType
  BY <1>1 DEF TypeOK, IsMap
<1>5. ASSUME NEW n \in DOMAIN pendingBlock
      PROVE  /\ n \in Nat /\ 1 <= n /\ n <= MaxBlock /\ n >= nextBlockNum
             /\ pendingBlock[n] \in HeaderType /\ pendingBlock[n].Number = n
  BY <1>4, Constants DEF Inv, NoLostWakeup, PendingAhead, BlockNum
<1>6. headerChan \in Seq(HeaderType) /\ failedBlockChan \in Seq(HeaderType) /\ log \in Seq(BlockNum)
  BY <1>1 DEF TypeOK
<1>7. Len(log) \in Nat BY <1>6, LenProperties
<1>8. QED BY <1>2, <1>3, <1>4, <1>5, <1>6, <1>7

(* A header some provider has is one the chain produced.                   *)
LEMMA HeaderOfChain ==
    ASSUME TypeOK, NEW n \in BlockNum, NEW h \in HeaderByNumber(n)
    PROVE  /\ h \in HeaderType /\ h.Number = n /\ Produced(h)
           /\ healthy => h.Hash = chain[n]
<1>1. chain[n] \in 0 .. MaxVersion BY DEF TypeOK
<1>2. PICK v \in IF healthy THEN {chain[n]} ELSE 0 .. chain[n] : h = [Number |-> n, Hash |-> v]
  BY DEF HeaderByNumber
<1>3. v \in 0 .. MaxVersion /\ v <= chain[n] /\ (healthy => v = chain[n])
  BY <1>1, <1>2, Constants
<1>4. h \in HeaderType /\ h.Number = n /\ h.Hash = v BY <1>2, <1>3 DEF HeaderType
<1>5. QED BY <1>3, <1>4 DEF Produced

(* So is the newest block, as a provider knows it.                         *)
LEMMA LatestOfChain ==
    ASSUME Inv
    PROVE  Latest \subseteq HeaderType
<1>1. ASSUME NEW h \in Latest PROVE h \in HeaderType
  <2>1. PICK n \in IF healthy THEN {head} ELSE 1 .. head : h \in HeaderByNumber(n)
    BY DEF Latest
  <2>2. n \in BlockNum BY <2>1, Typed, Constants DEF BlockNum
  <2>3. QED BY <2>1, <2>2, HeaderOfChain DEF Inv
<1>2. QED BY <1>1

(* The highest waiting number, 0 if no header waits.                       *)
LEMMA HighestIs ==
    ASSUME Inv
    PROVE  /\ highest \in DOMAIN pendingBlock \cup {0} /\ highest \in Nat
           /\ \A n \in DOMAIN pendingBlock : n <= highest
<1> DEFINE S == DOMAIN pendingBlock \cup {0}
<1>1. S \subseteq 0 .. MaxBlock /\ S # {} BY Typed, Constants DEF BlockNum
<1>2. Max(S) \in S /\ \A y \in S : y <= Max(S) BY <1>1, Largest, Constants
<1>3. QED BY <1>1, <1>2, Constants DEF highest

-----------------------------------------------------------------------------

(* Nothing was announced.                                                  *)
LEMMA InitInv == Init => Inv
<1> SUFFICES ASSUME Init PROVE Inv OBVIOUS
<1>1. DOMAIN EmptyMap = {} /\ IsMap(EmptyMap, BlockNum, HeaderType) BY DEF EmptyMap, IsMap
<1>2. <<>> \in Seq(HeaderType) /\ <<>> \in Seq(BlockNum) /\ Len(<<>>) = 0 BY EmptySeq
<1>3. TypeOK
  <2>1. /\ InitHead \in BlockNum /\ 0 \in 0 .. MaxVersion /\ 0 \in 0 .. MaxBlock + 1
        /\ 0 \in 0 .. MaxBlock /\ 0 \in 0 .. RetryCount
        /\ 0 <= HeadBufferSize /\ 0 <= FailedBlockBufferSize
    BY Constants DEF BlockNum
  <2>2. healthy \in BOOLEAN /\ ctxDone \in BOOLEAN BY DEF Init
  <2>3. QED BY <1>1, <1>2, <2>1, <2>2 DEF Init, TypeOK
<1>4. QED
  BY <1>1, <1>2, <1>3
  DEF Init, Inv, InOrder, Unstarted, NoLostWakeup, PendingAhead, HeadersProduced, AtWork, InGap,
      Checking

(* The network changes: blocks are only replaced by later versions.        *)
LEMMA NetStep ==
    ASSUME Inv, Mine \/ (\E n \in BlockNum : Reorg(n)) \/ Heal \/ Cancel
    PROVE  Inv'
<1>1. UNCHANGED <<chans, loop, floop>> BY DEF Mine, Reorg, Heal, Cancel
<1>2. chain \in [BlockNum -> 0 .. MaxVersion] /\ head \in BlockNum
      /\ healthy \in BOOLEAN /\ ctxDone \in BOOLEAN
  BY DEF Inv, TypeOK
<1>3. chain' \in [BlockNum -> 0 .. MaxVersion] /\ \A n \in BlockNum : chain[n] <= chain'[n]
  <2>1. CASE chain' = chain BY <1>2, <2>1, Constants
  <2>2. ASSUME NEW n \in BlockNum, Reorg(n) PROVE <1>3!1 /\ <1>3!2
    BY <1>2, <2>2, Constants DEF Reorg
  <2>3. QED BY <2>1, <2>2 DEF Mine, Heal, Cancel, net
<1>4. head' \in BlockNum /\ healthy' \in BOOLEAN /\ ctxDone' \in BOOLEAN
  <2>1. head' = head \/ (head < MaxBlock /\ head' = head + 1)
    BY DEF Mine, Reorg, Heal, Cancel, net
  <2>2. head' \in BlockNum BY <1>2, <2>1, Constants DEF BlockNum
  <2>3. healthy' \in BOOLEAN /\ ctxDone' \in BOOLEAN
    BY <1>2 DEF Mine, Reorg, Heal, Cancel, net
  <2>4. QED BY <2>2, <2>3
<1>5. TypeOK' BY <1>1, <1>3, <1>4 DEF Inv, TypeOK, chans, loop, floop
<1>6. HeadersProduced'
  <2>1. ASSUME NEW h \in HeaderType, Produced(h) PROVE Produced(h)'
    <3>1. h.Number \in BlockNum /\ h.Hash \in Nat BY Constants DEF HeaderType
    <3>2. chain[h.Number] \in Nat /\ chain'[h.Number] \in Nat BY <1>2, <1>3, <3>1
    <3>3. QED BY <1>3, <2>1, <3>1, <3>2 DEF Produced
  <2>2. \A k \in 1 .. Len(headerChan) : headerChan[k] \in HeaderType BY Typed, ElementOfSeq
  <2>3. UNCHANGED <<headerChan, pendingBlock>> BY <1>1 DEF chans, loop
  <2>4. QED BY <2>1, <2>2, <2>3, Typed DEF Inv, HeadersProduced, Produced
<1>7. InOrder' /\ NoLostWakeup' /\ AtWork' /\ InGap' /\ Checking'
  BY <1>1 DEF Inv, InOrder, NoLostWakeup, PendingAhead, AtWork, InGap, Checking, chans, loop, floop
<1>8. QED BY <1>5, <1>6, <1>7 DEF Inv

(* An announced header is one the chain produced.                          *)
LEMMA PushStep ==
    ASSUME Inv, NEW n \in BlockNum, push(n)
    PROVE  Inv'
<1>1. PICK h \in HeaderByNumber(n) :
         /\ UNCHANGED <<head, chain, healthy, ctxDone, failedBlockChan, wakeupChan, loop, floop>>
         /\ headerChan' = Append(headerChan, h) /\ Len(headerChan) < HeadBufferSize
  BY DEF push, net
<1>2. h \in HeaderType /\ Produced(h) BY HeaderOfChain DEF Inv
<1>3. /\ headerChan' \in Seq(HeaderType) /\ Len(headerChan') = Len(headerChan) + 1
      /\ \A k \in 1 .. Len(headerChan) : headerChan'[k] = headerChan[k]
      /\ headerChan'[Len(headerChan) + 1] = h /\ Len(headerChan) \in Nat
  BY <1>1, <1>2, Typed, AppendProperties, LenProperties
<1>4. TypeOK' BY <1>1, <1>3, Constants DEF Inv, TypeOK, loop, floop
<1>5. HeadersProduced'
  <2>1. ASSUME NEW k \in 1 .. Len(headerChan') PROVE Produced(headerChan[k])'
    <3>1. CASE k \in 1 .. Len(headerChan)
      BY <1>1, <1>3, <3>1 DEF Inv, HeadersProduced, Produced
    <3>2. CASE k = Len(headerChan) + 1 BY <1>1, <1>2, <1>3, <3>2 DEF Produced
    <3>3. QED BY <1>3, <3>1, <3>2
  <2>2. QED BY <1>1, <2>1 DEF Inv, HeadersProduced, Produced, loop
<1>6. InOrder' /\ NoLostWakeup' /\ AtWork' /\ InGap' /\ Checking'
  BY <1>1 DEF Inv, InOrder, NoLostWakeup, PendingAhead, AtWork, InGap, Checking, loop, floop
<1>7. QED BY <1>4, <1>5, <1>6 DEF Inv

(* The pipeline starts at the newest block some provider knows.            *)
LEMMA StartStep ==
    ASSUME Inv, AskNewest("start", "initialize") \/ Start \/ StartPanics
    PROVE  Inv'
<1>1. /\ UNCHANGED <<head, chain, healthy, ctxDone, headerChan, failedBlockChan, wakeupChan>>
      /\ UNCHANGED <<pendingBlock, attempt, gapNum, gapTop, log, stalled, fhdr>>
      /\ pc \in {"start", "initialize"}
  BY DEF AskNewest, Start, StartPanics, net, chans, floop
<1>2. log = <<>> /\ Len(log) = 0 /\ pendingBlock = EmptyMap /\ DOMAIN pendingBlock = {}
  BY <1>1, EmptySeq DEF Inv, InOrder, Unstarted, EmptyMap
<1>3. \/ pc' = "panicked" /\ UNCHANGED <<hdr, nextBlockNum, base, fpc>>
      \/ pc' = "initialize" /\ hdr' \in HeaderType /\ UNCHANGED <<nextBlockNum, base, fpc>>
      \/ /\ pc' = "select" /\ base' \in BlockNum /\ nextBlockNum' = base' + 1 /\ fpc' = "select"
         /\ hdr' = NoHeader
  <2>1. CASE AskNewest("start", "initialize")
    BY <2>1, LatestOfChain DEF AskNewest, floop
  <2>2. CASE Start
    <3>1. hdr \in HeaderType BY <2>2 DEF Start, Inv, AtWork
    <3>2. QED BY <2>2, <3>1 DEF Start, TakeOver, HeaderType
  <2>3. CASE StartPanics BY <2>3 DEF StartPanics, floop
  <2>4. QED BY <2>1, <2>2, <2>3
<1>4. TypeOK'
  <2>1. CASE pc' \in {"panicked", "initialize"}
    BY <1>1, <1>3, <2>1 DEF Inv, TypeOK
  <2>2. CASE pc' = "select"
    <3>1. base' \in Nat /\ base' <= MaxBlock BY <1>3, <2>2, Constants DEF BlockNum
    <3>2. base' \in 0 .. MaxBlock /\ nextBlockNum' \in 0 .. MaxBlock + 1
      <4>1. nextBlockNum' = base' + 1 /\ MaxBlock \in Nat BY <1>3, <2>2, Constants
      <4>2. \A x, m \in Nat : x <= m => x \in 0 .. m /\ x + 1 \in 0 .. m + 1 OBVIOUS
      <4>3. QED BY <3>1, <4>1, <4>2
    <3>3. QED BY <1>1, <1>3, <2>2, <3>2 DEF Inv, TypeOK
  <2>3. QED BY <1>3, <2>1, <2>2
<1>5. InOrder' BY <1>1, <1>2, <1>3, Constants DEF InOrder, Unstarted, BlockNum
<1>6. NoLostWakeup' /\ HeadersProduced'
  BY <1>1, <1>2, <1>3 DEF Inv, NoLostWakeup, PendingAhead, HeadersProduced, Produced
<1>7. AtWork' /\ InGap' /\ Checking'
  <2>1. Checking' BY <1>1, <1>3 DEF Inv, Checking
  <2>2. QED BY <1>3, <2>1 DEF AtWork, InGap
<1>8. QED BY <1>4, <1>5, <1>6, <1>7 DEF Inv

(* A step of blockProcLoop that leaves the headers and the position alone. *)
LEMMA PlainStep ==
    ASSUME Inv, pc \notin Unstarted, pc' \notin Unstarted,
           UNCHANGED <<net, ctxDone, headerChan, failedBlockChan, nextBlockNum, pendingBlock,
                       base, log, floop>>,
           TypeOK', AtWork', InGap',
           pc' = "select" => DOMAIN pendingBlock = {} \/ wakeupChan' \/ stalled' # "no"
    PROVE  Inv'
<1>1. InOrder' BY DEF Inv, InOrder
<1>2. NoLostWakeup' BY DEF Inv, NoLostWakeup, PendingAhead
<1>3. HeadersProduced' BY DEF Inv, HeadersProduced, Produced, net
<1>4. Checking' BY DEF Inv, Checking, floop
<1>5. QED BY <1>1, <1>2, <1>3, <1>4 DEF Inv

(* The steps of that kind.                                                 *)
LEMMA LoopStep ==
    ASSUME Inv,
           \/ ProcLoopDone \/ WokenUp \/ TakeNext \/ checkBlockGap \/ ProcessBlockFails \/ RetryDelay
           \/ BackfillFails \/ BackfillDone \/ AskNewest("resync", "newest") \/ ResyncFails
    PROVE  Inv'
<1>1. ASSUME ProcLoopDone PROVE Inv'
  <2>1. TypeOK' /\ AtWork' /\ InGap' /\ pc' # "select"
    BY <1>1 DEF ProcLoopDone, Inv, TypeOK, AtWork, InGap, net, chans, floop
  <2>2. QED BY <1>1, <2>1, PlainStep DEF Unstarted, ProcLoopDone, chans
<1>2. ASSUME WokenUp PROVE Inv'
  <2>1. TypeOK' /\ AtWork' /\ InGap' /\ pc' # "select"
    BY <1>2 DEF WokenUp, Inv, TypeOK, AtWork, InGap, net, floop
  <2>2. QED BY <1>2, <2>1, PlainStep DEF Unstarted, WokenUp
<1>3. ASSUME TakeNext PROVE Inv'
  <2>1. pendingBlock[nextBlockNum] \in HeaderType /\ 1 \in 0 .. RetryCount
    BY <1>3, Typed, Constants DEF TakeNext
  <2>2. TypeOK' /\ AtWork' /\ InGap' /\ pc' # "select"
    BY <1>3, <2>1 DEF TakeNext, Inv, TypeOK, AtWork, InGap, net, chans, floop
  <2>3. QED BY <1>3, <2>2, PlainStep DEF Unstarted, TakeNext, chans
<1>4. ASSUME checkBlockGap PROVE Inv'
  <2>1. /\ UNCHANGED <<net, ctxDone, chans, nextBlockNum, pendingBlock, hdr, attempt, base, log, floop>>
        /\ pc = "available" /\ nextBlockNum \notin DOMAIN pendingBlock /\ stalled' = "no"
        /\ pc' \in {"select", "resync", "backfill"}
        /\ pc' = "select" => highest <= nextBlockNum
        /\ pc' # "backfill" => UNCHANGED <<gapNum, gapTop>>
        /\ pc' = "backfill" => highest > nextBlockNum /\ gapNum' = nextBlockNum /\ gapTop' = highest
    BY <1>4 DEF checkBlockGap
  <2>2. pc' = "select" => DOMAIN pendingBlock = {}
    <3>1. ASSUME pc' = "select", NEW n \in DOMAIN pendingBlock PROVE FALSE
      <4>1. n <= nextBlockNum BY <2>1, <3>1, HighestIs, Typed
      <4>2. n = nextBlockNum BY <4>1, Typed
      <4>3. QED BY <2>1, <4>2
    <3>2. QED BY <3>1
  <2>3. pc' = "backfill" => /\ gapTop' \in DOMAIN pendingBlock /\ gapTop' \in 0 .. MaxBlock
                            /\ gapNum' \in 0 .. MaxBlock + 1 /\ gapNum' <= gapTop'
    BY <2>1, HighestIs, Typed, Constants
  <2>4. TypeOK'
    <3>1. gapNum' \in 0 .. MaxBlock + 1 /\ gapTop' \in 0 .. MaxBlock
      BY <2>1, <2>3 DEF Inv, TypeOK
    <3>2. QED BY <2>1, <3>1 DEF Inv, TypeOK, net, chans, floop
  <2>5. AtWork' /\ InGap' BY <2>1, <2>3, Typed DEF AtWork, InGap
  <2>6. QED BY <2>1, <2>2, <2>4, <2>5, PlainStep DEF Unstarted, chans
<1>5. ASSUME ProcessBlockFails PROVE Inv'
  <2>1. TypeOK' /\ AtWork' /\ InGap' /\ pc' # "select"
    BY <1>5 DEF ProcessBlockFails, MayRetry, Inv, TypeOK, AtWork, InGap, net, chans, floop
  <2>2. QED BY <1>5, <2>1, PlainStep DEF Unstarted, ProcessBlockFails, chans
<1>6. ASSUME RetryDelay PROVE Inv'
  <2>1. attempt' \in 0 .. RetryCount
    <3>1. attempt < RetryCount BY <1>6 DEF RetryDelay, Inv, AtWork
    <3>2. QED BY <1>6, <3>1, Typed, Constants DEF RetryDelay
  <2>2. TypeOK' /\ AtWork' /\ InGap' /\ pc' # "select"
    BY <1>6, <2>1 DEF RetryDelay, Inv, TypeOK, AtWork, InGap, net, chans, floop
  <2>3. QED BY <1>6, <2>2, PlainStep DEF Unstarted, RetryDelay, chans
<1>7. ASSUME BackfillFails PROVE Inv'
  <2>1. TypeOK' /\ AtWork' /\ InGap' /\ stalled' # "no"
    BY <1>7, Constants DEF BackfillFails, EndBackfill, Inv, TypeOK, AtWork, InGap, net, chans, floop
  <2>2. QED BY <1>7, <2>1, PlainStep DEF Unstarted, BackfillFails, EndBackfill, chans
<1>8. ASSUME BackfillDone PROVE Inv'
  <2>1. TypeOK' /\ AtWork' /\ InGap' /\ wakeupChan'
    BY <1>8, Constants
    DEF BackfillDone, EndBackfill, wakeup, Inv, TypeOK, AtWork, InGap, net, floop
  <2>2. QED BY <1>8, <2>1, PlainStep DEF Unstarted, BackfillDone, EndBackfill
<1>9. ASSUME ResyncFails PROVE Inv'
  <2>1. TypeOK' /\ AtWork' /\ InGap' /\ stalled' # "no"
    BY <1>9 DEF ResyncFails, Inv, TypeOK, AtWork, InGap, net, chans, floop
  <2>2. QED BY <1>9, <2>1, PlainStep DEF Unstarted, ResyncFails, chans
<1>10. ASSUME AskNewest("resync", "newest") PROVE Inv'
  <2>1. hdr' \in HeaderType BY <1>10, LatestOfChain DEF AskNewest
  <2>2. TypeOK' /\ AtWork' /\ InGap' /\ pc' # "select"
    BY <1>10, <2>1 DEF AskNewest, Inv, TypeOK, AtWork, InGap, net, chans, floop
  <2>3. QED BY <1>10, <2>2, PlainStep DEF Unstarted, AskNewest, chans
<1>11. QED BY <1>1, <1>2, <1>3, <1>4, <1>5, <1>6, <1>7, <1>8, <1>9, <1>10

(* A header put under its own number waits there, and the others still do. *)
LEMMA WithHeader ==
    ASSUME Inv, NEW h \in HeaderType, h.Number >= nextBlockNum, Produced(h),
           pendingBlock' = With(pendingBlock, h.Number, h), UNCHANGED <<chain, nextBlockNum>>
    PROVE  /\ IsMap(pendingBlock', BlockNum, HeaderType)
           /\ DOMAIN pendingBlock' = DOMAIN pendingBlock \cup {h.Number}
           /\ PendingAhead'
           /\ \A n \in DOMAIN pendingBlock' : Produced(pendingBlock[n])'
           /\ \A n \in DOMAIN pendingBlock : n # h.Number => pendingBlock'[n] = pendingBlock[n]
<1>1. h.Number \in BlockNum BY DEF HeaderType
<1>2. /\ DOMAIN pendingBlock' = DOMAIN pendingBlock \cup {h.Number}
      /\ pendingBlock' = [n \in DOMAIN pendingBlock' |-> IF n = h.Number THEN h ELSE pendingBlock[n]]
  BY DEF With
<1>3. \A n \in DOMAIN pendingBlock' : pendingBlock'[n] = IF n = h.Number THEN h ELSE pendingBlock[n]
  BY <1>2
<1>4. IsMap(pendingBlock', BlockNum, HeaderType) BY <1>1, <1>2, <1>3, Typed DEF IsMap
<1>5. PendingAhead' BY <1>2, <1>3 DEF Inv, NoLostWakeup, PendingAhead
<1>6. \A n \in DOMAIN pendingBlock' : Produced(pendingBlock[n])'
  BY <1>2, <1>3 DEF Inv, HeadersProduced, Produced
<1>7. QED BY <1>2, <1>3, <1>4, <1>5, <1>6

(* handleHeader takes a header it wants and drops one it does not.         *)
LEMMA HeaderStep ==
    ASSUME Inv, handleHeader
    PROVE  Inv'
<1> DEFINE h == Head(headerChan)
<1>1. /\ UNCHANGED <<head, chain, healthy, ctxDone, failedBlockChan, wakeupChan, nextBlockNum, hdr,
                     attempt, gapNum, gapTop, base, log, stalled, floop>>
      /\ pc = "select" /\ headerChan # <<>> /\ headerChan' = Tail(headerChan)
      /\ IF Wanted(h) THEN pendingBlock' = With(pendingBlock, h.Number, h) /\ pc' = "available"
         ELSE UNCHANGED <<pendingBlock, pc>>
  BY DEF handleHeader, net
<1>2. Len(headerChan) \in Nat /\ Len(headerChan) >= 1 BY <1>1, Typed, EmptySeq
<1>3. /\ h \in HeaderType /\ headerChan' \in Seq(HeaderType) /\ Len(headerChan') = Len(headerChan) - 1
      /\ \A k \in 1 .. Len(headerChan') : headerChan'[k] = headerChan[k + 1]
  BY <1>1, Typed, HeadTailProperties
<1>4. h = headerChan[1] /\ 1 \in 1 .. Len(headerChan) BY <1>2, Typed
<1>5. Produced(h) BY <1>4 DEF Inv, HeadersProduced
<1>6. \A k \in 1 .. Len(headerChan') : Produced(headerChan[k])'
  <2>1. \A k \in 1 .. Len(headerChan') : k + 1 \in 1 .. Len(headerChan) BY <1>2, <1>3
  <2>2. QED BY <1>1, <1>3, <2>1 DEF Inv, HeadersProduced, Produced
<1>7. Len(headerChan') <= HeadBufferSize BY <1>2, <1>3, Constants DEF Inv, TypeOK
<1> HIDE DEF h
<1>8. CASE Wanted(h)
  <2>1. /\ IsMap(pendingBlock', BlockNum, HeaderType) /\ PendingAhead'
        /\ \A n \in DOMAIN pendingBlock' : Produced(pendingBlock[n])'
    BY <1>1, <1>3, <1>5, <1>8, WithHeader DEF Wanted
  <2>2. TypeOK' BY <1>1, <1>3, <1>7, <1>8, <2>1 DEF Inv, TypeOK, floop
  <2>3. InOrder' /\ AtWork' /\ InGap' /\ Checking'
    BY <1>1, <1>8 DEF Inv, InOrder, Unstarted, AtWork, InGap, Checking, floop
  <2>4. NoLostWakeup' BY <1>1, <1>8, <2>1 DEF NoLostWakeup
  <2>5. HeadersProduced' BY <1>6, <2>1 DEF HeadersProduced
  <2>6. QED BY <2>2, <2>3, <2>4, <2>5 DEF Inv
<1>9. CASE ~Wanted(h)
  <2>1. TypeOK' BY <1>1, <1>3, <1>7, <1>9 DEF Inv, TypeOK, floop
  <2>2. InOrder' /\ AtWork' /\ InGap' /\ Checking' /\ NoLostWakeup'
    BY <1>1, <1>9 DEF Inv, InOrder, Unstarted, AtWork, InGap, Checking, NoLostWakeup, PendingAhead, floop
  <2>3. HeadersProduced' BY <1>1, <1>6, <1>9 DEF Inv, HeadersProduced, Produced
  <2>4. QED BY <2>1, <2>2, <2>3 DEF Inv
<1>10. QED BY <1>8, <1>9

(* A block done with leaves, the next one is the next in the log.          *)
LEMMA AdvanceStep ==
    ASSUME Inv, ProcessBlock \/ GiveUp
    PROVE  Inv'
<1>1. /\ UNCHANGED <<head, chain, healthy, ctxDone, headerChan, wakeupChan, gapNum, gapTop, base,
                     stalled, fpc, fhdr>>
      /\ pc \in {"attempt", "stale"} /\ Advance
      /\ failedBlockChan' = failedBlockChan \/ failedBlock(hdr)
  BY DEF ProcessBlock, GiveUp, net, chans, floop
<1>2. /\ nextBlockNum \in DOMAIN pendingBlock /\ hdr = pendingBlock[nextBlockNum]
      /\ hdr \in HeaderType /\ hdr.Number = nextBlockNum /\ nextBlockNum \in BlockNum
  <2>1. nextBlockNum \in DOMAIN pendingBlock /\ hdr = pendingBlock[nextBlockNum]
    BY <1>1 DEF Inv, AtWork
  <2>2. QED BY <2>1, Typed
<1>3. /\ pendingBlock' = Without(pendingBlock, {nextBlockNum}) /\ nextBlockNum' = nextBlockNum + 1
      /\ log' = Append(log, nextBlockNum)
      /\ pc' = "available" /\ hdr' = NoHeader /\ attempt' = 0
  BY <1>1, <1>2 DEF Advance, Forget
<1>4. /\ DOMAIN pendingBlock' = DOMAIN pendingBlock \ {nextBlockNum}
      /\ \A n \in DOMAIN pendingBlock' : pendingBlock'[n] = pendingBlock[n]
      /\ pendingBlock' \in [DOMAIN pendingBlock' -> HeaderType]
  BY <1>3, Typed DEF Without
<1>5. IsMap(pendingBlock', BlockNum, HeaderType) BY <1>4, Typed DEF IsMap
<1>6. PendingAhead'
  <2>1. ASSUME NEW n \in DOMAIN pendingBlock' PROVE n >= nextBlockNum' /\ pendingBlock'[n].Number = n
    <3>1. n \in DOMAIN pendingBlock /\ n # nextBlockNum BY <1>4
    <3>2. n \in Nat /\ n >= nextBlockNum /\ pendingBlock[n].Number = n BY <3>1, Typed
    <3>3. nextBlockNum \in Nat BY Typed
    <3>4. n >= nextBlockNum + 1 BY <3>1, <3>2, <3>3
    <3>5. QED BY <1>3, <1>4, <3>2, <3>4
  <2>2. QED BY <2>1 DEF PendingAhead
<1>7. /\ log' \in Seq(BlockNum) /\ Len(log') = Len(log) + 1
      /\ \A k \in 1 .. Len(log) : log'[k] = log[k]
      /\ log'[Len(log) + 1] = nextBlockNum
  BY <1>2, <1>3, Typed, AppendProperties
<1>8. failedBlockChan' \in Seq(HeaderType) /\ Len(failedBlockChan') <= FailedBlockBufferSize
  <2>1. CASE failedBlockChan' = failedBlockChan BY <2>1 DEF Inv, TypeOK
  <2>2. CASE failedBlockChan' = Append(failedBlockChan, hdr) /\ Len(failedBlockChan) < FailedBlockBufferSize
    <3>1. failedBlockChan' \in Seq(HeaderType) /\ Len(failedBlockChan') = Len(failedBlockChan) + 1
          /\ Len(failedBlockChan) \in Nat
      BY <1>2, <2>2, Typed, AppendProperties, LenProperties
    <3>2. QED BY <2>2, <3>1, Constants
  <2>3. QED BY <1>1, <2>1, <2>2 DEF failedBlock
<1>9. TypeOK'
  <2>1. nextBlockNum' \in 0 .. MaxBlock + 1 /\ attempt' \in 0 .. RetryCount
    BY <1>2, <1>3, Constants DEF BlockNum
  <2>2. QED BY <1>1, <1>3, <1>5, <1>7, <1>8, <2>1 DEF Inv, TypeOK
<1>10. InOrder'
  <2>1. base \in BlockNum /\ nextBlockNum = base + Len(log) + 1 /\ \A k \in 1 .. Len(log) : log[k] = base + k
    BY <1>1 DEF Inv, InOrder, Unstarted
  <2>2. nextBlockNum' = base' + Len(log') + 1 BY <1>1, <1>3, <1>7, <2>1, Typed
  <2>3. ASSUME NEW k \in 1 .. Len(log') PROVE log'[k] = base' + k
    <3>1. CASE k \in 1 .. Len(log) BY <1>1, <1>7, <2>1, <3>1
    <3>2. CASE k = Len(log) + 1 BY <1>1, <1>7, <2>1, <3>2, Typed
    <3>3. QED BY <1>7, <3>1, <3>2, Typed
  <2>4. QED BY <1>1, <1>3, <2>1, <2>2, <2>3 DEF InOrder, Unstarted
<1>11. NoLostWakeup' BY <1>3, <1>6 DEF NoLostWakeup
<1>12. HeadersProduced' BY <1>1, <1>4 DEF Inv, HeadersProduced, Produced
<1>13. AtWork' /\ InGap' /\ Checking' BY <1>1, <1>3 DEF Inv, AtWork, InGap, Checking
<1>14. QED BY <1>9, <1>10, <1>11, <1>12, <1>13 DEF Inv

(* Another version takes the place of the header, a later one if the       *)
(* provider does not lag.                                                  *)
LEMMA FollowReorgStep ==
    ASSUME Inv, FollowReorg
    PROVE  /\ Inv'
           /\ healthy => \A n \in DOMAIN pendingBlock : pendingBlock'[n].Hash >= pendingBlock[n].Hash
<1>1. PICK h \in HeaderByNumber(hdr.Number) :
         /\ UNCHANGED <<head, chain, healthy, ctxDone, chans, nextBlockNum, gapNum, gapTop, base,
                        log, stalled, floop>>
         /\ pc = "stale" /\ pc' = "available" /\ hdr' = NoHeader /\ attempt' = 0
         /\ pendingBlock' = With(pendingBlock, hdr.Number, h)
  BY DEF FollowReorg, Forget, net
<1>2. /\ nextBlockNum \in DOMAIN pendingBlock /\ hdr = pendingBlock[nextBlockNum]
      /\ hdr.Number = nextBlockNum /\ nextBlockNum \in BlockNum /\ hdr \in HeaderType
  <2>1. nextBlockNum \in DOMAIN pendingBlock /\ hdr = pendingBlock[nextBlockNum]
    BY <1>1 DEF Inv, AtWork
  <2>2. QED BY <2>1, Typed
<1>3. h \in HeaderType /\ h.Number = nextBlockNum /\ Produced(h) BY <1>2, HeaderOfChain DEF Inv
<1>4. healthy => h.Hash = chain[nextBlockNum] BY <1>2, HeaderOfChain DEF Inv
<1>5. pendingBlock' = With(pendingBlock, h.Number, h) BY <1>1, <1>2, <1>3
<1>6. /\ IsMap(pendingBlock', BlockNum, HeaderType)
      /\ DOMAIN pendingBlock' = DOMAIN pendingBlock \cup {h.Number}
      /\ PendingAhead'
      /\ \A n \in DOMAIN pendingBlock' : Produced(pendingBlock[n])'
      /\ \A n \in DOMAIN pendingBlock : n # h.Number => pendingBlock'[n] = pendingBlock[n]
  <2>1. h.Number >= nextBlockNum BY <1>3, Typed
  <2>2. QED BY <1>1, <1>3, <1>5, <2>1, WithHeader
<1>7. TypeOK' BY <1>1, <1>6, Constants DEF Inv, TypeOK, chans, floop
<1>8. InOrder' /\ AtWork' /\ InGap' /\ Checking'
  BY <1>1 DEF Inv, InOrder, Unstarted, AtWork, InGap, Checking, floop
<1>9. NoLostWakeup' BY <1>1, <1>6 DEF NoLostWakeup
<1>10. HeadersProduced' BY <1>1, <1>6 DEF Inv, HeadersProduced, Produced, chans
<1>11. ASSUME healthy, NEW n \in DOMAIN pendingBlock PROVE pendingBlock'[n].Hash >= pendingBlock[n].Hash
  <2>1. pendingBlock[n] \in HeaderType /\ pendingBlock[n].Hash \in Int
    BY Typed, Constants DEF HeaderType
  <2>2. CASE n # h.Number BY <1>6, <2>1, <2>2
  <2>3. CASE n = h.Number
    <3>1. pendingBlock'[n] = h BY <1>5, <2>3 DEF With
    <3>2. pendingBlock[n].Hash <= chain[nextBlockNum]
      BY <1>3, <2>3, Typed DEF Inv, HeadersProduced, Produced
    <3>3. chain[nextBlockNum] \in Int BY <1>2, Constants DEF Inv, TypeOK
    <3>4. QED BY <1>4, <1>11, <2>1, <3>1, <3>2, <3>3
  <2>4. QED BY <2>2, <2>3
<1>12. QED BY <1>7, <1>8, <1>9, <1>10, <1>11 DEF Inv

(* One header of the gap is fetched, or was there.                         *)
LEMMA BackfillStep ==
    ASSUME Inv, Backfill
    PROVE  Inv' /\ \A n \in DOMAIN pendingBlock : pendingBlock'[n] = pendingBlock[n]
<1>1. /\ UNCHANGED <<head, chain, healthy, ctxDone, chans, nextBlockNum, pc, hdr, attempt, gapTop,
                     base, log, stalled, floop>>
      /\ pc = "backfill" /\ gapNum < gapTop /\ gapNum' = gapNum + 1
      /\ \/ pendingBlock' = pendingBlock
         \/ /\ gapNum \notin DOMAIN pendingBlock
            /\ \E h \in HeaderByNumber(gapNum) : pendingBlock' = With(pendingBlock, gapNum, h)
  BY DEF Backfill, net
<1>2. /\ nextBlockNum <= gapNum /\ gapTop \in DOMAIN pendingBlock
      /\ base \in BlockNum /\ nextBlockNum = base + Len(log) + 1
  BY <1>1 DEF Inv, InGap, InOrder, Unstarted
<1>3. gapNum \in BlockNum /\ gapNum' <= gapTop /\ nextBlockNum <= gapNum' /\ gapNum' \in 0 .. MaxBlock + 1
  BY <1>1, <1>2, Typed, Constants DEF BlockNum
<1>4. \A h \in HeaderByNumber(gapNum) : h \in HeaderType /\ h.Number = gapNum /\ Produced(h)
  BY <1>3, HeaderOfChain DEF Inv
<1>5. /\ IsMap(pendingBlock', BlockNum, HeaderType)
      /\ DOMAIN pendingBlock \subseteq DOMAIN pendingBlock'
      /\ PendingAhead'
      /\ \A n \in DOMAIN pendingBlock' : Produced(pendingBlock[n])'
      /\ \A n \in DOMAIN pendingBlock : pendingBlock'[n] = pendingBlock[n]
  <2>1. CASE pendingBlock' = pendingBlock
    BY <1>1, <2>1 DEF Inv, TypeOK, NoLostWakeup, PendingAhead, HeadersProduced, Produced
  <2>2. ASSUME gapNum \notin DOMAIN pendingBlock, NEW h \in HeaderByNumber(gapNum),
               pendingBlock' = With(pendingBlock, gapNum, h)
        PROVE  <1>5
    <3>1. h \in HeaderType /\ h.Number = gapNum /\ Produced(h) BY <1>4
    <3>2. pendingBlock' = With(pendingBlock, h.Number, h) /\ h.Number >= nextBlockNum
      BY <1>2, <2>2, <3>1, Typed
    <3>3. QED BY <1>1, <2>2, <3>1, <3>2, WithHeader
  <2>3. QED BY <1>1, <2>1, <2>2
<1>6. TypeOK' BY <1>1, <1>3, <1>5 DEF Inv, TypeOK, chans, floop
<1>7. InOrder' /\ AtWork' /\ Checking' BY <1>1 DEF Inv, InOrder, Unstarted, AtWork, Checking, floop
<1>8. InGap' BY <1>1, <1>2, <1>3, <1>5 DEF InGap
<1>9. NoLostWakeup' BY <1>1, <1>5 DEF NoLostWakeup
<1>10. HeadersProduced' BY <1>1, <1>5 DEF Inv, HeadersProduced, Produced, chans
<1>11. QED BY <1>5, <1>6, <1>7, <1>8, <1>9, <1>10 DEF Inv

(* The pipeline starts over, with nothing waiting.                         *)
LEMMA ResyncStep ==
    ASSUME Inv, resync
    PROVE  Inv' /\ DOMAIN pendingBlock' = {}
<1>1. /\ UNCHANGED <<head, chain, healthy, ctxDone, chans, attempt, gapNum, gapTop, stalled, floop>>
      /\ pc = "newest" /\ pc' = "select" /\ log' = <<>> /\ pendingBlock' = EmptyMap
      /\ hdr' = NoHeader
  BY DEF resync, TakeOver, AfterResync, net
<1>2. base' \in BlockNum /\ nextBlockNum' = base' + 1
  <2>1. hdr \in HeaderType BY <1>1 DEF Inv, AtWork
  <2>2. QED BY <2>1 DEF resync, TakeOver, HeaderType
<1>3. DOMAIN pendingBlock' = {} /\ IsMap(pendingBlock', BlockNum, HeaderType)
  BY <1>1 DEF EmptyMap, IsMap
<1>4. log' \in Seq(BlockNum) /\ Len(log') = 0 BY <1>1, EmptySeq
<1>5. TypeOK'
  <2>1. base' \in 0 .. MaxBlock /\ nextBlockNum' \in 0 .. MaxBlock + 1
    <3>1. \A b \in BlockNum : b \in 0 .. MaxBlock /\ b + 1 \in 0 .. MaxBlock + 1
      BY Constants DEF BlockNum
    <3>2. QED BY <1>2, <3>1
  <2>2. QED BY <1>1, <1>3, <1>4, <2>1 DEF Inv, TypeOK, chans, floop
<1>6. InOrder' BY <1>1, <1>2, <1>4, Constants DEF InOrder, Unstarted, BlockNum
<1>7. NoLostWakeup' BY <1>3 DEF NoLostWakeup, PendingAhead
<1>8. HeadersProduced' BY <1>1, <1>3 DEF Inv, HeadersProduced, Produced, chans
<1>9. AtWork' /\ InGap' /\ Checking' BY <1>1 DEF Inv, AtWork, InGap, Checking, floop
<1>10. QED BY <1>3, <1>5, <1>6, <1>7, <1>8, <1>9 DEF Inv

(* failBlockLoop touches nothing of blockProcLoop.                         *)
LEMMA FailStep ==
    ASSUME Inv, FailWorking \/ TakeFailed \/ FailLoopDone
    PROVE  Inv'
<1>1. UNCHANGED <<net, ctxDone, headerChan, wakeupChan, loop>>
  BY DEF FailWorking, CheckFailed, Cleanup, TakeFailed, FailLoopDone, chans
<1>2. /\ fpc' \in {"off", "select", "check", "cleanup", "stopped"}
      /\ fhdr' \in HeaderType \cup {NoHeader} /\ (fpc' = "check" => fhdr' \in HeaderType)
      /\ failedBlockChan' \in Seq(HeaderType) /\ Len(failedBlockChan') <= FailedBlockBufferSize
  <2>1. /\ failedBlockChan \in Seq(HeaderType) /\ Len(failedBlockChan) <= FailedBlockBufferSize
        /\ fhdr \in HeaderType \cup {NoHeader}
    BY DEF Inv, TypeOK
  <2>2. CASE TakeFailed
    <3>1. failedBlockChan # <<>> /\ fhdr' = Head(failedBlockChan) /\ failedBlockChan' = Tail(failedBlockChan)
          /\ fpc' = "check"
      BY <2>2 DEF TakeFailed
    <3>2. Head(failedBlockChan) \in HeaderType /\ Tail(failedBlockChan) \in Seq(HeaderType)
          /\ Len(Tail(failedBlockChan)) = Len(failedBlockChan) - 1 /\ Len(failedBlockChan) \in Nat
      BY <2>1, <3>1, HeadTailProperties, LenProperties
    <3>3. QED BY <2>1, <3>1, <3>2, Constants
  <2>3. CASE CheckFailed
    <3>1. fhdr \in HeaderType /\ fhdr.Number \in BlockNum
      BY <2>3 DEF CheckFailed, Inv, Checking, HeaderType
    <3>2. HeaderByNumber(fhdr.Number) \subseteq HeaderType BY <3>1, HeaderOfChain DEF Inv
    <3>3. QED BY <2>1, <2>3, <3>2 DEF CheckFailed, chans
  <2>4. CASE Cleanup BY <2>1, <2>4 DEF Cleanup, chans
  <2>5. CASE FailLoopDone BY <2>1, <2>5 DEF FailLoopDone, chans
  <2>6. QED BY <2>2, <2>3, <2>4, <2>5 DEF FailWorking
<1>3. TypeOK' BY <1>1, <1>2 DEF Inv, TypeOK, net, loop
<1>4. HeadersProduced' BY <1>1 DEF Inv, HeadersProduced, Produced, net, loop
<1>5. InOrder' /\ NoLostWakeup' /\ AtWork' /\ InGap'
  BY <1>1 DEF Inv, InOrder, NoLostWakeup, PendingAhead, AtWork, InGap, loop
<1>6. QED BY <1>2, <1>3, <1>4, <1>5 DEF Inv, Checking

(* Every step keeps the invariant.                                         *)
LEMMA NextInv == Inv /\ [Next]_vars => Inv'
<1> SUFFICES ASSUME Inv, [Next]_vars PROVE Inv' OBVIOUS
<1>1. CASE UNCHANGED vars
  <2>1. TypeOK' BY <1>1 DEF Inv, TypeOK, vars, net, chans, loop, floop
  <2>2. InOrder' /\ NoLostWakeup' /\ HeadersProduced' /\ AtWork' /\ InGap' /\ Checking'
    BY <1>1 DEF Inv, InOrder, NoLostWakeup, PendingAhead, HeadersProduced, Produced, AtWork, InGap,
                Checking, vars, net, chans, loop, floop
  <2>3. QED BY <2>1, <2>2 DEF Inv
<1>2. CASE Next
  BY <1>1, <1>2, NetStep, PushStep, StartStep, LoopStep, HeaderStep, AdvanceStep, FollowReorgStep,
     BackfillStep, ResyncStep, FailStep
  DEF Next, Working, Terminated
<1>3. QED BY <1>1, <1>2

(* The invariant holds in every reachable state.                           *)
THEOREM Invariance == Spec => []Inv
  BY InitInv, NextInv, PTL DEF Spec

(* Since the last Initialize or resync every block was done with once and  *)
(* in order, whatever the order, the losses and the repetitions of the     *)
(* headers, the retries and the reorgs; and every variable keeps its type. *)
THEOREM OnceInOrder == Spec => []ExactlyOnceInOrder
<1>1. Inv => ExactlyOnceInOrder BY DEF Inv, InOrder, Unstarted, ExactlyOnceInOrder
<1>2. QED BY <1>1, Invariance, PTL

(* Every waiting header has its turn ahead of it, and blockProcLoop goes   *)
(* idle over one only with a wakeup in the channel, after a failed RPC or  *)
(* after a resync that could not use the newest block.                     *)
THEOREM WakeupKept == Spec => []NoLostWakeup
<1>1. Inv => NoLostWakeup BY DEF Inv
<1>2. QED BY <1>1, Invariance, PTL

(* While no provider lags a waiting header is only replaced by a later     *)
(* version of its block, because every header in the pipeline, also one    *)
(* that a lagging provider handed out before, is one the chain produced.   *)
THEOREM ReorgsForward == Spec => ReorgsMoveForward
<1> DEFINE A == healthy => \A n \in DOMAIN pendingBlock \cap DOMAIN pendingBlock' :
                   pendingBlock'[n].Hash >= pendingBlock[n].Hash
<1>1. Inv /\ [Next]_vars => [A]_vars
  <2> SUFFICES ASSUME Inv, Next PROVE A \/ UNCHANGED vars OBVIOUS
  <2>1. \A n \in DOMAIN pendingBlock : pendingBlock[n].Hash \in Int
    BY Typed, Constants DEF HeaderType
  <2>2. ASSUME \A n \in DOMAIN pendingBlock \cap DOMAIN pendingBlock' : pendingBlock'[n] = pendingBlock[n]
        PROVE  A
    BY <2>1, <2>2
  <2>3. CASE handleHeader
    <3> DEFINE h == Head(headerChan)
    <3>1. pendingBlock' = pendingBlock
          \/ (h.Number \notin DOMAIN pendingBlock /\ pendingBlock' = With(pendingBlock, h.Number, h))
      BY <2>3 DEF handleHeader, Wanted
    <3> HIDE DEF h
    <3>2. QED BY <2>2, <3>1 DEF With
  <2>4. CASE ProcessBlock \/ GiveUp
    <3>1. pendingBlock' = Without(pendingBlock, {hdr.Number}) BY <2>4 DEF ProcessBlock, GiveUp, Advance
    <3>2. QED BY <2>2, <3>1 DEF Without
  <2>5. CASE FollowReorg BY <2>5, FollowReorgStep
  <2>6. CASE Backfill BY <2>2, <2>6, BackfillStep
  <2>7. CASE resync BY <2>7, ResyncStep
  <2>8. CASE pendingBlock' = pendingBlock BY <2>2, <2>8
  <2>9. QED
    BY <2>3, <2>4, <2>5, <2>6, <2>7, <2>8
    DEF Next, Mine, Reorg, Heal, Cancel, push, Working, AskNewest, Start, StartPanics, TakeNext, checkBlockGap,
        ProcessBlockFails, RetryDelay, BackfillFails, BackfillDone, ResyncFails, WokenUp,
        ProcLoopDone, FailWorking, CheckFailed, Cleanup, TakeFailed, FailLoopDone, Terminated, loop
<1>2. QED BY <1>1, Invariance, PTL DEF Spec, ReorgsMoveForward

=============================================================================
