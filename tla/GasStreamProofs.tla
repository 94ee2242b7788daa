---------------------------- MODULE GasStreamProofs ----------------------------
(***************************************************************************)
(* The prediction stream, proved for any buffer, any retry parameters and  *)
(* any number of predictions, in whatever order their numbers come.        *)
(***************************************************************************)
EXTENDS GasStream, SequenceTheorems, TLAPS

IsGap(m) == m.Event = "gap"

(* A gap event begins behind an acknowledged prediction.                   *)
GapFits(m) == m.FromBlock - 1 \in acked /\ m.FromBlock <= m.ToBlock

(* lastSentBlock is 0 until a prediction is acknowledged.                  *)
LastAcked == lastSentBlock = 0 \/ lastSentBlock \in acked

(* No gap event is waiting for the prediction behind it.                   *)
NoOpenGap == GasPredictCh # <<>> => ~IsGap(Last(GasPredictCh))

(* What enqueue still has to do ends with the newest prediction, there is  *)
(* room for it once the oldest message was dropped, and a gap event before *)
(* it reaches up to it.                                                    *)
EnqueueInv ==
    /\ ppc = "idle" => ptodo = <<>>
    /\ ppc # "idle" =>
          /\ Len(ptodo) \in {1, 2} /\ ptodo[Len(ptodo)] = Prediction(newest)
          /\ Len(ptodo) = 2 =>
                /\ IsGap(ptodo[1]) /\ GapFits(ptodo[1]) /\ ptodo[1].ToBlock + 1 = newest
                /\ NoOpenGap
    /\ ppc = "again" => Len(GasPredictCh) < BufferSize
    /\ NewestIsLast

Inv ==
    /\ FastRetriesFirst
    /\ GapAfterAcknowledged /\ LastAcked /\ EnqueueInv

-----------------------------------------------------------------------------

(* What the assumption says of each constant.                              *)
LEMMA Constants ==
    /\ BufferSize \in Nat /\ BufferSize > 0 /\ FastRetryCount \in Nat
    /\ FastRetryDelay \in Nat /\ FastRetryDelay > 0 /\ MaxRetryDelay \in Nat
    /\ FastRetryDelay <= MaxRetryDelay /\ MaxBlock \in Nat /\ MaxBlock > 0 /\ MaxSends \in Nat
  BY StreamAssumption

(* What the proofs below use of the types.                                 *)
LEMMA Typed ==
    ASSUME Inv
    PROVE  /\ TypeOK
           /\ lastSentBlock \in Nat /\ newest \in Nat /\ newest <= MaxBlock
           /\ GasPredictCh \in Seq(MsgType) /\ ptodo \in Seq(MsgType)
           /\ Len(GasPredictCh) \in Nat /\ Len(ptodo) \in Nat /\ Len(GasPredictCh) <= BufferSize
           /\ \A k \in 1 .. Len(GasPredictCh) : GasPredictCh[k] \in MsgType
<1>1. TypeOK BY DEF Inv, FastRetriesFirst
<1>2. GasPredictCh \in Seq(MsgType) /\ ptodo \in Seq(MsgType) BY <1>1 DEF TypeOK
<1>3. QED BY <1>1, <1>2, LenProperties, ElementOfSeq, Constants DEF TypeOK

(* A message covers block numbers.                                         *)
LEMMA MsgRange ==
    ASSUME NEW m \in MsgType
    PROVE  /\ m.FromBlock \in Num /\ m.ToBlock \in Num /\ m.FromBlock .. m.ToBlock \subseteq Num
           /\ m.Event \in {"prediction", "gap"}
  BY Constants DEF MsgType, Num

(* The channel without its oldest message: what is behind a gap event is   *)
(* still behind it.                                                        *)
LEMMA TailChannel ==
    ASSUME Inv, GasPredictCh # <<>>, GasPredictCh' = Tail(GasPredictCh),
           UNCHANGED <<ptodo, acked>>
    PROVE  /\ GapAfterAcknowledged'
           /\ GasPredictCh' \in Seq(MsgType)
           /\ Len(GasPredictCh') = Len(GasPredictCh) - 1 /\ Len(GasPredictCh) >= 1
           /\ GasPredictCh' # <<>> => Last(GasPredictCh') = Last(GasPredictCh)
           /\ Head(GasPredictCh) \in MsgType
<1>1. Len(GasPredictCh) \in Nat /\ Len(GasPredictCh) >= 1 BY Typed, EmptySeq
<1>2. /\ GasPredictCh' \in Seq(MsgType) /\ Len(GasPredictCh') = Len(GasPredictCh) - 1
      /\ \A k \in 1 .. Len(GasPredictCh') : GasPredictCh'[k] = GasPredictCh[k + 1]
      /\ Head(GasPredictCh) \in MsgType
  BY Typed, HeadTailProperties
<1>3. ASSUME GasPredictCh' # <<>> PROVE Last(GasPredictCh') = Last(GasPredictCh)
  <2>1. Len(GasPredictCh') \in 1 .. Len(GasPredictCh') BY <1>2, <1>3, EmptySeq
  <2>2. GasPredictCh'[Len(GasPredictCh')] = GasPredictCh[Len(GasPredictCh') + 1] BY <1>2, <2>1
  <2>3. Len(GasPredictCh') + 1 = Len(GasPredictCh) BY <1>1, <1>2
  <2>4. QED BY <2>2, <2>3 DEF Last
<1>4. ASSUME NEW k \in 1 .. Len(GasPredictCh'), GasPredictCh'[k].Event = "gap"
      PROVE  /\ GasPredictCh'[k].FromBlock - 1 \in acked'
             /\ GasPredictCh'[k].FromBlock <= GasPredictCh'[k].ToBlock
             /\ Behind(k)' = Prediction(GasPredictCh'[k].ToBlock + 1)
  <2>1. k + 1 \in 1 .. Len(GasPredictCh) /\ GasPredictCh'[k] = GasPredictCh[k + 1] BY <1>1, <1>2
  <2>2. Behind(k)' = Behind(k + 1)
    <3>1. k < Len(GasPredictCh') <=> k + 1 < Len(GasPredictCh) BY <1>1, <1>2
    <3>2. k < Len(GasPredictCh') => k + 1 \in 1 .. Len(GasPredictCh') BY <1>1, <1>2
    <3>3. k < Len(GasPredictCh') => GasPredictCh'[k + 1] = GasPredictCh[(k + 1) + 1]
      BY <1>2, <3>2
    <3>4. QED BY <3>1, <3>3 DEF Behind
  <2>3. QED BY <1>4, <2>1, <2>2 DEF Inv, GapAfterAcknowledged
<1>5. GapAfterAcknowledged' BY <1>4 DEF GapAfterAcknowledged
<1>6. QED BY <1>1, <1>2, <1>3, <1>5

-----------------------------------------------------------------------------

(* Nothing was predicted, nothing was sent.                                *)
LEMMA InitInv == Init => Inv
<1> SUFFICES ASSUME Init PROVE Inv OBVIOUS
<1>1. <<>> \in Seq(MsgType) /\ Len(<<>>) = 0 BY EmptySeq
<1>2. TypeOK
  <2>1. 0 \in 0 .. MaxBlock /\ 0 \in 0 .. MaxSends /\ 0 \in 0 .. FastRetryCount
        /\ FastRetryDelay \in FastRetryDelay .. MaxRetryDelay /\ 0 <= BufferSize /\ 0 <= 2
    BY Constants
  <2>2. healthy \in BOOLEAN /\ broken \in BOOLEAN /\ ctxDone \in BOOLEAN BY DEF Init
  <2>3. QED BY <1>1, <2>1, <2>2 DEF Init, TypeOK
<1>3. FastRetriesFirst BY <1>2, Constants DEF Init, FastRetriesFirst
<1>4. QED
  BY <1>1, <1>3 DEF Init, Inv, GapAfterAcknowledged, LastAcked, EnqueueInv, NewestIsLast

(* What the analyzer hands to enqueue fits: a gap only if a prediction was *)
(* acknowledged, and then the prediction it reaches up to.                 *)
LEMMA SendStep ==
    ASSUME Inv, NEW n \in Num, GasPredictResultSend(n)
    PROVE  Inv'
<1>1. n \in Nat /\ 1 <= n /\ n <= MaxBlock /\ newest' = n
  BY Constants DEF Num, GasPredictResultSend
<1>2. /\ UNCHANGED <<GasPredictCh, lastSentBlock, svars, env, hist>> /\ ppc = "idle" /\ ppc' = "try"
      /\ sends < MaxSends /\ sends' = sends + 1
      /\ ptodo' = Append(Missed(lastSentBlock, n), Prediction(n))
  BY DEF GasPredictResultSend
<1>3. Prediction(n) \in MsgType BY DEF Prediction, MsgType
<1> DEFINE last == lastSentBlock
<1>4. /\ ptodo' \in Seq(MsgType) /\ Len(ptodo') \in {1, 2} /\ ptodo'[Len(ptodo')] = Prediction(n)
      /\ Len(ptodo') = 2 => ptodo'[1] = Gap(last + 1, n - 1) /\ last # 0 /\ n > last + 1
  <2>1. CASE last # 0 /\ n > last + 1
    <3>1. last + 1 \in Num /\ n - 1 \in Num BY <1>1, <2>1, Typed, Constants DEF Num
    <3>2. Gap(last + 1, n - 1) \in MsgType BY <3>1 DEF Gap, MsgType
    <3>3. PICK s : s = <<Gap(last + 1, n - 1)>> OBVIOUS
    <3>4. s \in Seq(MsgType) /\ Len(s) = 1 /\ s[1] = Gap(last + 1, n - 1) BY <3>2, <3>3
    <3>5. /\ ptodo' \in Seq(MsgType) /\ Len(ptodo') = Len(s) + 1
          /\ \A k \in 1 .. Len(s) : ptodo'[k] = s[k]
          /\ ptodo'[Len(s) + 1] = Prediction(n)
      <4>1. PICK e \in MsgType : e = Prediction(n) BY <1>3
      <4>2. s \in Seq(MsgType) BY <3>4
      <4>3. /\ Append(s, e) \in Seq(MsgType) /\ Len(Append(s, e)) = Len(s) + 1
            /\ \A k \in 1 .. Len(s) : Append(s, e)[k] = s[k]
            /\ Append(s, e)[Len(s) + 1] = e
        BY <4>2, AppendProperties
      <4>4. ptodo' = Append(s, e) BY <1>2, <2>1, <3>3, <4>1 DEF Missed
      <4>5. QED BY <4>1, <4>3, <4>4
    <3>6. Len(ptodo') = 2 /\ ptodo'[1] = s[1] /\ ptodo'[2] = Prediction(n) BY <3>4, <3>5
    <3>7. QED BY <2>1, <3>4, <3>5, <3>6
  <2>2. CASE ~(last # 0 /\ n > last + 1)
    <3>1. ptodo' = Append(<<>>, Prediction(n)) BY <1>2, <2>2 DEF Missed
    <3>2. QED BY <1>3, <3>1, EmptySeq, AppendProperties
  <2>3. QED BY <2>1, <2>2
<1>5. GasPredictCh # <<>> => Last(GasPredictCh) = Prediction(newest) /\ ~IsGap(Last(GasPredictCh))
  BY <1>2 DEF Inv, EnqueueInv, NewestIsLast, Prediction, IsGap
<1>6. Len(ptodo') = 2 =>
         (IsGap(ptodo[1]) /\ GapFits(ptodo[1]) /\ ptodo[1].ToBlock + 1 = newest /\ NoOpenGap)'
  <2>1. ASSUME Len(ptodo') = 2
        PROVE  (IsGap(ptodo[1]) /\ GapFits(ptodo[1]) /\ ptodo[1].ToBlock + 1 = newest)'
    <3>1. /\ ptodo'[1].Event = "gap" /\ ptodo'[1].FromBlock = last + 1 /\ ptodo'[1].ToBlock = n - 1
          /\ last # 0 /\ n > last + 1
      BY <1>4, <2>1 DEF Gap
    <3>2. last \in acked' BY <1>2, <3>1 DEF Inv, LastAcked, hist
    <3>3. ptodo'[1].FromBlock - 1 = last /\ ptodo'[1].ToBlock + 1 = n
          /\ ptodo'[1].FromBlock <= ptodo'[1].ToBlock
      BY <1>1, <3>1, Typed
    <3>4. QED BY <1>1, <3>1, <3>2, <3>3 DEF IsGap, GapFits
  <2>2. NoOpenGap' BY <1>2, <1>5 DEF NoOpenGap, IsGap
  <2>3. QED BY <2>1, <2>2
<1>7. FastRetriesFirst'
  BY <1>1, <1>2, <1>4, Typed, Constants DEF Inv, FastRetriesFirst, TypeOK, svars, env, hist
<1>8. GapAfterAcknowledged'
  <2>1. ASSUME NEW k \in 1 .. Len(GasPredictCh), GasPredictCh[k].Event = "gap"
        PROVE  k < Len(GasPredictCh) /\ Behind(k)' = Behind(k)
    <3>1. k # Len(GasPredictCh)
      <4>1. GasPredictCh # <<>> BY EmptySeq
      <4>2. QED BY <1>5, <2>1, <4>1 DEF Last, IsGap
    <3>2. k < Len(GasPredictCh) BY <3>1, Typed
    <3>3. QED BY <1>2, <3>2 DEF Behind
  <2>2. QED BY <1>2, <2>1 DEF Inv, GapAfterAcknowledged, hist
<1>9. EnqueueInv' BY <1>1, <1>2, <1>4, <1>6 DEF EnqueueInv, NewestIsLast
<1>10. LastAcked' BY <1>2 DEF Inv, LastAcked, hist
<1>11. QED BY <1>7, <1>8, <1>9, <1>10 DEF Inv

(* Where enqueue is tells that there is something to put and what it is.   *)
LEMMA HeadOfTodo ==
    ASSUME Inv, ppc # "idle"
    PROVE  /\ ptodo # <<>> /\ Head(ptodo) \in MsgType /\ Tail(ptodo) \in Seq(MsgType)
           /\ Len(ptodo) = 1 => Head(ptodo) = Prediction(newest) /\ Tail(ptodo) = <<>>
           /\ Len(ptodo) # 1 =>
                 /\ Len(ptodo) = 2
                 /\ IsGap(Head(ptodo)) /\ GapFits(Head(ptodo)) /\ Head(ptodo).ToBlock + 1 = newest
                 /\ Len(Tail(ptodo)) = 1 /\ Tail(ptodo)[1] = Prediction(newest)
                 /\ Tail(ptodo) # <<>> /\ Head(Tail(ptodo)) = Prediction(newest)
<1>1. /\ Len(ptodo) \in {1, 2} /\ ptodo[Len(ptodo)] = Prediction(newest)
      /\ Len(ptodo) = 2 => IsGap(ptodo[1]) /\ GapFits(ptodo[1]) /\ ptodo[1].ToBlock + 1 = newest
  BY DEF Inv, EnqueueInv
<1>2. ptodo \in Seq(MsgType) /\ ptodo # <<>>
  <2>1. ASSUME ptodo = <<>> PROVE FALSE
    <3>1. Len(ptodo) = 0 BY <2>1, EmptySeq
    <3>2. QED BY <1>1, <3>1
  <2>2. QED BY <2>1, Typed
<1>3. Head(ptodo) = ptodo[1] BY <1>1, <1>2
<1>4. /\ Head(ptodo) \in MsgType /\ Tail(ptodo) \in Seq(MsgType)
      /\ Len(Tail(ptodo)) = Len(ptodo) - 1
      /\ \A k \in 1 .. Len(Tail(ptodo)) : Tail(ptodo)[k] = ptodo[k + 1]
  BY <1>2, HeadTailProperties
<1>5. CASE Len(ptodo) = 1
  <2>1. Len(Tail(ptodo)) = 0 BY <1>4, <1>5
  <2>2. Tail(ptodo) = <<>> BY <1>4, <2>1, EmptySeq
  <2>3. QED BY <1>1, <1>2, <1>3, <1>4, <1>5, <2>2
<1>6. CASE Len(ptodo) = 2
  <2>1. PICK rest : rest = Tail(ptodo) OBVIOUS
  <2>2. rest \in Seq(MsgType) /\ Len(rest) = 1 BY <1>4, <1>6, <2>1
  <2>3. rest[1] = ptodo[2]
    <3>1. 1 \in 1 .. Len(rest) /\ 1 + 1 = 2 BY <2>2
    <3>2. \A k \in 1 .. Len(rest) : rest[k] = ptodo[k + 1] BY <1>4, <2>1
    <3>3. rest[1] = ptodo[1 + 1] BY <3>1, <3>2
    <3>4. QED BY <3>1, <3>3
  <2>4. rest # <<>> /\ Head(rest) = rest[1]
    <3>1. ASSUME rest = <<>> PROVE FALSE BY <2>2, <3>1, EmptySeq
    <3>2. Head(rest) = rest[1] BY <2>2
    <3>3. QED BY <3>1, <3>2
  <2>5. QED BY <1>1, <1>2, <1>3, <1>4, <1>6, <2>1, <2>2, <2>3, <2>4
<1>7. QED BY <1>1, <1>5, <1>6

(* enqueue returns after it has put the message: the one behind the gap    *)
(* event that was last, or a gap event whose prediction is to follow.      *)
LEMMA EnqueuedStep ==
    ASSUME Inv, ppc \in {"try", "again"}, Len(GasPredictCh) < BufferSize,
           GasPredictCh' = Append(GasPredictCh, Head(ptodo)), Enqueued,
           UNCHANGED <<lastSentBlock, newest, sends, svars, env, hist>>
    PROVE  Inv'
<1> DEFINE m == Head(ptodo)
<1>1. /\ m \in MsgType /\ Tail(ptodo) \in Seq(MsgType)
      /\ Len(ptodo) = 1 => m = Prediction(newest) /\ Tail(ptodo) = <<>>
      /\ Len(ptodo) # 1 =>
            /\ Len(ptodo) = 2 /\ IsGap(m) /\ GapFits(m) /\ m.ToBlock + 1 = newest
            /\ Len(Tail(ptodo)) = 1 /\ Tail(ptodo)[1] = Prediction(newest)
            /\ Tail(ptodo) # <<>> /\ Head(Tail(ptodo)) = Prediction(newest)
      /\ ptodo # <<>>
  BY HeadOfTodo
<1>2. /\ GasPredictCh' \in Seq(MsgType) /\ Len(GasPredictCh') = Len(GasPredictCh) + 1
      /\ \A k \in 1 .. Len(GasPredictCh) : GasPredictCh'[k] = GasPredictCh[k]
      /\ GasPredictCh'[Len(GasPredictCh) + 1] = m
  BY <1>1, Typed, AppendProperties
<1>3. \A i \in 1 .. Len(GasPredictCh) : Behind(i)' = Behind(i)
  <2>1. ASSUME NEW i \in 1 .. Len(GasPredictCh) PROVE Behind(i)' = Behind(i)
    <3>1. Behind(i)' = GasPredictCh'[i + 1] BY <1>2, Typed DEF Behind
    <3>2. CASE i < Len(GasPredictCh)
      <4>1. i + 1 \in 1 .. Len(GasPredictCh) BY <3>2, Typed
      <4>2. QED BY <1>2, <3>1, <3>2, <4>1 DEF Behind
    <3>3. CASE ~(i < Len(GasPredictCh))
      <4>1. i = Len(GasPredictCh) BY <3>3, Typed
      <4>2. QED BY <1>1, <1>2, <3>1, <4>1 DEF Behind
    <3>4. QED BY <3>2, <3>3
  <2>2. QED BY <2>1
<1> HIDE DEF m
<1>4. ptodo' = Tail(ptodo) /\ ppc' = IF Len(ptodo) = 1 THEN "idle" ELSE "try" BY DEF Enqueued
<1>5. GapAfterAcknowledged'
  <2>1. ASSUME NEW i \in 1 .. Len(GasPredictCh'), GasPredictCh'[i].Event = "gap"
        PROVE  /\ GasPredictCh'[i].FromBlock - 1 \in acked'
               /\ GasPredictCh'[i].FromBlock <= GasPredictCh'[i].ToBlock
               /\ Behind(i)' = Prediction(GasPredictCh'[i].ToBlock + 1)
    <3>1. CASE i \in 1 .. Len(GasPredictCh)
      BY <1>2, <1>3, <2>1, <3>1 DEF Inv, GapAfterAcknowledged, hist
    <3>2. CASE i = Len(GasPredictCh) + 1
      <4>1. GasPredictCh'[i] = m /\ m.Event = "gap" BY <1>2, <2>1, <3>2
      <4>2. Len(ptodo) # 1 BY <1>1, <4>1 DEF Prediction
      <4>3. ~(i < Len(GasPredictCh')) BY <1>2, <3>2, Typed
      <4>4. Behind(i)' = Prediction(newest) BY <1>1, <1>4, <4>2, <4>3 DEF Behind
      <4>5. QED BY <1>1, <4>1, <4>2, <4>4 DEF GapFits, hist
    <3>3. QED BY <1>2, <3>1, <3>2, Typed
  <2>2. QED BY <2>1 DEF GapAfterAcknowledged
<1>6. LastAcked' BY DEF Inv, LastAcked, hist
<1>7. Len(GasPredictCh') <= BufferSize /\ Len(ptodo') <= 2 /\ Last(GasPredictCh') = m
  BY <1>1, <1>2, <1>4, Typed, Constants, EmptySeq DEF Last
<1>8. FastRetriesFirst'
  BY <1>1, <1>2, <1>4, <1>7, Typed DEF Inv, FastRetriesFirst, TypeOK, svars, env, hist
<1>9. EnqueueInv'
  <2>1. CASE Len(ptodo) = 1
    <3>1. ppc' = "idle" /\ ptodo' = <<>> /\ Last(GasPredictCh') = Prediction(newest')
      BY <1>1, <1>4, <1>7, <2>1
    <3>2. QED BY <3>1 DEF EnqueueInv, NewestIsLast
  <2>2. CASE Len(ptodo) # 1
    <3>1. ppc' = "try" /\ Len(ptodo') = 1 /\ ptodo'[1] = Prediction(newest')
      BY <1>1, <1>4, <2>2
    <3>2. QED BY <3>1 DEF EnqueueInv, NewestIsLast
  <2>3. QED BY <2>1, <2>2
<1>10. QED BY <1>5, <1>6, <1>8, <1>9 DEF Inv

(* A step that leaves the messages alone keeps what is known of them.      *)
LEMMA MessagesUnchanged ==
    ASSUME Inv, UNCHANGED <<GasPredictCh, lastSentBlock, pvars, acked>>
    PROVE  GapAfterAcknowledged' /\ LastAcked' /\ EnqueueInv'
<1>1. UNCHANGED <<GasPredictCh, lastSentBlock, ppc, ptodo, newest, acked>> BY DEF pvars
<1>2. GapAfterAcknowledged' BY <1>1 DEF Inv, GapAfterAcknowledged, Behind
<1>3. LastAcked' BY <1>1 DEF Inv, LastAcked
<1>4. EnqueueInv' BY <1>1 DEF Inv, EnqueueInv, NewestIsLast, NoOpenGap, IsGap, GapFits
<1>5. QED BY <1>2, <1>3, <1>4

(* Each select of enqueue keeps the invariant; the second makes room.      *)
LEMMA ProducingStep ==
    ASSUME Inv, Producing
    PROVE  Inv'
<1>1. ASSUME EnqueueTry PROVE Inv'
  <2>1. CASE Len(GasPredictCh) < BufferSize BY <1>1, <2>1, EnqueuedStep DEF EnqueueTry
  <2>2. CASE ~(Len(GasPredictCh) < BufferSize)
    <3>1. /\ ppc = "try" /\ ppc' = "drop"
          /\ UNCHANGED <<GasPredictCh, ptodo, lastSentBlock, newest, sends, svars, env, hist>>
      BY <1>1, <2>2 DEF EnqueueTry
    <3>2. FastRetriesFirst' BY <3>1 DEF Inv, FastRetriesFirst, TypeOK, svars, env, hist
    <3>3. GapAfterAcknowledged' /\ LastAcked'
      BY <3>1 DEF Inv, GapAfterAcknowledged, Behind, LastAcked, hist
    <3>4. EnqueueInv' BY <3>1 DEF Inv, EnqueueInv, NewestIsLast, NoOpenGap, IsGap, GapFits, hist
    <3>5. QED BY <3>2, <3>3, <3>4 DEF Inv
  <2>3. QED BY <2>1, <2>2
<1>2. ASSUME EnqueueDrop PROVE Inv'
  <2>1. /\ ppc = "drop" /\ ppc' = "again"
        /\ UNCHANGED <<ptodo, lastSentBlock, newest, sends, svars, env, hist>>
        /\ GasPredictCh' = Shortened(GasPredictCh)
    BY <1>2 DEF EnqueueDrop
  <2>2. /\ GasPredictCh' \in Seq(MsgType) /\ Len(GasPredictCh') < BufferSize
        /\ GapAfterAcknowledged'
        /\ GasPredictCh' # <<>> => GasPredictCh # <<>> /\ Last(GasPredictCh') = Last(GasPredictCh)
    <3>1. CASE GasPredictCh = <<>>
      <4>1. GasPredictCh' = GasPredictCh BY <2>1, <3>1 DEF Shortened
      <4>2. Len(GasPredictCh) = 0 BY <3>1, EmptySeq
      <4>3. Len(GasPredictCh') < BufferSize /\ GasPredictCh' \in Seq(MsgType)
        BY <4>1, <4>2, Typed, Constants
      <4>4. GapAfterAcknowledged' BY <4>1, <4>2 DEF GapAfterAcknowledged
      <4>5. QED BY <3>1, <4>1, <4>3, <4>4
    <3>2. CASE GasPredictCh # <<>>
      <4>1. GasPredictCh' = Tail(GasPredictCh) BY <2>1, <3>2 DEF Shortened
      <4>2. /\ GapAfterAcknowledged' /\ GasPredictCh' \in Seq(MsgType)
            /\ Len(GasPredictCh') = Len(GasPredictCh) - 1
            /\ GasPredictCh' # <<>> => Last(GasPredictCh') = Last(GasPredictCh)
        BY <2>1, <3>2, <4>1, TailChannel DEF hist
      <4>3. QED BY <3>2, <4>2, Typed, Constants
    <3>3. QED BY <3>1, <3>2
  <2>3. FastRetriesFirst'
    BY <2>1, <2>2, Typed, Constants DEF Inv, FastRetriesFirst, TypeOK, svars, env, hist
  <2>4. LastAcked' BY <2>1 DEF Inv, LastAcked, hist
  <2>5. EnqueueInv'
    BY <2>1, <2>2 DEF Inv, EnqueueInv, NewestIsLast, NoOpenGap, IsGap, GapFits, hist
  <2>6. QED BY <2>2, <2>3, <2>4, <2>5 DEF Inv
<1>3. ASSUME EnqueueAgain PROVE Inv'
  <2>1. Len(GasPredictCh) < BufferSize BY <1>3 DEF EnqueueAgain, Inv, EnqueueInv
  <2>2. QED BY <1>3, <2>1, EnqueuedStep DEF EnqueueAgain
<1>4. QED BY <1>1, <1>2, <1>3 DEF Producing

(* The connection: what fails costs the message and begins the delays.     *)
LEMMA ConnectionStep ==
    ASSUME Inv,
           \/ Connect \/ ConnectFails \/ WaitForRetry \/ WaitCancelled \/ StreamCancelled
           \/ Send \/ StreamBreaks
    PROVE  Inv'
<1>1. /\ UNCHANGED <<GasPredictCh, lastSentBlock, pvars, healthy, ctxDone, acked>>
      /\ msg' = msg \/ msg' = NoMsg
  BY DEF Connect, ConnectFails, WaitForRetry, WaitCancelled, StreamCancelled, Send, StreamBreaks,
         env, hist
<1>2. GapAfterAcknowledged' /\ LastAcked' /\ EnqueueInv' BY <1>1, MessagesUnchanged
<1>3. lost' \subseteq Num /\ broken' \in BOOLEAN
  <2>1. lost \subseteq Num /\ broken \in BOOLEAN /\ msg \in MsgType \cup {NoMsg}
    BY Typed DEF TypeOK
  <2>2. CASE StreamBreaks
    <3>1. msg.Event = "gap" => MsgBlocks \subseteq Num BY <2>1, MsgRange DEF MsgBlocks, NoMsg
    <3>2. QED BY <2>1, <2>2, <3>1 DEF StreamBreaks, env
  <2>3. CASE ~StreamBreaks
    BY <2>1, <2>3
    DEF Connect, ConnectFails, WaitForRetry, WaitCancelled, StreamCancelled, Send, env, hist
  <2>4. QED BY <2>2, <2>3
<1>4. /\ retryCount' \in 0 .. FastRetryCount /\ retryDelay' \in FastRetryDelay .. MaxRetryDelay
      /\ retryDelay' > FastRetryDelay => retryCount' = FastRetryCount
  <2>1. /\ retryCount \in Nat /\ retryCount <= FastRetryCount
        /\ retryDelay \in Nat /\ FastRetryDelay <= retryDelay /\ retryDelay <= MaxRetryDelay
        /\ retryDelay > FastRetryDelay => retryCount = FastRetryCount
    BY Typed, Constants DEF TypeOK, Inv, FastRetriesFirst
  <2>2. CASE Connect BY <2>2, Constants DEF Connect, Connected
  <2>3. CASE WaitForRetry
    <3>1. Doubled(retryDelay) \in FastRetryDelay .. MaxRetryDelay BY <2>1, Constants DEF Doubled
    <3>2. QED BY <2>1, <2>3, <3>1, Constants DEF WaitForRetry
  <2>4. CASE UNCHANGED <<retryCount, retryDelay>> BY <2>1, <2>4, Constants
  <2>5. QED
    BY <2>2, <2>3, <2>4
    DEF ConnectFails, WaitCancelled, StreamCancelled, Send, StreamBreaks
<1>5. spc' \in {"connect", "delay", "stream", "send", "recv", "stopped"}
  BY Typed
  DEF Connect, ConnectFails, WaitForRetry, WaitCancelled, StreamCancelled, Send, StreamBreaks
<1>6. FastRetriesFirst'
  BY <1>1, <1>3, <1>4, <1>5, Typed DEF FastRetriesFirst, TypeOK, pvars
<1>7. QED BY <1>2, <1>6 DEF Inv

(* The worker takes the oldest message.                                    *)
LEMMA TakeStep ==
    ASSUME Inv, TakeMessage
    PROVE  Inv'
<1>1. /\ GasPredictCh # <<>> /\ GasPredictCh' = Tail(GasPredictCh) /\ msg' = Head(GasPredictCh)
      /\ spc' = "send"
      /\ UNCHANGED <<lastSentBlock, ppc, ptodo, newest, sends, retryCount, retryDelay, env, acked, lost>>
  BY DEF TakeMessage, pvars, hist
<1>2. /\ GapAfterAcknowledged'
      /\ GasPredictCh' \in Seq(MsgType)
      /\ Len(GasPredictCh') = Len(GasPredictCh) - 1 /\ Len(GasPredictCh) >= 1
      /\ GasPredictCh' # <<>> => Last(GasPredictCh') = Last(GasPredictCh)
      /\ msg' \in MsgType
  BY <1>1, TailChannel
<1>3. FastRetriesFirst'
  BY <1>1, <1>2, Typed, Constants DEF Inv, FastRetriesFirst, TypeOK, env
<1>4. LastAcked' BY <1>1 DEF Inv, LastAcked
<1>5. EnqueueInv'
  <2>1. NewestIsLast' BY <1>1, <1>2 DEF Inv, EnqueueInv, NewestIsLast
  <2>2. Len(GasPredictCh) < BufferSize => Len(GasPredictCh') < BufferSize
    BY <1>2, Typed, Constants
  <2>3. NoOpenGap => NoOpenGap' BY <1>1, <1>2 DEF NoOpenGap, IsGap
  <2>4. QED BY <1>1, <2>1, <2>2, <2>3 DEF Inv, EnqueueInv, IsGap, GapFits
<1>6. QED BY <1>2, <1>3, <1>4, <1>5 DEF Inv

(* A prediction is acknowledged, or a gap event is.                        *)
LEMMA RecvStep ==
    ASSUME Inv, Recv
    PROVE  Inv'
<1>1. /\ lost' = lost \ MsgBlocks
      /\ lastSentBlock' = Acknowledged(lastSentBlock, msg)
      /\ acked' = IF msg.Event = "prediction" THEN acked \cup {msg.FromBlock} ELSE acked
      /\ msg' = NoMsg /\ spc' = "stream"
      /\ UNCHANGED <<GasPredictCh, ppc, ptodo, newest, sends, retryCount, retryDelay, env>>
  BY DEF Recv, pvars
<1>2. msg.Event = "prediction" => msg.FromBlock \in Num
  BY Typed, MsgRange DEF TypeOK, NoMsg
<1>3. acked \subseteq acked' /\ acked' \subseteq Num BY <1>1, <1>2, Typed DEF TypeOK
<1>4. lastSentBlock' \in 0 .. MaxBlock
  BY <1>1, <1>2, Typed, Constants DEF Acknowledged, TypeOK, Num
<1>5. LastAcked' BY <1>1 DEF Inv, LastAcked, Acknowledged
<1>6. FastRetriesFirst'
  <2>1. lost' \subseteq Num BY <1>1, Typed DEF TypeOK
  <2>2. QED BY <1>1, <1>3, <1>4, <2>1, Typed DEF Inv, FastRetriesFirst, TypeOK, env
<1>7. GapAfterAcknowledged' BY <1>1, <1>3 DEF Inv, GapAfterAcknowledged, Behind
<1>8. EnqueueInv'
  BY <1>1, <1>3 DEF Inv, EnqueueInv, NewestIsLast, NoOpenGap, IsGap, GapFits
<1>9. QED BY <1>5, <1>6, <1>7, <1>8 DEF Inv

(* Every step keeps the invariant.                                         *)
LEMMA NextInv == Inv /\ [Next]_vars => Inv'
<1> SUFFICES ASSUME Inv, [Next]_vars PROVE Inv' OBVIOUS
<1>1. ASSUME NEW n \in Num, GasPredictResultSend(n) PROVE Inv' BY <1>1, SendStep
<1>2. CASE Producing BY <1>2, ProducingStep
<1>3. CASE Streaming \/ StreamCancelled
  BY <1>3, ConnectionStep, TakeStep, RecvStep DEF Streaming
<1>4. CASE Outage \/ StreamDies \/ Close \/ UNCHANGED vars
  <2>1. UNCHANGED <<GasPredictCh, lastSentBlock, pvars, svars, hist>>
        /\ healthy' \in BOOLEAN /\ broken' \in BOOLEAN /\ ctxDone' \in BOOLEAN
    BY <1>4, Typed DEF Outage, StreamDies, Close, vars, env, TypeOK
  <2>2. FastRetriesFirst' BY <2>1 DEF Inv, FastRetriesFirst, TypeOK, pvars, svars, hist
  <2>3. QED BY <2>1, <2>2, MessagesUnchanged DEF hist, Inv
<1>5. QED BY <1>1, <1>2, <1>3, <1>4 DEF Next

(* The joints of the gap events and the room enqueue has made hold in      *)
(* every reachable state.                                                  *)
THEOREM Invariance == Spec => []Inv
  BY InitInv, NextInv, PTL DEF Spec

(* The new message is never the one that is lost: whenever the analyzer is *)
(* outside enqueue, a channel that holds anything ends with the newest     *)
(* prediction.                                                             *)
THEOREM NewestLast == Spec => []NewestIsLast
<1>1. Inv => NewestIsLast BY DEF Inv, EnqueueInv
<1>2. QED BY <1>1, Invariance, PTL

(* A gap event begins behind an acknowledged prediction and ends before    *)
(* the one directly behind it, although the last acknowledged number is    *)
(* read long before, the numbers may go back, and enqueue and the worker   *)
(* take messages away meanwhile.                                           *)
THEOREM GapsReal == Spec => []GapAfterAcknowledged
<1>1. Inv => GapAfterAcknowledged BY DEF Inv
<1>2. QED BY <1>1, Invariance, PTL

(* Long delays only come after all the fast retries of the same outage,    *)
(* and every variable stays in its range.                                  *)
THEOREM FastRetries == Spec => []FastRetriesFirst
<1>1. Inv => FastRetriesFirst BY DEF Inv
<1>2. QED BY <1>1, Invariance, PTL

=============================================================================
