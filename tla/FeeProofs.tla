------------------------------- MODULE FeeProofs -------------------------------
(***************************************************************************)
(* The fees and what is sent of them.  First the upload of the statistics  *)
(* and the token it is sent with, proved for any buffer, any number of     *)
(* attempts and callers and any life of a token.  Then the analysis, for   *)
(* any transactions, table of weights, number of stored blocks and width   *)
(* of the integers: the percentile algorithms compute the weighted         *)
(* quantiles of the tips, a prediction is in order and the forecast comes  *)
(* true.                                                                   *)
(***************************************************************************)
EXTENDS FeeUpload, FeeAnalysis, SequenceTheorems, FiniteSetTheorems, NaturalsInduction,
        WellFoundedInduction, TLAPS

(* Only the leader of the refresh is inside it, and an answer on its way   *)
(* to the leader is no older than the token in the cache.                  *)
TokenInv ==
    /\ accessToken <= clock + Life
    /\ \A c \in Caller : gpc[c] \in {"recheck", "auth"} => leader = c
    /\ \A c \in Caller : issued[c] # None =>
          gpc[c] = "auth" /\ accessToken <= issued[c] /\ issued[c] <= clock + Life

(* What the server took, what the worker is sending, what waits in the     *)
(* channel and what the block goroutine holds are older to newer.          *)
QueueOrdered ==
    /\ \A j, k \in 1 .. Len(FeeBucketCh) : j < k => FeeBucketCh[j] < FeeBucketCh[k]
    /\ \A k \in 1 .. Len(FeeBucketCh) : got < FeeBucketCh[k] /\ sending < FeeBucketCh[k]

SenderNewest ==
    ppc # "idle" =>
        /\ req = requests /\ got < req /\ sending < req
        /\ \A k \in 1 .. Len(FeeBucketCh) : FeeBucketCh[k] < req

UploadInv ==
    /\ upc \in {"token", "call", "delay"} => got <= sending
    /\ upc = "delay" => attempt < MaxAttempts

Inv == TypeOK /\ TokenInv /\ QueueOrdered /\ SenderNewest /\ UploadInv

-----------------------------------------------------------------------------
(* The refresh of the token                                                *)

(* What the assumptions say of each constant.                               *)
LEMMA Constants ==
    /\ Life \in Nat /\ tokenRefreshMargin \in Nat /\ MaxTime \in Nat /\ MaxTime >= 1
    /\ Life > 0 /\ NoLeader \notin Caller
    /\ BufferSize \in Nat /\ BufferSize > 0 /\ MaxAttempts \in Nat /\ MaxAttempts > 0
    /\ MaxRequests \in Nat /\ "unary" \in Caller /\ "stream" \in Caller
  BY TokenAssumption, FeeUploadAssumption

(* The end of a refresh serves the leader and those who joined it, and     *)
(* leaves nobody inside.                                                   *)
LEMMA FinishEnds ==
    ASSUME TokenTypeOK, TokenInv, NEW c \in Caller, gpc[c] \in {"recheck", "auth"},
           NEW result \in 0 .. MaxTime + Life, Finish(c, result), leader' = NoLeader
    PROVE  /\ \A d \in Caller : gpc'[d] \notin {"recheck", "auth"} /\ issued'[d] = None
           /\ leader' \in Caller \cup {NoLeader}
           /\ gpc' \in [Caller -> {"idle", "do", "join", "recheck", "auth", "done"}]
           /\ token' \in [Caller -> 0 .. MaxTime + Life]
           /\ issued' \in [Caller -> 0 .. MaxTime + Life]
<1>1. leader = c BY DEF TokenInv
<1>2. ASSUME NEW d \in Caller PROVE gpc'[d] \notin {"recheck", "auth"} /\ issued'[d] = None
  <2>1. CASE d = c BY <2>1 DEF Finish, TokenTypeOK
  <2>2. CASE d # c
    <3>1. gpc[d] \notin {"recheck", "auth"} /\ issued[d] = None
      BY <1>1, <2>2 DEF TokenInv
    <3>2. QED BY <2>2, <3>1 DEF Finish, TokenTypeOK
  <2>3. QED BY <2>1, <2>2
<1>3. 0 \in 0 .. MaxTime + Life BY Constants
<1>4. QED BY <1>2, <1>3 DEF Finish, TokenTypeOK, None

(* Every step of GetAccessToken keeps the order of the tokens.             *)
LEMMA TokenStep ==
    ASSUME TokenTypeOK, TokenInv, NEW c \in Caller,
           GetAccessToken(c) \/ Refreshing(c)
    PROVE  TokenTypeOK' /\ TokenInv'
<1>1. /\ clock \in Int /\ 1 <= clock /\ clock <= MaxTime /\ accessToken \in Int
      /\ \A d \in Caller : issued[d] \in Int
  BY Constants DEF TokenTypeOK
<1>2. ASSUME GetAccessToken(c) PROVE TokenTypeOK' /\ TokenInv'
  BY <1>2, Constants DEF GetAccessToken, TokenTypeOK, TokenInv, env
<1>3. ASSUME Do(c) PROVE TokenTypeOK' /\ TokenInv'
  BY <1>3, Constants DEF Do, Join, TokenTypeOK, TokenInv, env
<1>4. ASSUME Recheck(c) PROVE TokenTypeOK' /\ TokenInv'
  <2>1. CASE isAccessTokenValid
    <3>1. Finish(c, accessToken) /\ leader' = NoLeader /\ UNCHANGED <<accessToken, env>>
      BY <1>4, <2>1 DEF Recheck
    <3>2. accessToken \in 0 .. MaxTime + Life BY DEF TokenTypeOK
    <3>3. gpc[c] = "recheck" BY <1>4 DEF Recheck
    <3>4. QED BY <3>1, <3>2, <3>3, FinishEnds DEF TokenTypeOK, TokenInv, env
  <2>2. CASE ~isAccessTokenValid
    BY <1>4, <2>2 DEF Recheck, TokenTypeOK, TokenInv, env
  <2>3. QED BY <2>1, <2>2
<1>5. ASSUME Issue(c) PROVE TokenTypeOK' /\ TokenInv'
  <2>1. clock + Life \in 0 .. MaxTime + Life BY <1>1, Constants
  <2>2. QED BY <1>1, <1>5, <2>1, Constants DEF Issue, TokenTypeOK, TokenInv, env
<1>6. ASSUME Store(c) PROVE TokenTypeOK' /\ TokenInv'
  <2>1. issued[c] \in 0 .. MaxTime + Life /\ issued[c] <= clock + Life
    BY <1>6 DEF Store, TokenTypeOK, TokenInv
  <2>2. QED BY <1>6, <2>1, FinishEnds DEF Store, TokenTypeOK, TokenInv, env
<1>7. ASSUME AuthFails(c) PROVE TokenTypeOK' /\ TokenInv'
  <2>1. None \in 0 .. MaxTime + Life BY Constants DEF None
  <2>2. QED BY <1>7, <2>1, FinishEnds DEF AuthFails, Release, TokenTypeOK, TokenInv, env
<1>8. QED BY <1>2, <1>3, <1>4, <1>5, <1>6, <1>7 DEF Refreshing

(* So does the use of a token.                                             *)
LEMMA TokenUsedStep ==
    ASSUME TokenTypeOK, TokenInv, NEW c \in Caller, gpc[c] = "done", TokenUsed(c),
           UNCHANGED env
    PROVE  TokenTypeOK' /\ TokenInv'
<1>1. None \in 0 .. MaxTime + Life BY Constants DEF None
<1>2. QED BY <1>1 DEF TokenUsed, TokenTypeOK, TokenInv, env

-----------------------------------------------------------------------------
(* The channel                                                             *)

(* What the proofs below use of the types.                                 *)
LEMMA Typed ==
    ASSUME Inv
    PROVE  /\ requests \in Nat /\ requests <= MaxRequests
           /\ sending \in Nat /\ sending <= requests /\ got \in Nat /\ got <= requests
           /\ req \in Nat /\ req <= requests /\ attempt \in Nat /\ attempt <= MaxAttempts
           /\ FeeBucketCh \in Seq(1 .. requests) /\ Len(FeeBucketCh) \in Nat
           /\ \A k \in 1 .. Len(FeeBucketCh) :
                 FeeBucketCh[k] \in Nat /\ FeeBucketCh[k] >= 1 /\ FeeBucketCh[k] <= requests
<1>1. TypeOK BY DEF Inv
<1>2. requests \in Nat /\ requests <= MaxRequests BY <1>1, Constants DEF TypeOK
<1>3. FeeBucketCh \in Seq(1 .. requests) BY <1>1 DEF TypeOK
<1>4. Len(FeeBucketCh) \in Nat /\ \A k \in 1 .. Len(FeeBucketCh) : FeeBucketCh[k] \in 1 .. requests
  BY <1>3, LenProperties, ElementOfSeq
<1>5. QED BY <1>1, <1>2, <1>3, <1>4, Constants DEF TypeOK

(* A request put at the end is the newest of the channel.                  *)
LEMMA AppendOrdered ==
    ASSUME Inv, ppc \in {"try", "again"}, Len(FeeBucketCh) < BufferSize,
           FeeBucketCh' = Append(FeeBucketCh, req),
           UNCHANGED <<requests, sending, got>>
    PROVE  /\ QueueOrdered'
           /\ FeeBucketCh' \in Seq(1 .. requests') /\ Len(FeeBucketCh') <= BufferSize
<1>1. /\ req = requests /\ got < req /\ sending < req
      /\ \A k \in 1 .. Len(FeeBucketCh) : FeeBucketCh[k] < req
  BY DEF Inv, SenderNewest
<1>2. req \in 1 .. requests BY <1>1, Typed
<1>3. /\ Len(FeeBucketCh') = Len(FeeBucketCh) + 1
      /\ \A k \in 1 .. Len(FeeBucketCh) : FeeBucketCh'[k] = FeeBucketCh[k]
      /\ FeeBucketCh'[Len(FeeBucketCh) + 1] = req
      /\ FeeBucketCh' \in Seq(1 .. requests)
  BY <1>2, Typed, AppendProperties
<1>4. ASSUME NEW k \in 1 .. Len(FeeBucketCh') PROVE got' < FeeBucketCh'[k] /\ sending' < FeeBucketCh'[k]
  <2>1. CASE k = Len(FeeBucketCh) + 1 BY <1>1, <1>3, <2>1
  <2>2. CASE k \in 1 .. Len(FeeBucketCh) BY <1>3, <2>2 DEF Inv, QueueOrdered
  <2>3. QED BY <1>3, <2>1, <2>2, Typed
<1>5. ASSUME NEW j \in 1 .. Len(FeeBucketCh'), NEW k \in 1 .. Len(FeeBucketCh'), j < k
      PROVE  FeeBucketCh'[j] < FeeBucketCh'[k]
  <2>1. j \in 1 .. Len(FeeBucketCh) BY <1>3, <1>5, Typed
  <2>2. CASE k = Len(FeeBucketCh) + 1 BY <1>1, <1>3, <2>1, <2>2
  <2>3. CASE k \in 1 .. Len(FeeBucketCh) BY <1>3, <1>5, <2>1, <2>3 DEF Inv, QueueOrdered
  <2>4. QED BY <1>3, <2>2, <2>3, Typed
<1>6. QED BY <1>3, <1>4, <1>5, Constants, Typed DEF QueueOrdered

(* The channel without its oldest request.                                 *)
LEMMA TailOrdered ==
    ASSUME Inv, FeeBucketCh # <<>>
    PROVE  /\ Tail(FeeBucketCh) \in Seq(1 .. requests)
           /\ Len(Tail(FeeBucketCh)) = Len(FeeBucketCh) - 1 /\ Len(FeeBucketCh) >= 1
           /\ \A k \in 1 .. Len(Tail(FeeBucketCh)) :
                 /\ Tail(FeeBucketCh)[k] = FeeBucketCh[k + 1]
                 /\ k + 1 \in 1 .. Len(FeeBucketCh)
           /\ Head(FeeBucketCh) = FeeBucketCh[1] /\ Head(FeeBucketCh) \in 1 .. requests
           /\ \A k \in 1 .. Len(Tail(FeeBucketCh)) : Head(FeeBucketCh) < Tail(FeeBucketCh)[k]
<1>1. FeeBucketCh \in Seq(1 .. requests) BY Typed
<1>2. /\ Tail(FeeBucketCh) \in Seq(1 .. requests)
      /\ Len(Tail(FeeBucketCh)) = Len(FeeBucketCh) - 1 /\ Len(FeeBucketCh) >= 1
      /\ Len(FeeBucketCh) \in Nat
      /\ \A k \in 1 .. Len(Tail(FeeBucketCh)) : Tail(FeeBucketCh)[k] = FeeBucketCh[k + 1]
      /\ Head(FeeBucketCh) = FeeBucketCh[1] /\ Head(FeeBucketCh) \in 1 .. requests
  <2>1. Len(FeeBucketCh) \in Nat BY <1>1, LenProperties
  <2>2. Len(FeeBucketCh) >= 1 BY <1>1, <2>1, EmptySeq
  <2>3. Head(FeeBucketCh) = FeeBucketCh[1] BY <1>1, <2>2
  <2>4. QED BY <1>1, <2>1, <2>2, <2>3, HeadTailProperties
<1>3. ASSUME NEW k \in 1 .. Len(Tail(FeeBucketCh)) PROVE k + 1 \in 1 .. Len(FeeBucketCh) /\ 1 < k + 1
  BY <1>2, <1>3
<1>4. 1 \in 1 .. Len(FeeBucketCh) BY <1>2
<1>5. QED BY <1>2, <1>3, <1>4 DEF Inv, QueueOrdered

(* A step that leaves the tokens and their environment alone keeps what    *)
(* is said of them.                                                        *)
LEMMA TokensUnchanged ==
    ASSUME Inv, UNCHANGED <<tvars, env>>
    PROVE  TokenTypeOK' /\ TokenInv' /\ healthy' \in BOOLEAN /\ ctxDone' \in BOOLEAN
  BY DEF Inv, TypeOK, TokenTypeOK, TokenInv, tvars, env

(* A step that leaves the upload alone and keeps the tokens in order.      *)
LEMMA UploadUnchanged ==
    ASSUME Inv, UNCHANGED <<pvars, FeeBucketCh, uvars, got>>, TokenTypeOK', TokenInv',
           healthy' \in BOOLEAN, ctxDone' \in BOOLEAN
    PROVE  Inv'
  BY DEF Inv, TypeOK, QueueOrdered, SenderNewest, UploadInv, pvars, uvars

-----------------------------------------------------------------------------

(* Nothing was made, nothing is on its way.                                *)
LEMMA InitInv == Init => Inv
<1> SUFFICES ASSUME Init PROVE Inv OBVIOUS
<1>1. TokenTypeOK /\ TokenInv
  <2>1. 0 \in 0 .. MaxTime + Life /\ 1 \in 1 .. MaxTime /\ 0 <= 1 + Life BY Constants
  <2>2. QED BY <2>1 DEF Init, TokenInit, TokenTypeOK, TokenInv, None
<1>2. healthy \in BOOLEAN /\ ctxDone \in BOOLEAN BY DEF Init, TokenInit
<1>3. FeeBucketCh = <<>> /\ <<>> \in Seq(1 .. requests) /\ Len(<<>>) = 0 BY DEF Init
<1>4. QED
  BY <1>1, <1>2, <1>3, Constants
  DEF Init, Inv, TypeOK, QueueOrdered, SenderNewest, UploadInv, NoRequest

(* Each select of FeeBucketSend keeps the order.                           *)
LEMMA SendStep ==
    ASSUME Inv, FeeBucketSend \/ Sending
    PROVE  Inv'
<1>1. TokenTypeOK' /\ TokenInv' /\ healthy' \in BOOLEAN /\ ctxDone' \in BOOLEAN
  BY TokensUnchanged DEF FeeBucketSend, Sending, SendTry, SendDrop, SendAgain
<1>2. Len(FeeBucketCh) <= BufferSize BY DEF Inv, TypeOK
<1>3. ASSUME FeeBucketSend PROVE Inv'
  <2>1. FeeBucketCh \in Seq(1 .. requests + 1)
    <3>1. 1 .. requests \subseteq 1 .. requests + 1 BY Typed
    <3>2. QED BY <3>1, Typed, SeqMonotonic
  <2>2. QED
    BY <1>1, <1>3, <2>1, Typed, Constants
    DEF FeeBucketSend, Inv, TypeOK, QueueOrdered, SenderNewest, UploadInv, uvars
<1>4. ASSUME SendTry PROVE Inv'
  <2>1. CASE Len(FeeBucketCh) < BufferSize
    <3>1. /\ QueueOrdered'
          /\ FeeBucketCh' \in Seq(1 .. requests') /\ Len(FeeBucketCh') <= BufferSize
      BY <1>4, <2>1, AppendOrdered DEF SendTry, uvars
    <3>2. QED
      BY <1>1, <1>4, <2>1, <3>1, Typed, Constants
      DEF SendTry, Inv, TypeOK, SenderNewest, UploadInv, uvars, NoRequest
  <2>2. CASE ~(Len(FeeBucketCh) < BufferSize)
    BY <1>1, <1>4, <2>2
    DEF SendTry, Inv, TypeOK, QueueOrdered, SenderNewest, UploadInv, uvars
  <2>3. QED BY <2>1, <2>2
<1>5. ASSUME SendDrop PROVE Inv'
  <2>1. CASE FeeBucketCh = <<>>
    BY <1>1, <1>5, <2>1
    DEF SendDrop, Shortened, Inv, TypeOK, QueueOrdered, SenderNewest, UploadInv, uvars
  <2>2. CASE FeeBucketCh # <<>>
    <3>1. FeeBucketCh' = Tail(FeeBucketCh) /\ UNCHANGED <<requests, req, uvars, got>> /\ ppc = "drop" /\ ppc' = "again"
      BY <1>5, <2>2 DEF SendDrop, Shortened
    <3>2. QueueOrdered' BY <3>1, <2>2, TailOrdered, Typed DEF Inv, QueueOrdered, uvars
    <3>3. SenderNewest' BY <3>1, <2>2, TailOrdered DEF Inv, SenderNewest, uvars
    <3>4. TypeOK' BY <1>1, <1>2, <3>1, <2>2, TailOrdered, Typed, Constants DEF Inv, TypeOK, uvars
    <3>5. QED BY <1>1, <3>1, <3>2, <3>3, <3>4 DEF Inv, UploadInv, uvars
  <2>3. QED BY <2>1, <2>2
<1>6. ASSUME SendAgain PROVE Inv'
  <2>1. CASE Len(FeeBucketCh) < BufferSize
    <3>1. /\ QueueOrdered'
          /\ FeeBucketCh' \in Seq(1 .. requests') /\ Len(FeeBucketCh') <= BufferSize
      BY <1>6, <2>1, AppendOrdered DEF SendAgain, uvars
    <3>2. QED
      BY <1>1, <1>6, <2>1, <3>1, Typed, Constants
      DEF SendAgain, Inv, TypeOK, SenderNewest, UploadInv, uvars, NoRequest
  <2>2. CASE ~(Len(FeeBucketCh) < BufferSize)
    BY <1>1, <1>6, <2>2, Typed
    DEF SendAgain, Inv, TypeOK, QueueOrdered, SenderNewest, UploadInv, uvars, NoRequest
  <2>3. QED BY <2>1, <2>2
<1>7. QED BY <1>3, <1>4, <1>5, <1>6 DEF Sending

(* Each step of the unary worker keeps the order.                          *)
LEMMA WorkStep ==
    ASSUME Inv, Working \/ WorkerDone
    PROVE  Inv' /\ got' >= got
<1>1. TokenTypeOK /\ TokenInv /\ healthy \in BOOLEAN /\ ctxDone \in BOOLEAN BY DEF Inv, TypeOK
<1>2. ASSUME WorkerDone PROVE Inv' /\ got' >= got
  BY <1>2, Typed, TokensUnchanged, Constants
  DEF WorkerDone, Stop, Inv, TypeOK, QueueOrdered, SenderNewest, UploadInv, pvars, NoRequest
<1>3. ASSUME TakeRequest PROVE Inv' /\ got' >= got
  <2>1. /\ FeeBucketCh # <<>> /\ FeeBucketCh' = Tail(FeeBucketCh)
        /\ UNCHANGED <<requests, ppc, req, got>>
        /\ TokenTypeOK' /\ TokenInv' /\ healthy' \in BOOLEAN /\ ctxDone' \in BOOLEAN
    BY <1>3, TokensUnchanged DEF TakeRequest, pvars
  <2>2. \/ upc' = "stopped" /\ sending' = 0 /\ attempt' = 0
        \/ upc' = "token" /\ sending' = Head(FeeBucketCh) /\ attempt' = 1
    BY <1>3 DEF TakeRequest, Stop, NoRequest
  <2>3. 1 \in 1 .. Len(FeeBucketCh) /\ got < Head(FeeBucketCh)
    BY <2>1, TailOrdered, Typed DEF Inv, QueueOrdered
  <2>4. TypeOK'
    BY <2>1, <2>2, TailOrdered, Typed, Constants DEF Inv, TypeOK
  <2>5. QueueOrdered'
    <3> DEFINE n == Len(Tail(FeeBucketCh))
    <3>1. /\ \A k \in 1 .. n : /\ FeeBucketCh'[k] = FeeBucketCh[k + 1]
                             /\ k + 1 \in 1 .. Len(FeeBucketCh)
                             /\ Head(FeeBucketCh) < FeeBucketCh'[k]
          /\ Len(FeeBucketCh') = n
      BY <2>1, TailOrdered
    <3> HIDE DEF n
    <3>2. \A j, k \in 1 .. n : j < k => FeeBucketCh'[j] < FeeBucketCh'[k]
      <4>1. \A j, k \in 1 .. n : j < k => j + 1 < k + 1 OBVIOUS
      <4>2. \A j, k \in 1 .. Len(FeeBucketCh) : j < k => FeeBucketCh[j] < FeeBucketCh[k]
        BY DEF Inv, QueueOrdered
      <4>3. QED BY <3>1, <4>1, <4>2
    <3>3. \A k \in 1 .. n : got < FeeBucketCh'[k] /\ 0 < FeeBucketCh'[k]
      <4>1. \A k \in 1 .. Len(FeeBucketCh) : got < FeeBucketCh[k] /\ FeeBucketCh[k] \in 1 .. requests
        BY Typed, ElementOfSeq DEF Inv, QueueOrdered
      <4>2. \A k \in 1 .. n : FeeBucketCh'[k] \in 1 .. requests BY <3>1, <4>1
      <4>3. requests \in Nat BY Typed
      <4>4. QED BY <3>1, <4>1, <4>2, <4>3
    <3>4. \A k \in 1 .. n : sending' < FeeBucketCh'[k] BY <2>2, <3>1, <3>3
    <3>5. QED BY <2>1, <3>1, <3>2, <3>3, <3>4 DEF QueueOrdered
  <2>6. SenderNewest'
    BY <2>1, <2>2, <2>3, TailOrdered, Typed DEF Inv, SenderNewest
  <2>7. UploadInv' BY <2>1, <2>2, <2>3, Typed DEF UploadInv
  <2>8. QED BY <2>1, <2>4, <2>5, <2>6, <2>7, Typed DEF Inv
<1>4. ASSUME UnaryClientInterceptor PROVE Inv' /\ got' >= got
  <2>1. TokenTypeOK' /\ TokenInv' /\ healthy' \in BOOLEAN /\ ctxDone' \in BOOLEAN
    BY <1>1, <1>4, TokenStep, Constants DEF UnaryClientInterceptor, GetAccessToken, env
  <2>2. QED
    BY <1>4, <2>1, Typed
    DEF UnaryClientInterceptor, Inv, TypeOK, QueueOrdered, SenderNewest, UploadInv, pvars
<1>5. ASSUME UploadFeeBuckets \/ UploadFails PROVE Inv' /\ got' >= got
  <2>1. TokenTypeOK' /\ TokenInv' /\ healthy' \in BOOLEAN /\ ctxDone' \in BOOLEAN
    BY <1>1, <1>5, TokenUsedStep, Constants DEF UploadFeeBuckets, UploadFails, HasToken, env
  <2>2. got' \in {got, sending} /\ upc = "call" /\ UNCHANGED <<requests, ppc, req, FeeBucketCh>>
    BY <1>5 DEF UploadFeeBuckets, UploadFails, HasToken, pvars
  <2>3. \/ upc' = "select" /\ sending' = 0 /\ attempt' = 0
        \/ upc' = "delay" /\ sending' = sending /\ attempt' = attempt /\ attempt < MaxAttempts
    BY <1>5 DEF UploadFeeBuckets, UploadFails, BackToSelect, MayRetry, NoRequest
  <2>4. got <= sending BY <2>2 DEF Inv, UploadInv
  <2>5. TypeOK' BY <2>1, <2>2, <2>3, Typed, Constants DEF Inv, TypeOK
  <2>6. QueueOrdered' /\ SenderNewest'
    BY <2>2, <2>3, <2>4, Typed DEF Inv, QueueOrdered, SenderNewest
  <2>7. UploadInv' BY <2>2, <2>3, <2>4, Typed DEF UploadInv
  <2>8. QED BY <2>1, <2>2, <2>4, <2>5, <2>6, <2>7, Typed DEF Inv
<1>6. ASSUME RetryDelay PROVE Inv' /\ got' >= got
  <2>1. TokenTypeOK' /\ TokenInv' /\ healthy' \in BOOLEAN /\ ctxDone' \in BOOLEAN
    BY <1>6, TokensUnchanged DEF RetryDelay
  <2>2. upc = "delay" /\ UNCHANGED <<requests, ppc, req, FeeBucketCh, got>>
    BY <1>6 DEF RetryDelay, Delayed, pvars
  <2>3. \/ upc' = "stopped" /\ sending' = 0 /\ attempt' = 0
        \/ upc' = "token" /\ sending' = sending /\ attempt' = attempt + 1
    BY <1>6 DEF RetryDelay, Delayed, Stop, NoRequest
  <2>4. got <= sending /\ attempt < MaxAttempts BY <2>2 DEF Inv, UploadInv
  <2>5. TypeOK' BY <2>1, <2>2, <2>3, <2>4, Typed, Constants DEF Inv, TypeOK
  <2>6. QueueOrdered' /\ SenderNewest'
    BY <2>2, <2>3, Typed DEF Inv, QueueOrdered, SenderNewest
  <2>7. UploadInv' BY <2>2, <2>3, <2>4 DEF UploadInv
  <2>8. QED BY <2>1, <2>2, <2>5, <2>6, <2>7, Typed DEF Inv
<1>7. QED BY <1>2, <1>3, <1>4, <1>5, <1>6 DEF Working

(* What the other steps do: they leave the upload alone.                   *)
LEMMA OtherStep ==
    ASSUME Inv,
           \/ StreamClientInterceptor \/ StreamReturns
           \/ \E c \in Caller : Refresh(c)
           \/ Tick \/ Outage \/ Close
    PROVE  Inv' /\ got' = got
<1>1. TokenTypeOK /\ TokenInv /\ healthy \in BOOLEAN /\ ctxDone \in BOOLEAN BY DEF Inv, TypeOK
<1>2. UNCHANGED <<pvars, FeeBucketCh, uvars, got>>
  BY DEF StreamClientInterceptor, StreamReturns, Refresh, Tick, Outage, Close
<1>3. TokenTypeOK' /\ TokenInv'
  <2>1. ASSUME StreamClientInterceptor PROVE TokenTypeOK' /\ TokenInv'
    BY <1>1, <2>1, TokenStep, Constants DEF StreamClientInterceptor
  <2>2. ASSUME StreamReturns PROVE TokenTypeOK' /\ TokenInv'
    BY <1>1, <2>2, TokenUsedStep, Constants DEF StreamReturns
  <2>3. ASSUME NEW c \in Caller, Refresh(c) PROVE TokenTypeOK' /\ TokenInv'
    BY <1>1, <2>3, TokenStep DEF Refresh
  <2>4. ASSUME Tick PROVE TokenTypeOK' /\ TokenInv'
    BY <1>1, <2>4, Constants DEF Tick, tvars, TokenTypeOK, TokenInv
  <2>5. ASSUME Outage \/ Close PROVE TokenTypeOK' /\ TokenInv'
    BY <1>1, <2>5 DEF Outage, Close, tvars, TokenTypeOK, TokenInv
  <2>6. QED BY <2>1, <2>2, <2>3, <2>4, <2>5
<1>4. healthy' \in BOOLEAN /\ ctxDone' \in BOOLEAN
  BY <1>1
  DEF StreamClientInterceptor, StreamReturns, Refresh, Tick, Outage, Close, GetAccessToken,
      Refreshing, Do, Recheck, Issue, Store, AuthFails, env
<1>5. QED BY <1>2, <1>3, <1>4, UploadUnchanged

(* Every step keeps the invariant.                                         *)
LEMMA NextInv == Inv /\ [Next]_vars => Inv'
<1> SUFFICES ASSUME Inv, [Next]_vars PROVE Inv' OBVIOUS
<1>1. CASE UNCHANGED vars
  BY <1>1, TokensUnchanged, UploadUnchanged DEF vars
<1>2. CASE Next
  BY <1>2, SendStep, WorkStep, OtherStep DEF Next
<1>3. QED BY <1>1, <1>2

(* The types, the single refresh and the order of the requests hold in     *)
(* every reachable state.                                                  *)
THEOREM Invariance == Spec => []Inv
  BY InitInv, NextInv, PTL DEF Spec

(* The server never replaces statistics by older ones: what it may take    *)
(* next is never older than what it has, though requests are retried,      *)
(* answers are lost and the oldest request is dropped from a full channel. *)
THEOREM ServerOrder == Spec => ServerNeverGoesBack
<1> DEFINE A == got' >= got
<1>1. Inv /\ [Next]_vars => [A]_vars
  <2> SUFFICES ASSUME Inv, Next PROVE A OBVIOUS
  <2>1. CASE FeeBucketSend \/ Sending
    BY <2>1, Typed DEF FeeBucketSend, Sending, SendTry, SendDrop, SendAgain
  <2>2. CASE Working \/ WorkerDone BY <2>2, WorkStep
  <2>3. QED BY <2>1, <2>2, OtherStep, Typed DEF Next
<1>2. QED BY <1>1, Invariance, PTL DEF Spec, ServerNeverGoesBack

(* A token is only replaced by one that expires no earlier, because at     *)
(* most one refresh is in flight and nobody else stores a token.           *)
THEOREM TokenOrder == Spec => TokensOnlyNewer
<1> DEFINE A == accessToken' >= accessToken
<1>1. Inv /\ [Next]_vars => [A]_<<tvars, env>>
  <2> SUFFICES ASSUME Inv, [Next]_vars PROVE A \/ UNCHANGED <<tvars, env>> OBVIOUS
  <2>1. accessToken \in Int BY Constants DEF Inv, TypeOK, TokenTypeOK
  <2>2. ASSUME accessToken' = accessToken PROVE A BY <2>1, <2>2
  <2>3. ASSUME NEW c \in Caller, Store(c) PROVE A
    BY <2>3 DEF Inv, TokenInv, Store
  <2>4. ASSUME NEW c \in Caller, Refresh(c) PROVE A
    BY <2>2, <2>3, <2>4 DEF Refresh, Refreshing, Do, Recheck, Issue, AuthFails
  <2>5. CASE Next
    BY <2>2, <2>4, <2>5
    DEF Next, FeeBucketSend, Sending, SendTry, SendDrop, SendAgain, Working, WorkerDone,
        TakeRequest, UnaryClientInterceptor, UploadFeeBuckets, UploadFails, RetryDelay,
        StreamClientInterceptor, StreamReturns, GetAccessToken, TokenUsed, Tick, Outage,
        Close, tvars
  <2>6. CASE UNCHANGED vars BY <2>6 DEF vars
  <2>7. QED BY <2>5, <2>6
<1>2. QED BY <1>1, Invariance, PTL DEF Spec, TokensOnlyNewer

-----------------------------------------------------------------------------
(* Arithmetic.                                                             *)

(* Multiplying keeps the order.                                            *)
LEMMA TimesMonotone ==
    ASSUME NEW x \in Int, NEW y \in Int, NEW n \in Nat, x <= y
    PROVE  x * n <= y * n
<1>1. PICK d \in Nat : y = x + d
  <2>1. y - x \in Nat /\ y = x + (y - x) OBVIOUS
  <2>2. QED BY <2>1
<1>2. (x + d) * n = x * n + d * n OBVIOUS
<1>3. d * n \in Nat /\ x * n \in Int OBVIOUS
<1>4. QED BY <1>1, <1>2, <1>3

(* The quotient is the number whose multiple is next below.                *)
LEMMA DivIs ==
    ASSUME NEW x \in Int, NEW n \in Nat, n > 0, NEW q \in Int, q * n <= x, x < q * n + n
    PROVE  x \div n = q
<1> DEFINE d == x \div n
<1>1. d \in Int /\ d * n <= x /\ x < d * n + n OBVIOUS
<1> HIDE DEF d
<1>2. ASSUME d + 1 <= q PROVE FALSE
  <2>1. (d + 1) * n <= q * n BY <1>1, <1>2, TimesMonotone
  <2>2. (d + 1) * n = d * n + n BY <1>1
  <2>3. d * n \in Int /\ q * n \in Int BY <1>1
  <2>4. QED BY <1>1, <2>1, <2>2, <2>3
<1>3. ASSUME q + 1 <= d PROVE FALSE
  <2>1. (q + 1) * n <= d * n BY <1>1, <1>3, TimesMonotone
  <2>2. (q + 1) * n = q * n + n BY <1>1
  <2>3. d * n \in Int /\ q * n \in Int BY <1>1
  <2>4. QED BY <1>1, <2>1, <2>2, <2>3
<1>4. QED BY <1>1, <1>2, <1>3 DEF d

(* A number between two multiples has its quotient between the factors.    *)
LEMMA DivBetween ==
    ASSUME NEW x \in Nat, NEW y \in Nat, NEW z \in Nat, NEW n \in Nat, n > 0, x * n <= y, y <= z * n
    PROVE  y \div n \in Nat /\ x <= y \div n /\ y \div n <= z
<1>1. PICK q \in Nat : q = y \div n /\ q * n <= y /\ y < q * n + n OBVIOUS
<1>2. (q + 1) * n = q * n + n /\ q * n \in Nat OBVIOUS
<1>3. ASSUME q + 1 <= x PROVE FALSE
  <2>1. (q + 1) * n <= x * n BY <1>3, TimesMonotone
  <2>2. x * n \in Nat OBVIOUS
  <2>3. QED BY <1>1, <1>2, <2>1, <2>2
<1>4. ASSUME z + 1 <= q PROVE FALSE
  <2>1. (z + 1) * n <= q * n BY <1>4, TimesMonotone
  <2>2. (z + 1) * n = z * n + n /\ z * n \in Nat OBVIOUS
  <2>3. QED BY <1>1, <1>2, <2>1, <2>2
<1>5. QED BY <1>1, <1>3, <1>4

-----------------------------------------------------------------------------
(* Loops.                                                                  *)

(* A set of numbers that is not empty has a smallest: what induction over  *)
(* the iterations of a loop rests on.                                      *)
LEMMA Smallest ==
    ASSUME NEW T, T \subseteq Nat, T # {}
    PROVE  \E m \in T : \A k \in T : m <= k
<1> DEFINE R == OpToRel(<, Nat)
<1>1. IsWellFoundedOn(R, Nat) BY NatLessThanWellFounded, Zenon
<1>2. \A k, m \in Nat : k < m => <<k, m>> \in R BY DEF OpToRel
<1> HIDE DEF R
<1>3. PICK m \in T : \A k \in T : ~(<<k, m>> \in R) BY <1>1, WFMin
<1>4. \A k \in T : ~(k < m) BY <1>2, <1>3
<1>5. \A k \in T : k \in Nat /\ m \in Nat OBVIOUS
<1>6. QED BY <1>4, <1>5

(* g is the value of a loop variable after each iteration: v at first,     *)
(* then what F makes of the number of the iteration and the value before.  *)
Iterates(g, V, v, F, lo, n) ==
    /\ g \in [lo .. n -> V]
    /\ g[lo] = v
    /\ \A i \in lo + 1 .. n : g[i] = F[<<i, g[i - 1]>>]

(* Every loop has them: for the smallest n without, those up to n - 1      *)
(* could be continued.                                                     *)
LEMMA IteratesExist ==
    ASSUME NEW lo \in Nat, NEW n \in Nat, lo <= n, NEW V, NEW v \in V,
           NEW F \in [Nat \X V -> V]
    PROVE  \E g : Iterates(g, V, v, F, lo, n)
<1> DEFINE T == {m \in Nat : lo <= m /\ ~ \E g : Iterates(g, V, v, F, lo, m)}
<1>1. ASSUME T # {} PROVE FALSE
  <2>1. PICK m \in T : \A k \in T : m <= k
    <3>1. T \subseteq Nat OBVIOUS
    <3> HIDE DEF T
    <3>2. QED BY <1>1, <3>1, Smallest
  <2>2. m \in Nat /\ lo <= m /\ ~ \E g : Iterates(g, V, v, F, lo, m) OBVIOUS
  <2>3. m # lo
    <3>1. ASSUME m = lo PROVE FALSE
      <4> DEFINE e == [i \in lo .. lo |-> v]
      <4>1. Iterates(e, V, v, F, lo, lo) BY DEF Iterates
      <4>2. QED BY <2>2, <3>1, <4>1
    <3>2. QED BY <3>1
  <2>4. m - 1 \in Nat /\ lo <= m - 1 /\ ~(m <= m - 1) BY <2>2, <2>3
  <2>5. m - 1 \notin T
    <3> HIDE DEF T
    <3>1. QED BY <2>1, <2>4
  <2>6. PICK g : Iterates(g, V, v, F, lo, m - 1) BY <2>4, <2>5
  <2>7. m - 1 \in lo .. m - 1 /\ g[m - 1] \in V BY <2>4, <2>6 DEF Iterates
  <2>8. PICK w \in V : w = F[<<m, g[m - 1]>>] BY <2>2, <2>7
  <2> DEFINE h == [i \in lo .. m |-> IF i = m THEN w ELSE g[i]]
  <2>9. \A i \in lo .. m : i = m \/ i \in lo .. m - 1 BY <2>2
  <2>10. h \in [lo .. m -> V] BY <2>6, <2>8, <2>9 DEF Iterates
  <2>11. h[lo] = v BY <2>2, <2>3, <2>6 DEF Iterates
  <2>12. ASSUME NEW i \in lo + 1 .. m PROVE h[i] = F[<<i, h[i - 1]>>]
    <3>1. i \in lo .. m /\ i - 1 \in lo .. m /\ i - 1 # m BY <2>2
    <3>2. h[i - 1] = g[i - 1] BY <3>1
    <3>3. CASE i = m BY <2>8, <3>1, <3>2, <3>3
    <3>4. CASE i # m
      <4>1. i \in lo + 1 .. m - 1 BY <2>2, <3>4
      <4>2. g[i] = F[<<i, g[i - 1]>>] BY <2>6, <4>1 DEF Iterates
      <4>3. QED BY <3>1, <3>2, <3>4, <4>2
    <3>5. QED BY <3>3, <3>4
  <2> HIDE DEF h
  <2>13. Iterates(h, V, v, F, lo, m) BY <2>10, <2>11, <2>12 DEF Iterates
  <2>14. QED BY <2>2, <2>13
<1>2. n \notin T
  <2> HIDE DEF T
  <2>1. QED BY <1>1
<1>3. QED BY <1>2

(* The sums of a list of numbers.                                          *)
LEMMA RunningSumsAre ==
    ASSUME NEW f \in Seq(Int)
    PROVE  /\ RunningSums(f)[0] = 0
           /\ \A i \in 1 .. Len(f) : RunningSums(f)[i] = RunningSums(f)[i - 1] + f[i]
<1> DEFINE n == Len(f)
           F == [p \in Nat \X Int |-> IF p[1] \in 1 .. n THEN p[2] + f[p[1]] ELSE 0]
           Loop(g) == [i \in 0 .. n |-> IF i = 0 THEN 0 ELSE g[i - 1] + f[i]]
<1>1. n \in Nat OBVIOUS
<1>2. F \in [Nat \X Int -> Int] OBVIOUS
<1>3. PICK g : Iterates(g, Int, 0, F, 0, n)
  <2>1. 0 \in Nat /\ 0 \in Int /\ 0 <= n BY <1>1
  <2> HIDE DEF F, n
  <2>2. QED BY <1>1, <1>2, <2>1, IteratesExist, Zenon
<1>4. g = Loop(g)
  <2>1. ASSUME NEW i \in 0 .. n PROVE g[i] = IF i = 0 THEN 0 ELSE g[i - 1] + f[i]
    <3>1. CASE i = 0 BY <1>3, <3>1 DEF Iterates
    <3>2. CASE i # 0
      <4>1. i \in 1 .. n /\ i \in 0 + 1 .. n /\ i - 1 \in 0 .. n BY <3>2
      <4>2. g[i] = F[<<i, g[i - 1]>>] /\ g[i - 1] \in Int
        <5> HIDE DEF F
        <5>1. QED BY <1>3, <4>1 DEF Iterates
      <4>3. QED BY <3>2, <4>1, <4>2
    <3>3. QED BY <3>1, <3>2
  <2>2. g = [i \in 0 .. n |-> g[i]]
    <3> HIDE DEF F, n
    <3>1. QED BY <1>3 DEF Iterates
  <2>3. QED BY <2>1, <2>2
<1> DEFINE c == RunningSums(f)
<1>5. c = Loop(c)
  <2>1. \E h : h = Loop(h) BY <1>4
  <2>2. c = CHOOSE h : h = Loop(h) BY DEF RunningSums
  <2> HIDE DEF c, Loop
  <2>3. QED BY <2>1, <2>2
<1> HIDE DEF c
<1>6. c[0] = 0 /\ \A i \in 1 .. n : c[i] = c[i - 1] + f[i] BY <1>1, <1>5
<1>7. QED BY <1>6 DEF c

-----------------------------------------------------------------------------
(* Sorting.                                                                *)

Tips == [Tip : Nat, Weight : Nat]

(* No tip is above a later one.                                            *)
TipsRise(d) == \A i, j \in 1 .. Len(d) : i <= j => d[i].Tip <= d[j].Tip

(* The positions that come no later than i.                                *)
UpTo(d, i) ==
    {j \in DOMAIN d : d[j].Tip < d[i].Tip \/ (d[j].Tip = d[i].Tip /\ j <= i)}

(* The fields of a list of tips.                                           *)
LEMMA TipOf ==
    ASSUME NEW d \in Seq(Tips)
    PROVE  \A i \in 1 .. Len(d) : d[i] \in Tips /\ d[i].Tip \in Nat
<1>1. \A i \in 1 .. Len(d) : d[i] \in Tips OBVIOUS
<1>2. \A t \in Tips : t.Tip \in Nat BY DEF Tips
<1>3. QED BY <1>1, <1>2

(* Ranks order the positions by tip.                                       *)
LEMMA RankOrders ==
    ASSUME NEW d \in Seq(Tips)
    PROVE  /\ \A i \in 1 .. Len(d) : Rank(d, i) \in 1 .. Len(d)
           /\ \A i, k \in 1 .. Len(d) : i # k /\ i \in UpTo(d, k) => Rank(d, i) < Rank(d, k)
<1> DEFINE n == Len(d)
<1>1. n \in Nat /\ DOMAIN d = 1 .. n OBVIOUS
<1>2. \A i \in 1 .. n : d[i].Tip \in Nat BY TipOf
<1> HIDE DEF n
<1>3. IsFiniteSet(1 .. n) /\ Cardinality(1 .. n) = n
  <2>1. IsFiniteSet(1 .. n) /\ Cardinality(1 .. n) = IF 1 > n THEN 0 ELSE n - 1 + 1 BY <1>1, FS_Interval
  <2>2. QED BY <1>1, <2>1
<1>4. \A i : Rank(d, i) = Cardinality(UpTo(d, i)) /\ UpTo(d, i) \subseteq 1 .. n BY <1>1 DEF Rank, UpTo
<1>5. \A i : IsFiniteSet(UpTo(d, i)) /\ Rank(d, i) \in Nat /\ Rank(d, i) <= n
  <2>1. \A i : /\ IsFiniteSet(UpTo(d, i))
               /\ Cardinality(UpTo(d, i)) <= n
    BY <1>3, <1>4, FS_Subset
  <2>2. \A i : Cardinality(UpTo(d, i)) \in Nat BY <2>1, FS_CardinalityType
  <2>3. QED BY <1>4, <2>1, <2>2
<1>6. ASSUME NEW i \in 1 .. n PROVE Rank(d, i) \in 1 .. n
  <2>1. i \in UpTo(d, i) BY <1>1 DEF UpTo
  <2>2. Rank(d, i) # 0 BY <1>4, <1>5, <2>1, FS_EmptySet
  <2>3. QED BY <1>1, <1>5, <2>2
<1>7. ASSUME NEW i \in 1 .. n, NEW k \in 1 .. n, i # k, i \in UpTo(d, k) PROVE Rank(d, i) < Rank(d, k)
  <2>1. d[i].Tip < d[k].Tip \/ (d[i].Tip = d[k].Tip /\ i < k) BY <1>1, <1>7 DEF UpTo
  <2>2. k \in UpTo(d, k) BY <1>1 DEF UpTo
  <2>3. k \notin UpTo(d, i)
    <3>1. ~(d[k].Tip < d[i].Tip) /\ ~(d[k].Tip = d[i].Tip /\ k <= i) BY <1>1, <1>2, <2>1
    <3>2. QED BY <3>1 DEF UpTo
  <2>4. UpTo(d, i) \subseteq UpTo(d, k)
    <3>1. SUFFICES ASSUME NEW j \in UpTo(d, i) PROVE j \in UpTo(d, k) OBVIOUS
    <3>2. j \in 1 .. n BY <1>4
    <3>3. d[j].Tip < d[i].Tip \/ (d[j].Tip = d[i].Tip /\ j <= i) BY <3>1 DEF UpTo
    <3>4. d[j].Tip < d[k].Tip \/ (d[j].Tip = d[k].Tip /\ j <= k) BY <1>1, <1>2, <2>1, <3>2, <3>3
    <3>5. QED BY <1>1, <3>2, <3>4 DEF UpTo
  <2>5. Cardinality(UpTo(d, i)) <= Cardinality(UpTo(d, k))
    BY <1>5, <2>4, FS_Subset
  <2>6. Cardinality(UpTo(d, i)) # Cardinality(UpTo(d, k))
    <3>1. UpTo(d, i) # UpTo(d, k) BY <2>2, <2>3
    <3>2. QED BY <1>5, <2>4, <3>1, FS_Subset
  <2>7. QED BY <1>4, <1>5, <2>5, <2>6
<1>8. QED BY <1>6, <1>7 DEF n

(* So each place is taken by one tip, and the places rise with the tips.   *)
LEMMA Sorts ==
    ASSUME NEW d \in Seq(Tips)
    PROVE  /\ SortedByTip(d) \in Seq(Tips)
           /\ Len(SortedByTip(d)) = Len(d)
           /\ TipsRise(SortedByTip(d))
           /\ \E at \in Bijection(1 .. Len(d), 1 .. Len(d)) :
                 SortedByTip(d) = [r \in 1 .. Len(d) |-> d[at[r]]]
<1> DEFINE n == Len(d)
           rank == [i \in 1 .. n |-> Rank(d, i)]
<1>1. n \in Nat /\ DOMAIN d = 1 .. n OBVIOUS
<1>2. \A i \in 1 .. n : d[i] \in Tips /\ d[i].Tip \in Nat BY TipOf
<1> HIDE DEF n
<1>3. rank \in [1 .. n -> 1 .. n] BY RankOrders DEF n
<1>4. ASSUME NEW i \in 1 .. n, NEW k \in 1 .. n, i # k PROVE rank[i] # rank[k]
  <2>1. i \in UpTo(d, k) \/ k \in UpTo(d, i)
    <3>1. \/ d[i].Tip < d[k].Tip \/ (d[i].Tip = d[k].Tip /\ i <= k)
          \/ d[k].Tip < d[i].Tip \/ (d[k].Tip = d[i].Tip /\ k <= i)
      BY <1>1, <1>2
    <3>2. QED BY <1>1, <3>1 DEF UpTo
  <2>2. Rank(d, i) < Rank(d, k) \/ Rank(d, k) < Rank(d, i) BY <1>4, <2>1, RankOrders DEF n
  <2>3. Rank(d, i) \in Int /\ Rank(d, k) \in Int BY <1>1, RankOrders DEF n
  <2>4. QED BY <2>2, <2>3
<1>5. \A r \in 1 .. n : \E i \in 1 .. n : rank[i] = r
  <2>1. IsFiniteSet(1 .. n) BY <1>1, FS_Interval
  <2>2. rank \in Injection(1 .. n, 1 .. n) BY <1>3, <1>4 DEF Injection, IsInjective
  <2> HIDE DEF rank
  <2>3. rank \in Surjection(1 .. n, 1 .. n) BY <2>1, <2>2, FS_Injection
  <2>4. QED BY <2>3 DEF Surjection
<1> DEFINE at(r) == CHOOSE i \in 1 .. n : rank[i] = r
<1>6. SortedByTip(d) = [r \in 1 .. n |-> d[at(r)]] BY <1>1 DEF SortedByTip
<1>7. \A r \in 1 .. n : at(r) \in 1 .. n /\ rank[at(r)] = r
  <2> HIDE DEF rank
  <2>1. QED BY <1>5
<1>8. ASSUME NEW r \in 1 .. n, NEW s \in 1 .. n, r <= s PROVE d[at(r)].Tip <= d[at(s)].Tip
  <2>1. PICK i \in 1 .. n : i = at(r) /\ Rank(d, i) = r BY <1>7
  <2>2. PICK k \in 1 .. n : k = at(s) /\ Rank(d, k) = s BY <1>7
  <2>3. ASSUME d[k].Tip < d[i].Tip PROVE FALSE
    <3>1. k \in UpTo(d, i) BY <1>1, <2>3 DEF UpTo
    <3>2. k # i BY <1>2, <2>3
    <3>3. Rank(d, k) < Rank(d, i) BY <3>1, <3>2, RankOrders DEF n
    <3>4. QED BY <1>1, <1>8, <2>1, <2>2, <3>3
  <2>4. d[i].Tip <= d[k].Tip BY <1>2, <2>3
  <2> HIDE DEF at
  <2>5. QED BY <2>1, <2>2, <2>4
<1> HIDE DEF at
<1> DEFINE s == SortedByTip(d)
<1>9. s \in [1 .. n -> Tips] /\ \A r \in 1 .. n : s[r] = d[at(r)] BY <1>2, <1>6, <1>7
<1> HIDE DEF s
<1>10. s \in Seq(Tips) /\ Len(s) = n BY <1>1, <1>9
<1>11. TipsRise(s) BY <1>8, <1>9, <1>10 DEF TipsRise
<1>12. \E a \in Bijection(1 .. n, 1 .. n) : s = [r \in 1 .. n |-> d[a[r]]]
  <2> DEFINE a == [r \in 1 .. n |-> at(r)]
  <2>1. a \in [1 .. n -> 1 .. n] /\ \A r \in 1 .. n : a[r] = at(r) BY <1>7
  <2>2. \A r, q \in 1 .. n : a[r] = a[q] => r = q BY <1>7, <2>1
  <2>3. ASSUME NEW i \in 1 .. n PROVE \E r \in 1 .. n : a[r] = i
    <3>1. PICK r \in 1 .. n : r = rank[i] BY <1>3
    <3>2. rank[a[r]] = rank[i] /\ a[r] \in 1 .. n BY <1>7, <2>1, <3>1
    <3>3. a[r] = i
      <4> HIDE DEF a, rank
      <4>1. QED BY <1>4, <3>2
    <3>4. QED BY <3>3
  <2>4. a \in Bijection(1 .. n, 1 .. n)
    <3> HIDE DEF a
    <3>1. QED BY <2>1, <2>2, <2>3 DEF Bijection, Injection, Surjection, IsInjective
  <2>5. s = [r \in 1 .. n |-> d[a[r]]] BY <1>6, <2>1 DEF s
  <2>6. QED BY <2>4, <2>5
<1>13. QED BY <1>10, <1>11, <1>12 DEF s, n

-----------------------------------------------------------------------------
(* The percentiles.                                                        *)

(* A list of numbers in order.                                             *)
Rising(v) == v \in Seq(Nat) /\ \A i, j \in 1 .. Len(v) : i <= j => v[i] <= v[j]

(* The number of targets.                                                  *)
LEMMA ThirteenTargets == Len(GasAnalysisTargets) = 13 /\ DOMAIN GasAnalysisTargets = 1 .. 13
BY DEF GasAnalysisTargets

(* No more targets are reached than there are.                             *)
LEMMA ReachedAtMost13 ==
    ASSUME NEW cumulative, NEW total
    PROVE  TargetsReached(cumulative, total) \in Nat /\ TargetsReached(cumulative, total) <= 13
<1> DEFINE S == {k \in DOMAIN GasAnalysisTargets : Reached(cumulative, GasAnalysisTargets[k], total)}
<1>1. S \subseteq 1 .. 13 BY ThirteenTargets
<1>2. IsFiniteSet(1 .. 13) /\ Cardinality(1 .. 13) = 13
  <2>1. 1 \in Int /\ 13 \in Int /\ (IF 1 > 13 THEN 0 ELSE 13 - 1 + 1) = 13 OBVIOUS
  <2>2. QED BY <2>1, FS_Interval
<1> HIDE DEF S
<1>3. IsFiniteSet(S) /\ Cardinality(S) <= 13 BY <1>1, <1>2, FS_Subset
<1>4. Cardinality(S) \in Nat BY <1>3, FS_CardinalityType
<1>5. QED BY <1>3, <1>4 DEF S, TargetsReached

(* Filling the rest of a rising list with a tip that is no lower.          *)
LEMMA FillRises ==
    ASSUME NEW v, Rising(v), Len(v) <= 13, NEW target \in Nat, target <= 13, NEW tip \in Nat,
           \A k \in 1 .. Len(v) : v[k] <= tip
    PROVE  /\ Rising(Fill(v, target, tip))
           /\ Len(Fill(v, target, tip)) <= 13
           /\ Len(Fill(v, target, tip)) >= target
           /\ \A k \in 1 .. Len(Fill(v, target, tip)) : Fill(v, target, tip)[k] <= tip
<1>1. v \in Seq(Nat) /\ Len(v) \in Nat BY DEF Rising
<1>2. PICK m \in Nat : 1 .. target - Len(v) = 1 .. m /\ m = IF target > Len(v) THEN target - Len(v) ELSE 0
  <2>1. CASE target > Len(v)
    <3>1. target - Len(v) \in Nat BY <1>1, <2>1
    <3>2. QED BY <2>1, <3>1
  <2>2. CASE ~(target > Len(v))
    <3>1. 1 .. target - Len(v) = {} /\ 1 .. 0 = {} BY <1>1, <2>2
    <3>2. QED BY <2>2, <3>1
  <2>3. QED BY <2>1, <2>2
<1> DEFINE e == [k \in 1 .. m |-> tip]
           w == v \o e
<1>3. e \in Seq(Nat) /\ Len(e) = m /\ \A k \in 1 .. m : e[k] = tip OBVIOUS
<1>4. Fill(v, target, tip) = w BY <1>2 DEF Fill
<1> HIDE DEF e
<1>5. /\ w \in Seq(Nat) /\ Len(w) = Len(v) + m
      /\ \A k \in 1 .. Len(v) : w[k] = v[k]
      /\ \A k \in 1 .. m : w[Len(v) + k] = e[k]
  BY <1>1, <1>3
<1> HIDE DEF w
<1>6. \A k \in 1 .. Len(w) : k \in 1 .. Len(v) \/ (k > Len(v) /\ w[k] = tip)
  <2>1. SUFFICES ASSUME NEW k \in 1 .. Len(w), k > Len(v) PROVE w[k] = tip BY <1>1, <1>5
  <2>2. k - Len(v) \in 1 .. m /\ Len(v) + (k - Len(v)) = k BY <1>1, <1>5, <2>1
  <2>3. QED BY <1>3, <1>5, <2>2
<1>7. \A k \in 1 .. Len(w) : w[k] <= tip
  <2>1. SUFFICES ASSUME NEW k \in 1 .. Len(w) PROVE w[k] <= tip OBVIOUS
  <2>2. CASE k \in 1 .. Len(v) BY <1>5, <2>2
  <2>3. CASE w[k] = tip BY <2>3
  <2>4. QED BY <1>6, <2>2, <2>3
<1>8. ASSUME NEW i \in 1 .. Len(w), NEW j \in 1 .. Len(w), i <= j PROVE w[i] <= w[j]
  <2>1. CASE j \in 1 .. Len(v)
    <3>1. i \in 1 .. Len(v) BY <1>1, <1>8, <2>1
    <3>2. QED BY <1>5, <1>8, <2>1, <3>1 DEF Rising
  <2>2. CASE w[j] = tip BY <1>7, <2>2
  <2>3. QED BY <1>6, <2>1, <2>2
<1>9. Len(w) <= 13 /\ Len(w) >= target BY <1>1, <1>2, <1>5
<1>10. QED BY <1>4, <1>5, <1>7, <1>8, <1>9 DEF Rising

(* The loop of calculateWeightedPercentiles.                               *)
LEMMA FilledByIs ==
    ASSUME NEW d \in Seq(Tips)
    PROVE  /\ FilledBy(d)[0] = <<>>
           /\ \A i \in 1 .. Len(d) :
                 FilledBy(d)[i] = Fill(FilledBy(d)[i - 1],
                                       TargetsReached(RunningSums(Weights(d))[i], totalWeight(d)), d[i].Tip)
<1> DEFINE n == Len(d)
           R(i) == TargetsReached(RunningSums(Weights(d))[i], totalWeight(d))
           F == [p \in Nat \X Seq(Nat) |-> IF p[1] \in 1 .. n THEN Fill(p[2], R(p[1]), d[p[1]].Tip) ELSE <<>>]
           Loop(g) == [i \in 0 .. n |-> IF i = 0 THEN <<>> ELSE Fill(g[i - 1], R(i), d[i].Tip)]
<1>1. n \in Nat OBVIOUS
<1>2. \A i : R(i) \in Nat BY ReachedAtMost13
<1> HIDE DEF R
<1>3. ASSUME NEW v \in Seq(Nat), NEW i \in 1 .. n PROVE Fill(v, R(i), d[i].Tip) \in Seq(Nat)
  <2>1. d[i].Tip \in Nat BY TipOf
  <2>2. PICK r \in Nat : r = R(i) BY <1>2
  <2>3. PICK t \in Nat : t = d[i].Tip BY <2>1
  <2>4. [k \in 1 .. r - Len(v) |-> t] \in Seq(Nat)
    <3>1. PICK m \in Nat : 1 .. r - Len(v) = 1 .. m
      <4>1. CASE r - Len(v) \in Nat BY <4>1
      <4>2. CASE r - Len(v) \notin Nat
        <5>1. 1 .. r - Len(v) = 1 .. 0 BY <4>2
        <5>2. QED BY <5>1
      <4>3. QED BY <4>1, <4>2
    <3>2. [k \in 1 .. m |-> t] \in Seq(Nat) OBVIOUS
    <3>3. QED BY <3>1, <3>2
  <2>5. QED BY <2>2, <2>3, <2>4 DEF Fill
<1>4. F \in [Nat \X Seq(Nat) -> Seq(Nat)] BY <1>3
<1>5. PICK g : Iterates(g, Seq(Nat), <<>>, F, 0, n)
  <2>1. 0 \in Nat /\ <<>> \in Seq(Nat) /\ 0 <= n BY <1>1
  <2> HIDE DEF F, n
  <2>2. QED BY <1>1, <1>4, <2>1, IteratesExist, Zenon
<1>6. g = Loop(g)
  <2>1. ASSUME NEW i \in 0 .. n PROVE g[i] = IF i = 0 THEN <<>> ELSE Fill(g[i - 1], R(i), d[i].Tip)
    <3>1. CASE i = 0 BY <1>5, <3>1 DEF Iterates
    <3>2. CASE i # 0
      <4>1. i \in 1 .. n /\ i \in 0 + 1 .. n /\ i - 1 \in 0 .. n /\ i \in Nat BY <3>2
      <4>2. g[i] = F[<<i, g[i - 1]>>] /\ g[i - 1] \in Seq(Nat)
        <5> HIDE DEF F
        <5>1. QED BY <1>5, <4>1 DEF Iterates
      <4>3. F[<<i, g[i - 1]>>] = Fill(g[i - 1], R(i), d[i].Tip) BY <4>1, <4>2
      <4>4. QED BY <3>2, <4>2, <4>3
    <3>3. QED BY <3>1, <3>2
  <2>2. g = [i \in 0 .. n |-> g[i]]
    <3> HIDE DEF F, n
    <3>1. QED BY <1>5 DEF Iterates
  <2>3. QED BY <2>1, <2>2
<1> DEFINE c == FilledBy(d)
<1>7. c = Loop(c)
  <2>1. \E h : h = Loop(h) BY <1>6
  <2>2. c = CHOOSE h : h = Loop(h) BY DEF FilledBy, R
  <2> HIDE DEF c, Loop
  <2>3. QED BY <2>1, <2>2
<1> HIDE DEF c
<1>8. c[0] = <<>> /\ \A i \in 1 .. n : c[i] = Fill(c[i - 1], R(i), d[i].Tip) BY <1>1, <1>7
<1>9. QED BY <1>8 DEF c, R

(* Sorted tips have rising percentiles, one for each target.               *)
LEMMA PercentilesRise ==
    ASSUME NEW d \in Seq(Tips), d # <<>>, TipsRise(d)
    PROVE  \/ calculateWeightedPercentiles(d) = <<>>
           \/ /\ Rising(calculateWeightedPercentiles(d))
              /\ Len(calculateWeightedPercentiles(d)) = 13
<1> DEFINE n == Len(d)
           c == FilledBy(d)
           R(i) == TargetsReached(RunningSums(Weights(d))[i], totalWeight(d))
           Right(i) == /\ Rising(c[i]) /\ Len(c[i]) <= 13
                       /\ i > 0 => \A k \in 1 .. Len(c[i]) : c[i][k] <= d[i].Tip
           T == {i \in 0 .. n : ~Right(i)}
<1>1. n \in Nat /\ n > 0 OBVIOUS
<1>2. \A i : R(i) \in Nat /\ R(i) <= 13 BY ReachedAtMost13
<1>3. c[0] = <<>> /\ \A i \in 1 .. n : c[i] = Fill(c[i - 1], R(i), d[i].Tip) BY FilledByIs
<1>4. \A i \in 1 .. n : d[i].Tip \in Nat BY TipOf
<1> HIDE DEF c, R
<1>5. Right(0)
  <2>1. <<>> \in Seq(Nat) /\ Len(<<>>) = 0 OBVIOUS
  <2>2. QED BY <1>3, <2>1 DEF Rising
<1>6. ASSUME NEW i \in 1 .. n, Right(i - 1) PROVE Right(i)
  <2>1. PICK t \in Nat : t = d[i].Tip BY <1>4
  <2>2. \A k \in 1 .. Len(c[i - 1]) : c[i - 1][k] <= t
    <3>1. CASE i = 1
      <4>1. Len(c[i - 1]) = 0 BY <1>3, <3>1
      <4>2. QED BY <4>1
    <3>2. CASE i # 1
      <4>1. i - 1 \in 1 .. n /\ i - 1 > 0 /\ i - 1 <= i BY <1>1, <3>2
      <4>2. d[i - 1].Tip <= t /\ d[i - 1].Tip \in Nat BY <1>4, <2>1, <4>1 DEF TipsRise
      <4>3. \A k \in 1 .. Len(c[i - 1]) : c[i - 1][k] \in Nat BY <1>6 DEF Rising
      <4>4. \A k \in 1 .. Len(c[i - 1]) : c[i - 1][k] <= d[i - 1].Tip BY <1>6, <4>1
      <4>5. QED BY <4>2, <4>3, <4>4
    <3>3. QED BY <3>1, <3>2
  <2>3. c[i] = Fill(c[i - 1], R(i), t) BY <1>3, <2>1
  <2>4. PICK r \in Nat : r = R(i) /\ r <= 13 BY <1>2
  <2>5. PICK v : v = c[i - 1] /\ Rising(v) /\ Len(v) <= 13 BY <1>6
  <2>6. /\ Rising(Fill(v, r, t)) /\ Len(Fill(v, r, t)) <= 13
        /\ \A k \in 1 .. Len(Fill(v, r, t)) : Fill(v, r, t)[k] <= t
    BY <2>2, <2>4, <2>5, FillRises
  <2>7. QED BY <2>1, <2>3, <2>4, <2>5, <2>6
<1>7. ASSUME T # {} PROVE FALSE
  <2>1. PICK m \in T : \A k \in T : m <= k
    <3>1. T \subseteq Nat OBVIOUS
    <3> HIDE DEF T
    <3>2. QED BY <1>7, <3>1, Smallest
  <2> HIDE DEF Right
  <2>2. m \in 0 .. n /\ ~Right(m) OBVIOUS
  <2>3. m # 0 BY <1>5, <2>2
  <2>4. m \in 1 .. n /\ m - 1 \in 0 .. n /\ ~(m <= m - 1) BY <1>1, <2>2, <2>3
  <2>5. Right(m - 1)
    <3>1. m - 1 \notin T
      <4> HIDE DEF T
      <4>1. QED BY <2>1, <2>4
    <3>2. QED BY <2>4, <3>1
  <2>6. QED BY <1>6, <2>2, <2>4, <2>5
<1>8. Right(n)
  <2>1. n \in 0 .. n /\ n \notin T BY <1>1, <1>7
  <2> HIDE DEF Right
  <2>2. QED BY <2>1
<1>9. CASE totalWeight(d) = 0 BY <1>9 DEF calculateWeightedPercentiles
<1>10. CASE totalWeight(d) # 0
  <2>1. calculateWeightedPercentiles(d) = Fill(c[n], 13, d[n].Tip)
    BY <1>10, ThirteenTargets DEF calculateWeightedPercentiles, c, Last
  <2>2. PICK t \in Nat : t = d[n].Tip BY <1>1, <1>4
  <2>3. PICK v : v = c[n] /\ Rising(v) /\ Len(v) <= 13 /\ \A k \in 1 .. Len(v) : v[k] <= t
    BY <1>1, <1>8, <2>2
  <2>4. 13 \in Nat /\ 13 <= 13 OBVIOUS
  <2>5. /\ Rising(Fill(v, 13, t)) /\ Len(Fill(v, 13, t)) <= 13 /\ Len(Fill(v, 13, t)) >= 13
    BY <2>2, <2>3, <2>4, FillRises
  <2>6. Len(Fill(v, 13, t)) \in Nat BY <2>5 DEF Rising
  <2>7. PICK l \in Nat : l = Len(Fill(v, 13, t)) /\ l = 13 BY <2>5, <2>6
  <2>8. calculateWeightedPercentiles(d) = Fill(v, 13, t) BY <2>1, <2>2, <2>3
  <2>9. QED BY <2>5, <2>7, <2>8
<1>11. QED BY <1>9, <1>10

-----------------------------------------------------------------------------
(* The fees.                                                               *)

(* The fees of the levels, dearer for a faster inclusion.                  *)
Ordered(fees) ==
    /\ fees \in [Levels -> Nat]
    /\ fees["market"] <= fees["fast"] /\ fees["fast"] <= fees["urgent"]

(* The sum of five numbers, and of three.                                  *)
LEMMA TotalOf5 ==
    ASSUME NEW f \in Seq(Int), Len(f) = 5
    PROVE  Total(f) = f[1] + f[2] + f[3] + f[4] + f[5]
<1>1. 1 \in 1 .. 5 /\ 2 \in 1 .. 5 /\ 3 \in 1 .. 5 /\ 4 \in 1 .. 5 /\ 5 \in 1 .. 5 OBVIOUS
<1> DEFINE c == RunningSums(f)
<1>2. c[0] = 0 /\ \A i \in 1 .. 5 : c[i] = c[i - 1] + f[i] BY RunningSumsAre
<1> HIDE DEF c
<1>3. c[1] = c[0] + f[1] /\ c[2] = c[1] + f[2] /\ c[3] = c[2] + f[3] /\ c[4] = c[3] + f[4] /\ c[5] = c[4] + f[5]
  BY <1>1, <1>2
<1>4. f[1] \in Int /\ f[2] \in Int /\ f[3] \in Int /\ f[4] \in Int /\ f[5] \in Int
  <2>1. \A i \in 1 .. Len(f) : f[i] \in Int BY ElementOfSeq
  <2>2. QED BY <1>1, <2>1
<1>5. QED BY <1>2, <1>3, <1>4 DEF Total, c

LEMMA TotalOf3 ==
    ASSUME NEW f \in Seq(Int), Len(f) = 3
    PROVE  Total(f) = f[1] + f[2] + f[3]
<1>1. 1 \in 1 .. 3 /\ 2 \in 1 .. 3 /\ 3 \in 1 .. 3 OBVIOUS
<1> DEFINE c == RunningSums(f)
<1>2. c[0] = 0 /\ \A i \in 1 .. 3 : c[i] = c[i - 1] + f[i] BY RunningSumsAre
<1> HIDE DEF c
<1>3. c[1] = c[0] + f[1] /\ c[2] = c[1] + f[2] /\ c[3] = c[2] + f[3] BY <1>1, <1>2
<1>4. f[1] \in Int /\ f[2] \in Int /\ f[3] \in Int
  <2>1. \A i \in 1 .. Len(f) : f[i] \in Int BY ElementOfSeq
  <2>2. QED BY <1>1, <2>1
<1>5. QED BY <1>2, <1>3, <1>4 DEF Total, c

(* The weighted mean of five and of three percentiles.                     *)
Mean5(v, p, a, b, c) ==
    (v[p] * a + v[p + 1] * b + v[p + 2] * c + v[p + 3] * b + v[p + 4] * a) \div (a + b + c + b + a)

Mean3(v, p, a, b) == (v[p] * a + v[p + 1] * b + v[p + 2] * a) \div (a + b + a)

(* A group of percentiles from p on, with their weights.                   *)
IsGroup5(g, p, a, b, c) ==
    /\ p \in 1 .. 9 /\ a \in Nat \ {0} /\ b \in Nat \ {0} /\ c \in Nat \ {0}
    /\ g = <<<<p, a>>, <<p + 1, b>>, <<p + 2, c>>, <<p + 3, b>>, <<p + 4, a>>>>

IsGroup3(g, p, a, b) ==
    /\ p \in 1 .. 11 /\ a \in Nat \ {0} /\ b \in Nat \ {0}
    /\ g = <<<<p, a>>, <<p + 1, b>>, <<p + 2, a>>>>

(* The fee of a group is its mean, and lies between its first and its last *)
(* percentile.                                                             *)
LEMMA GroupOf5 ==
    ASSUME NEW v, Rising(v), Len(v) = 13,
           NEW g, NEW p, NEW a, NEW b, NEW c, IsGroup5(g, p, a, b, c)
    PROVE  LET value == calculateWeightedValue(v, g)
           IN /\ value \in Nat /\ v[p] <= value /\ value <= v[p + 4]
              /\ value = Mean5(v, p, a, b, c)
<1> /\ p \in 1 .. 9 /\ a \in Nat /\ b \in Nat /\ c \in Nat /\ a > 0 /\ b > 0 /\ c > 0
    /\ g = <<<<p, a>>, <<p + 1, b>>, <<p + 2, c>>, <<p + 3, b>>, <<p + 4, a>>>>
  BY DEF IsGroup5
<1> DEFINE w == <<a, b, c, b, a>>
           q == <<v[p] * a, v[p + 1] * b, v[p + 2] * c, v[p + 3] * b, v[p + 4] * a>>
<1>1. /\ p <= 13 /\ p + 1 <= 13 /\ p + 2 <= 13 /\ p + 3 <= 13 /\ p + 4 <= 13
      /\ p \in 1 .. 13 /\ p + 1 \in 1 .. 13 /\ p + 2 \in 1 .. 13 /\ p + 3 \in 1 .. 13 /\ p + 4 \in 1 .. 13
  OBVIOUS
<1>2. v[p] \in Nat /\ v[p + 1] \in Nat /\ v[p + 2] \in Nat /\ v[p + 3] \in Nat /\ v[p + 4] \in Nat
  <2>1. \A i \in 1 .. Len(v) : v[i] \in Nat BY ElementOfSeq DEF Rising
  <2>2. QED BY <1>1, <2>1
<1>3. v[p] * a \in Nat /\ v[p + 1] * b \in Nat /\ v[p + 2] * c \in Nat /\ v[p + 3] * b \in Nat /\ v[p + 4] * a \in Nat
  <2>1. \A x, y \in Nat : x * y \in Nat OBVIOUS
  <2>2. QED BY <1>2, <2>1
<1>4. DOMAIN g = 1 .. 5 OBVIOUS
<1>5. [i \in DOMAIN g |-> IF g[i][1] <= Len(v) THEN g[i][2] ELSE 0] = w
  <2>1. \A i \in 1 .. 5 : i = 1 \/ i = 2 \/ i = 3 \/ i = 4 \/ i = 5 OBVIOUS
  <2>2. \A i \in 1 .. 5 : (IF g[i][1] <= Len(v) THEN g[i][2] ELSE 0) = w[i] BY <1>1, <2>1
  <2>3. w = [i \in 1 .. 5 |-> w[i]] OBVIOUS
  <2> HIDE DEF w
  <2>4. QED BY <1>4, <2>2, <2>3
<1>6. [i \in DOMAIN g |-> IF w[i] = 0 THEN 0 ELSE v[g[i][1]] * w[i]] = q
  <2>1. \A i \in 1 .. 5 : i = 1 \/ i = 2 \/ i = 3 \/ i = 4 \/ i = 5 OBVIOUS
  <2>2. ASSUME NEW i \in 1 .. 5 PROVE (IF w[i] = 0 THEN 0 ELSE v[g[i][1]] * w[i]) = q[i]
    <3>1. CASE i = 1 BY <3>1
    <3>2. CASE i = 2 BY <3>2
    <3>3. CASE i = 3 BY <3>3
    <3>4. CASE i = 4 BY <3>4
    <3>5. CASE i = 5 BY <3>5
    <3>6. QED BY <2>1, <3>1, <3>2, <3>3, <3>4, <3>5
  <2>3. q = [i \in 1 .. 5 |-> q[i]] OBVIOUS
  <2> HIDE DEF w, q
  <2>4. QED BY <1>4, <2>2, <2>3
<1>7. Total(w) = a + b + c + b + a
  <2>1. w \in Seq(Int) /\ Len(w) = 5 OBVIOUS
  <2>2. w[1] = a /\ w[2] = b /\ w[3] = c /\ w[4] = b /\ w[5] = a OBVIOUS
  <2> HIDE DEF w
  <2>3. QED BY <2>1, <2>2, TotalOf5
<1>8. Total(q) = v[p] * a + v[p + 1] * b + v[p + 2] * c + v[p + 3] * b + v[p + 4] * a
  <2>1. q \in Seq(Int) /\ Len(q) = 5 BY <1>3
  <2>2. q[1] = v[p] * a /\ q[2] = v[p + 1] * b /\ q[3] = v[p + 2] * c /\ q[4] = v[p + 3] * b /\ q[5] = v[p + 4] * a OBVIOUS
  <2> HIDE DEF q
  <2>3. QED BY <2>1, <2>2, TotalOf5
<1>9. calculateWeightedValue(v, g) = IF Total(w) = 0 THEN 0 ELSE Total(q) \div Total(w)
  <2> HIDE DEF w, q
  <2>1. QED BY <1>5, <1>6 DEF calculateWeightedValue
<1>10. Total(w) # 0 BY <1>7
<1> HIDE DEF w, q
<1>11. PICK n \in Nat : n = Total(w) /\ n > 0 /\ n = a + b + c + b + a BY <1>7, <1>10
<1>12. PICK y \in Nat : y = Total(q) /\ y = v[p] * a + v[p + 1] * b + v[p + 2] * c + v[p + 3] * b + v[p + 4] * a
  BY <1>3, <1>8
<1>13. PICK x \in Nat : x = v[p] BY <1>2
<1>14. PICK z \in Nat : z = v[p + 4] BY <1>2
<1>15. /\ x <= v[p + 1] /\ x <= v[p + 2] /\ x <= v[p + 3] /\ x <= z
       /\ v[p + 1] <= z /\ v[p + 2] <= z /\ v[p + 3] <= z
  <2>1. \A i, j \in 1 .. 13 : i <= j => v[i] <= v[j] BY DEF Rising
  <2>2. /\ p <= p + 1 /\ p <= p + 2 /\ p <= p + 3 /\ p <= p + 4
        /\ p + 1 <= p + 4 /\ p + 2 <= p + 4 /\ p + 3 <= p + 4 OBVIOUS
  <2>3. QED BY <1>1, <1>13, <1>14, <2>1, <2>2
<1>16. /\ x * b <= v[p + 1] * b /\ x * c <= v[p + 2] * c /\ x * b <= v[p + 3] * b /\ x * a <= z * a
       /\ v[p + 1] * b <= z * b /\ v[p + 2] * c <= z * c /\ v[p + 3] * b <= z * b
  BY <1>2, <1>15, TimesMonotone
<1>17. /\ x * n = x * a + x * b + x * c + x * b + x * a
       /\ z * n = z * a + z * b + z * c + z * b + z * a
  BY <1>11
<1>18. /\ x * a \in Nat /\ x * b \in Nat /\ x * c \in Nat /\ z * a \in Nat /\ z * b \in Nat /\ z * c \in Nat
  OBVIOUS
<1>19. x * n <= y /\ y <= z * n BY <1>3, <1>12, <1>13, <1>14, <1>16, <1>17, <1>18
<1>20. y \div n \in Nat /\ x <= y \div n /\ y \div n <= z BY <1>11, <1>19, DivBetween
<1>21. calculateWeightedValue(v, g) = y \div n BY <1>9, <1>10, <1>11, <1>12
<1>22. calculateWeightedValue(v, g) = Mean5(v, p, a, b, c) BY <1>11, <1>12, <1>21 DEF Mean5
<1>23. QED BY <1>13, <1>14, <1>20, <1>21, <1>22

LEMMA GroupOf3 ==
    ASSUME NEW v, Rising(v), Len(v) = 13, NEW g, NEW p, NEW a, NEW b, IsGroup3(g, p, a, b)
    PROVE  LET value == calculateWeightedValue(v, g)
           IN /\ value \in Nat /\ v[p] <= value /\ value <= v[p + 2]
              /\ value = Mean3(v, p, a, b)
<1> /\ p \in 1 .. 11 /\ a \in Nat /\ b \in Nat /\ a > 0 /\ b > 0
    /\ g = <<<<p, a>>, <<p + 1, b>>, <<p + 2, a>>>>
  BY DEF IsGroup3
<1> DEFINE w == <<a, b, a>>
           q == <<v[p] * a, v[p + 1] * b, v[p + 2] * a>>
<1>1. /\ p <= 13 /\ p + 1 <= 13 /\ p + 2 <= 13
      /\ p \in 1 .. 13 /\ p + 1 \in 1 .. 13 /\ p + 2 \in 1 .. 13
  OBVIOUS
<1>2. v[p] \in Nat /\ v[p + 1] \in Nat /\ v[p + 2] \in Nat
  <2>1. \A i \in 1 .. Len(v) : v[i] \in Nat BY ElementOfSeq DEF Rising
  <2>2. QED BY <1>1, <2>1
<1>3. v[p] * a \in Nat /\ v[p + 1] * b \in Nat /\ v[p + 2] * a \in Nat
  <2>1. \A x, y \in Nat : x * y \in Nat OBVIOUS
  <2>2. QED BY <1>2, <2>1
<1>4. DOMAIN g = 1 .. 3 OBVIOUS
<1>5. [i \in DOMAIN g |-> IF g[i][1] <= Len(v) THEN g[i][2] ELSE 0] = w
  <2>1. \A i \in 1 .. 3 : i = 1 \/ i = 2 \/ i = 3 OBVIOUS
  <2>2. \A i \in 1 .. 3 : (IF g[i][1] <= Len(v) THEN g[i][2] ELSE 0) = w[i] BY <1>1, <2>1
  <2>3. w = [i \in 1 .. 3 |-> w[i]] OBVIOUS
  <2> HIDE DEF w
  <2>4. QED BY <1>4, <2>2, <2>3
<1>6. [i \in DOMAIN g |-> IF w[i] = 0 THEN 0 ELSE v[g[i][1]] * w[i]] = q
  <2>1. \A i \in 1 .. 3 : i = 1 \/ i = 2 \/ i = 3 OBVIOUS
  <2>2. ASSUME NEW i \in 1 .. 3 PROVE (IF w[i] = 0 THEN 0 ELSE v[g[i][1]] * w[i]) = q[i]
    <3>1. CASE i = 1 BY <3>1
    <3>2. CASE i = 2 BY <3>2
    <3>3. CASE i = 3 BY <3>3
    <3>4. QED BY <2>1, <3>1, <3>2, <3>3
  <2>3. q = [i \in 1 .. 3 |-> q[i]] OBVIOUS
  <2> HIDE DEF w, q
  <2>4. QED BY <1>4, <2>2, <2>3
<1>7. Total(w) = a + b + a
  <2>1. w \in Seq(Int) /\ Len(w) = 3 OBVIOUS
  <2>2. w[1] = a /\ w[2] = b /\ w[3] = a OBVIOUS
  <2> HIDE DEF w
  <2>3. QED BY <2>1, <2>2, TotalOf3
<1>8. Total(q) = v[p] * a + v[p + 1] * b + v[p + 2] * a
  <2>1. q \in Seq(Int) /\ Len(q) = 3 BY <1>3
  <2>2. q[1] = v[p] * a /\ q[2] = v[p + 1] * b /\ q[3] = v[p + 2] * a OBVIOUS
  <2> HIDE DEF q
  <2>3. QED BY <2>1, <2>2, TotalOf3
<1>9. calculateWeightedValue(v, g) = IF Total(w) = 0 THEN 0 ELSE Total(q) \div Total(w)
  <2> HIDE DEF w, q
  <2>1. QED BY <1>5, <1>6 DEF calculateWeightedValue
<1>10. Total(w) # 0 BY <1>7
<1> HIDE DEF w, q
<1>11. PICK n \in Nat : n = Total(w) /\ n > 0 /\ n = a + b + a BY <1>7, <1>10
<1>12. PICK y \in Nat : y = Total(q) /\ y = v[p] * a + v[p + 1] * b + v[p + 2] * a BY <1>3, <1>8
<1>13. PICK x \in Nat : x = v[p] BY <1>2
<1>14. PICK z \in Nat : z = v[p + 2] BY <1>2
<1>15. x <= v[p + 1] /\ x <= z /\ v[p + 1] <= z
  <2>1. \A i, j \in 1 .. 13 : i <= j => v[i] <= v[j] BY DEF Rising
  <2>2. p <= p + 1 /\ p <= p + 2 /\ p + 1 <= p + 2 OBVIOUS
  <2>3. QED BY <1>1, <1>13, <1>14, <2>1, <2>2
<1>16. x * b <= v[p + 1] * b /\ x * a <= z * a /\ v[p + 1] * b <= z * b
  BY <1>2, <1>15, TimesMonotone
<1>17. x * n = x * a + x * b + x * a /\ z * n = z * a + z * b + z * a BY <1>11
<1>18. x * a \in Nat /\ x * b \in Nat /\ z * a \in Nat /\ z * b \in Nat OBVIOUS
<1>19. x * n <= y /\ y <= z * n BY <1>3, <1>12, <1>13, <1>14, <1>16, <1>17, <1>18
<1>20. y \div n \in Nat /\ x <= y \div n /\ y \div n <= z BY <1>11, <1>19, DivBetween
<1>21. calculateWeightedValue(v, g) = y \div n BY <1>9, <1>10, <1>11, <1>12
<1>22. calculateWeightedValue(v, g) = Mean3(v, p, a, b) BY <1>11, <1>12, <1>21 DEF Mean3
<1>23. QED BY <1>13, <1>14, <1>20, <1>21, <1>22

(* Without percentiles every fee is zero.                                  *)
LEMMA NoValue ==
    ASSUME NEW g \in Seq(Nat \X Nat), Len(g) = 3 \/ Len(g) = 5, \A i \in 1 .. Len(g) : g[i][1] > 0
    PROVE  calculateWeightedValue(<<>>, g) = 0
<1> DEFINE w == [i \in DOMAIN g |-> IF g[i][1] <= Len(<<>>) THEN g[i][2] ELSE 0]
<1>1. \A i \in 1 .. Len(g) : g[i][1] \in Nat
  <2>1. \A i \in 1 .. Len(g) : g[i] \in Nat \X Nat OBVIOUS
  <2>2. QED BY <2>1
<1>2. w = [i \in 1 .. Len(g) |-> 0]
  <2>1. Len(<<>>) = 0 /\ DOMAIN g = 1 .. Len(g) OBVIOUS
  <2>2. \A i \in 1 .. Len(g) : ~(g[i][1] <= 0) BY <1>1
  <2>3. QED BY <2>1, <2>2
<1>3. Len(w) = Len(g) /\ w \in Seq(Int) /\ \A i \in 1 .. Len(g) : w[i] = 0
  <2> HIDE DEF w
  <2>1. QED BY <1>2
<1> HIDE DEF w
<1>4. Total(w) = 0
  <2>1. CASE Len(g) = 3 BY <1>3, <2>1, TotalOf3
  <2>2. CASE Len(g) = 5 BY <1>3, <2>2, TotalOf5
  <2>3. QED BY <2>1, <2>2
<1>5. QED BY <1>4 DEF calculateWeightedValue, w

(* Rising percentiles give ordered fees: each level's fee is between the   *)
(* percentiles around it.                                                  *)
LEMMA PredictionOrdered ==
    ASSUME NEW v, v = <<>> \/ (Rising(v) /\ Len(v) = 13)
    PROVE  Ordered(buildPrediction(v))
<1> DEFINE f == buildPrediction(v)
<1>1. /\ "market" \in Levels /\ "fast" \in Levels /\ "urgent" \in Levels
      /\ \A level \in Levels : level = "market" \/ level = "fast" \/ level = "urgent"
  BY DEF Levels
<1>2. /\ f["market"] = calculateWeightedValue(v, <<<<2, 1>>, <<3, 1>>, <<4, 4>>, <<5, 1>>, <<6, 1>>>>)
      /\ f["fast"] = calculateWeightedValue(v, <<<<7, 1>>, <<8, 5>>, <<9, 10>>, <<10, 5>>, <<11, 1>>>>)
      /\ f["urgent"] = calculateWeightedValue(v, <<<<11, 1>>, <<12, 3>>, <<13, 1>>>>)
  BY <1>1 DEF buildPrediction, PredictionGroups
<1>3. f = [level \in Levels |-> f[level]] BY DEF buildPrediction
<1> HIDE DEF f
<1>4. SUFFICES f["market"] \in Nat /\ f["fast"] \in Nat /\ f["urgent"] \in Nat
               /\ f["market"] <= f["fast"] /\ f["fast"] <= f["urgent"]
  <2>1. f["market"] \in Nat /\ f["fast"] \in Nat /\ f["urgent"] \in Nat => f \in [Levels -> Nat]
    BY <1>1, <1>3
  <2>2. QED BY <1>4, <2>1 DEF Ordered, f
<1>5. CASE v = <<>>
  <2>1. f["market"] = 0
    <3> DEFINE g == <<<<2, 1>>, <<3, 1>>, <<4, 4>>, <<5, 1>>, <<6, 1>>>>
    <3>1. g \in Seq(Nat \X Nat) /\ Len(g) = 5 /\ \A i \in 1 .. 5 : g[i][1] > 0 OBVIOUS
    <3>2. f["market"] = calculateWeightedValue(<<>>, g) BY <1>2, <1>5
    <3> HIDE DEF g
    <3>3. QED BY <3>1, <3>2, NoValue
  <2>2. f["fast"] = 0
    <3> DEFINE g == <<<<7, 1>>, <<8, 5>>, <<9, 10>>, <<10, 5>>, <<11, 1>>>>
    <3>1. g \in Seq(Nat \X Nat) /\ Len(g) = 5 /\ \A i \in 1 .. 5 : g[i][1] > 0 OBVIOUS
    <3>2. f["fast"] = calculateWeightedValue(<<>>, g) BY <1>2, <1>5
    <3> HIDE DEF g
    <3>3. QED BY <3>1, <3>2, NoValue
  <2>3. f["urgent"] = 0
    <3> DEFINE g == <<<<11, 1>>, <<12, 3>>, <<13, 1>>>>
    <3>1. g \in Seq(Nat \X Nat) /\ Len(g) = 3 /\ \A i \in 1 .. 3 : g[i][1] > 0 OBVIOUS
    <3>2. f["urgent"] = calculateWeightedValue(<<>>, g) BY <1>2, <1>5
    <3> HIDE DEF g
    <3>3. QED BY <3>1, <3>2, NoValue
  <2>4. QED BY <2>1, <2>2, <2>3
<1>6. CASE Rising(v) /\ Len(v) = 13
  <2>1. f["market"] \in Nat /\ f["market"] <= v[6]
    <3>1. PICK g, p, a, b, c : /\ IsGroup5(g, p, a, b, c) /\ p + 4 = 6
                               /\ f["market"] = calculateWeightedValue(v, g)
      BY <1>2 DEF IsGroup5
    <3>2. QED BY <1>6, <3>1, GroupOf5
  <2>2. f["fast"] \in Nat /\ v[7] <= f["fast"] /\ f["fast"] <= v[11]
    <3>1. PICK g, p, a, b, c : /\ IsGroup5(g, p, a, b, c) /\ p = 7 /\ p + 4 = 11
                               /\ f["fast"] = calculateWeightedValue(v, g)
      BY <1>2 DEF IsGroup5
    <3>2. QED BY <1>6, <3>1, GroupOf5
  <2>3. f["urgent"] \in Nat /\ v[11] <= f["urgent"]
    <3>1. PICK g, p, a, b : IsGroup3(g, p, a, b) /\ p = 11 /\ f["urgent"] = calculateWeightedValue(v, g)
      BY <1>2 DEF IsGroup3
    <3>2. QED BY <1>6, <3>1, GroupOf3
  <2>4. v[6] \in Nat /\ v[7] \in Nat /\ v[11] \in Nat /\ v[6] <= v[7]
    <3>1. \A i \in 1 .. 13 : v[i] \in Nat BY <1>6, ElementOfSeq DEF Rising
    <3>2. \A i, j \in 1 .. 13 : i <= j => v[i] <= v[j] BY <1>6 DEF Rising
    <3>3. 6 \in 1 .. 13 /\ 7 \in 1 .. 13 /\ 11 \in 1 .. 13 /\ 6 <= 7 OBVIOUS
    <3>4. QED BY <3>1, <3>2, <3>3
  <2>5. QED BY <2>1, <2>2, <2>3, <2>4
<1>7. QED BY <1>5, <1>6

-----------------------------------------------------------------------------
(* The outliers.                                                           *)

LEMMA TwiceType ==
    ASSUME NEW p \in Nat
    PROVE  Twice(p) \in Nat /\ (p <= MaxUint => p <= Twice(p))
<1>1. MaxUint \in Nat BY BaseFeeAssumption
<1>2. (2 * p) % (MaxUint + 1) \in Nat
  <2>1. \A x, y \in Nat : y > 0 => x % y \in Nat OBVIOUS
  <2>2. 2 * p \in Nat /\ MaxUint + 1 \in Nat /\ MaxUint + 1 > 0 BY <1>1
  <2>3. QED BY <2>1, <2>2
<1>3. QED BY <1>1, <1>2 DEF Twice

(* The bound on outliers: a tip at or beyond the 95th percentile is within *)
(* it.                                                                     *)
LEMMA BoundType ==
    ASSUME NEW d \in Seq(Tips)
    PROVE  /\ calculateOuterBound(d).UpperBound \in Nat
           /\ \/ calculateOuterBound(d).Count = 0
              \/ calculateOuterBound(d).Count =
                    Cardinality({i \in 1 .. Len(d) : d[i].Tip > calculateOuterBound(d).UpperBound})
           /\ calculateOuterBound(d).Count # 0 =>
                 \E m \in 1 .. Len(d) :
                    /\ Reached(RunningSums(Weights(d))[m], 95, totalWeight(d))
                    /\ d[m].Tip <= MaxUint => d[m].Tip <= calculateOuterBound(d).UpperBound
<1> DEFINE n == Len(d)
           reaching == {i \in DOMAIN d : Reached(RunningSums(Weights(d))[i], 95, totalWeight(d))}
           p95 == IF totalWeight(d) = 0 \/ reaching = {} THEN 0 ELSE d[Min(reaching)].Tip
           upper == IF p95 = 0 THEN 0 ELSE Twice(p95)
<1>1. DOMAIN d = 1 .. n /\ n \in Nat OBVIOUS
<1>2. /\ p95 \in Nat
      /\ p95 # 0 => \E m \in 1 .. n : Reached(RunningSums(Weights(d))[m], 95, totalWeight(d)) /\ p95 = d[m].Tip
  <2>1. CASE totalWeight(d) = 0 \/ reaching = {} BY <2>1
  <2>2. CASE ~(totalWeight(d) = 0 \/ reaching = {})
    <3>1. reaching \subseteq 1 .. n BY <1>1
    <3>2. PICK m \in reaching : \A k \in reaching : m <= k
      <4> HIDE DEF reaching
      <4>1. reaching \subseteq Nat BY <1>1, <3>1
      <4>2. QED BY <2>2, <4>1, Smallest
    <3>3. Min(reaching) \in reaching
      <4> HIDE DEF reaching
      <4>1. QED BY <3>2 DEF Min
    <3>4. d[Min(reaching)].Tip \in Nat
      <4> HIDE DEF reaching
      <4>1. Min(reaching) \in 1 .. Len(d) BY <3>1, <3>3
      <4>2. QED BY <4>1, TipOf
    <3>5. p95 = d[Min(reaching)].Tip BY <2>2
    <3>6. Reached(RunningSums(Weights(d))[Min(reaching)], 95, totalWeight(d)) /\ Min(reaching) \in 1 .. n
      BY <3>1, <3>3
    <3> HIDE DEF reaching, p95
    <3>7. QED BY <3>4, <3>5, <3>6
  <2>3. QED BY <2>1, <2>2
<1>3. calculateOuterBound(d) =
        [Count |-> IF p95 = 0 THEN 0 ELSE Cardinality({i \in DOMAIN d : d[i].Tip > upper}),
         UpperBound |-> upper]
  BY DEF calculateOuterBound
<1> HIDE DEF p95
<1>4. upper \in Nat BY <1>2, TwiceType
<1> HIDE DEF upper
<1>5. PICK b : b = calculateOuterBound(d) OBVIOUS
<1>6. b.UpperBound = upper BY <1>3, <1>5
<1>7. b.Count = 0 \/ b.Count = Cardinality({i \in 1 .. n : d[i].Tip > upper})
  <2>1. CASE p95 = 0 BY <1>3, <1>5, <2>1
  <2>2. CASE p95 # 0
    <3>1. b.Count = Cardinality({i \in DOMAIN d : d[i].Tip > upper}) BY <1>3, <1>5, <2>2
    <3>2. QED BY <1>1, <3>1
  <2>3. QED BY <2>1, <2>2
<1>8. ASSUME b.Count # 0
      PROVE  \E m \in 1 .. n : /\ Reached(RunningSums(Weights(d))[m], 95, totalWeight(d))
                               /\ d[m].Tip <= MaxUint => d[m].Tip <= upper
  <2>1. p95 # 0 BY <1>3, <1>5, <1>8
  <2>2. PICK m \in 1 .. n : Reached(RunningSums(Weights(d))[m], 95, totalWeight(d)) /\ p95 = d[m].Tip
    BY <1>2, <2>1
  <2>3. upper = Twice(p95) BY <2>1 DEF upper
  <2>4. p95 <= MaxUint => p95 <= upper BY <1>2, <2>3, TwiceType
  <2>5. QED BY <2>2, <2>4
<1>9. QED BY <1>4, <1>5, <1>6, <1>7, <1>8

(* The bound replaces exactly the tips above it, so the order stays.       *)
LEMMA CappedRises ==
    ASSUME NEW d \in Seq(Tips), TipsRise(d)
    PROVE  /\ Capped(d) \in Seq(Tips)
           /\ Len(Capped(d)) = Len(d)
           /\ TipsRise(Capped(d))
           /\ \A i \in 1 .. Len(d) :
                 /\ Capped(d)[i].Weight = d[i].Weight
                 /\ \/ Capped(d)[i].Tip = d[i].Tip
                    \/ /\ calculateOuterBound(d).Count # 0
                       /\ d[i].Tip > calculateOuterBound(d).UpperBound
<1>1. PICK n \in Nat : n = Len(d) /\ DOMAIN d = 1 .. n OBVIOUS
<1>2. PICK u \in Nat : u = calculateOuterBound(d).UpperBound BY BoundType
<1>3. PICK count : count = calculateOuterBound(d).Count OBVIOUS
<1>4. \A i \in 1 .. n : d[i] \in Tips /\ d[i].Tip \in Nat BY <1>1, TipOf
<1> DEFINE B == {i \in 1 .. n : d[i].Tip > u}
           Replaced(i) == [d[i] EXCEPT !.Tip = u]
           c == [i \in 1 .. n |-> IF i > n - count THEN Replaced(i) ELSE d[i]]
<1>5. Capped(d) = c BY <1>1, <1>2, <1>3 DEF Capped
<1>6. \A i \in 1 .. n : Replaced(i) \in Tips /\ Replaced(i).Tip = u /\ Replaced(i).Weight = d[i].Weight
  <2>1. \A t \in Tips : LET r == [t EXCEPT !.Tip = u] IN r \in Tips /\ r.Tip = u /\ r.Weight = t.Weight BY DEF Tips
  <2>2. QED BY <1>4, <2>1
<1>7. CASE count = 0
  <2>1. \A i \in 1 .. n : ~(i > n - count) BY <1>7
  <2>2. c = [i \in 1 .. n |-> d[i]] BY <2>1
  <2>3. d = [i \in 1 .. n |-> d[i]] BY <1>1
  <2>4. Capped(d) = d BY <1>5, <2>2, <2>3
  <2>5. QED BY <1>1, <2>4
<1>8. CASE count # 0
  <2>1. count = Cardinality(B) BY <1>1, <1>2, <1>3, <1>8, BoundType
  <2>2. PICK m \in B : \A k \in B : m <= k
    <3>1. B \subseteq Nat OBVIOUS
    <3>2. B # {} BY <1>8, <2>1, FS_EmptySet
    <3> HIDE DEF B
    <3>3. QED BY <3>1, <3>2, Smallest
  <2>3. B = m .. n
    <3>1. ASSUME NEW i \in m .. n PROVE i \in B
      <4>1. m \in 1 .. n /\ i \in 1 .. n /\ m <= i BY <2>2
      <4>2. d[m].Tip <= d[i].Tip BY <1>1, <4>1 DEF TipsRise
      <4>3. d[m].Tip > u BY <2>2
      <4>4. QED BY <1>4, <4>1, <4>2, <4>3
    <3>2. ASSUME NEW i \in B PROVE i \in m .. n
      <4>1. i \in 1 .. n /\ m \in 1 .. n OBVIOUS
      <4>2. m <= i
        <5> HIDE DEF B
        <5>1. QED BY <2>2
      <4>3. QED BY <4>1, <4>2
    <3> HIDE DEF B
    <3>3. QED BY <3>1, <3>2
  <2>4. m \in 1 .. n OBVIOUS
  <2>5. count = n - m + 1
    <3>1. m \in Int /\ n \in Int /\ ~(m > n) BY <2>4
    <3>2. Cardinality(m .. n) = n - m + 1 BY <3>1, FS_Interval
    <3> HIDE DEF B
    <3>3. QED BY <2>1, <2>3, <3>2
  <2>6. \A i \in 1 .. n : (i > n - count) <=> i \in m .. n BY <2>4, <2>5
  <2>7. \A i \in 1 .. n : /\ i \in m .. n => d[i].Tip > u
                          /\ i \notin m .. n => ~(d[i].Tip > u)
    <3>1. \A i \in 1 .. n : i \in B <=> d[i].Tip > u OBVIOUS
    <3> HIDE DEF B
    <3>2. QED BY <2>3, <3>1
  <2> HIDE DEF B, Replaced
  <2>8. \A i \in 1 .. n : /\ c[i] \in Tips /\ c[i].Weight = d[i].Weight
                          /\ c[i].Tip = IF d[i].Tip > u THEN u ELSE d[i].Tip
    BY <1>4, <1>6, <2>6, <2>7
  <2>9. c \in [1 .. n -> Tips] BY <1>4, <1>6
  <2> HIDE DEF c
  <2>10. c \in Seq(Tips) /\ Len(c) = n BY <2>9
  <2>11. TipsRise(c)
    <3>1. SUFFICES ASSUME NEW i \in 1 .. n, NEW j \in 1 .. n, i <= j PROVE c[i].Tip <= c[j].Tip
      BY <2>10 DEF TipsRise
    <3>2. d[i].Tip <= d[j].Tip BY <1>1, <3>1 DEF TipsRise
    <3>3. d[i].Tip \in Nat /\ d[j].Tip \in Nat BY <1>4
    <3>4. QED BY <2>8, <3>2, <3>3
  <2>12. \A i \in 1 .. n : c[i].Weight = d[i].Weight /\ (c[i].Tip = d[i].Tip \/ (count # 0 /\ d[i].Tip > u))
    BY <1>8, <2>8
  <2>13. QED BY <1>1, <1>2, <1>3, <1>5, <2>10, <2>11, <2>12
<1>9. QED BY <1>7, <1>8

(* The default fees are in order.                                          *)
LEMMA DefaultsOrdered == Ordered(DefaultFees)
<1>1. 0 .. MaxUint \subseteq Nat BY BaseFeeAssumption
<1>2. DefaultFees \in [Levels -> Nat] BY <1>1, PercentilesAssumption
<1>3. QED BY <1>2, PercentilesAssumption DEF Ordered

(* Whatever the tips are, the fees of the three levels are in order.       *)
LEMMA PercentilesOrdered ==
    ASSUME NEW d \in Seq(Tips)
    PROVE  Ordered(PendingPercentiles(d)) /\ Ordered(BlockPercentiles(d).Fees)
<1>1. CASE d = <<>> BY <1>1, DefaultsOrdered DEF PendingPercentiles, BlockPercentiles
<1>2. CASE d # <<>>
  <2>1. PICK s : s = SortedByTip(d) /\ s \in Seq(Tips) /\ Len(s) = Len(d) /\ TipsRise(s) BY Sorts
  <2>2. s # <<>> BY <1>2, <2>1
  <2>3. PICK c : c = Capped(s) /\ c \in Seq(Tips) /\ Len(c) = Len(d) /\ TipsRise(c) BY <2>1, CappedRises
  <2>4. c # <<>> BY <1>2, <2>3
  <2>5. Ordered(buildPrediction(calculateWeightedPercentiles(c)))
    BY <2>3, <2>4, PercentilesRise, PredictionOrdered
  <2>6. Ordered(buildPrediction(calculateWeightedPercentiles(s)))
    BY <2>1, <2>2, PercentilesRise, PredictionOrdered
  <2>7. QED BY <1>2, <2>1, <2>3, <2>5, <2>6 DEF PendingPercentiles, BlockPercentiles
<1>3. QED BY <1>1, <1>2

-----------------------------------------------------------------------------
(* What is analyzed.                                                       *)

(* What the assumptions say of the transactions.                           *)
LEMMA TxConstants ==
    /\ GasLimit \in Nat /\ GasLimit > 1 /\ MaxUint \in Nat
    /\ IsFiniteSet(Tx)
    /\ \A t \in Tx : /\ TipCap[t] \in 0 .. MaxUint /\ FeeCap[t] \in 0 .. MaxUint
                     /\ Root[Gas[t]] \in Nat
  BY BaseFeeAssumption, FeeAnalysisAssumption

(* The list of a finite set has each of its members once.                  *)
LEMMA ListOfSet ==
    ASSUME NEW S, IsFiniteSet(S)
    PROVE  /\ SetToSeq(S) \in Seq(S) /\ DOMAIN SetToSeq(S) = 1 .. Len(SetToSeq(S))
           /\ SetToSeq(S) \in Bijection(1 .. Len(SetToSeq(S)), S)
<1>1. PICK n \in Nat : n = Cardinality(S) BY FS_CardinalityType
<1>2. ExistsBijection(1 .. n, S) BY <1>1, FS_CardinalityType
<1>3. PICK f \in [1 .. n -> S] : IsInjective(f)
  BY <1>2 DEF ExistsBijection, Bijection, Injection, Surjection
<1>4. PICK q : q = SetToSeq(S) OBVIOUS
<1>5. q \in [1 .. n -> S] /\ IsInjective(q) BY <1>1, <1>3, <1>4 DEF SetToSeq
<1>6. q \in Seq(S) /\ Len(q) = n BY <1>5
<1>7. q \in Bijection(1 .. n, S)
  <2>1. q \in Injection(1 .. n, S) BY <1>5 DEF Injection
  <2>2. Cardinality(1 .. n) = n
    <3>1. Cardinality(1 .. n) = IF 1 > n THEN 0 ELSE n - 1 + 1 BY FS_Interval
    <3>2. QED BY <3>1
  <2>3. q \in Surjection(1 .. n, S) BY <1>1, <2>1, <2>2, FS_Injection
  <2>4. QED BY <2>1, <2>3 DEF Bijection
<1>8. QED BY <1>4, <1>6, <1>7

(* A list made of the members of a finite set, one by one.                 *)
LEMMA ListedTips ==
    ASSUME NEW S, IsFiniteSet(S), NEW f, f \in [S -> Tips]
    PROVE  [i \in DOMAIN SetToSeq(S) |-> f[SetToSeq(S)[i]]] \in Seq(Tips)
<1>1. PICK q : q = SetToSeq(S) /\ q \in Seq(S) BY ListOfSet
<1>2. PICK n \in Nat : n = Len(q) /\ DOMAIN q = 1 .. n BY <1>1
<1>3. \A i \in 1 .. n : f[q[i]] \in Tips BY <1>1, <1>2
<1>4. [i \in 1 .. n |-> f[q[i]]] \in Seq(Tips) BY <1>3
<1>5. QED BY <1>1, <1>2, <1>4

(* What CalculateBlockTxTip lists are tips with a weight.                  *)
LEMMA BlockTips ==
    ASSUME NEW content \in SUBSET Tx, NEW header
    PROVE  CalculateBlockTxTip(content, header) \in Seq(Tips)
<1> DEFINE S == {t \in content : PaidTip(t, header) # NoTip}
           f == [t \in S |-> [Tip |-> PaidTip(t, header), Weight |-> CalculateWeightForGasUsed(Gas[t])]]
<1>1. IsFiniteSet(S)
  <2>1. S \subseteq Tx OBVIOUS
  <2> HIDE DEF S
  <2>2. QED BY <2>1, TxConstants, FS_Subset
<1>2. ASSUME NEW t \in S PROVE f[t] \in Tips
  <2>1. PaidTip(t, header) \in Nat
    <3>1. PaidTip(t, header) # NoTip OBVIOUS
    <3>2. PaidTip(t, header) \in 1 .. MaxUint BY <3>1 DEF PaidTip, EffectiveTipFromReceipt
    <3>3. QED BY <3>2, TxConstants
  <2>2. CalculateWeightForGasUsed(Gas[t]) \in Nat BY TxConstants DEF CalculateWeightForGasUsed
  <2>3. QED BY <2>1, <2>2 DEF Tips
<1>3. f \in [S -> Tips] BY <1>2
<1>4. [i \in DOMAIN SetToSeq(S) |-> f[SetToSeq(S)[i]]] \in Seq(Tips)
  <2> HIDE DEF S, f
  <2>1. QED BY <1>1, <1>3, ListedTips
<1>5. \A i \in DOMAIN SetToSeq(S) : SetToSeq(S)[i] \in S
  <2> HIDE DEF S
  <2>1. QED BY <1>1, ListOfSet
<1>6. CalculateBlockTxTip(content, header) = [i \in DOMAIN SetToSeq(S) |-> f[SetToSeq(S)[i]]]
  BY <1>5 DEF CalculateBlockTxTip
<1>7. QED BY <1>4, <1>6

(* A snapshot is a finite set of transactions.                             *)
LEMMA SnapshotsFinite ==
    ASSUME NEW snapshot \in Snapshots
    PROVE  IsFiniteSet(snapshot) /\ snapshot \subseteq [Tx : Tx, NonceGap : BOOLEAN]
<1> DEFINE T == Tx \X BOOLEAN
           f == [tx \in snapshot |-> <<tx.Tx, tx.NonceGap>>]
<1>1. snapshot \subseteq [Tx : Tx, NonceGap : BOOLEAN] BY FeeAnalysisAssumption
<1>2. IsFiniteSet(T)
  <2>1. IsFiniteSet({TRUE} \cup {FALSE}) BY FS_Singleton, FS_AddElement
  <2>2. BOOLEAN = {TRUE} \cup {FALSE} OBVIOUS
  <2>3. IsFiniteSet(BOOLEAN) BY <2>1, <2>2
  <2>4. QED BY <2>3, TxConstants, FS_Product
<1>3. f \in Injection(snapshot, T)
  <2>1. f \in [snapshot -> T] BY <1>1
  <2>2. ASSUME NEW a \in snapshot, NEW b \in snapshot, f[a] = f[b] PROVE a = b
    <3>1. a \in [Tx : Tx, NonceGap : BOOLEAN] /\ b \in [Tx : Tx, NonceGap : BOOLEAN] BY <1>1
    <3>2. a.Tx = b.Tx /\ a.NonceGap = b.NonceGap BY <2>2
    <3>3. QED BY <3>1, <3>2
  <2>3. QED BY <2>1, <2>2 DEF Injection, IsInjective
<1> HIDE DEF f, T
<1>4. QED BY <1>1, <1>2, <1>3, FS_Injection

(* What collectPendingTx lists are tips with a weight.                     *)
LEMMA PendingTips ==
    ASSUME NEW snapshot \in Snapshots, NEW next \in Nat
    PROVE  collectPendingTx(snapshot, next) \in Seq(Tips)
<1> DEFINE Tip(tx) == EffectiveTip(FeeCap[tx.Tx], TipCap[tx.Tx], next)
           S == {tx \in snapshot : Tip(tx) # NoTip}
           f == [tx \in S |-> [Tip |-> Tip(tx), Weight |-> PendingWeight(tx)]]
<1>1. IsFiniteSet(S)
  <2>1. S \subseteq snapshot OBVIOUS
  <2> HIDE DEF S
  <2>2. QED BY <2>1, SnapshotsFinite, FS_Subset
<1>2. ASSUME NEW tx \in S PROVE f[tx] \in Tips
  <2>1. tx.Tx \in Tx /\ Tip(tx) # NoTip BY SnapshotsFinite
  <2>2. FeeCap[tx.Tx] \in Nat /\ TipCap[tx.Tx] \in Nat BY <2>1, TxConstants
  <2>3. Tip(tx) \in Nat BY <2>1, <2>2 DEF EffectiveTip
  <2>4. PendingWeight(tx) \in Nat
    <3>1. PICK w \in Nat : w = Root[Gas[tx.Tx]] BY <2>1, TxConstants
    <3>2. w \div 2 \in Nat OBVIOUS
    <3>3. QED BY <3>1, <3>2 DEF PendingWeight, CalculateWeightForGasUsed
  <2>5. QED BY <2>3, <2>4 DEF Tips
<1>3. f \in [S -> Tips] BY <1>2
<1>4. [i \in DOMAIN SetToSeq(S) |-> f[SetToSeq(S)[i]]] \in Seq(Tips)
  <2> HIDE DEF S, f
  <2>1. QED BY <1>1, <1>3, ListedTips
<1>5. \A i \in DOMAIN SetToSeq(S) : SetToSeq(S)[i] \in S
  <2> HIDE DEF S
  <2>1. QED BY <1>1, ListOfSet
<1>6. collectPendingTx(snapshot, next) = [i \in DOMAIN SetToSeq(S) |-> f[SetToSeq(S)[i]]]
  BY <1>5 DEF collectPendingTx
<1>7. QED BY <1>4, <1>6

(* Lists of tips, one after the other: c[i] has the first i of them.       *)
Flattens(c, q) ==
    /\ c[1] = q[1] /\ FlattenSeq(q) = c[Len(q)]
    /\ \A i \in 2 .. Len(q) : c[i] = c[i - 1] \o q[i]
    /\ \A i \in 1 .. Len(q) : c[i] \in Seq(Tips)

(* The loop behind FlattenSeq has a solution.                              *)
LEMMA FlattensSome ==
    ASSUME NEW q \in Seq(Seq(Tips)), q # <<>>
    PROVE  \E c : Flattens(c, q)
<1> DEFINE n == Len(q)
           F == [p \in Nat \X Seq(Tips) |-> IF p[1] \in 1 .. n THEN p[2] \o q[p[1]] ELSE <<>>]
           Loop(g) == [i \in 1 .. n |-> IF i = 1 THEN q[i] ELSE g[i - 1] \o q[i]]
<1>1. n \in Nat /\ n >= 1 /\ n # 0 /\ \A i \in 1 .. n : q[i] \in Seq(Tips) OBVIOUS
<1>2. F \in [Nat \X Seq(Tips) -> Seq(Tips)]
  <2>1. \A p \in Nat \X Seq(Tips) : p[2] \in Seq(Tips) OBVIOUS
  <2>2. \A a, b \in Seq(Tips) : a \o b \in Seq(Tips) OBVIOUS
  <2>3. <<>> \in Seq(Tips) OBVIOUS
  <2> HIDE DEF n
  <2>4. \A p \in Nat \X Seq(Tips) : (IF p[1] \in 1 .. n THEN p[2] \o q[p[1]] ELSE <<>>) \in Seq(Tips)
    BY <1>1, <2>1, <2>2, <2>3
  <2>5. QED BY <2>4
<1>3. PICK v \in Seq(Tips) : v = q[1] BY <1>1
<1>4. PICK g : Iterates(g, Seq(Tips), v, F, 1, n)
  <2>1. 1 \in Nat /\ 1 <= n BY <1>1
  <2> HIDE DEF F, n
  <2>2. QED BY <1>1, <1>2, <2>1, IteratesExist, Zenon
<1>5. g = Loop(g)
  <2>1. ASSUME NEW i \in 1 .. n PROVE g[i] = IF i = 1 THEN q[i] ELSE g[i - 1] \o q[i]
    <3>1. CASE i = 1 BY <1>3, <1>4, <3>1 DEF Iterates
    <3>2. CASE i # 1
      <4>1. i \in 1 + 1 .. n /\ i - 1 \in 1 .. n /\ i \in Nat BY <3>2
      <4>2. g[i] = F[<<i, g[i - 1]>>] /\ g[i - 1] \in Seq(Tips)
        <5> HIDE DEF F
        <5>1. QED BY <1>4, <4>1 DEF Iterates
      <4>3. F[<<i, g[i - 1]>>] = g[i - 1] \o q[i] BY <4>1, <4>2
      <4>4. QED BY <3>2, <4>2, <4>3
    <3>3. QED BY <3>1, <3>2
  <2>2. g = [i \in 1 .. n |-> g[i]]
    <3> HIDE DEF F, n
    <3>1. QED BY <1>4 DEF Iterates
  <2>3. QED BY <2>1, <2>2
<1>6. PICK c : c = Loop(c) /\ FlattenSeq(q) = c[n]
  <2> DEFINE c == CHOOSE h : h = Loop(h)
  <2>1. FlattenSeq(q) = c[n] BY <1>1 DEF FlattenSeq
  <2>2. c = Loop(c)
    <3>1. \E h : h = Loop(h) BY <1>5
    <3> HIDE DEF Loop
    <3>2. QED BY <3>1
  <2> HIDE DEF c
  <2>3. QED BY <2>1, <2>2
<1>7. \A i \in 1 .. n : c[i] = IF i = 1 THEN q[i] ELSE c[i - 1] \o q[i] BY <1>6
<1> DEFINE T == {i \in 1 .. n : c[i] \notin Seq(Tips)}
<1>8. ASSUME T # {} PROVE FALSE
  <2>1. PICK m \in T : \A k \in T : m <= k
    <3>1. T \subseteq Nat OBVIOUS
    <3> HIDE DEF T
    <3>2. QED BY <1>8, <3>1, Smallest
  <2>2. m \in 1 .. n /\ c[m] \notin Seq(Tips) OBVIOUS
  <2>3. m # 1 BY <1>1, <1>7, <2>2
  <2>4. m - 1 \in 1 .. n /\ ~(m <= m - 1) BY <1>1, <2>2, <2>3
  <2>5. c[m - 1] \in Seq(Tips)
    <3>1. m - 1 \notin T
      <4> HIDE DEF T
      <4>1. QED BY <2>1, <2>4
    <3>2. QED BY <2>4, <3>1
  <2>6. c[m] = c[m - 1] \o q[m] BY <1>7, <2>2, <2>3
  <2>7. q[m] \in Seq(Tips) BY <1>1, <2>2
  <2>8. QED BY <2>2, <2>5, <2>6, <2>7
<1>9. \A i \in 1 .. n : c[i] \in Seq(Tips) BY <1>8
<1>10. c[1] = q[1] /\ \A i \in 2 .. n : c[i] = c[i - 1] \o q[i]
  <2>1. 1 \in 1 .. n BY <1>1
  <2>2. \A i \in 2 .. n : i \in 1 .. n /\ i # 1 BY <1>1
  <2> HIDE DEF n
  <2>3. QED BY <1>7, <2>1, <2>2
<1>11. QED BY <1>6, <1>9, <1>10 DEF Flattens

(* Lists of tips, one after the other, are a list of tips.                 *)
LEMMA FlatTips ==
    ASSUME NEW q \in Seq(Seq(Tips))
    PROVE  FlattenSeq(q) \in Seq(Tips)
<1>1. CASE q = <<>>
  <2>1. Len(q) = 0 /\ q \in Seq(Tips) BY <1>1
  <2>2. QED BY <2>1 DEF FlattenSeq
<1>2. CASE q # <<>>
  <2>1. PICK c : Flattens(c, q) BY <1>2, FlattensSome
  <2>2. Len(q) \in 1 .. Len(q) BY <1>2
  <2>3. QED BY <2>1, <2>2 DEF Flattens
<1>3. QED BY <1>1, <1>2

(* Dividing twice is dividing by the product.                              *)
LEMMA DivDiv ==
    ASSUME NEW x \in Nat, NEW n \in Nat, n > 0
    PROVE  (x \div n) \div 8 = x \div (8 * n)
<1>1. PICK e \in Nat : e = x \div n /\ e * n <= x /\ x < e * n + n OBVIOUS
<1>2. PICK q \in Nat : q = e \div 8 /\ 8 * q <= e /\ e < 8 * q + 8 OBVIOUS
<1>3. (8 * q) * n <= e * n BY <1>2, TimesMonotone
<1>4. (e + 1) * n <= (8 * q + 8) * n
  <2>1. e + 1 <= 8 * q + 8 BY <1>2
  <2> DEFINE a == e + 1
             b == 8 * q + 8
  <2>2. a \in Int /\ b \in Int OBVIOUS
  <2>3. a <= b BY <2>1
  <2> HIDE DEF a, b
  <2>4. a * n <= b * n BY <2>2, <2>3, TimesMonotone
  <2>5. QED BY <2>4 DEF a, b
<1>5. (8 * q) * n = q * (8 * n) /\ (8 * q + 8) * n = q * (8 * n) + 8 * n /\ (e + 1) * n = e * n + n OBVIOUS
<1>6. e * n \in Nat /\ q * (8 * n) \in Nat /\ 8 * n \in Nat /\ 8 * n > 0 OBVIOUS
<1>7. q * (8 * n) <= x /\ x < q * (8 * n) + 8 * n
  <2> DEFINE a == e * n
             b == q * (8 * n)
             c == 8 * n
  <2>1. a \in Nat /\ b \in Nat /\ c \in Nat BY <1>6
  <2>2. b <= a /\ a + n <= b + c BY <1>3, <1>4, <1>5
  <2>3. a <= x /\ x < a + n BY <1>1
  <2> HIDE DEF a, b, c
  <2>4. b <= x /\ x < b + c BY <2>1, <2>2, <2>3
  <2>5. QED BY <2>4 DEF b, c
<1> DEFINE c == 8 * n
<1>8. x \div c = q
  <2>1. c \in Nat /\ c > 0 /\ q * c <= x /\ x < q * c + c BY <1>6, <1>7
  <2> HIDE DEF c
  <2>2. QED BY <2>1, DivIs
<1>9. QED BY <1>1, <1>2, <1>8

(* For natural inputs the code computes what EIP-1559 prescribes, although *)
(* it divides twice and treats the two directions separately.              *)
THEOREM BaseFeeRight ==
    ASSUME NEW header, header.BaseFee \in Nat, header.GasUsed \in Nat
    PROVE  /\ CalculateNextBaseFee(header.BaseFee, header.GasUsed, GasLimit) = BaseFeeAfter(header)
           /\ BaseFeeAfter(header) \in Nat
<1>1. PICK b \in Nat : b = header.BaseFee OBVIOUS
<1>2. PICK u \in Nat : u = header.GasUsed OBVIOUS
<1>3. PICK T \in Nat : T = GasLimit \div 2 /\ T > 0 BY FeeAnalysisAssumption
<1>4. PICK N \in Nat : N = 8 * T /\ N > 0 BY <1>3
<1> DEFINE Diff(g) == ((b * g) \div T) \div 8
           num == b * (7 * T + u)
<1>5. CalculateNextBaseFee(header.BaseFee, header.GasUsed, GasLimit) =
        IF u = T THEN b
        ELSE IF u > T THEN Raised(b, Diff(u - T))
        ELSE IF b - Diff(T - u) < 0 THEN 0 ELSE b - Diff(T - u)
  BY <1>1, <1>2, <1>3 DEF CalculateNextBaseFee
<1>6. BaseFeeAfter(header) =
        CASE u > T -> Max({b + 1, num \div N})
          [] u < T -> (num + N - 1) \div N
          [] OTHER -> b
  BY <1>1, <1>2, <1>3, <1>4 DEF BaseFeeAfter
<1>7. \A g \in Nat : b * g \in Nat /\ Diff(g) = (b * g) \div N
  BY <1>3, <1>4, DivDiv
<1> HIDE DEF Diff
<1>8. CASE u > T
  <2>1. PICK g \in Nat : g = u - T /\ g > 0 BY <1>8
  <2>2. PICK x \in Nat : x = b * g BY <1>7
  <2>3. PICK d \in Nat : d = x \div N /\ d * N <= x /\ x < d * N + N BY <1>4
  <2>4. num = b * N + x
    <3>1. 7 * T + u = N + g BY <1>4, <2>1
    <3>2. b * (N + g) = b * N + b * g OBVIOUS
    <3>3. QED BY <2>2, <3>1, <3>2
  <2>5. num \div N = b + d
    <3>1. (b + d) * N = b * N + d * N /\ b * N \in Nat /\ d * N \in Nat OBVIOUS
    <3>2. PICK q \in Nat : q = b + d OBVIOUS
    <3>3. PICK y \in Nat : y = b * N + x BY <3>1
    <3>4. q * N <= y /\ y < q * N + N BY <2>3, <3>1, <3>2, <3>3
    <3>5. y \div N = q BY <1>4, <3>4, DivIs
    <3>6. QED BY <2>4, <3>2, <3>3, <3>5
  <2> HIDE DEF num
  <2>6. Max({b + 1, b + d}) = b + (IF d = 0 THEN 1 ELSE d)
    <3>1. PICK m \in Nat : m = b + (IF d = 0 THEN 1 ELSE d) OBVIOUS
    <3>2. m \in {b + 1, b + d} /\ \A y \in {b + 1, b + d} : m >= y BY <3>1
    <3>3. \A x1 \in {b + 1, b + d} : (\A y \in {b + 1, b + d} : x1 >= y) => x1 = m BY <3>1, <3>2
    <3>4. QED BY <3>1, <3>2, <3>3 DEF Max
  <2>7. Diff(u - T) = d BY <1>7, <2>1, <2>2, <2>3
  <2>8. CalculateNextBaseFee(header.BaseFee, header.GasUsed, GasLimit) = b + (IF d = 0 THEN 1 ELSE d)
    BY <1>5, <1>8, <2>7 DEF Raised
  <2>9. BaseFeeAfter(header) = b + (IF d = 0 THEN 1 ELSE d) BY <1>6, <1>8, <2>5, <2>6
  <2>10. QED BY <2>8, <2>9
<1>9. CASE u < T
  <2>1. PICK g \in Nat : g = T - u /\ g > 0 BY <1>9
  <2>2. PICK x \in Nat : x = b * g BY <1>7
  <2>3. PICK d \in Nat : d = x \div N /\ d * N <= x /\ x < d * N + N BY <1>4
  <2>4. num = b * N - x
    <3>1. 7 * T + u = N - g BY <1>4, <2>1
    <3>2. b * (N - g) = b * N - b * g OBVIOUS
    <3>3. QED BY <2>2, <3>1, <3>2
  <2>5. d <= b
    <3>1. g <= N BY <1>4, <1>9, <2>1
    <3>2. g * b <= N * b BY <3>1, TimesMonotone
    <3>3. g * b = b * g /\ N * b = b * N /\ b * N \in Nat /\ d * N \in Nat OBVIOUS
    <3>4. d * N <= b * N BY <2>2, <2>3, <3>2, <3>3
    <3>5. ASSUME b + 1 <= d PROVE FALSE
      <4>1. PICK c \in Nat : c = b + 1 OBVIOUS
      <4>2. c * N <= d * N BY <3>5, <4>1, TimesMonotone
      <4>3. (b + 1) * N = b * N + N OBVIOUS
      <4>4. QED BY <1>4, <3>3, <3>4, <4>1, <4>2, <4>3
    <3>6. QED BY <3>5
  <2>6. (num + N - 1) \div N = b - d
    <3>1. (b - d) * N = b * N - d * N /\ b * N \in Nat /\ d * N \in Nat OBVIOUS
    <3>2. PICK q \in Nat : q = b - d BY <2>5
    <3>3. PICK y \in Int : y = b * N - x + N - 1 BY <3>1
    <3>4. q * N <= y /\ y < q * N + N BY <2>3, <3>1, <3>2, <3>3
    <3>5. y \div N = q BY <1>4, <3>4, DivIs
    <3>6. QED BY <2>4, <3>2, <3>3, <3>5
  <2> HIDE DEF num
  <2>7. Diff(T - u) = d BY <1>7, <2>1, <2>2, <2>3
  <2>8. CalculateNextBaseFee(header.BaseFee, header.GasUsed, GasLimit) = b - d
    BY <1>5, <1>9, <2>5, <2>7
  <2>9. BaseFeeAfter(header) = b - d BY <1>6, <1>9, <2>6
  <2>10. QED BY <2>5, <2>8, <2>9
<1>10. CASE u = T BY <1>1, <1>5, <1>6, <1>10
<1>11. QED BY <1>8, <1>9, <1>10
-----------------------------------------------------------------------------
(* The invariant.                                                          *)

(* The records of the store.                                               *)
Stored == [Txs : Seq(Tips), FeeBuckets : {EmptyMap} \cup {StatsOf[content] : content \in SUBSET Tx}]

Bids == [Levels -> [PriorityFee : Nat, MaxFee : Nat]]

(* The types of what the program computes with.                            *)
AnalysisTypes ==
    /\ head \in [Number : Nat, BaseFee : Nat, GasUsed : 0 .. GasLimit]
    /\ blocks \in Seq(Stored) /\ Len(blocks) <= MaxBlockCount
    /\ latestBlockData.BlockNumber \in Nat /\ latestBlockData.NextBaseFee \in Nat
    /\ latestResult \in [AnalyzerBlock : [Levels -> Nat] \cup {NoLevels},
                         AnalyzerPending : [Levels -> Nat] \cup {NoLevels},
                         PredictResult : Bids \cup {NoLevels}, NextBlockNumber : Nat, NextBaseFee : Nat]

(* The fees a prediction is blended from are in order, and so is the       *)
(* prediction.                                                             *)
FeesOrdered ==
    /\ blocks # <<>> => Ordered(latestResult.AnalyzerBlock)
    /\ latestResult.PredictResult # NoLevels =>
          Ordered([level \in Levels |-> latestResult.PredictResult[level].PriorityFee])

(* The forecast is about the block after the last processed one, and is    *)
(* right, as far as a uint64 can be, as long as that is the newest.        *)
ForecastRight ==
    /\ latestBlockData.BlockNumber <= head.Number
    /\ blocks # <<>> /\ latestBlockData.BlockNumber = head.Number =>
          latestBlockData.NextBaseFee = AsUint64(BaseFeeAfter(head))
    /\ latestResult.NextBlockNumber <= latestBlockData.BlockNumber + 1
    /\ latestResult.NextBlockNumber = latestBlockData.BlockNumber + 1 =>
          \A level \in DOMAIN latestResult.PredictResult :
              latestResult.PredictResult[level] =
                  GasLevel(latestBlockData.NextBaseFee, latestResult.PredictResult[level].PriorityFee)

AnalysisInv == AnalysisTypes /\ FeesOrdered /\ ForecastRight

(* What the store keeps of a list.                                         *)
LEMMA KeptType ==
    ASSUME NEW S, NEW list \in Seq(S), list # <<>>
    PROVE  Kept(list) \in Seq(S) /\ Len(Kept(list)) <= MaxBlockCount /\ Kept(list) # <<>>
<1>1. MaxBlockCount \in Nat /\ MaxBlockCount > 0 BY FeeAnalysisAssumption
<1>2. Len(list) \in Nat /\ Len(list) > 0 OBVIOUS
<1>3. PICK m \in 1 .. Len(list) : m = (IF Len(list) > MaxBlockCount THEN MaxBlockCount ELSE Len(list)) /\ m <= MaxBlockCount
  BY <1>1, <1>2
<1>4. Kept(list) = SubSeq(list, 1, m) BY <1>3 DEF Kept
<1>5. 1 \in 1 .. Len(list) + 1 /\ m \in 0 .. Len(list) BY <1>2
<1>6. PICK k : k = SubSeq(list, 1, m) /\ k \in Seq(S) /\ Len(k) = m
  <2>1. \A i \in 1 .. m : list[i] \in S BY <1>2
  <2>2. SubSeq(list, 1, m) = [i \in 1 .. m |-> list[i]] BY <1>2
  <2>3. PICK k : k = [i \in 1 .. m |-> list[i]] OBVIOUS
  <2>4. k \in Seq(S) /\ Len(k) = m BY <2>1, <2>3
  <2>5. QED BY <2>2, <2>3, <2>4
<1>7. k # <<>> BY <1>6
<1>8. QED BY <1>3, <1>4, <1>6, <1>7

(* What UpdateBlockInfoForAnalysis lists are tips with a weight.           *)
LEMMA DecayedTipsType ==
    ASSUME NEW store \in Seq(Stored), Len(store) <= MaxBlockCount
    PROVE  DecayedTips(store) \in Seq(Tips)
<1> DEFINE Older(age) == [i \in DOMAIN store[age].Txs |-> [store[age].Txs[i] EXCEPT !.Weight = @ * Decay(age)]]
<1>1. PICK n \in Nat : n = Len(store) /\ DOMAIN store = 1 .. n OBVIOUS
<1>2. ASSUME NEW age \in 1 .. n PROVE Older(age) \in Seq(Tips)
  <2>1. PICK w \in Nat : w = Decay(age)
    <3>1. age \in 1 .. MaxBlockCount BY <1>1, FeeAnalysisAssumption
    <3>2. QED BY <3>1, FeeAnalysisAssumption DEF Decay
  <2>2. store[age] \in Stored BY <1>1
  <2>3. PICK d \in Seq(Tips) : d = store[age].Txs BY <2>2 DEF Stored
  <2>4. ASSUME NEW t \in Tips PROVE [t EXCEPT !.Weight = @ * w] \in Tips
    <3>1. t.Weight \in Nat BY DEF Tips
    <3>2. t.Weight * w \in Nat BY <3>1
    <3>3. QED BY <3>2 DEF Tips
  <2>5. \A i \in 1 .. Len(d) : d[i] \in Tips OBVIOUS
  <2>6. [i \in 1 .. Len(d) |-> [d[i] EXCEPT !.Weight = @ * w]] \in Seq(Tips) BY <2>4, <2>5
  <2>7. DOMAIN d = 1 .. Len(d) OBVIOUS
  <2>8. QED BY <2>1, <2>3, <2>6, <2>7
<1>3. DecayedTips(store) = FlattenSeq([age \in 1 .. n |-> Older(age)]) BY <1>1 DEF DecayedTips
<1> HIDE DEF Older
<1>4. [age \in 1 .. n |-> Older(age)] \in Seq(Seq(Tips)) BY <1>2
<1>5. QED BY <1>3, <1>4, FlatTips

(* A blend of ordered fees is ordered.                                     *)
LEMMA BlendOrdered ==
    ASSUME NEW f, NEW g, Ordered(f), Ordered(g)
    PROVE  Ordered([level \in Levels |-> Blend(f[level], g[level])])
<1>1. "market" \in Levels /\ "fast" \in Levels /\ "urgent" \in Levels BY DEF Levels
<1>2. \A level \in Levels : f[level] \in Nat /\ g[level] \in Nat BY DEF Ordered
<1>3. \A a, b, c, d \in Nat : /\ Blend(a, b) \in Nat
                              /\ a <= c /\ b <= d => Blend(a, b) <= Blend(c, d)
  BY DEF Blend
<1>4. QED BY <1>1, <1>2, <1>3 DEF Ordered

(* The conversion to a uint64: a number that is one stays as it is.        *)
LEMMA Uint64Is ==
    ASSUME NEW x \in Nat
    PROVE  AsUint64(x) \in Nat /\ (x <= MaxUint => AsUint64(x) = x)
<1>1. PICK m \in Nat : m = MaxUint + 1 /\ m > 0 /\ (x <= MaxUint => x < m) BY TxConstants
<1>2. \A a, n \in Nat : n > 0 => a % n \in Nat OBVIOUS
<1>3. \A a, n \in Nat : a < n => a % n = a OBVIOUS
<1>4. QED BY <1>1, <1>2, <1>3 DEF AsUint64

(* What a step does with a block that was processed.                       *)
LEMMA BlockInfo ==
    ASSUME NEW header, header \in [Number : Nat, BaseFee : Nat, GasUsed : 0 .. GasLimit],
           NEW store \in Seq(Stored), Len(store) <= MaxBlockCount,
           NEW result, UpdateBlockInfoForAnalysis(header, store, result)
    PROVE  /\ latestBlockData'.BlockNumber = header.Number
           /\ latestBlockData'.NextBaseFee = AsUint64(BaseFeeAfter(header))
           /\ latestBlockData'.NextBaseFee \in Nat
           /\ \E fees : Ordered(fees) /\ latestResult' = [result EXCEPT !.AnalyzerBlock = fees]
<1>1. header.BaseFee \in Nat /\ header.GasUsed \in Nat BY TxConstants
<1>2. DecayedTips(store) \in Seq(Tips) BY DecayedTipsType
<1>3. Ordered(BlockPercentiles(DecayedTips(store)).Fees) BY <1>2, PercentilesOrdered
<1>4. latestResult' = [result EXCEPT !.AnalyzerBlock = BlockPercentiles(DecayedTips(store)).Fees]
  BY DEF UpdateBlockInfoForAnalysis
<1>5. /\ latestBlockData'.BlockNumber = header.Number
      /\ latestBlockData'.NextBaseFee =
            AsUint64(CalculateNextBaseFee(header.BaseFee, header.GasUsed, GasLimit))
  BY DEF UpdateBlockInfoForAnalysis
<1>6. QED BY <1>1, <1>3, <1>4, <1>5, BaseFeeRight, Uint64Is

(* The invariant holds at first.                                           *)
LEMMA AnalysisInitInv == AnalysisInit => AnalysisInv
<1> SUFFICES ASSUME AnalysisInit PROVE AnalysisInv OBVIOUS
<1>1. /\ GasLimit \div 2 \in 0 .. GasLimit /\ FirstBaseFee \subseteq Nat /\ MaxBlockCount \in Nat
      /\ latestResult = ZeroResult /\ blocks = <<>>
      /\ latestBlockData.BlockNumber = 0 /\ latestBlockData.NextBaseFee = 0
  BY TxConstants, FeeAnalysisAssumption DEF AnalysisInit
<1>2. head \in [Number : Nat, BaseFee : Nat, GasUsed : 0 .. GasLimit] /\ head.Number = 0
  <2>1. PICK h \in 0 .. GasLimit : h = GasLimit \div 2 BY <1>1
  <2>2. head \in [Number : {0}, BaseFee : FirstBaseFee, GasUsed : {h}] BY <2>1 DEF AnalysisInit
  <2>3. 0 \in Nat OBVIOUS
  <2>4. QED BY <1>1, <2>2, <2>3
<1>3. /\ latestResult.PredictResult = NoLevels /\ latestResult.NextBlockNumber = 0
      /\ latestResult \in [AnalyzerBlock : [Levels -> Nat] \cup {NoLevels},
                           AnalyzerPending : [Levels -> Nat] \cup {NoLevels},
                           PredictResult : Bids \cup {NoLevels}, NextBlockNumber : Nat, NextBaseFee : Nat]
  BY <1>1 DEF ZeroResult
<1>4. AnalysisTypes
  <2>1. blocks \in Seq(Stored) /\ Len(blocks) <= MaxBlockCount BY <1>1
  <2>2. QED BY <1>1, <1>2, <1>3, <2>1 DEF AnalysisTypes
<1>5. FeesOrdered BY <1>1, <1>3 DEF FeesOrdered
<1>6. ForecastRight BY <1>1, <1>2, <1>3 DEF ForecastRight
<1>7. QED BY <1>4, <1>5, <1>6 DEF AnalysisInv

(* The header of the next block.                                           *)
LEMMA NextHeaderType ==
    ASSUME AnalysisTypes, NEW content, Minable(content, NextHeader(content))
    PROVE  /\ NextHeader(content) \in [Number : Nat, BaseFee : Nat, GasUsed : 0 .. GasLimit]
           /\ NextHeader(content).Number = head.Number + 1
           /\ NextHeader(content).BaseFee = BaseFeeAfter(head)
<1>1. head.Number \in Nat /\ head.BaseFee \in Nat /\ head.GasUsed \in Nat BY TxConstants DEF AnalysisTypes
<1>2. BaseFeeAfter(head) \in Nat BY <1>1, BaseFeeRight
<1>3. SumGas(content) \in 0 .. GasLimit BY DEF Minable, NextHeader
<1>4. QED BY <1>1, <1>2, <1>3 DEF NextHeader

(* A processed block: the store has one, its fees are ordered, and its     *)
(* base fee forecast is right; what was predicted before is for an earlier *)
(* block.                                                                  *)
LEMMA ProcessedInv ==
    ASSUME NEW header, header \in [Number : Nat, BaseFee : Nat, GasUsed : 0 .. GasLimit],
           head' = header, blocks' \in Seq(Stored), Len(blocks') <= MaxBlockCount,
           NEW result, UpdateBlockInfoForAnalysis(header, blocks', result),
           result \in [AnalyzerBlock : [Levels -> Nat] \cup {NoLevels},
                       AnalyzerPending : [Levels -> Nat] \cup {NoLevels},
                       PredictResult : Bids \cup {NoLevels}, NextBlockNumber : Nat, NextBaseFee : Nat],
           result.PredictResult # NoLevels =>
              Ordered([level \in Levels |-> result.PredictResult[level].PriorityFee]),
           result.NextBlockNumber <= header.Number
    PROVE  AnalysisInv'
<1>1. /\ latestBlockData'.BlockNumber = header.Number
      /\ latestBlockData'.NextBaseFee = AsUint64(BaseFeeAfter(header))
      /\ latestBlockData'.NextBaseFee \in Nat
  BY BlockInfo
<1>2. PICK fees : Ordered(fees) /\ latestResult' = [result EXCEPT !.AnalyzerBlock = fees] BY BlockInfo
<1>3. fees \in [Levels -> Nat] BY <1>2 DEF Ordered
<1>4. /\ latestResult'.AnalyzerBlock = fees
      /\ latestResult'.PredictResult = result.PredictResult
      /\ latestResult'.NextBlockNumber = result.NextBlockNumber
      /\ latestResult' \in [AnalyzerBlock : [Levels -> Nat] \cup {NoLevels},
                            AnalyzerPending : [Levels -> Nat] \cup {NoLevels},
                            PredictResult : Bids \cup {NoLevels}, NextBlockNumber : Nat, NextBaseFee : Nat]
  BY <1>2, <1>3
<1>5. AnalysisTypes' BY <1>1, <1>4 DEF AnalysisTypes
<1>6. FeesOrdered' BY <1>2, <1>4 DEF FeesOrdered
<1>7. ForecastRight'
  <2>1. header.Number \in Nat /\ result.NextBlockNumber \in Nat OBVIOUS
  <2>2. AsUint64(BaseFeeAfter(head))' = AsUint64(BaseFeeAfter(header)) BY DEF BaseFeeAfter, AsUint64
  <2>3. QED BY <1>1, <1>4, <2>1, <2>2 DEF ForecastRight
<1>8. QED BY <1>5, <1>6, <1>7 DEF AnalysisInv

-----------------------------------------------------------------------------
(* Sums over sets.                                                         *)

(* One unfolding of the sum of w over the subsets of T: some member, and   *)
(* the sum g of the others.                                                *)
Some(s) == CHOOSE x \in s : TRUE
SumBody(w, g, T) == [s \in SUBSET T |-> IF s = {} THEN 0 ELSE w[Some(s)] + g[s \ {Some(s)}]]
IsSum(g, w, T) == g = SumBody(w, g, T)

(* The equation of a sum, at one set.                                      *)
LEMMA SumUnfolds ==
    ASSUME NEW w, NEW T
    PROVE  SumFunctionOnSet(w, T) = (CHOOSE g : IsSum(g, w, T))[T]
BY DEF IsSum, SumFunctionOnSet, FoldFunctionOnSet, MapThenFoldSet, SumBody, Some

(* One member less is a smaller set.                                       *)
LEMMA SmallerSet ==
    ASSUME NEW S, IsFiniteSet(S), NEW T \in SUBSET S, NEW x \in T
    PROVE  /\ IsFiniteSet(T) /\ Cardinality(T) \in Nat /\ Cardinality(T) <= Cardinality(S) /\ Cardinality(T) # 0
           /\ IsFiniteSet(T \ {x}) /\ Cardinality(T \ {x}) = Cardinality(T) - 1
<1>1. IsFiniteSet(T) /\ Cardinality(T) <= Cardinality(S) BY FS_Subset
<1>2. Cardinality(T) \in Nat BY <1>1, FS_CardinalityType
<1>3. Cardinality(T) # 0 BY <1>1, FS_EmptySet
<1>4. IsFiniteSet(T \ {x}) /\ Cardinality(T \ {x}) = Cardinality(T) - 1 BY <1>1, FS_RemoveElement
<1>5. QED BY <1>1, <1>2, <1>3, <1>4

(* The sums exist: n unfoldings are right for the sets of up to n members. *)
LEMMA SumsExist ==
    ASSUME NEW S, IsFiniteSet(S), NEW w \in [S -> Nat]
    PROVE  \E g \in [SUBSET S -> Nat] : IsSum(g, w, S)
<1> DEFINE V == [SUBSET S -> Nat]
           v == [s \in SUBSET S |-> 0]
           F == [p \in Nat \X V |-> SumBody(w, p[2], S)]
<1>1. PICK n \in Nat : n = Cardinality(S) BY FS_CardinalityType
<1>2. \A s \in SUBSET S : s # {} => Some(s) \in s /\ Some(s) \in S /\ s \ {Some(s)} \in SUBSET S BY DEF Some
<1>3. ASSUME NEW g \in V PROVE SumBody(w, g, S) \in V
  <2>1. ASSUME NEW s \in SUBSET S
        PROVE  (IF s = {} THEN 0 ELSE w[Some(s)] + g[s \ {Some(s)}]) \in Nat
    <3>1. CASE s = {} BY <3>1
    <3>2. CASE s # {}
      <4>1. w[Some(s)] \in Nat /\ g[s \ {Some(s)}] \in Nat BY <1>2, <3>2
      <4>2. QED BY <3>2, <4>1
    <3>3. QED BY <3>1, <3>2
  <2>2. QED BY <2>1 DEF SumBody
<1>4. F \in [Nat \X V -> V]
  <2>1. \A p \in Nat \X V : p[2] \in V
    <3> HIDE DEF V
    <3>1. QED OBVIOUS
  <2> HIDE DEF V
  <2>2. QED BY <1>3, <2>1
<1>5. v \in V OBVIOUS
<1>6. PICK f : Iterates(f, V, v, F, 0, n)
  <2>1. 0 \in Nat /\ 0 <= n OBVIOUS
  <2> HIDE DEF F, V, v
  <2>2. QED BY <1>1, <1>4, <1>5, <2>1, IteratesExist, Zenon
<1>7. /\ \A i \in 0 .. n : f[i] \in V
      /\ f[0] = v
      /\ \A i \in 1 .. n : f[i] = SumBody(w, f[i - 1], S)
  <2>1. \A i \in 0 .. n : f[i] \in V
    <3> HIDE DEF V, F, v
    <3>1. QED BY <1>6 DEF Iterates
  <2>2. f[0] = v
    <3> HIDE DEF V, F, v
    <3>1. QED BY <1>6 DEF Iterates
  <2>3. ASSUME NEW i \in 1 .. n PROVE f[i] = SumBody(w, f[i - 1], S)
    <3>1. i \in 0 + 1 .. n /\ i - 1 \in 0 .. n /\ i \in Nat OBVIOUS
    <3>2. f[i] = F[<<i, f[i - 1]>>]
      <4> HIDE DEF V, F, v
      <4>1. QED BY <1>6, <3>1 DEF Iterates
    <3>3. f[i - 1] \in V BY <2>1, <3>1
    <3>4. <<i, f[i - 1]>> \in Nat \X V
      <4> HIDE DEF V
      <4>1. QED BY <3>1, <3>3
    <3> HIDE DEF V
    <3>5. QED BY <3>2, <3>4
  <2>4. QED BY <2>1, <2>2, <2>3
<1> HIDE DEF F
<1> DEFINE g == [s \in SUBSET S |-> f[Cardinality(s)][s]]
<1>8. ASSUME NEW s \in SUBSET S PROVE Cardinality(s) \in 0 .. n
  <2>1. IsFiniteSet(s) /\ Cardinality(s) <= n BY <1>1, FS_Subset
  <2>2. Cardinality(s) \in Nat BY <2>1, FS_CardinalityType
  <2>3. QED BY <2>1, <2>2
<1>9. g \in [SUBSET S -> Nat]
  <2>1. \A s \in SUBSET S : f[Cardinality(s)] \in V BY <1>7, <1>8
  <2>2. \A s \in SUBSET S : f[Cardinality(s)][s] \in Nat BY <2>1
  <2>3. QED BY <2>2
<1>10. ASSUME NEW s \in SUBSET S
       PROVE  g[s] = IF s = {} THEN 0 ELSE w[Some(s)] + g[s \ {Some(s)}]
  <2>1. CASE s = {}
    <3>1. Cardinality(s) = 0 BY <2>1, FS_EmptySet
    <3>2. f[0][s] = 0 BY <1>7
    <3>3. g[s] = f[Cardinality(s)][s] OBVIOUS
    <3>4. QED BY <2>1, <3>1, <3>2, <3>3
  <2>2. CASE s # {}
    <3>1. PICK x \in s : x = Some(s) BY <1>2, <2>2
    <3>2. PICK c \in 1 .. n : c = Cardinality(s) /\ Cardinality(s \ {x}) = c - 1
      <4>1. Cardinality(s) \in Nat /\ Cardinality(s) # 0 /\ Cardinality(s) <= n /\ Cardinality(s \ {x}) = Cardinality(s) - 1
        BY <1>1, SmallerSet
      <4>2. QED BY <4>1
    <3>3. g[s] = f[c][s] /\ g[s \ {x}] = f[c - 1][s \ {x}] BY <3>2
    <3>4. f[c] = SumBody(w, f[c - 1], S) BY <1>7
    <3>5. f[c][s] = w[x] + f[c - 1][s \ {x}] BY <2>2, <3>1, <3>4 DEF SumBody
    <3>6. QED BY <2>2, <3>1, <3>3, <3>5
  <2>3. QED BY <2>1, <2>2
<1>11. g = SumBody(w, g, S)
  <2>1. g = [s \in SUBSET S |-> g[s]] OBVIOUS
  <2> HIDE DEF g
  <2>2. QED BY <1>10, <2>1 DEF SumBody
<1> HIDE DEF g
<1>12. QED BY <1>9, <1>11 DEF IsSum

(* They are the same whatever set they are unfolded from.                  *)
LEMMA SumsAgree ==
    ASSUME NEW S, IsFiniteSet(S), NEW w \in [S -> Nat], NEW T \in SUBSET S,
           NEW g, IsSum(g, w, S), NEW h, IsSum(h, w, T)
    PROVE  h[T] = g[T]
<1> DEFINE Wrong == {s \in SUBSET T : h[s] # g[s]}
           N == {Cardinality(s) : s \in Wrong}
<1>1. \A s \in SUBSET T : IsFiniteSet(s) /\ Cardinality(s) \in Nat
  <2>1. IsFiniteSet(T) BY FS_Subset
  <2>2. \A s \in SUBSET T : IsFiniteSet(s) BY <2>1, FS_Subset
  <2>3. QED BY <2>2, FS_CardinalityType
<1>2. /\ \A s \in SUBSET T : h[s] = IF s = {} THEN 0 ELSE w[Some(s)] + h[s \ {Some(s)}]
      /\ \A s \in SUBSET S : g[s] = IF s = {} THEN 0 ELSE w[Some(s)] + g[s \ {Some(s)}]
  BY DEF IsSum, SumBody
<1>3. ASSUME Wrong # {} PROVE FALSE
  <2>1. N \subseteq Nat /\ N # {} BY <1>1, <1>3
  <2>2. PICK m \in N : \A k \in N : m <= k
    <3> HIDE DEF N
    <3>1. QED BY <2>1, Smallest
  <2>3. PICK s \in SUBSET T : h[s] # g[s] /\ m = Cardinality(s) OBVIOUS
  <2>4. s # {} /\ s \in SUBSET S BY <1>2, <2>3
  <2>5. PICK x \in s : x = Some(s) BY <2>4 DEF Some
  <2>6. Cardinality(s) \in Nat /\ Cardinality(s \ {x}) = Cardinality(s) - 1 BY <2>4, SmallerSet
  <2>7. ~(m <= Cardinality(s \ {x})) BY <2>3, <2>6
  <2>8. Cardinality(s \ {x}) \notin N
    <3> HIDE DEF N
    <3>1. QED BY <2>2, <2>7
  <2>9. s \ {x} \in SUBSET T OBVIOUS
  <2>10. h[s \ {x}] = g[s \ {x}] BY <2>8, <2>9
  <2>11. h[s] = w[x] + h[s \ {x}] /\ g[s] = w[x] + g[s \ {x}] BY <1>2, <2>4, <2>5
  <2>12. QED BY <2>3, <2>10, <2>11
<1>4. QED BY <1>3

(* Any member may be taken out first.                                      *)
LEMMA AnyMember ==
    ASSUME NEW S, IsFiniteSet(S), NEW w \in [S -> Nat],
           NEW g \in [SUBSET S -> Nat], IsSum(g, w, S), NEW T \in SUBSET S, NEW y \in T
    PROVE  g[T] = w[y] + g[T \ {y}]
<1> DEFINE Wrong == {s \in SUBSET S : \E c \in s : g[s] # w[c] + g[s \ {c}]}
           N == {Cardinality(s) : s \in Wrong}
<1>1. \A s \in SUBSET S : IsFiniteSet(s) /\ Cardinality(s) \in Nat
  <2>1. \A s \in SUBSET S : IsFiniteSet(s) BY FS_Subset
  <2>2. QED BY <2>1, FS_CardinalityType
<1>2. \A s \in SUBSET S : g[s] = IF s = {} THEN 0 ELSE w[Some(s)] + g[s \ {Some(s)}] BY DEF IsSum, SumBody
<1>3. ASSUME Wrong # {} PROVE FALSE
  <2>1. N \subseteq Nat /\ N # {} BY <1>1, <1>3
  <2>2. PICK m \in N : \A k \in N : m <= k
    <3> HIDE DEF N
    <3>1. QED BY <2>1, Smallest
  <2>3. PICK s \in SUBSET S : (\E c \in s : g[s] # w[c] + g[s \ {c}]) /\ m = Cardinality(s) OBVIOUS
  <2>4. PICK c \in s : g[s] # w[c] + g[s \ {c}] BY <2>3
  <2>5. PICK x \in s : x = Some(s) BY DEF Some
  <2>6. g[s] = w[x] + g[s \ {x}] BY <1>2, <2>5
  <2>7. x # c BY <2>4, <2>6
  <2>8. ASSUME NEW z \in s, NEW u \in s \ {z} PROVE g[s \ {z}] = w[u] + g[(s \ {z}) \ {u}]
    <3>1. Cardinality(s) \in Nat /\ Cardinality(s \ {z}) = Cardinality(s) - 1 BY SmallerSet
    <3>2. ~(m <= Cardinality(s \ {z})) BY <2>3, <3>1
    <3>3. Cardinality(s \ {z}) \notin N
      <4> HIDE DEF N
      <4>1. QED BY <2>2, <3>2
    <3>4. s \ {z} \in SUBSET S OBVIOUS
    <3>5. s \ {z} \notin Wrong BY <3>3
    <3>6. QED BY <3>4, <3>5
  <2>9. g[s \ {x}] = w[c] + g[(s \ {x}) \ {c}] BY <2>7, <2>8
  <2>10. g[s \ {c}] = w[x] + g[(s \ {c}) \ {x}] BY <2>7, <2>8
  <2>11. (s \ {x}) \ {c} = (s \ {c}) \ {x} OBVIOUS
  <2>12. w[x] \in Nat /\ w[c] \in Nat /\ g[(s \ {x}) \ {c}] \in Nat BY <2>3
  <2>13. PICK a \in Nat : a = w[x] BY <2>12
  <2>14. PICK b \in Nat : b = w[c] BY <2>12
  <2>15. PICK e \in Nat : e = g[(s \ {x}) \ {c}] BY <2>12
  <2>16. g[s] = a + (b + e) /\ g[s] # b + (a + e) BY <2>4, <2>6, <2>9, <2>10, <2>11, <2>13, <2>14, <2>15
  <2>17. QED BY <2>16
<1>4. T \notin Wrong BY <1>3
<1>5. QED BY <1>4

(* So a sum over a finite set is what one expects.                         *)
LEMMA SumOfSet ==
    ASSUME NEW S, IsFiniteSet(S), NEW w \in [S -> Nat]
    PROVE  /\ SumFunctionOnSet(w, {}) = 0
           /\ \A T \in SUBSET S : SumFunctionOnSet(w, T) \in Nat
           /\ \A T \in SUBSET S : \A x \in S \ T :
                 SumFunctionOnSet(w, T \cup {x}) = SumFunctionOnSet(w, T) + w[x]
<1>1. PICK g \in [SUBSET S -> Nat] : IsSum(g, w, S) BY SumsExist
<1>2. ASSUME NEW T \in SUBSET S PROVE SumFunctionOnSet(w, T) = g[T]
  <2>1. IsFiniteSet(T) BY FS_Subset
  <2>2. \E h : IsSum(h, w, T)
    <3> DEFINE h == [s \in SUBSET T |-> g[s]]
    <3>1. ASSUME NEW s \in SUBSET T PROVE h[s] = IF s = {} THEN 0 ELSE w[Some(s)] + h[s \ {Some(s)}]
      <4>1. s \in SUBSET S /\ s \ {Some(s)} \in SUBSET T OBVIOUS
      <4>2. h[s] = g[s] /\ h[s \ {Some(s)}] = g[s \ {Some(s)}] BY <4>1
      <4>3. g[s] = IF s = {} THEN 0 ELSE w[Some(s)] + g[s \ {Some(s)}] BY <1>1, <4>1 DEF IsSum, SumBody
      <4>4. QED BY <4>2, <4>3
    <3>2. h = [s \in SUBSET T |-> h[s]] OBVIOUS
    <3> HIDE DEF h
    <3>3. IsSum(h, w, T) BY <3>1, <3>2 DEF IsSum, SumBody
    <3>4. QED BY <3>3
  <2>3. PICK h : h = (CHOOSE k : IsSum(k, w, T)) OBVIOUS
  <2>4. IsSum(h, w, T) BY <2>2, <2>3
  <2>5. h[T] = g[T] BY <1>1, <2>4, SumsAgree
  <2>6. QED BY <2>3, <2>5, SumUnfolds
<1>3. SumFunctionOnSet(w, {}) = 0
  <2>1. {} \in SUBSET S OBVIOUS
  <2>2. g[{}] = 0 BY <1>1, <2>1 DEF IsSum, SumBody
  <2>3. QED BY <1>2, <2>1, <2>2
<1>4. ASSUME NEW T \in SUBSET S, NEW x \in S \ T
      PROVE  SumFunctionOnSet(w, T \cup {x}) = SumFunctionOnSet(w, T) + w[x]
  <2>1. PICK U \in SUBSET S : U = T \cup {x} OBVIOUS
  <2>2. x \in U /\ U \ {x} = T BY <2>1
  <2>3. g[U] = w[x] + g[U \ {x}]
    <3>1. PICK y \in U : y = x BY <2>2
    <3>2. g[U] = w[y] + g[U \ {y}] BY <1>1, AnyMember
    <3>3. QED BY <3>1, <3>2
  <2>4. w[x] \in Nat /\ g[T] \in Nat OBVIOUS
  <2>5. SumFunctionOnSet(w, U) = g[U] /\ SumFunctionOnSet(w, T) = g[T] BY <1>2
  <2>6. g[U] = g[T] + w[x]
    <3>1. PICK V : V = U \ {x} /\ V = T BY <2>2
    <3>2. g[U] = w[x] + g[V] BY <2>3, <3>1
    <3>3. PICK a \in Nat : a = w[x] BY <2>4
    <3>4. PICK b \in Nat : b = g[T] BY <2>4
    <3>5. g[U] = a + b BY <3>1, <3>2, <3>3, <3>4
    <3>6. a + b = b + a OBVIOUS
    <3>7. QED BY <3>3, <3>4, <3>5, <3>6
  <2>7. QED BY <2>1, <2>5, <2>6
<1>5. QED BY <1>1, <1>2, <1>3, <1>4

-----------------------------------------------------------------------------
(* Which tip each percentile is.                                           *)

(* The cumulated weights.                                                  *)
LEMMA CumulativeRises ==
    ASSUME NEW d \in Seq(Tips), NEW c, c = RunningSums(Weights(d))
    PROVE  /\ c[0] = 0
           /\ \A i \in 1 .. Len(d) : d[i].Weight \in Nat /\ c[i] = c[i - 1] + d[i].Weight
           /\ \A i \in 0 .. Len(d) : c[i] \in Nat
           /\ \A i, j \in 0 .. Len(d) : i <= j => c[i] <= c[j]
           /\ totalWeight(d) = c[Len(d)]
<1>1. PICK n \in Nat : n = Len(d) /\ DOMAIN d = 1 .. n OBVIOUS
<1>2. \A i \in 1 .. n : d[i].Weight \in Nat
  <2>1. \A i \in 1 .. n : d[i] \in Tips BY <1>1
  <2>2. \A t \in Tips : t.Weight \in Nat BY DEF Tips
  <2>3. QED BY <2>1, <2>2
<1>3. PICK f : f = Weights(d) OBVIOUS
<1>4. f = [i \in 1 .. n |-> d[i].Weight] BY <1>1, <1>3 DEF Weights
<1>5. f \in Seq(Int) /\ Len(f) = n BY <1>2, <1>4
<1>6. c[0] = 0 /\ \A i \in 1 .. n : c[i] = c[i - 1] + d[i].Weight
  <2>1. c[0] = 0 /\ \A i \in 1 .. n : c[i] = c[i - 1] + f[i] BY <1>3, <1>5, RunningSumsAre
  <2>2. QED BY <1>4, <2>1
<1> DEFINE T == {i \in 0 .. n : c[i] \notin Nat}
<1>7. ASSUME T # {} PROVE FALSE
  <2>1. PICK m \in T : \A k \in T : m <= k
    <3>1. T \subseteq Nat OBVIOUS
    <3> HIDE DEF T
    <3>2. QED BY <1>7, <3>1, Smallest
  <2>2. m \in 0 .. n /\ c[m] \notin Nat OBVIOUS
  <2>3. m # 0 BY <1>6, <2>2
  <2>4. m \in 1 .. n /\ m - 1 \in 0 .. n /\ ~(m <= m - 1) BY <1>1, <2>2, <2>3
  <2>5. m - 1 \notin T
    <3> HIDE DEF T
    <3>1. QED BY <2>1, <2>4
  <2>6. c[m - 1] \in Nat BY <2>4, <2>5
  <2>7. c[m] = c[m - 1] + d[m].Weight /\ d[m].Weight \in Nat BY <1>2, <1>6, <2>4
  <2>8. QED BY <2>2, <2>6, <2>7
<1>8. \A i \in 0 .. n : c[i] \in Nat BY <1>7
<1>9. ASSUME NEW i \in 0 .. n, NEW j \in 0 .. n, i <= j PROVE c[i] <= c[j]
  <2> DEFINE W == {k \in i .. n : ~(c[i] <= c[k])}
  <2>1. ASSUME W # {} PROVE FALSE
    <3>1. PICK m \in W : \A k \in W : m <= k
      <4>1. W \subseteq Nat OBVIOUS
      <4> HIDE DEF W
      <4>2. QED BY <2>1, <4>1, Smallest
    <3>2. m \in i .. n /\ ~(c[i] <= c[m]) OBVIOUS
    <3>3. m # i BY <1>8, <3>2
    <3>4. m \in 1 .. n /\ m - 1 \in 0 .. n /\ m - 1 \in i .. n /\ ~(m <= m - 1) BY <1>1, <3>2, <3>3
    <3>5. m - 1 \notin W
      <4> HIDE DEF W
      <4>1. QED BY <3>1, <3>4
    <3>6. c[i] <= c[m - 1] BY <3>4, <3>5
    <3>7. c[m] = c[m - 1] + d[m].Weight BY <1>6, <3>4
    <3>8. c[m - 1] \in Nat /\ c[i] \in Nat /\ d[m].Weight \in Nat BY <1>2, <1>8, <3>4
    <3>9. QED BY <3>2, <3>6, <3>7, <3>8
  <2>2. j \in i .. n /\ j \notin W BY <1>1, <1>9, <2>1
  <2>3. QED BY <2>2
<1>10. totalWeight(d) = c[n] BY <1>3, <1>5 DEF totalWeight, Total
<1>11. QED BY <1>1, <1>2, <1>6, <1>8, <1>9, <1>10

(* A set of positions that has all those before each of them.              *)
LEMMA DownClosed ==
    ASSUME NEW n \in Nat, NEW A \in SUBSET (1 .. n), \A k \in A : \A j \in 1 .. k : j \in A
    PROVE  A = 1 .. Cardinality(A)
<1> DEFINE B == {k \in 1 .. n + 1 : k \notin A}
<1>1. PICK m \in B : \A k \in B : m <= k
  <2>1. n + 1 \in B /\ B \subseteq Nat OBVIOUS
  <2> HIDE DEF B
  <2>2. QED BY <2>1, Smallest
<1>2. m \in 1 .. n + 1 /\ m \notin A OBVIOUS
<1>3. A = 1 .. m - 1
  <2>1. ASSUME NEW k \in A PROVE k \in 1 .. m - 1
    <3>1. k \in 1 .. n OBVIOUS
    <3>2. ~(m <= k) BY <1>2, <3>1
    <3>3. QED BY <1>2, <3>1, <3>2
  <2>2. ASSUME NEW k \in 1 .. m - 1 PROVE k \in A
    <3>1. k \in 1 .. n + 1 /\ ~(m <= k) BY <1>2
    <3>2. k \notin B
      <4> HIDE DEF B
      <4>1. QED BY <1>1, <3>1
    <3>3. QED BY <3>1, <3>2
  <2>3. QED BY <2>1, <2>2
<1>4. Cardinality(1 .. m - 1) = m - 1
  <2>1. PICK l \in Nat : l = m - 1 BY <1>2
  <2>2. Cardinality(1 .. l) = IF 1 > l THEN 0 ELSE l - 1 + 1 BY FS_Interval
  <2>3. QED BY <2>1, <2>2
<1>5. QED BY <1>3, <1>4

(* The targets rise, up to 95 percent.                                     *)
LEMMA TargetsRise ==
    /\ \A k \in 1 .. 13 : /\ GasAnalysisTargets[k] \in Nat /\ GasAnalysisTargets[k] <= 95
                          /\ GasAnalysisTargets[k] = IF k = 1 THEN 20 ELSE 30 + 5 * k
    /\ \A j, k \in 1 .. 13 : j <= k => GasAnalysisTargets[j] <= GasAnalysisTargets[k]
<1>1. \A k \in 1 .. 13 : \/ k = 1 \/ k = 2 \/ k = 3 \/ k = 4 \/ k = 5 \/ k = 6 \/ k = 7
                         \/ k = 8 \/ k = 9 \/ k = 10 \/ k = 11 \/ k = 12 \/ k = 13
  OBVIOUS
<1>2. \A k \in 1 .. 13 : GasAnalysisTargets[k] = IF k = 1 THEN 20 ELSE 30 + 5 * k
  BY <1>1 DEF GasAnalysisTargets
<1>3. QED BY <1>2

(* The targets reached are the first ones.                                 *)
LEMMA ReachedMeans ==
    ASSUME NEW cumulative \in Nat, NEW total \in Nat, NEW k \in 1 .. 13
    PROVE  k <= TargetsReached(cumulative, total) <=> Reached(cumulative, GasAnalysisTargets[k], total)
<1> DEFINE A == {j \in 1 .. 13 : Reached(cumulative, GasAnalysisTargets[j], total)}
<1>1. TargetsReached(cumulative, total) = Cardinality(A) BY ThirteenTargets DEF TargetsReached
<1>2. ASSUME NEW i \in A, NEW j \in 1 .. i PROVE j \in A
  <2>1. i \in 1 .. 13 /\ j \in 1 .. 13 /\ j <= i OBVIOUS
  <2>2. PICK a \in Nat : a = GasAnalysisTargets[j] BY <2>1, TargetsRise
  <2>3. PICK b \in Nat : b = GasAnalysisTargets[i] BY <2>1, TargetsRise
  <2>4. a <= b BY <2>1, <2>2, <2>3, TargetsRise
  <2>5. a * total <= b * total BY <2>4, TimesMonotone
  <2>6. 100 * cumulative >= b * total BY <2>3 DEF Reached
  <2>7. a * total \in Nat /\ b * total \in Nat OBVIOUS
  <2>8. 100 * cumulative >= a * total BY <2>5, <2>6, <2>7
  <2>9. QED BY <2>1, <2>2, <2>8 DEF Reached
<1>3. A \in SUBSET (1 .. 13) OBVIOUS
<1>4. A = 1 .. Cardinality(A)
  <2>1. PICK n \in Nat : n = 13 OBVIOUS
  <2>2. A \in SUBSET (1 .. n) BY <1>3, <2>1
  <2> HIDE DEF A
  <2>3. QED BY <1>2, <2>2, DownClosed
<1>5. Cardinality(A) \in Nat BY <1>1, ReachedAtMost13
<1>6. k \in A <=> k <= Cardinality(A)
  <2> HIDE DEF A
  <2>1. QED BY <1>4, <1>5
<1>7. QED BY <1>1, <1>6

(* The first position at which p percent of the weight are reached.        *)
FirstAt(d, p, i) ==
    /\ i \in 1 .. Len(d)
    /\ Reached(RunningSums(Weights(d))[i], p, totalWeight(d))
    /\ \A j \in 1 .. Len(d) : Reached(RunningSums(Weights(d))[j], p, totalWeight(d)) => i <= j

(* Every target is reached somewhere in the list.                          *)
LEMMA FirstExists ==
    ASSUME NEW d \in Seq(Tips), d # <<>>, NEW p \in Nat, p <= 100
    PROVE  \E i : FirstAt(d, p, i)
<1>1. PICK c : c = RunningSums(Weights(d)) OBVIOUS
<1>2. PICK n \in Nat : n = Len(d) /\ n > 0 OBVIOUS
<1>3. totalWeight(d) = c[n] /\ c[n] \in Nat BY <1>1, <1>2, CumulativeRises
<1> DEFINE A == {i \in 1 .. n : Reached(c[i], p, totalWeight(d))}
<1>4. n \in A
  <2>1. PICK t \in Nat : t = c[n] BY <1>3
  <2>2. p * t <= 100 * t BY TimesMonotone
  <2>3. QED BY <1>2, <1>3, <2>1, <2>2 DEF Reached
<1>5. PICK i \in A : \A j \in A : i <= j
  <2>1. A \subseteq Nat OBVIOUS
  <2> HIDE DEF A
  <2>2. QED BY <1>4, <2>1, Smallest
<1>6. QED BY <1>1, <1>2, <1>5 DEF FirstAt

(* What Fill appends.                                                      *)
LEMMA FillIs ==
    ASSUME NEW v \in Seq(Nat), NEW r \in Nat, Len(v) <= r, NEW tip \in Nat
    PROVE  /\ Fill(v, r, tip) \in Seq(Nat) /\ Len(Fill(v, r, tip)) = r
           /\ \A k \in 1 .. r : Fill(v, r, tip)[k] = IF k <= Len(v) THEN v[k] ELSE tip
<1>1. PICK l \in Nat : l = Len(v) OBVIOUS
<1>2. PICK m \in Nat : m = r - l BY <1>1
<1> DEFINE e == [k \in 1 .. m |-> tip]
           w == v \o e
<1>3. e \in Seq(Nat) /\ Len(e) = m /\ \A k \in 1 .. m : e[k] = tip OBVIOUS
<1>4. Fill(v, r, tip) = w BY <1>1, <1>2 DEF Fill
<1> HIDE DEF e
<1>5. /\ w \in Seq(Nat) /\ Len(w) = l + m
      /\ \A k \in 1 .. l : w[k] = v[k]
      /\ \A k \in 1 .. m : w[l + k] = e[k]
  BY <1>1, <1>3
<1> HIDE DEF w
<1>6. ASSUME NEW k \in 1 .. r PROVE w[k] = IF k <= l THEN v[k] ELSE tip
  <2>1. CASE k <= l BY <1>5, <2>1
  <2>2. CASE ~(k <= l)
    <3>1. k - l \in 1 .. m /\ l + (k - l) = k BY <1>2, <2>2
    <3>2. QED BY <1>3, <1>5, <2>2, <3>1
  <2>3. QED BY <2>1, <2>2
<1>7. l + m = r BY <1>2
<1>8. QED BY <1>1, <1>4, <1>5, <1>6, <1>7

(* A percentile is the tip at the first position that reaches its target.  *)
LEMMA PercentileIs ==
    ASSUME NEW d \in Seq(Tips), d # <<>>, totalWeight(d) # 0
    PROVE  /\ Len(calculateWeightedPercentiles(d)) = 13
           /\ \A k \in 1 .. 13 : \A i : FirstAt(d, GasAnalysisTargets[k], i) =>
                 calculateWeightedPercentiles(d)[k] = d[i].Tip
<1>1. PICK n \in Nat : n = Len(d) /\ n > 0 OBVIOUS
<1>2. PICK c : c = RunningSums(Weights(d)) OBVIOUS
<1>3. PICK total \in Nat : total = totalWeight(d) /\ total = c[n] BY <1>1, <1>2, CumulativeRises
<1>4. PICK f : f = FilledBy(d) OBVIOUS
<1> DEFINE R(i) == TargetsReached(c[i], total)
           Hit(i, k) == Reached(c[i], GasAnalysisTargets[k], total)
           Right(i) == /\ f[i] \in Seq(Nat)
                       /\ i > 0 => Len(f[i]) = R(i)
                       /\ i = 0 => Len(f[i]) = 0
                       /\ \A k \in 1 .. Len(f[i]) : \A j \in 1 .. i :
                             FirstAt(d, GasAnalysisTargets[k], j) => f[i][k] = d[j].Tip
<1>5. f[0] = <<>> /\ \A i \in 1 .. n : f[i] = Fill(f[i - 1], R(i), d[i].Tip)
  BY <1>1, <1>2, <1>3, <1>4, FilledByIs
<1>6. \A i : R(i) \in Nat /\ R(i) <= 13 BY ReachedAtMost13
<1>7. \A i \in 0 .. n : c[i] \in Nat BY <1>1, <1>2, CumulativeRises
<1>8. \A i \in 0 .. n, k \in 1 .. 13 : k <= R(i) <=> Hit(i, k) BY <1>7, ReachedMeans
<1>9. \A i, j \in 0 .. n, k \in 1 .. 13 : i <= j /\ Hit(i, k) => Hit(j, k)
  <2> SUFFICES ASSUME NEW i \in 0 .. n, NEW j \in 0 .. n, NEW k \in 1 .. 13, i <= j, Hit(i, k)
               PROVE  Hit(j, k)
    OBVIOUS
  <2>1. c[i] <= c[j] BY <1>1, <1>2, CumulativeRises
  <2>2. PICK x \in Nat : x = GasAnalysisTargets[k] * total
    <3>1. PICK a \in Nat : a = GasAnalysisTargets[k] BY TargetsRise
    <3>2. a * total \in Nat OBVIOUS
    <3>3. QED BY <3>1, <3>2
  <2>3. 100 * c[i] >= x BY <2>2 DEF Reached
  <2>4. c[i] \in Nat /\ c[j] \in Nat BY <1>7
  <2>5. 100 * c[j] >= x BY <2>1, <2>3, <2>4
  <2>6. QED BY <2>2, <2>5 DEF Reached
<1>10. \A j, k : FirstAt(d, GasAnalysisTargets[k], j) =>
          j \in 1 .. n /\ Hit(j, k) /\ \A i \in 1 .. n : Hit(i, k) => j <= i
  BY <1>1, <1>2, <1>3 DEF FirstAt
<1> HIDE DEF R, Hit
<1>11. Right(0)
  <2>1. <<>> \in Seq(Nat) /\ Len(<<>>) = 0 OBVIOUS
  <2>2. QED BY <1>5, <2>1
<1>12. ASSUME NEW i \in 1 .. n, Right(i - 1) PROVE Right(i)
  <2>1. PICK t \in Nat : t = d[i].Tip BY <1>1, TipOf
  <2>2. PICK r \in Nat : r = R(i) /\ r <= 13 BY <1>6
  <2>3. PICK v \in Seq(Nat) : v = f[i - 1] BY <1>12
  <2>4. i - 1 \in 0 .. n /\ i \in 0 .. n /\ i - 1 <= i /\ i > 0 OBVIOUS
  <2>5. Len(v) <= r /\ Len(v) \in Nat /\ Len(v) <= 13
    <3>1. CASE i = 1
      <4>1. Len(v) = 0 BY <1>12, <2>3, <3>1
      <4>2. QED BY <4>1
    <3>2. CASE i # 1
      <4>1. PICK l \in Nat : l = R(i - 1) /\ l <= 13 BY <1>6
      <4>2. Len(v) = l BY <1>12, <2>3, <3>2, <4>1
      <4>3. CASE l = 0 BY <4>2, <4>3
      <4>4. CASE l # 0
        <5>1. \A x \in Nat : x <= 13 /\ x # 0 => x \in 1 .. 13 OBVIOUS
        <5>2. l \in 1 .. 13 /\ l <= l
          <6>1. l <= 13 BY <4>1
          <6>2. QED BY <4>4, <5>1, <6>1
        <5>3. Hit(i, l) BY <1>8, <1>9, <2>4, <4>1, <5>2
        <5>4. l <= r BY <1>8, <2>2, <2>4, <5>2, <5>3
        <5>5. QED BY <4>1, <4>2, <5>4
      <4>5. QED BY <4>3, <4>4
    <3>3. QED BY <3>1, <3>2
  <2>6. PICK u : u = Fill(v, r, t) OBVIOUS
  <2>7. /\ u \in Seq(Nat) /\ Len(u) = r
        /\ \A k \in 1 .. r : u[k] = IF k <= Len(v) THEN v[k] ELSE t
    <3>1. /\ Fill(v, r, t) \in Seq(Nat) /\ Len(Fill(v, r, t)) = r
          /\ \A k \in 1 .. r : Fill(v, r, t)[k] = IF k <= Len(v) THEN v[k] ELSE t
      BY <2>5, FillIs
    <3>2. QED BY <2>6, <3>1
  <2>8. f[i] = u BY <1>5, <2>1, <2>2, <2>3, <2>6
  <2>9. ASSUME NEW k \in 1 .. r, NEW j \in 1 .. i, FirstAt(d, GasAnalysisTargets[k], j)
        PROVE  u[k] = d[j].Tip
    <3>1. k \in 1 .. 13 /\ j \in 1 .. n /\ j \in 0 .. n BY <2>2
    <3>2. CASE k <= Len(v)
      <4>1. i # 1 BY <1>12, <2>3, <3>2
      <4>2. k <= R(i - 1) BY <1>12, <2>3, <2>4, <3>2, <4>1
      <4>3. Hit(i - 1, k) BY <1>8, <2>4, <3>1, <4>2
      <4>4. i - 1 \in 1 .. n BY <4>1
      <4>5. j <= i - 1 BY <1>10, <2>9, <4>3, <4>4
      <4>6. j \in 1 .. i - 1 /\ k \in 1 .. Len(v) BY <2>5, <3>2, <4>5
      <4>7. v[k] = d[j].Tip BY <1>12, <2>3, <2>9, <4>6
      <4>8. QED BY <2>7, <3>2, <4>7
    <3>3. CASE ~(k <= Len(v))
      <4>1. j = i
        <5>1. ASSUME j # i PROVE FALSE
          <6>1. j <= i - 1 /\ i # 1 BY <5>1
          <6>2. Hit(j, k) BY <1>10, <2>9
          <6>3. Hit(i - 1, k) BY <1>9, <2>4, <3>1, <6>1, <6>2
          <6>4. k <= R(i - 1) BY <1>8, <2>4, <3>1, <6>3
          <6>5. Len(v) = R(i - 1) BY <1>12, <2>3, <2>4, <6>1
          <6>6. QED BY <3>3, <6>4, <6>5
        <5>2. QED BY <5>1
      <4>2. QED BY <2>1, <2>7, <3>3, <4>1
    <3>4. QED BY <3>2, <3>3
  <2>10. QED BY <2>2, <2>4, <2>7, <2>8, <2>9
<1> DEFINE T == {i \in 0 .. n : ~Right(i)}
<1>13. ASSUME T # {} PROVE FALSE
  <2>1. PICK m \in T : \A k \in T : m <= k
    <3>1. T \subseteq Nat OBVIOUS
    <3> HIDE DEF T
    <3>2. QED BY <1>13, <3>1, Smallest
  <2> HIDE DEF Right
  <2>2. m \in 0 .. n /\ ~Right(m) OBVIOUS
  <2>3. m # 0 BY <1>11, <2>2
  <2>4. m \in 1 .. n /\ m - 1 \in 0 .. n /\ ~(m <= m - 1) BY <1>1, <2>2, <2>3
  <2>5. Right(m - 1)
    <3>1. m - 1 \notin T
      <4> HIDE DEF T
      <4>1. QED BY <2>1, <2>4
    <3>2. QED BY <2>4, <3>1
  <2>6. QED BY <1>12, <2>2, <2>4, <2>5
<1>14. Right(n)
  <2> HIDE DEF Right
  <2>1. n \in 0 .. n /\ T = {} BY <1>1, <1>13
  <2>2. QED BY <2>1
<1>15. R(n) = 13
  <2>1. 13 \in 1 .. 13 /\ GasAnalysisTargets[13] = 95 BY TargetsRise
  <2>2. Hit(n, 13)
    <3>1. PICK t \in Nat : t = c[n] /\ t = total BY <1>3
    <3>2. 100 * t >= 95 * t OBVIOUS
    <3>3. QED BY <2>1, <3>1, <3>2 DEF Reached, Hit
  <2>3. PICK r \in Nat : r = R(n) /\ r <= 13 BY <1>6
  <2>4. 13 <= r BY <1>1, <1>8, <2>1, <2>2, <2>3
  <2>5. QED BY <2>3, <2>4
<1>16. f[n] \in Seq(Nat) /\ Len(f[n]) = 13 BY <1>1, <1>14, <1>15
<1>17. PICK v \in Seq(Nat) : v = f[n] /\ Len(v) = 13 BY <1>16
<1>18. PICK t \in Nat : t = d[n].Tip BY <1>1, TipOf
<1>19. PICK u : u = Fill(v, 13, t) OBVIOUS
<1>20. Len(u) = 13 /\ \A k \in 1 .. 13 : u[k] = v[k]
  <2>1. PICK r \in Nat : r = 13 OBVIOUS
  <2>2. Len(v) <= r BY <1>17, <2>1
  <2>3. Len(Fill(v, r, t)) = r /\ \A k \in 1 .. r : Fill(v, r, t)[k] = IF k <= Len(v) THEN v[k] ELSE t
    BY <2>2, FillIs
  <2>4. QED BY <1>17, <1>19, <2>1, <2>3
<1>21. calculateWeightedPercentiles(d) = u
  BY <1>1, <1>4, <1>17, <1>18, <1>19, ThirteenTargets DEF calculateWeightedPercentiles, Last
<1>22. ASSUME NEW k \in 1 .. 13, NEW i, FirstAt(d, GasAnalysisTargets[k], i) PROVE u[k] = d[i].Tip
  <2>1. i \in 1 .. n BY <1>10, <1>22
  <2>2. v[k] = d[i].Tip BY <1>14, <1>17, <1>22, <2>1
  <2>3. QED BY <1>20, <2>2
<1>23. QED BY <1>20, <1>21, <1>22

-----------------------------------------------------------------------------
(* The quantiles.                                                          *)

(* The list d has the tip and the weight of each thing once, the i-th of   *)
(* the thing at[i].                                                        *)
ListedBy(at, d, tip, weight) ==
    /\ at \in Bijection(1 .. Len(d), DOMAIN tip)
    /\ \A i \in 1 .. Len(d) : d[i].Tip = tip[at[i]] /\ d[i].Weight = weight[at[i]]

Lists(d, tip, weight) == \E at : ListedBy(at, d, tip, weight)

(* The sorted list of things with a tip and a weight, the i-th at[i].      *)
SortedList(d, at, S, tip, weight) ==
    /\ d \in Seq(Tips) /\ TipsRise(d)
    /\ tip \in [S -> Nat] /\ weight \in [S -> Nat] /\ ListedBy(at, d, tip, weight)

(* The first j things of a list, and the things with a tip of at most t.   *)
First(at, j) == {at[i] : i \in 1 .. j}
Below(tip, t) == {s \in DOMAIN tip : tip[s] <= t}

(* The first j things are exactly those.                                   *)
CutAt(j, at, d, tip, t) ==
    /\ j \in 0 .. Len(d)
    /\ Below(tip, t) = First(at, j)
    /\ \A i \in 1 .. Len(d) : i <= j <=> d[i].Tip <= t

(* Sums over the first things of a list are the cumulated weights.         *)
LEMMA PrefixSums ==
    ASSUME NEW d, NEW at, NEW S, NEW tip, NEW weight, SortedList(d, at, S, tip, weight),
           NEW j \in 0 .. Len(d)
    PROVE  SumFunctionOnSet(weight, First(at, j)) = RunningSums(Weights(d))[j]
<1> SUFFICES ASSUME d \in Seq(Tips), tip \in [S -> Nat], weight \in [S -> Nat], ListedBy(at, d, tip, weight)
             PROVE  SumFunctionOnSet(weight, First(at, j)) = RunningSums(Weights(d))[j]
  BY DEF SortedList
<1>1. PICK n \in Nat : n = Len(d) OBVIOUS
<1>2. PICK c : c = RunningSums(Weights(d)) OBVIOUS
<1>3. /\ at \in [1 .. n -> S]
      /\ \A i, k \in 1 .. n : at[i] = at[k] => i = k
      /\ \A s \in S : \E i \in 1 .. n : at[i] = s
      /\ \A i \in 1 .. n : d[i].Weight = weight[at[i]]
  BY <1>1 DEF ListedBy, Bijection, Injection, Surjection, IsInjective
<1>4. IsFiniteSet(S)
  <2>1. at \in Surjection(1 .. n, S) BY <1>1 DEF ListedBy, Bijection
  <2>2. IsFiniteSet(1 .. n) BY FS_Interval
  <2>3. QED BY <2>1, <2>2, FS_Surjection
<1>5. c[0] = 0 /\ \A i \in 1 .. n : c[i] = c[i - 1] + d[i].Weight BY <1>1, <1>2, CumulativeRises
<1> DEFINE P(k) == {at[i] : i \in 1 .. k}
           Right(k) == SumFunctionOnSet(weight, P(k)) = c[k]
           T == {k \in 0 .. n : ~Right(k)}
<1>6. Right(0)
  <2>1. P(0) = {} OBVIOUS
  <2>2. SumFunctionOnSet(weight, {}) = 0 BY <1>4, SumOfSet
  <2>3. QED BY <1>5, <2>1, <2>2
<1>7. ASSUME NEW k \in 1 .. n, Right(k - 1) PROVE Right(k)
  <2>1. PICK U : U = P(k - 1) OBVIOUS
  <2>2. U \in SUBSET S /\ at[k] \in S \ U
    <3>1. \A i \in 1 .. k - 1 : i \in 1 .. n /\ i # k OBVIOUS
    <3>2. QED BY <1>3, <2>1, <3>1
  <2>3. P(k) = U \cup {at[k]}
    <3>1. \A i : i \in 1 .. k <=> i \in 1 .. k - 1 \/ i = k OBVIOUS
    <3>2. QED BY <2>1, <3>1
  <2>4. SumFunctionOnSet(weight, U \cup {at[k]}) = SumFunctionOnSet(weight, U) + weight[at[k]]
    BY <1>4, <2>2, SumOfSet
  <2>5. SumFunctionOnSet(weight, U) = c[k - 1] BY <1>7, <2>1
  <2>6. QED BY <1>3, <1>5, <2>3, <2>4, <2>5
<1> HIDE DEF Right
<1>8. ASSUME T # {} PROVE FALSE
  <2>1. PICK m \in T : \A k \in T : m <= k
    <3>1. T \subseteq Nat OBVIOUS
    <3> HIDE DEF T
    <3>2. QED BY <1>8, <3>1, Smallest
  <2>2. m \in 0 .. n /\ ~Right(m) OBVIOUS
  <2>3. m # 0 BY <1>6, <2>2
  <2>4. m \in 1 .. n /\ m - 1 \in 0 .. n /\ ~(m <= m - 1) BY <1>1, <2>2, <2>3
  <2>5. Right(m - 1)
    <3>1. m - 1 \notin T
      <4> HIDE DEF T
      <4>1. QED BY <2>1, <2>4
    <3>2. QED BY <2>4, <3>1
  <2>6. QED BY <1>7, <2>2, <2>4, <2>5
<1>9. Right(j)
  <2>1. j \in 0 .. n /\ T = {} BY <1>1, <1>8
  <2>2. QED BY <2>1
<1>10. QED BY <1>2, <1>9 DEF Right, First

(* In a sorted list, the things with a tip of at most t come first.        *)
LEMMA UpToIsPrefix ==
    ASSUME NEW d \in Seq(Tips), TipsRise(d), NEW S, NEW tip \in [S -> Nat], NEW weight \in [S -> Nat],
           NEW at, ListedBy(at, d, tip, weight), NEW t \in Nat
    PROVE  \E j : CutAt(j, at, d, tip, t)
<1>1. PICK n \in Nat : n = Len(d) OBVIOUS
<1>2. /\ at \in [1 .. n -> S]
      /\ \A s \in S : \E i \in 1 .. n : at[i] = s
      /\ \A i \in 1 .. n : d[i].Tip = tip[at[i]]
  BY <1>1 DEF ListedBy, Bijection, Injection, Surjection, IsInjective
<1> DEFINE A == {i \in 1 .. n : d[i].Tip <= t}
<1>3. \A k \in A : \A i \in 1 .. k : i \in A
  <2> SUFFICES ASSUME NEW k \in A, NEW i \in 1 .. k PROVE i \in A OBVIOUS
  <2>1. k \in 1 .. n /\ i \in 1 .. n /\ i <= k OBVIOUS
  <2>2. d[i].Tip <= d[k].Tip BY <1>1, <2>1 DEF TipsRise
  <2>3. d[i].Tip \in Nat /\ d[k].Tip \in Nat /\ d[k].Tip <= t BY <1>1, <2>1, TipOf
  <2>4. QED BY <2>1, <2>2, <2>3
<1>4. A = 1 .. Cardinality(A)
  <2>1. A \in SUBSET (1 .. n) OBVIOUS
  <2> HIDE DEF A
  <2>2. QED BY <1>3, <2>1, DownClosed
<1>5. Cardinality(A) \in 0 .. n
  <2>1. A \in SUBSET (1 .. n) OBVIOUS
  <2>2. IsFiniteSet(1 .. n) /\ Cardinality(1 .. n) = n
    <3>1. IsFiniteSet(1 .. n) /\ Cardinality(1 .. n) = IF 1 > n THEN 0 ELSE n - 1 + 1 BY FS_Interval
    <3>2. QED BY <3>1
  <2> HIDE DEF A
  <2>3. IsFiniteSet(A) /\ Cardinality(A) <= n BY <2>1, <2>2, FS_Subset
  <2>4. Cardinality(A) \in Nat BY <2>3, FS_CardinalityType
  <2>5. QED BY <2>3, <2>4
<1>6. PICK j \in 0 .. n : A = 1 .. j
  <2> HIDE DEF A
  <2>1. QED BY <1>4, <1>5
<1>7. \A i \in 1 .. n : i <= j <=> d[i].Tip <= t
  <2>1. \A i \in 1 .. n : i \in A <=> d[i].Tip <= t OBVIOUS
  <2> HIDE DEF A
  <2>2. \A i \in 1 .. n : i \in A <=> i <= j BY <1>6
  <2>3. QED BY <2>1, <2>2
<1>8. {s \in S : tip[s] <= t} = {at[i] : i \in 1 .. j}
  <2>1. ASSUME NEW s \in S, tip[s] <= t PROVE s \in {at[i] : i \in 1 .. j}
    <3>1. PICK i \in 1 .. n : at[i] = s BY <1>2
    <3>2. d[i].Tip <= t BY <1>2, <2>1, <3>1
    <3>3. i \in 1 .. j BY <1>7, <3>2
    <3>4. QED BY <3>1, <3>3
  <2>2. ASSUME NEW i \in 1 .. j PROVE at[i] \in S /\ tip[at[i]] <= t
    <3>1. i \in 1 .. n /\ i <= j OBVIOUS
    <3>2. d[i].Tip <= t BY <1>7, <3>1
    <3>3. QED BY <1>2, <3>1, <3>2
  <2>3. QED BY <2>1, <2>2
<1>9. Below(tip, t) = First(at, j)
  <2>1. DOMAIN tip = S OBVIOUS
  <2>2. QED BY <1>8, <2>1 DEF Below, First
<1>10. QED BY <1>1, <1>7, <1>9 DEF CutAt

(* The reference for one target.                                           *)
QuantileAt(tip, weight, p) == Quantile(Distribution(tip, weight), SumFunction(weight), p)

(* So the quantile is the tip at the first position that reaches p.        *)
LEMMA QuantileIs ==
    ASSUME NEW d, NEW at, NEW S, NEW tip, NEW weight, SortedList(d, at, S, tip, weight),
           NEW p \in Nat, NEW first, FirstAt(d, p, first)
    PROVE  QuantileAt(tip, weight, p) = d[first].Tip
<1> SUFFICES ASSUME d \in Seq(Tips), TipsRise(d), tip \in [S -> Nat], weight \in [S -> Nat],
                    ListedBy(at, d, tip, weight)
             PROVE  QuantileAt(tip, weight, p) = d[first].Tip
  BY DEF SortedList
<1>1. PICK n \in Nat : n = Len(d) OBVIOUS
<1>2. PICK c : c = RunningSums(Weights(d)) OBVIOUS
<1>3. PICK total \in Nat : total = totalWeight(d) /\ total = c[n] BY <1>1, <1>2, CumulativeRises
<1>4. /\ at \in [1 .. n -> S]
      /\ \A s \in S : \E i \in 1 .. n : at[i] = s
      /\ \A i \in 1 .. n : d[i].Tip = tip[at[i]]
  BY <1>1 DEF ListedBy, Bijection, Injection, Surjection, IsInjective
<1>5. SumFunction(weight) = total
  <2>1. S = First(at, n) BY <1>4 DEF First
  <2>2. n \in 0 .. Len(d) BY <1>1
  <2>3. SumFunctionOnSet(weight, First(at, n)) = c[n] BY <1>2, <2>2, PrefixSums
  <2>4. DOMAIN weight = S OBVIOUS
  <2>5. QED BY <1>3, <2>1, <2>3, <2>4 DEF SumFunction
<1>6. PICK x \in Nat : x = p * total OBVIOUS
<1>7. /\ first \in 1 .. n /\ 100 * c[first] >= x
      /\ \A j \in 1 .. n : 100 * c[j] >= x => first <= j
  BY <1>1, <1>2, <1>3, <1>6 DEF FirstAt, Reached
<1>8. \A i \in 0 .. n : c[i] \in Nat BY <1>1, <1>2, CumulativeRises
<1> DEFINE Sum(t) == SumFunctionOnSet(weight, Below(tip, t))
           Q == {e[1] : e \in {f \in Distribution(tip, weight) : 100 * f[2] >= x}}
<1>9. Distribution(tip, weight) = {<<t, Sum(t)>> : t \in Range(tip)}
  BY DEF Distribution, Below
<1>10. Q = {t \in Range(tip) : 100 * Sum(t) >= x}
  <2> HIDE DEF Sum
  <2>1. ASSUME NEW t \in Q PROVE t \in Range(tip) /\ 100 * Sum(t) >= x
    <3>1. PICK e \in Distribution(tip, weight) : 100 * e[2] >= x /\ t = e[1] OBVIOUS
    <3>2. PICK r \in Range(tip) : e = <<r, Sum(r)>> BY <1>9, <3>1
    <3>3. e[1] = r /\ e[2] = Sum(r) BY <3>2
    <3>4. QED BY <3>1, <3>3
  <2>2. ASSUME NEW t \in Range(tip), 100 * Sum(t) >= x PROVE t \in Q
    <3>1. PICK e : e = <<t, Sum(t)>> OBVIOUS
    <3>2. e \in Distribution(tip, weight) BY <1>9, <3>1
    <3>3. e[1] = t /\ e[2] = Sum(t) BY <3>1
    <3>4. QED BY <2>2, <3>2, <3>3
  <2> HIDE DEF Q
  <2>3. QED BY <2>1, <2>2
<1>11. ASSUME NEW t \in Nat
       PROVE  \E j \in 0 .. n : Sum(t) = c[j] /\ \A i \in 1 .. n : i <= j <=> d[i].Tip <= t
  <2>1. PICK j \in 0 .. n : /\ Below(tip, t) = First(at, j)
                            /\ \A i \in 1 .. n : i <= j <=> d[i].Tip <= t
    <3>1. PICK j : CutAt(j, at, d, tip, t) BY UpToIsPrefix
    <3>2. QED BY <1>1, <3>1 DEF CutAt
  <2>2. SumFunctionOnSet(weight, First(at, j)) = c[j] BY <1>1, <1>2, PrefixSums
  <2>3. QED BY <2>1, <2>2
<1> HIDE DEF Sum
<1>12. PICK t0 \in Nat : t0 = d[first].Tip BY <1>1, <1>7, TipOf
<1>13. t0 \in Q
  <2>1. t0 \in Range(tip)
    <3>1. at[first] \in S /\ t0 = tip[at[first]] /\ DOMAIN tip = S BY <1>4, <1>7, <1>12
    <3>2. QED BY <3>1 DEF Range
  <2>2. PICK j \in 0 .. n : Sum(t0) = c[j] /\ \A i \in 1 .. n : i <= j <=> d[i].Tip <= t0 BY <1>11
  <2>3. first <= j BY <1>7, <1>12, <2>2
  <2>4. first \in 0 .. n BY <1>7
  <2>5. c[first] <= c[j] BY <1>1, <1>2, <2>3, <2>4, CumulativeRises
  <2>6. c[first] \in Nat /\ c[j] \in Nat BY <1>8, <2>4
  <2>7. 100 * c[j] >= x BY <1>7, <2>5, <2>6
  <2> HIDE DEF Q
  <2>8. QED BY <1>10, <2>1, <2>2, <2>7
<1>14. ASSUME NEW t \in Q PROVE t \in Nat /\ t0 <= t
  <2>1. t \in Range(tip) /\ 100 * Sum(t) >= x
    <3> HIDE DEF Q
    <3>1. QED BY <1>10
  <2>2. t \in Nat BY <2>1 DEF Range
  <2>3. PICK j \in 0 .. n : Sum(t) = c[j] /\ \A i \in 1 .. n : i <= j <=> d[i].Tip <= t BY <1>11, <2>2
  <2>4. CASE j = 0
    <3>1. PICK s \in S : t = tip[s] BY <2>1 DEF Range
    <3>2. PICK i \in 1 .. n : at[i] = s BY <1>4
    <3>3. d[i].Tip <= t BY <1>4, <2>2, <3>1, <3>2
    <3>4. QED BY <2>3, <2>4, <3>3
  <2>5. CASE j # 0
    <3>1. j \in 1 .. n BY <2>5
    <3>2. first <= j BY <1>7, <2>1, <2>3, <3>1
    <3>3. QED BY <1>7, <1>12, <2>2, <2>3, <3>2
  <2>6. QED BY <2>4, <2>5
<1> HIDE DEF Q
<1>15. Min(Q) = t0
  <2>1. \A y \in Q : (\A z \in Q : y <= z) => y = t0 BY <1>13, <1>14
  <2>2. QED BY <1>13, <1>14, <2>1 DEF Min
<1>16. QED BY <1>5, <1>6, <1>12, <1>15 DEF QuantileAt, Quantile, Q

(* Sorting a list keeps what is in it.                                     *)
LEMMA SortLists ==
    ASSUME NEW d \in Seq(Tips), NEW tip, NEW weight, Lists(d, tip, weight)
    PROVE  Lists(SortedByTip(d), tip, weight)
<1>1. PICK n \in Nat : n = Len(d) OBVIOUS
<1>2. PICK at : ListedBy(at, d, tip, weight) BY DEF Lists
<1>3. PICK s : s = SortedByTip(d) /\ Len(s) = n BY <1>1, Sorts
<1>4. PICK a \in Bijection(1 .. n, 1 .. n) : s = [r \in 1 .. n |-> d[a[r]]] BY <1>1, <1>3, Sorts
<1>5. PICK S : S = DOMAIN tip OBVIOUS
<1>6. /\ at \in [1 .. n -> S]
      /\ \A i, k \in 1 .. n : at[i] = at[k] => i = k
      /\ \A x \in S : \E i \in 1 .. n : at[i] = x
      /\ \A i \in 1 .. n : d[i].Tip = tip[at[i]] /\ d[i].Weight = weight[at[i]]
  BY <1>1, <1>2, <1>5 DEF ListedBy, Bijection, Injection, Surjection, IsInjective
<1>7. /\ a \in [1 .. n -> 1 .. n]
      /\ \A i, k \in 1 .. n : a[i] = a[k] => i = k
      /\ \A x \in 1 .. n : \E i \in 1 .. n : a[i] = x
  BY <1>4 DEF Bijection, Injection, Surjection, IsInjective
<1> DEFINE b == [r \in 1 .. n |-> at[a[r]]]
<1>8. b \in [1 .. n -> S] /\ \A r \in 1 .. n : b[r] = at[a[r]] /\ a[r] \in 1 .. n BY <1>6, <1>7
<1> HIDE DEF b
<1>9. \A i, k \in 1 .. n : b[i] = b[k] => i = k BY <1>6, <1>7, <1>8
<1>10. \A x \in S : \E i \in 1 .. n : b[i] = x
  <2> SUFFICES ASSUME NEW x \in S PROVE \E i \in 1 .. n : b[i] = x OBVIOUS
  <2>1. PICK k \in 1 .. n : at[k] = x BY <1>6
  <2>2. PICK i \in 1 .. n : a[i] = k BY <1>7
  <2>3. QED BY <1>8, <2>1, <2>2
<1>11. b \in Bijection(1 .. n, S) BY <1>8, <1>9, <1>10 DEF Bijection, Injection, Surjection, IsInjective
<1>12. \A r \in 1 .. n : s[r] = d[a[r]] BY <1>4
<1>13. \A r \in 1 .. n : s[r].Tip = tip[b[r]] /\ s[r].Weight = weight[b[r]]
  <2> SUFFICES ASSUME NEW r \in 1 .. n PROVE s[r].Tip = tip[b[r]] /\ s[r].Weight = weight[b[r]] OBVIOUS
  <2>1. PICK i \in 1 .. n : i = a[r] BY <1>8
  <2>2. s[r] = d[i] /\ b[r] = at[i] BY <1>8, <1>12, <2>1
  <2>3. QED BY <1>6, <2>2
<1>14. ListedBy(b, s, tip, weight) BY <1>3, <1>5, <1>11, <1>13 DEF ListedBy
<1>15. QED BY <1>3, <1>14 DEF Lists

(* A list of tips with a weight each has a total.                          *)
LEMMA SomeWeight ==
    ASSUME NEW d \in Seq(Tips), d # <<>>, NEW S, NEW tip \in [S -> Nat], NEW weight \in [S -> Nat \ {0}],
           Lists(d, tip, weight)
    PROVE  totalWeight(d) # 0 /\ S # {}
<1>1. PICK n \in Nat : n = Len(d) /\ n > 0 OBVIOUS
<1>2. PICK c : c = RunningSums(Weights(d)) OBVIOUS
<1>3. PICK at : ListedBy(at, d, tip, weight) BY DEF Lists
<1>4. 1 \in 1 .. n /\ 0 \in 0 .. n /\ 1 \in 0 .. n /\ n \in 0 .. n /\ 1 <= n BY <1>1
<1>5. at[1] \in S /\ d[1].Weight = weight[at[1]]
  BY <1>1, <1>3, <1>4 DEF ListedBy, Bijection, Injection
<1>6. d[1].Weight \in Nat /\ d[1].Weight # 0 BY <1>5
<1>7. c[0] = 0 /\ c[1] = c[1 - 1] + d[1].Weight /\ c[1] <= c[n] /\ c[1] \in Nat /\ c[n] \in Nat /\ totalWeight(d) = c[n]
  BY <1>1, <1>2, <1>4, CumulativeRises
<1>8. c[1] = d[1].Weight
  <2>1. 1 - 1 = 0 OBVIOUS
  <2>2. QED BY <1>6, <1>7, <2>1
<1>9. totalWeight(d) # 0 BY <1>6, <1>7, <1>8
<1>10. QED BY <1>5, <1>9

(* The percentiles are the quantiles.                                      *)
LEMMA PercentilesAreQuantiles ==
    ASSUME NEW d \in Seq(Tips), d # <<>>, TipsRise(d), totalWeight(d) # 0,
           NEW S, NEW tip \in [S -> Nat], NEW weight \in [S -> Nat], Lists(d, tip, weight)
    PROVE  \A k \in 1 .. 13 :
              calculateWeightedPercentiles(d)[k] = QuantileAt(tip, weight, GasAnalysisTargets[k])
<1> SUFFICES ASSUME NEW k \in 1 .. 13
             PROVE  calculateWeightedPercentiles(d)[k] = QuantileAt(tip, weight, GasAnalysisTargets[k])
  OBVIOUS
<1>1. PICK p \in Nat : p = GasAnalysisTargets[k] /\ p <= 95 BY TargetsRise
<1>2. p <= 100 BY <1>1
<1>3. PICK i : FirstAt(d, p, i) BY <1>2, FirstExists
<1>4. PICK at : ListedBy(at, d, tip, weight) BY DEF Lists
<1>5. calculateWeightedPercentiles(d)[k] = d[i].Tip BY <1>1, <1>3, PercentileIs
<1>6. QuantileAt(tip, weight, p) = d[i].Tip
  <2>1. SortedList(d, at, S, tip, weight) BY <1>4 DEF SortedList
  <2>2. QED BY <1>3, <2>1, QuantileIs
<1>7. QED BY <1>1, <1>5, <1>6

(* From the percentiles to the fees.                                       *)
LEMMA PredictionIs ==
    ASSUME NEW d \in Seq(Tips), d # <<>>, TipsRise(d), totalWeight(d) # 0,
           NEW S, S # {}, NEW tip \in [S -> Nat], NEW weight \in [S -> Nat], Lists(d, tip, weight)
    PROVE  buildPrediction(calculateWeightedPercentiles(d)) = ReferenceFees(tip, weight)
<1>1. PICK v : v = calculateWeightedPercentiles(d) OBVIOUS
<1>2. Len(v) = 13 BY <1>1, PercentileIs
<1>3. Rising(v)
  <2>1. v # <<>>
    <3>1. ASSUME v = <<>> PROVE FALSE
      <4>1. Len(v) = 0 BY <3>1
      <4>2. QED BY <1>2, <4>1
    <3>2. QED BY <3>1
  <2>2. QED BY <1>1, <2>1, PercentilesRise
<1>4. PICK at : ListedBy(at, d, tip, weight) BY DEF Lists
<1> DEFINE Q(p) == QuantileAt(tip, weight, p)
<1>5. \A k \in 1 .. 13 : v[k] = Q(GasAnalysisTargets[k]) BY <1>1, PercentilesAreQuantiles
<1> HIDE DEF Q
<1>6. /\ v[2] = Q(40) /\ v[3] = Q(45) /\ v[4] = Q(50) /\ v[5] = Q(55) /\ v[6] = Q(60)
      /\ v[7] = Q(65) /\ v[8] = Q(70) /\ v[9] = Q(75) /\ v[10] = Q(80) /\ v[11] = Q(85)
      /\ v[12] = Q(90) /\ v[13] = Q(95)
  BY <1>5 DEF GasAnalysisTargets
<1>7. \A k \in 1 .. 13 : v[k] \in Nat BY <1>2, <1>3, ElementOfSeq DEF Rising
<1> DEFINE f == buildPrediction(v)
<1>8. /\ "market" \in Levels /\ "fast" \in Levels /\ "urgent" \in Levels BY DEF Levels
<1>9. /\ f["market"] = calculateWeightedValue(v, <<<<2, 1>>, <<3, 1>>, <<4, 4>>, <<5, 1>>, <<6, 1>>>>)
      /\ f["fast"] = calculateWeightedValue(v, <<<<7, 1>>, <<8, 5>>, <<9, 10>>, <<10, 5>>, <<11, 1>>>>)
      /\ f["urgent"] = calculateWeightedValue(v, <<<<11, 1>>, <<12, 3>>, <<13, 1>>>>)
  BY <1>8 DEF buildPrediction, PredictionGroups
<1>10. f = [level \in Levels |-> f[level]] BY DEF buildPrediction
<1> HIDE DEF f
<1>11. f["market"] = (v[2] + v[3] + 4 * v[4] + v[5] + v[6]) \div 8
  <2>a. IsGroup5(<<<<2, 1>>, <<3, 1>>, <<4, 4>>, <<5, 1>>, <<6, 1>>>>, 2, 1, 1, 4)
    BY DEF IsGroup5
  <2>1. PICK g, p, a, b, c : /\ IsGroup5(g, p, a, b, c) /\ p = 2 /\ a = 1 /\ b = 1 /\ c = 4
                             /\ f["market"] = calculateWeightedValue(v, g)
    BY <1>9, <2>a
  <2>2. f["market"] = Mean5(v, p, a, b, c) BY <1>2, <1>3, <2>1, GroupOf5
  <2>3. f["market"] = Mean5(v, 2, 1, 1, 4) BY <2>1, <2>2
  <2>4. 2 + 1 = 3 /\ 2 + 2 = 4 /\ 2 + 3 = 5 /\ 2 + 4 = 6 OBVIOUS
  <2>5. f["market"] = (v[2] * 1 + v[3] * 1 + v[4] * 4 + v[5] * 1 + v[6] * 1) \div (1 + 1 + 4 + 1 + 1)
    BY <2>3, <2>4 DEF Mean5
  <2>b. v[2] \in Nat /\ v[3] \in Nat /\ v[4] \in Nat /\ v[5] \in Nat /\ v[6] \in Nat BY <1>7
  <2>6. PICK r \in Nat, s \in Nat, t \in Nat, u \in Nat, w \in Nat :
           r = v[2] /\ s = v[3] /\ t = v[4] /\ u = v[5] /\ w = v[6]
    BY <2>b
  <2>7. r * 1 + s * 1 + t * 4 + u * 1 + w * 1 = r + s + 4 * t + u + w /\ 1 + 1 + 4 + 1 + 1 = 8 OBVIOUS
  <2>8. QED BY <2>5, <2>6, <2>7
<1>12. f["fast"] = (v[7] + 5 * v[8] + 10 * v[9] + 5 * v[10] + v[11]) \div 22
  <2>a. IsGroup5(<<<<7, 1>>, <<8, 5>>, <<9, 10>>, <<10, 5>>, <<11, 1>>>>, 7, 1, 5, 10)
    BY DEF IsGroup5
  <2>1. PICK g, p, a, b, c : /\ IsGroup5(g, p, a, b, c) /\ p = 7 /\ a = 1 /\ b = 5 /\ c = 10
                             /\ f["fast"] = calculateWeightedValue(v, g)
    BY <1>9, <2>a
  <2>2. f["fast"] = Mean5(v, p, a, b, c) BY <1>2, <1>3, <2>1, GroupOf5
  <2>3. f["fast"] = Mean5(v, 7, 1, 5, 10) BY <2>1, <2>2
  <2>4. 7 + 1 = 8 /\ 7 + 2 = 9 /\ 7 + 3 = 10 /\ 7 + 4 = 11 OBVIOUS
  <2>5. f["fast"] = (v[7] * 1 + v[8] * 5 + v[9] * 10 + v[10] * 5 + v[11] * 1) \div (1 + 5 + 10 + 5 + 1)
    BY <2>3, <2>4 DEF Mean5
  <2>b. v[7] \in Nat /\ v[8] \in Nat /\ v[9] \in Nat /\ v[10] \in Nat /\ v[11] \in Nat BY <1>7
  <2>6. PICK r \in Nat, s \in Nat, t \in Nat, u \in Nat, w \in Nat :
           r = v[7] /\ s = v[8] /\ t = v[9] /\ u = v[10] /\ w = v[11]
    BY <2>b
  <2>7. r * 1 + s * 5 + t * 10 + u * 5 + w * 1 = r + 5 * s + 10 * t + 5 * u + w /\ 1 + 5 + 10 + 5 + 1 = 22 OBVIOUS
  <2>8. QED BY <2>5, <2>6, <2>7
<1>13. f["urgent"] = (v[11] + 3 * v[12] + v[13]) \div 5
  <2>a. IsGroup3(<<<<11, 1>>, <<12, 3>>, <<13, 1>>>>, 11, 1, 3)
    BY DEF IsGroup3
  <2>1. PICK g, p, a, b : /\ IsGroup3(g, p, a, b) /\ p = 11 /\ a = 1 /\ b = 3
                          /\ f["urgent"] = calculateWeightedValue(v, g)
    BY <1>9, <2>a
  <2>2. f["urgent"] = Mean3(v, p, a, b) BY <1>2, <1>3, <2>1, GroupOf3
  <2>3. f["urgent"] = Mean3(v, 11, 1, 3) BY <2>1, <2>2
  <2>4. 11 + 1 = 12 /\ 11 + 2 = 13 OBVIOUS
  <2>5. f["urgent"] = (v[11] * 1 + v[12] * 3 + v[13] * 1) \div (1 + 3 + 1) BY <2>3, <2>4 DEF Mean3
  <2>b. v[11] \in Nat /\ v[12] \in Nat /\ v[13] \in Nat BY <1>7
  <2>6. PICK r \in Nat, s \in Nat, t \in Nat : r = v[11] /\ s = v[12] /\ t = v[13] BY <2>b
  <2>7. r * 1 + s * 3 + t * 1 = r + 3 * s + t /\ 1 + 3 + 1 = 5 OBVIOUS
  <2>8. QED BY <2>5, <2>6, <2>7
<1>14. PICK r : r = ReferenceFees(tip, weight) OBVIOUS
<1>15. r = [market |-> (Q(40) + Q(45) + 4 * Q(50) + Q(55) + Q(60)) \div 8,
            fast   |-> (Q(65) + 5 * Q(70) + 10 * Q(75) + 5 * Q(80) + Q(85)) \div 22,
            urgent |-> (Q(85) + 3 * Q(90) + Q(95)) \div 5]
  <2>1. DOMAIN tip # {} OBVIOUS
  <2>2. QED BY <1>14, <2>1 DEF ReferenceFees, QuantileAt, Q
<1>16. f["market"] = r["market"] /\ f["fast"] = r["fast"] /\ f["urgent"] = r["urgent"]
  BY <1>6, <1>11, <1>12, <1>13, <1>15
<1>17. r = [level \in Levels |-> r[level]] BY <1>15 DEF Levels
<1>18. f = r
  <2>1. \A level \in Levels : f[level] = r[level] BY <1>16 DEF Levels
  <2>2. QED BY <1>10, <1>17, <2>1
<1>19. QED BY <1>1, <1>14, <1>18 DEF f

(* The cap never shows: what is beyond it is past the last target.         *)
LEMMA CapKeepsPercentiles ==
    ASSUME NEW d \in Seq(Tips), d # <<>>, TipsRise(d), totalWeight(d) # 0,
           \A i \in 1 .. Len(d) : d[i].Tip <= MaxUint
    PROVE  calculateWeightedPercentiles(Capped(d)) = calculateWeightedPercentiles(d)
<1>1. PICK n \in Nat : n = Len(d) /\ n > 0 /\ DOMAIN d = 1 .. n OBVIOUS
<1>2. PICK c : c = Capped(d) OBVIOUS
<1>3. /\ c \in Seq(Tips) /\ Len(c) = n /\ TipsRise(c)
      /\ \A i \in 1 .. n : /\ c[i].Weight = d[i].Weight
                           /\ \/ c[i].Tip = d[i].Tip
                              \/ /\ calculateOuterBound(d).Count # 0
                                 /\ d[i].Tip > calculateOuterBound(d).UpperBound
  BY <1>1, <1>2, CappedRises
<1>4. c # <<>> /\ DOMAIN c = 1 .. n BY <1>1, <1>3
<1>5. Weights(c) = Weights(d) BY <1>1, <1>3, <1>4 DEF Weights
<1>6. totalWeight(c) = totalWeight(d) BY <1>5 DEF totalWeight
<1>7. PICK u : u = calculateWeightedPercentiles(c) OBVIOUS
<1>8. PICK v : v = calculateWeightedPercentiles(d) OBVIOUS
<1>9. Len(u) = 13 /\ Len(v) = 13 BY <1>3, <1>4, <1>6, <1>7, <1>8, PercentileIs
<1>10. u \in Seq(Nat) /\ v \in Seq(Nat)
  <2>1. ASSUME u = <<>> \/ v = <<>> PROVE FALSE
    <3>1. Len(u) = 0 \/ Len(v) = 0 BY <2>1
    <3>2. QED BY <1>9, <3>1
  <2>2. Rising(u) BY <1>3, <1>4, <1>7, <2>1, PercentilesRise
  <2>3. Rising(v) BY <1>8, <2>1, PercentilesRise
  <2>4. QED BY <2>2, <2>3 DEF Rising
<1>11. ASSUME NEW k \in 1 .. 13 PROVE u[k] = v[k]
  <2>1. PICK p \in Nat : p = GasAnalysisTargets[k] /\ p <= 95 BY TargetsRise
  <2>2. PICK i : FirstAt(d, p, i) BY <2>1, FirstExists
  <2>3. i \in 1 .. n BY <1>1, <2>2 DEF FirstAt
  <2>4. FirstAt(c, p, i) BY <1>1, <1>3, <1>5, <1>6, <2>2 DEF FirstAt
  <2>5. v[k] = d[i].Tip BY <1>8, <2>1, <2>2, PercentileIs
  <2>6. u[k] = c[i].Tip BY <1>3, <1>4, <1>6, <1>7, <2>1, <2>4, PercentileIs
  <2>7. ASSUME c[i].Tip # d[i].Tip PROVE FALSE
    <3>1. calculateOuterBound(d).Count # 0 /\ d[i].Tip > calculateOuterBound(d).UpperBound
      BY <1>3, <2>3, <2>7
    <3>2. PICK m \in 1 .. n : /\ Reached(RunningSums(Weights(d))[m], 95, totalWeight(d))
                              /\ d[m].Tip <= MaxUint => d[m].Tip <= calculateOuterBound(d).UpperBound
      BY <1>1, <3>1, BoundType
    <3>3. Reached(RunningSums(Weights(d))[m], p, totalWeight(d))
      <4>1. PICK t \in Nat : t = totalWeight(d) BY <1>1, CumulativeRises
      <4>2. PICK x \in Nat : x = RunningSums(Weights(d))[m] BY <1>1, CumulativeRises
      <4>3. p * t <= 95 * t BY <2>1, TimesMonotone
      <4>4. 100 * x >= 95 * t BY <3>2, <4>1, <4>2 DEF Reached
      <4>5. p * t \in Nat OBVIOUS
      <4>6. 100 * x >= p * t BY <4>3, <4>4, <4>5
      <4>7. QED BY <4>1, <4>2, <4>6 DEF Reached
    <3>4. i <= m BY <1>1, <2>2, <3>3 DEF FirstAt
    <3>5. d[i].Tip <= d[m].Tip BY <1>1, <2>3, <3>4 DEF TipsRise
    <3>6. d[m].Tip <= calculateOuterBound(d).UpperBound BY <1>1, <3>2
    <3>7. d[i].Tip \in Nat /\ d[m].Tip \in Nat /\ calculateOuterBound(d).UpperBound \in Nat
      BY <1>1, <2>3, TipOf, BoundType
    <3>8. QED BY <3>1, <3>5, <3>6, <3>7
  <2>8. QED BY <2>5, <2>6, <2>7
<1>12. u = v
  <2>1. u = [k \in 1 .. 13 |-> u[k]] /\ v = [k \in 1 .. 13 |-> v[k]]
    <3>1. \A x \in Seq(Nat) : x = [k \in 1 .. Len(x) |-> x[k]] OBVIOUS
    <3>2. QED BY <1>9, <1>10, <3>1
  <2>2. QED BY <1>11, <2>1
<1>13. QED BY <1>2, <1>7, <1>8, <1>12

(* The two Percentiles functions compute the reference.                    *)
LEMMA FeesAreReference ==
    ASSUME NEW d \in Seq(Tips), \A i \in 1 .. Len(d) : d[i].Tip <= MaxUint,
           NEW S, NEW tip \in [S -> Nat], NEW weight \in [S -> Nat \ {0}], Lists(d, tip, weight)
    PROVE  /\ PendingPercentiles(d) = ReferenceFees(tip, weight)
           /\ BlockPercentiles(d).Fees = ReferenceFees(tip, weight)
<1>1. CASE d = <<>>
  <2>1. PICK at : ListedBy(at, d, tip, weight) BY DEF Lists
  <2>2. \A s \in S : \E i \in 1 .. Len(d) : at[i] = s BY <2>1 DEF ListedBy, Bijection, Surjection
  <2>3. Len(d) = 0 BY <1>1
  <2>4. DOMAIN tip = {} BY <2>2, <2>3
  <2>5. ReferenceFees(tip, weight) = DefaultFees BY <2>4 DEF ReferenceFees
  <2>6. QED BY <1>1, <2>5 DEF PendingPercentiles, BlockPercentiles
<1>2. CASE d # <<>>
  <2>1. PICK s : s = SortedByTip(d) /\ s \in Seq(Tips) /\ Len(s) = Len(d) /\ TipsRise(s) BY Sorts
  <2>2. s # <<>> BY <1>2, <2>1
  <2>3. Lists(s, tip, weight) BY <2>1, SortLists
  <2>4. weight \in [S -> Nat] OBVIOUS
  <2>5. totalWeight(s) # 0 /\ S # {} BY <2>1, <2>2, <2>3, SomeWeight
  <2>6. buildPrediction(calculateWeightedPercentiles(s)) = ReferenceFees(tip, weight)
    BY <2>1, <2>2, <2>3, <2>4, <2>5, PredictionIs
  <2>7. \A i \in 1 .. Len(s) : s[i].Tip <= MaxUint
    <3>1. PICK n \in Nat : n = Len(d) OBVIOUS
    <3>2. PICK a \in Bijection(1 .. n, 1 .. n) : s = [r \in 1 .. n |-> d[a[r]]] BY <2>1, <3>1, Sorts
    <3>3. a \in [1 .. n -> 1 .. n] BY <3>2 DEF Bijection, Injection
    <3>4. QED BY <2>1, <3>1, <3>2, <3>3
  <2>8. calculateWeightedPercentiles(Capped(s)) = calculateWeightedPercentiles(s)
    BY <2>1, <2>2, <2>5, <2>7, CapKeepsPercentiles
  <2>9. QED BY <1>2, <2>1, <2>6, <2>8 DEF PendingPercentiles, BlockPercentiles
<1>3. QED BY <1>1, <1>2

-----------------------------------------------------------------------------
(* What is analyzed, as lists of the things the reference is about.        *)

(* The list d has the tip and the weight of each thing in P once.          *)
ListsPart(d, P, tip, weight) ==
    \E at \in Bijection(1 .. Len(d), P) :
        \A i \in 1 .. Len(d) : d[i].Tip = tip[at[i]] /\ d[i].Weight = weight[at[i]]

(* A list of all the things.                                               *)
LEMMA ListsAll ==
    ASSUME NEW d, NEW tip, NEW weight, ListsPart(d, DOMAIN tip, tip, weight)
    PROVE  Lists(d, tip, weight)
  BY DEF ListsPart, Lists, ListedBy

(* The fees of a list are the reference fees of its things.                *)
LEMMA FeesOf ==
    ASSUME NEW d \in Seq(Tips), NEW S, NEW tip \in [S -> 0 .. MaxUint], NEW weight \in [S -> Nat \ {0}],
           ListsPart(d, S, tip, weight)
    PROVE  /\ PendingPercentiles(d) = ReferenceFees(tip, weight)
           /\ BlockPercentiles(d).Fees = ReferenceFees(tip, weight)
<1>1. DOMAIN tip = S /\ MaxUint \in Nat /\ tip \in [S -> Nat] BY TxConstants
<1>2. Lists(d, tip, weight) BY <1>1, ListsAll
<1>3. PICK at : ListedBy(at, d, tip, weight) BY <1>2 DEF Lists
<1>4. ASSUME NEW i \in 1 .. Len(d) PROVE d[i].Tip <= MaxUint
  <2>1. at[i] \in S /\ d[i].Tip = tip[at[i]] BY <1>1, <1>3 DEF ListedBy, Bijection, Injection
  <2>2. tip[at[i]] \in 0 .. MaxUint BY <2>1
  <2>3. QED BY <1>1, <2>1, <2>2
<1>5. QED BY <1>1, <1>2, <1>4, FeesAreReference

(* The members of a finite set, one by one.                                *)
LEMMA ListsSet ==
    ASSUME NEW S, IsFiniteSet(S), NEW P, NEW g, g \in Bijection(S, P), NEW tip, NEW weight,
           NEW d, d \in Seq(Tips), Len(d) = Len(SetToSeq(S)),
           \A i \in 1 .. Len(d) : /\ d[i].Tip = tip[g[SetToSeq(S)[i]]]
                                  /\ d[i].Weight = weight[g[SetToSeq(S)[i]]]
    PROVE  ListsPart(d, P, tip, weight)
<1>1. PICK n \in Nat : n = Len(d) OBVIOUS
<1>2. PICK q : q = SetToSeq(S) OBVIOUS
<1>3. q \in Bijection(1 .. n, S) BY <1>1, <1>2, ListOfSet
<1>4. /\ q \in [1 .. n -> S]
      /\ \A i, k \in 1 .. n : q[i] = q[k] => i = k
      /\ \A x \in S : \E i \in 1 .. n : q[i] = x
  BY <1>3 DEF Bijection, Injection, Surjection, IsInjective
<1>5. /\ g \in [S -> P]
      /\ \A x, y \in S : g[x] = g[y] => x = y
      /\ \A p \in P : \E x \in S : g[x] = p
  BY DEF Bijection, Injection, Surjection, IsInjective
<1>6. PICK at : at = [i \in 1 .. n |-> g[q[i]]] OBVIOUS
<1>7. at \in [1 .. n -> P] /\ \A i \in 1 .. n : at[i] = g[q[i]] /\ q[i] \in S BY <1>4, <1>5, <1>6
<1>8. \A i, k \in 1 .. n : at[i] = at[k] => i = k BY <1>4, <1>5, <1>7
<1>9. ASSUME NEW p \in P PROVE \E i \in 1 .. n : at[i] = p
  <2>1. PICK x \in S : g[x] = p BY <1>5
  <2>2. PICK i \in 1 .. n : q[i] = x BY <1>4
  <2>3. QED BY <1>7, <2>1, <2>2
<1>10. at \in Bijection(1 .. n, P) BY <1>7, <1>8, <1>9 DEF Bijection, Injection, Surjection, IsInjective
<1>11. \A i \in 1 .. n : d[i].Tip = tip[at[i]] /\ d[i].Weight = weight[at[i]] BY <1>1, <1>2, <1>7
<1>12. QED BY <1>1, <1>10, <1>11 DEF ListsPart

(* One list after the other.                                               *)
LEMMA ListsJoined ==
    ASSUME NEW a \in Seq(Tips), NEW b \in Seq(Tips), NEW A, NEW B, A \cap B = {}, NEW tip, NEW weight,
           ListsPart(a, A, tip, weight), ListsPart(b, B, tip, weight)
    PROVE  ListsPart(a \o b, A \cup B, tip, weight)
<1>1. PICK m \in Nat : m = Len(a) OBVIOUS
<1>2. PICK n \in Nat : n = Len(b) OBVIOUS
<1>3. PICK f \in Bijection(1 .. m, A) :
         \A i \in 1 .. m : a[i].Tip = tip[f[i]] /\ a[i].Weight = weight[f[i]]
  BY <1>1 DEF ListsPart
<1>4. PICK g \in Bijection(1 .. n, B) :
         \A i \in 1 .. n : b[i].Tip = tip[g[i]] /\ b[i].Weight = weight[g[i]]
  BY <1>2 DEF ListsPart
<1>5. /\ f \in [1 .. m -> A]
      /\ \A i, k \in 1 .. m : f[i] = f[k] => i = k
      /\ \A x \in A : \E i \in 1 .. m : f[i] = x
  BY DEF Bijection, Injection, Surjection, IsInjective
<1>6. /\ g \in [1 .. n -> B]
      /\ \A i, k \in 1 .. n : g[i] = g[k] => i = k
      /\ \A x \in B : \E i \in 1 .. n : g[i] = x
  BY DEF Bijection, Injection, Surjection, IsInjective
<1>7. PICK l \in Nat : l = m + n OBVIOUS
<1>8. PICK d : d = a \o b OBVIOUS
<1>9. /\ d \in Seq(Tips) /\ Len(d) = l
      /\ \A i \in 1 .. m : d[i] = a[i]
      /\ \A i \in 1 .. n : d[m + i] = b[i]
  BY <1>1, <1>2, <1>7, <1>8
<1>10. PICK h : h = [i \in 1 .. l |-> IF i <= m THEN f[i] ELSE g[i - m]] OBVIOUS
<1>11. \A i \in 1 .. m : i \in 1 .. l /\ h[i] = f[i] /\ h[i] \in A BY <1>5, <1>7, <1>10
<1>12. \A i \in 1 .. n : m + i \in 1 .. l /\ h[m + i] = g[i] /\ h[m + i] \in B
  <2> SUFFICES ASSUME NEW i \in 1 .. n PROVE m + i \in 1 .. l /\ h[m + i] = g[i] /\ h[m + i] \in B OBVIOUS
  <2>1. PICK k \in 1 .. l : k = m + i /\ ~(k <= m) /\ k - m = i BY <1>7
  <2>2. h[k] = g[i] BY <1>10, <2>1
  <2>3. QED BY <1>6, <2>1, <2>2
<1>13. \A i \in 1 .. l : i \in 1 .. m \/ \E j \in 1 .. n : i = m + j
  <2> SUFFICES ASSUME NEW i \in 1 .. l, ~(i <= m) PROVE \E j \in 1 .. n : i = m + j BY <1>7
  <2>1. i - m \in 1 .. n /\ i = m + (i - m) BY <1>7
  <2>2. QED BY <2>1
<1>14. h \in [1 .. l -> A \cup B]
  <2>1. \A i \in 1 .. l : h[i] \in A \cup B BY <1>11, <1>12, <1>13
  <2>2. h = [i \in 1 .. l |-> h[i]] BY <1>10
  <2>3. QED BY <2>1, <2>2
<1>15. ASSUME NEW i \in 1 .. l, NEW k \in 1 .. l, h[i] = h[k] PROVE i = k
  <2>1. CASE i \in 1 .. m /\ k \in 1 .. m BY <1>5, <1>11, <1>15, <2>1
  <2>2. CASE i \in 1 .. m /\ \E j \in 1 .. n : k = m + j BY <1>11, <1>12, <1>15, <2>2
  <2>3. CASE k \in 1 .. m /\ \E j \in 1 .. n : i = m + j BY <1>11, <1>12, <1>15, <2>3
  <2>4. CASE (\E j \in 1 .. n : i = m + j) /\ (\E j \in 1 .. n : k = m + j) BY <1>6, <1>12, <1>15, <2>4
  <2>5. QED BY <1>13, <2>1, <2>2, <2>3, <2>4
<1>16. ASSUME NEW x \in A \cup B PROVE \E i \in 1 .. l : h[i] = x
  <2>1. CASE x \in A BY <1>5, <1>11, <2>1
  <2>2. CASE x \in B
    <3>1. PICK j \in 1 .. n : g[j] = x BY <1>6, <2>2
    <3>2. QED BY <1>12, <3>1
  <2>3. QED BY <2>1, <2>2
<1>17. h \in Bijection(1 .. l, A \cup B) BY <1>14, <1>15, <1>16 DEF Bijection, Injection, Surjection, IsInjective
<1>18. ASSUME NEW i \in 1 .. l PROVE d[i].Tip = tip[h[i]] /\ d[i].Weight = weight[h[i]]
  <2>1. CASE i \in 1 .. m BY <1>3, <1>9, <1>11, <2>1
  <2>2. CASE \E j \in 1 .. n : i = m + j
    <3>1. PICK j \in 1 .. n : i = m + j BY <2>2
    <3>2. d[i] = b[j] /\ h[i] = g[j] BY <1>9, <1>12, <3>1
    <3>3. QED BY <1>4, <3>2
  <2>3. QED BY <1>13, <2>1, <2>2
<1>19. QED BY <1>8, <1>9, <1>17, <1>18 DEF ListsPart

(* Many lists, the k-th with the things in Parts[k].                       *)
LEMMA ListsFlattened ==
    ASSUME NEW q \in Seq(Seq(Tips)), NEW Parts, NEW tip, NEW weight,
           \A k \in 1 .. Len(q) : ListsPart(q[k], Parts[k], tip, weight),
           \A j, k \in 1 .. Len(q) : j # k => Parts[j] \cap Parts[k] = {}
    PROVE  ListsPart(FlattenSeq(q), UNION {Parts[k] : k \in 1 .. Len(q)}, tip, weight)
<1>1. PICK n \in Nat : n = Len(q) OBVIOUS
<1>2. CASE q = <<>>
  <2>1. Len(q) = 0 /\ FlattenSeq(q) = q BY <1>2 DEF FlattenSeq
  <2>2. UNION {Parts[k] : k \in 1 .. Len(q)} = {} BY <2>1
  <2>3. PICK at : at = [i \in {} |-> 0] OBVIOUS
  <2>4. at \in Bijection({}, {}) BY <2>3 DEF Bijection, Injection, Surjection, IsInjective
  <2>5. 1 .. Len(q) = {} BY <2>1
  <2>6. QED BY <2>1, <2>2, <2>4, <2>5 DEF ListsPart
<1>3. CASE q # <<>>
  <2>1. n >= 1 /\ \A k \in 1 .. n : q[k] \in Seq(Tips) BY <1>1, <1>3
  <2>2. PICK c : Flattens(c, q) BY <1>3, FlattensSome
  <2>3. /\ c[1] = q[1] /\ FlattenSeq(q) = c[n]
        /\ \A i \in 2 .. n : c[i] = c[i - 1] \o q[i]
        /\ \A i \in 1 .. n : c[i] \in Seq(Tips)
    BY <1>1, <2>2 DEF Flattens
  <2> DEFINE Upto(j) == UNION {Parts[k] : k \in 1 .. j}
             Right(j) == ListsPart(c[j], Upto(j), tip, weight)
             T == {j \in 1 .. n : ~Right(j)}
  <2>4. Right(1)
    <3>1. 1 .. 1 = {1} OBVIOUS
    <3>2. Upto(1) = Parts[1] BY <3>1
    <3>3. 1 \in 1 .. n BY <2>1
    <3>4. ListsPart(q[1], Parts[1], tip, weight) BY <1>1, <3>3
    <3>5. QED BY <2>3, <3>2, <3>4
  <2>5. ASSUME NEW j \in 2 .. n, Right(j - 1) PROVE Right(j)
    <3>1. j \in 1 .. n /\ j - 1 \in 1 .. n BY <1>1
    <3>2. PICK U : U = Upto(j - 1) OBVIOUS
    <3>3. Upto(j) = U \cup Parts[j]
      <4>1. \A k : k \in 1 .. j <=> k \in 1 .. j - 1 \/ k = j BY <3>1
      <4>2. QED BY <3>2, <4>1
    <3>4. U \cap Parts[j] = {}
      <4>1. \A k \in 1 .. j - 1 : k \in 1 .. n /\ k # j BY <3>1
      <4>2. \A k \in 1 .. j - 1 : Parts[k] \cap Parts[j] = {} BY <1>1, <3>1, <4>1
      <4>3. QED BY <3>2, <4>2
    <3>5. PICK a \in Seq(Tips) : a = c[j - 1] BY <2>3, <3>1
    <3>6. PICK b \in Seq(Tips) : b = q[j] BY <2>1, <3>1
    <3>7. ListsPart(a, U, tip, weight) BY <2>5, <3>2, <3>5
    <3>8. ListsPart(b, Parts[j], tip, weight) BY <1>1, <3>1, <3>6
    <3>9. PICK B : B = Parts[j] OBVIOUS
    <3>10. ListsPart(a \o b, U \cup B, tip, weight) BY <3>4, <3>7, <3>8, <3>9, ListsJoined
    <3>11. QED BY <2>3, <3>3, <3>5, <3>6, <3>9, <3>10
  <2> HIDE DEF Right
  <2>6. ASSUME T # {} PROVE FALSE
    <3>1. PICK m \in T : \A k \in T : m <= k
      <4>1. T \subseteq Nat OBVIOUS
      <4> HIDE DEF T
      <4>2. QED BY <2>6, <4>1, Smallest
    <3>2. m \in 1 .. n /\ ~Right(m) OBVIOUS
    <3>3. m # 1 BY <2>4, <3>2
    <3>4. m \in 2 .. n /\ m - 1 \in 1 .. n /\ ~(m <= m - 1) BY <1>1, <3>2, <3>3
    <3>5. Right(m - 1)
      <4>1. m - 1 \notin T
        <5> HIDE DEF T
        <5>1. QED BY <3>1, <3>4
      <4>2. QED BY <3>4, <4>1
    <3>6. QED BY <2>5, <3>2, <3>4, <3>5
  <2>7. Right(n)
    <3>1. n \in 1 .. n BY <2>1
    <3>2. QED BY <2>6, <3>1
  <2>8. QED BY <1>1, <2>3, <2>7 DEF Right
<1>4. QED BY <1>2, <1>3

(* The tip a transaction pays in a block, and the one it offers.           *)
LEMMA PaidIsOffered ==
    ASSUME NEW t \in Tx, NEW header, header.BaseFee \in Nat, FeeCap[t] >= header.BaseFee
    PROVE  /\ Offers(t, header.BaseFee) \in 0 .. MaxUint
           /\ PaidTip(t, header) = IF Offers(t, header.BaseFee) > 0 THEN Offers(t, header.BaseFee) ELSE NoTip
<1>1. PICK b \in Nat : b = header.BaseFee OBVIOUS
<1>2. PICK f \in 0 .. MaxUint : f = FeeCap[t] BY TxConstants
<1>3. PICK c \in 0 .. MaxUint : c = TipCap[t] BY TxConstants
<1>4. f \in Nat /\ c \in Nat /\ MaxUint \in Nat /\ f >= b /\ f <= MaxUint /\ c <= MaxUint
  BY <1>1, <1>2, TxConstants
<1>5. PaidTip(t, header) = EffectiveTipFromReceipt(IF f < b + c THEN f ELSE b + c, b)
  BY <1>1, <1>2, <1>3 DEF PaidTip, EffectiveGasPrice
<1>6. PICK o : o = IF c < f - b THEN c ELSE f - b OBVIOUS
<1>7. Offers(t, header.BaseFee) = o BY <1>1, <1>2, <1>3, <1>6 DEF Offers
<1>8. o \in 0 .. MaxUint BY <1>4, <1>6
<1>9. (IF f < b + c THEN f ELSE b + c) - b = o BY <1>4, <1>6
<1>10. EffectiveTipFromReceipt(IF f < b + c THEN f ELSE b + c, b) = IF o > 0 THEN o ELSE NoTip
  BY <1>4, <1>8, <1>9 DEF EffectiveTipFromReceipt
<1>11. QED BY <1>5, <1>7, <1>8, <1>10

(* The tip EffectiveTip has for a pending transaction is the one it        *)
(* offers.                                                                 *)
LEMMA PendingOffers ==
    ASSUME NEW t \in Tx, NEW base \in Nat
    PROVE  /\ EffectiveTip(FeeCap[t], TipCap[t], base) # NoTip <=> FeeCap[t] > base
           /\ FeeCap[t] > base => /\ EffectiveTip(FeeCap[t], TipCap[t], base) = Offers(t, base)
                                  /\ Offers(t, base) \in 0 .. MaxUint
<1>1. PICK f \in 0 .. MaxUint : f = FeeCap[t] BY TxConstants
<1>2. PICK c \in 0 .. MaxUint : c = TipCap[t] BY TxConstants
<1>3. f \in Nat /\ c \in Nat /\ MaxUint \in Nat /\ f <= MaxUint /\ c <= MaxUint BY TxConstants
<1>4. /\ EffectiveTip(f, c, base) # NoTip <=> f > base
      /\ f > base => EffectiveTip(f, c, base) = (IF c < f - base THEN c ELSE f - base)
      /\ f > base => (IF c < f - base THEN c ELSE f - base) \in 0 .. MaxUint
  BY <1>3 DEF EffectiveTip, NoTip
<1>5. Offers(t, base) = IF c < f - base THEN c ELSE f - base BY <1>1, <1>2 DEF Offers
<1>6. QED BY <1>1, <1>2, <1>4, <1>5

(* What PendingReference is about.                                         *)
Able(snapshot, base) == {tx \in snapshot : FeeCap[tx.Tx] > base}
AbleTip(snapshot, base) == [tx \in Able(snapshot, base) |-> Offers(tx.Tx, base)]
AbleWeight(snapshot, base) ==
    [tx \in Able(snapshot, base) |-> IF tx.NonceGap THEN Root[Gas[tx.Tx]] \div 2 ELSE Root[Gas[tx.Tx]]]

(* AnalyzeGasPrice computes the pending reference.                         *)
LEMMA PendingRight ==
    ASSUME NEW snapshot \in Snapshots, NEW base \in Nat
    PROVE  PendingPercentiles(collectPendingTx(snapshot, base)) =
              ReferenceFees(AbleTip(snapshot, base), AbleWeight(snapshot, base))
<1>1. PICK S : S = Able(snapshot, base) OBVIOUS
<1>2. IsFiniteSet(S)
  <2>1. S \subseteq snapshot BY <1>1 DEF Able
  <2>2. QED BY <2>1, SnapshotsFinite, FS_Subset
<1>3. \A tx \in snapshot : tx.Tx \in Tx BY SnapshotsFinite
<1>4. S = {tx \in snapshot : EffectiveTip(FeeCap[tx.Tx], TipCap[tx.Tx], base) # NoTip}
  BY <1>1, <1>3, PendingOffers DEF Able
<1>5. PICK tip : tip = AbleTip(snapshot, base) OBVIOUS
<1>6. PICK weight : weight = AbleWeight(snapshot, base) OBVIOUS
<1>7. ASSUME NEW tx \in S
      PROVE  /\ tip[tx] = EffectiveTip(FeeCap[tx.Tx], TipCap[tx.Tx], base) /\ tip[tx] \in 0 .. MaxUint
             /\ weight[tx] = PendingWeight(tx) /\ weight[tx] \in Nat \ {0}
  <2>1. tx \in snapshot /\ tx.Tx \in Tx /\ FeeCap[tx.Tx] > base BY <1>1, <1>3 DEF Able
  <2>2. tip[tx] = Offers(tx.Tx, base) BY <1>1, <1>5 DEF AbleTip
  <2>3. PICK w \in Nat : w = Root[Gas[tx.Tx]] /\ w # 0 /\ w % 2 = 0 BY <2>1, FeeAnalysisAssumption
  <2>4. w \div 2 \in Nat \ {0} BY <2>3
  <2>5. weight[tx] = IF tx.NonceGap THEN w \div 2 ELSE w BY <1>1, <1>6, <2>3 DEF AbleWeight
  <2>6. PendingWeight(tx) = IF tx.NonceGap THEN w \div 2 ELSE w
    BY <2>3 DEF PendingWeight, CalculateWeightForGasUsed
  <2>7. QED BY <2>1, <2>2, <2>3, <2>4, <2>5, <2>6, PendingOffers
<1>8. tip \in [S -> 0 .. MaxUint] /\ weight \in [S -> Nat \ {0}]
  <2>1. tip = [tx \in S |-> tip[tx]] BY <1>1, <1>5 DEF AbleTip
  <2>2. weight = [tx \in S |-> weight[tx]] BY <1>1, <1>6 DEF AbleWeight
  <2>3. QED BY <1>7, <2>1, <2>2
<1>9. PICK d : d = collectPendingTx(snapshot, base) /\ d \in Seq(Tips) BY PendingTips
<1>10. PICK q : q = SetToSeq(S) OBVIOUS
<1>11. q \in Seq(S) BY <1>2, <1>10, ListOfSet
<1>12. PICK n \in Nat : n = Len(q) /\ DOMAIN q = 1 .. n BY <1>11
<1>13. d = [i \in 1 .. n |-> [Tip |-> EffectiveTip(FeeCap[q[i].Tx], TipCap[q[i].Tx], base),
                              Weight |-> PendingWeight(q[i])]]
  BY <1>4, <1>9, <1>10, <1>12 DEF collectPendingTx
<1>14. Len(d) = n BY <1>13
<1>15. ASSUME NEW i \in 1 .. n PROVE d[i].Tip = tip[q[i]] /\ d[i].Weight = weight[q[i]]
  <2>1. PICK tx \in S : tx = q[i] BY <1>11, <1>12
  <2>2. d[i].Tip = EffectiveTip(FeeCap[tx.Tx], TipCap[tx.Tx], base) /\ d[i].Weight = PendingWeight(tx)
    BY <1>13, <2>1
  <2>3. QED BY <1>7, <2>1, <2>2
<1>16. PICK g : g = [tx \in S |-> tx] OBVIOUS
<1>17. g \in Bijection(S, S) BY <1>16 DEF Bijection, Injection, Surjection, IsInjective
<1>18. \A i \in 1 .. n : g[q[i]] = q[i] BY <1>11, <1>12, <1>16
<1>19. ListsPart(d, S, tip, weight)
  <2>1. \A i \in 1 .. Len(d) : /\ d[i].Tip = tip[g[SetToSeq(S)[i]]]
                               /\ d[i].Weight = weight[g[SetToSeq(S)[i]]]
    BY <1>10, <1>14, <1>15, <1>18
  <2>2. Len(d) = Len(SetToSeq(S)) BY <1>10, <1>12, <1>14
  <2>3. QED BY <1>2, <1>9, <1>17, <2>1, <2>2, ListsSet
<1>20. PendingPercentiles(d) = ReferenceFees(tip, weight) BY <1>8, <1>9, <1>19, FeesOf
<1>21. QED BY <1>5, <1>6, <1>9, <1>20

(* What is recorded of a block in the store, for BlockReference.           *)
Entries == [Content : SUBSET Tx, BaseFee : Nat,
            Stats : {EmptyMap} \cup {StatsOf[content] : content \in SUBSET Tx}]

(* A stored block has the tips of the recorded transactions, which could   *)
(* pay its base fee, and the recorded statistics.                          *)
StoredFrom(block, entry) ==
    /\ block.Txs = CalculateBlockTxTip(entry.Content, entry)
    /\ block.FeeBuckets = entry.Stats
    /\ \A t \in entry.Content : FeeCap[t] >= entry.BaseFee

(* What BlockReference is about.                                           *)
PayingIn(entry) == {t \in entry.Content : Offers(t, entry.BaseFee) > 0}
Paying(entries) == {p \in (DOMAIN entries) \X Tx :
                       p[2] \in entries[p[1]].Content /\ Offers(p[2], entries[p[1]].BaseFee) > 0}
PayingTip(entries) == [p \in Paying(entries) |-> Offers(p[2], entries[p[1]].BaseFee)]
PayingWeight(entries) == [p \in Paying(entries) |-> Root[Gas[p[2]]] * DecayTable[p[1]]]

(* The tips of a stored block, by its age.                                 *)
Aged(block, age) == [i \in DOMAIN block.Txs |-> [block.Txs[i] EXCEPT !.Weight = @ * Decay(age)]]

(* The tips of one stored block.                                           *)
LEMMA AgedLists ==
    ASSUME NEW age \in 1 .. MaxBlockCount, NEW entry \in Entries, NEW block \in Stored,
           StoredFrom(block, entry), NEW tip, NEW weight,
           \A t \in PayingIn(entry) : /\ tip[<<age, t>>] = Offers(t, entry.BaseFee)
                                      /\ weight[<<age, t>>] = Root[Gas[t]] * DecayTable[age]
    PROVE  /\ Aged(block, age) \in Seq(Tips)
           /\ ListsPart(Aged(block, age), {age} \X PayingIn(entry), tip, weight)
<1>1. PICK S : S = PayingIn(entry) OBVIOUS
<1>2. entry.Content \subseteq Tx /\ entry.BaseFee \in Nat BY DEF Entries
<1>3. IsFiniteSet(S)
  <2>1. S \subseteq Tx BY <1>1, <1>2 DEF PayingIn
  <2>2. QED BY <2>1, TxConstants, FS_Subset
<1>4. ASSUME NEW t \in entry.Content
      PROVE  PaidTip(t, entry) = IF Offers(t, entry.BaseFee) > 0 THEN Offers(t, entry.BaseFee) ELSE NoTip
  <2>1. t \in Tx /\ FeeCap[t] >= entry.BaseFee BY <1>2 DEF StoredFrom
  <2>2. QED BY <1>2, <2>1, PaidIsOffered
<1>5. ~(NoTip > 0) BY DEF NoTip
<1>6. S = {t \in entry.Content : PaidTip(t, entry) # NoTip}
  <2>1. ASSUME NEW t \in entry.Content PROVE Offers(t, entry.BaseFee) > 0 <=> PaidTip(t, entry) # NoTip
    BY <1>4, <1>5
  <2>2. QED BY <1>1, <2>1 DEF PayingIn
<1>7. PICK q : q = SetToSeq(S) /\ q \in Seq(S) BY <1>3, ListOfSet
<1>8. PICK n \in Nat : n = Len(q) /\ DOMAIN q = 1 .. n BY <1>7
<1>9. PICK x : x = block.Txs OBVIOUS
<1>10. x = [i \in 1 .. n |-> [Tip |-> PaidTip(q[i], entry), Weight |-> Root[Gas[q[i]]]]]
  BY <1>6, <1>7, <1>8, <1>9 DEF StoredFrom, CalculateBlockTxTip, CalculateWeightForGasUsed
<1>11. x \in Seq(Tips) /\ Len(x) = n /\ DOMAIN x = 1 .. n
  <2>1. x \in Seq(Tips) BY <1>9 DEF Stored
  <2>2. QED BY <1>10, <2>1
<1>12. PICK w \in Nat : w = DecayTable[age] BY FeeAnalysisAssumption
<1>13. PICK d : d = Aged(block, age) OBVIOUS
<1>14. d = [i \in 1 .. n |-> [x[i] EXCEPT !.Weight = @ * w]]
  BY <1>9, <1>11, <1>12, <1>13 DEF Aged, Decay
<1>15. ASSUME NEW i \in 1 .. n
       PROVE  /\ d[i] \in Tips /\ d[i].Tip = tip[<<age, q[i]>>] /\ d[i].Weight = weight[<<age, q[i]>>]
  <2>1. PICK t \in S : t = q[i] BY <1>7, <1>8
  <2>2. t \in entry.Content /\ Offers(t, entry.BaseFee) > 0 BY <1>1 DEF PayingIn
  <2>3. PICK r \in Nat : r = Root[Gas[t]] BY <1>2, <2>2, TxConstants
  <2>4. x[i] = [Tip |-> Offers(t, entry.BaseFee), Weight |-> r] BY <1>4, <1>10, <2>1, <2>2, <2>3
  <2>5. Offers(t, entry.BaseFee) \in Nat
    <3>1. x[i] \in Tips BY <1>11
    <3>2. QED BY <2>4, <3>1 DEF Tips
  <2>6. r * w \in Nat OBVIOUS
  <2>7. d[i] = [Tip |-> Offers(t, entry.BaseFee), Weight |-> r * w] BY <1>14, <2>4
  <2>8. d[i] \in Tips BY <2>5, <2>6, <2>7 DEF Tips
  <2>9. d[i].Tip = Offers(t, entry.BaseFee) /\ d[i].Weight = r * w BY <2>7
  <2>10. tip[<<age, t>>] = Offers(t, entry.BaseFee) /\ weight[<<age, t>>] = r * w BY <1>1, <1>12, <2>3
  <2>11. QED BY <2>1, <2>8, <2>9, <2>10
<1>16. d \in Seq(Tips) /\ Len(d) = n
  <2>1. d = [i \in 1 .. n |-> d[i]] BY <1>14
  <2>2. \A i \in 1 .. n : d[i] \in Tips BY <1>15
  <2>3. QED BY <2>1, <2>2
<1>17. PICK P : P = {age} \X S OBVIOUS
<1>18. PICK g : g = [t \in S |-> <<age, t>>] OBVIOUS
<1>19. g \in Bijection(S, P)
  <2>1. g \in [S -> P] BY <1>17, <1>18
  <2>2. \A s, t \in S : g[s] = g[t] => s = t BY <1>18
  <2>3. \A p \in P : \E t \in S : g[t] = p BY <1>17, <1>18
  <2>4. QED BY <2>1, <2>2, <2>3 DEF Bijection, Injection, Surjection, IsInjective
<1>20. \A i \in 1 .. n : g[q[i]] = <<age, q[i]>> BY <1>7, <1>8, <1>18
<1>21. ListsPart(d, P, tip, weight)
  <2>1. \A i \in 1 .. Len(d) : /\ d[i].Tip = tip[g[SetToSeq(S)[i]]]
                               /\ d[i].Weight = weight[g[SetToSeq(S)[i]]]
    BY <1>7, <1>15, <1>16, <1>20
  <2>2. Len(d) = Len(SetToSeq(S)) BY <1>7, <1>8, <1>16
  <2>3. QED BY <1>3, <1>16, <1>19, <2>1, <2>2, ListsSet
<1>22. QED BY <1>1, <1>13, <1>16, <1>17, <1>21

(* UpdateBlockInfoForAnalysis computes the block reference.                *)
LEMMA BlockRight ==
    ASSUME NEW store \in Seq(Stored), Len(store) <= MaxBlockCount,
           NEW entries \in Seq(Entries), Len(entries) = Len(store),
           \A k \in 1 .. Len(store) : StoredFrom(store[k], entries[k])
    PROVE  BlockPercentiles(DecayedTips(store)).Fees = ReferenceFees(PayingTip(entries), PayingWeight(entries))
<1>1. PICK n \in Nat : n = Len(store) /\ n = Len(entries) OBVIOUS
<1>2. DOMAIN store = 1 .. n /\ DOMAIN entries = 1 .. n BY <1>1
<1>3. PICK tip : tip = PayingTip(entries) OBVIOUS
<1>4. PICK weight : weight = PayingWeight(entries) OBVIOUS
<1>5. PICK S : S = Paying(entries) OBVIOUS
<1>6. \A k \in 1 .. n : /\ k \in 1 .. MaxBlockCount /\ store[k] \in Stored
                        /\ entries[k] \in Entries /\ StoredFrom(store[k], entries[k])
  <2>1. MaxBlockCount \in Nat BY FeeAnalysisAssumption
  <2>2. QED BY <1>1, <2>1
<1>7. ASSUME NEW k \in 1 .. n, NEW t \in PayingIn(entries[k])
      PROVE  /\ <<k, t>> \in S
             /\ tip[<<k, t>>] = Offers(t, entries[k].BaseFee)
             /\ weight[<<k, t>>] = Root[Gas[t]] * DecayTable[k]
  <2>1. t \in Tx /\ t \in entries[k].Content /\ Offers(t, entries[k].BaseFee) > 0
    BY <1>6 DEF PayingIn, Entries
  <2>2. PICK p : p = <<k, t>> OBVIOUS
  <2>3. p[1] = k /\ p[2] = t /\ p \in (DOMAIN entries) \X Tx BY <1>2, <2>1, <2>2
  <2>4. p \in Paying(entries) BY <2>1, <2>3 DEF Paying
  <2>5. tip[p] = Offers(p[2], entries[p[1]].BaseFee) BY <1>3, <2>4 DEF PayingTip
  <2>6. weight[p] = Root[Gas[p[2]]] * DecayTable[p[1]] BY <1>4, <2>4 DEF PayingWeight
  <2>7. QED BY <1>5, <2>2, <2>3, <2>4, <2>5, <2>6
<1>8. ASSUME NEW p \in S
      PROVE  \E k \in 1 .. n : \E t \in PayingIn(entries[k]) : p = <<k, t>>
  <2>1. /\ p \in (1 .. n) \X Tx /\ p[2] \in entries[p[1]].Content
        /\ Offers(p[2], entries[p[1]].BaseFee) > 0
    BY <1>2, <1>5 DEF Paying
  <2>2. PICK k \in 1 .. n, t \in Tx : p = <<k, t>> BY <2>1
  <2>3. p[1] = k /\ p[2] = t BY <2>2
  <2>4. t \in PayingIn(entries[k]) BY <2>1, <2>3 DEF PayingIn
  <2>5. QED BY <2>2, <2>4
<1>9. ASSUME NEW k \in 1 .. n, NEW t \in PayingIn(entries[k])
      PROVE  Offers(t, entries[k].BaseFee) \in 0 .. MaxUint /\ Root[Gas[t]] * DecayTable[k] \in Nat \ {0}
  <2>1. PICK e \in Entries : e = entries[k] /\ StoredFrom(store[k], e) BY <1>6
  <2>2. t \in Tx /\ t \in e.Content /\ e.BaseFee \in Nat BY <2>1 DEF PayingIn, Entries
  <2>3. FeeCap[t] >= e.BaseFee BY <2>1, <2>2 DEF StoredFrom
  <2>4. Offers(t, e.BaseFee) \in 0 .. MaxUint BY <2>2, <2>3, PaidIsOffered
  <2>5. PICK r \in Nat : r = Root[Gas[t]] /\ r # 0 BY <2>2, FeeAnalysisAssumption
  <2>6. PICK w \in Nat : w = DecayTable[k] /\ w # 0 BY <1>6, FeeAnalysisAssumption
  <2>7. r * w \in Nat \ {0} BY <2>5, <2>6
  <2>8. QED BY <2>1, <2>4, <2>5, <2>6, <2>7
<1>10. tip \in [S -> 0 .. MaxUint] /\ weight \in [S -> Nat \ {0}]
  <2>1. tip = [p \in S |-> tip[p]] BY <1>3, <1>5 DEF PayingTip
  <2>2. weight = [p \in S |-> weight[p]] BY <1>4, <1>5 DEF PayingWeight
  <2>3. \A p \in S : tip[p] \in 0 .. MaxUint /\ weight[p] \in Nat \ {0}
    <3> SUFFICES ASSUME NEW p \in S PROVE tip[p] \in 0 .. MaxUint /\ weight[p] \in Nat \ {0} OBVIOUS
    <3>1. PICK k \in 1 .. n : \E t \in PayingIn(entries[k]) : p = <<k, t>> BY <1>8
    <3>2. PICK t \in PayingIn(entries[k]) : p = <<k, t>> BY <3>1
    <3>3. QED BY <1>7, <1>9, <3>2
  <2>4. QED BY <2>1, <2>2, <2>3
<1>11. ASSUME NEW k \in 1 .. n
       PROVE  /\ Aged(store[k], k) \in Seq(Tips)
              /\ ListsPart(Aged(store[k], k), {k} \X PayingIn(entries[k]), tip, weight)
  <2>1. PICK e \in Entries : e = entries[k] BY <1>6
  <2>2. PICK b \in Stored : b = store[k] BY <1>6
  <2>3. StoredFrom(b, e) /\ k \in 1 .. MaxBlockCount BY <1>6, <2>1, <2>2
  <2>4. \A t \in PayingIn(e) : /\ tip[<<k, t>>] = Offers(t, e.BaseFee)
                               /\ weight[<<k, t>>] = Root[Gas[t]] * DecayTable[k]
    BY <1>7, <2>1
  <2>5. QED BY <2>1, <2>2, <2>3, <2>4, AgedLists
<1>12. PICK q : q = [k \in 1 .. n |-> Aged(store[k], k)] OBVIOUS
<1>13. q \in Seq(Seq(Tips)) /\ Len(q) = n
  <2>1. PICK T : T = Seq(Tips) OBVIOUS
  <2>2. \A k \in 1 .. n : Aged(store[k], k) \in T BY <1>11, <2>1
  <2>3. q \in [1 .. n -> T] BY <1>12, <2>2
  <2>4. q \in Seq(T) /\ Len(q) = n BY <2>3
  <2>5. QED BY <2>1, <2>4
<1>14. PICK Parts : Parts = [k \in 1 .. n |-> {k} \X PayingIn(entries[k])] OBVIOUS
<1>15. \A k \in 1 .. n : Parts[k] = {k} \X PayingIn(entries[k]) BY <1>14
<1>16. \A k \in 1 .. n : ListsPart(q[k], Parts[k], tip, weight) BY <1>11, <1>12, <1>15
<1>17. \A j, k \in 1 .. n : j # k => Parts[j] \cap Parts[k] = {} BY <1>15
<1>18. UNION {Parts[k] : k \in 1 .. n} = S
  <2>1. ASSUME NEW p \in S PROVE \E k \in 1 .. n : p \in Parts[k]
    <3>1. PICK k \in 1 .. n : \E t \in PayingIn(entries[k]) : p = <<k, t>> BY <1>8
    <3>2. QED BY <1>15, <3>1
  <2>2. ASSUME NEW k \in 1 .. n, NEW p \in Parts[k] PROVE p \in S
    <3>1. PICK t \in PayingIn(entries[k]) : p = <<k, t>> BY <1>15
    <3>2. QED BY <1>7, <3>1
  <2>3. QED BY <2>1, <2>2
<1>19. PICK d : d = FlattenSeq(q) /\ d \in Seq(Tips) BY <1>13, FlatTips
<1>20. ListsPart(d, S, tip, weight) BY <1>13, <1>16, <1>17, <1>18, <1>19, ListsFlattened
<1>21. DecayedTips(store) = d
  BY <1>2, <1>12, <1>19 DEF DecayedTips, Aged
<1>22. BlockPercentiles(d).Fees = ReferenceFees(tip, weight) BY <1>10, <1>19, <1>20, FeesOf
<1>23. QED BY <1>3, <1>4, <1>21, <1>22

-----------------------------------------------------------------------------
(* The invariant is kept.                                                  *)

(* What is stored for a block.                                             *)
LEMMA BlockDataType ==
    ASSUME NEW content \in SUBSET Tx, NEW header, NEW stats,
           stats = EmptyMap \/ stats = StatsOf[content]
    PROVE  BlockData(content, header, stats) \in Stored
<1>1. CalculateBlockTxTip(content, header) \in Seq(Tips) BY BlockTips
<1>2. stats \in {EmptyMap} \cup {StatsOf[c] : c \in SUBSET Tx} OBVIOUS
<1>3. QED BY <1>1, <1>2 DEF BlockData, Stored

(* Initialize and Resync keep the invariant, whatever was before.          *)
LEMMA StartOverInv ==
    ASSUME AnalysisInv, NEW content \in SUBSET Tx, StartOver(content)
    PROVE  AnalysisInv'
<1>1. PICK header : header = NextHeader(content) OBVIOUS
<1>2. /\ Minable(content, header) /\ head' = header
      /\ blocks' = <<BlockData(content, header, EmptyMap)>>
      /\ UpdateBlockInfoForAnalysis(header, blocks', ZeroResult)
  BY <1>1 DEF StartOver
<1>3. header \in [Number : Nat, BaseFee : Nat, GasUsed : 0 .. GasLimit]
  BY <1>1, <1>2, NextHeaderType DEF AnalysisInv
<1>4. blocks' \in Seq(Stored) /\ Len(blocks') <= MaxBlockCount
  <2>1. PICK b \in Stored : b = BlockData(content, header, EmptyMap) BY BlockDataType
  <2>2. MaxBlockCount \in Nat /\ MaxBlockCount >= 1 BY FeeAnalysisAssumption
  <2>3. <<b>> \in Seq(Stored) /\ Len(<<b>>) = 1 OBVIOUS
  <2>4. QED BY <1>2, <2>1, <2>2, <2>3
<1>5. PICK result : result = ZeroResult OBVIOUS
<1>6. /\ result \in [AnalyzerBlock : [Levels -> Nat] \cup {NoLevels},
                     AnalyzerPending : [Levels -> Nat] \cup {NoLevels},
                     PredictResult : Bids \cup {NoLevels}, NextBlockNumber : Nat, NextBaseFee : Nat]
      /\ result.PredictResult = NoLevels /\ result.NextBlockNumber = 0
  BY <1>5 DEF ZeroResult
<1>7. result.NextBlockNumber <= header.Number BY <1>3, <1>6
<1>8. QED BY <1>2, <1>3, <1>4, <1>5, <1>6, <1>7, ProcessedInv

(* A processed block keeps it: what was predicted is then for an older     *)
(* one.                                                                    *)
LEMMA ProcessBlockInv ==
    ASSUME AnalysisInv, NEW content \in SUBSET Tx, ProcessBlock(content)
    PROVE  AnalysisInv'
<1>1. PICK header : header = NextHeader(content) OBVIOUS
<1>2. /\ Minable(content, header) /\ head' = header
      /\ UpdateBlockInfoForAnalysis(header, blocks', latestResult)
      /\ \/ blocks' = blocks
         \/ blocks' = Kept(<<BlockData(content, header, StatsOf[content])>> \o blocks)
  BY <1>1 DEF ProcessBlock
<1>3. /\ header \in [Number : Nat, BaseFee : Nat, GasUsed : 0 .. GasLimit]
      /\ header.Number = head.Number + 1
  BY <1>1, <1>2, NextHeaderType DEF AnalysisInv
<1>4. blocks' \in Seq(Stored) /\ Len(blocks') <= MaxBlockCount
  <2>1. blocks \in Seq(Stored) /\ Len(blocks) <= MaxBlockCount BY DEF AnalysisInv, AnalysisTypes
  <2>2. PICK b \in Stored : b = BlockData(content, header, StatsOf[content]) BY BlockDataType
  <2>3. PICK list : list = <<b>> \o blocks /\ list \in Seq(Stored) /\ list # <<>>
    <3>1. <<b>> \in Seq(Stored) /\ Len(<<b>>) = 1 OBVIOUS
    <3>2. PICK list : list = <<b>> \o blocks OBVIOUS
    <3>3. list \in Seq(Stored) /\ Len(list) = 1 + Len(blocks) /\ Len(blocks) \in Nat BY <2>1, <3>1, <3>2
    <3>4. list # <<>>
      <4>1. Len(list) # 0 /\ Len(<<>>) = 0 BY <3>3
      <4>2. QED BY <4>1
    <3>5. QED BY <3>2, <3>3, <3>4
  <2>4. Kept(list) \in Seq(Stored) /\ Len(Kept(list)) <= MaxBlockCount BY <2>3, KeptType
  <2>5. QED BY <1>2, <2>1, <2>2, <2>3, <2>4
<1>5. /\ latestResult \in [AnalyzerBlock : [Levels -> Nat] \cup {NoLevels},
                           AnalyzerPending : [Levels -> Nat] \cup {NoLevels},
                           PredictResult : Bids \cup {NoLevels}, NextBlockNumber : Nat, NextBaseFee : Nat]
      /\ latestResult.PredictResult # NoLevels =>
            Ordered([level \in Levels |-> latestResult.PredictResult[level].PriorityFee])
  BY DEF AnalysisInv, AnalysisTypes, FeesOrdered
<1>6. latestResult.NextBlockNumber <= header.Number
  <2>1. /\ latestResult.NextBlockNumber \in Nat /\ latestBlockData.BlockNumber \in Nat /\ head.Number \in Nat
        /\ latestResult.NextBlockNumber <= latestBlockData.BlockNumber + 1
        /\ latestBlockData.BlockNumber <= head.Number
    BY DEF AnalysisInv, AnalysisTypes, ForecastRight
  <2>2. QED BY <1>3, <2>1
<1>7. QED BY <1>2, <1>3, <1>4, <1>5, <1>6, ProcessedInv

(* A block given up keeps it: the forecast is then for an older one.       *)
LEMMA SkipBlockInv ==
    ASSUME AnalysisInv, NEW content \in SUBSET Tx, SkipBlock(content)
    PROVE  AnalysisInv'
<1>1. /\ Minable(content, NextHeader(content)) /\ head' = NextHeader(content)
      /\ UNCHANGED <<blocks, latestBlockData, latestResult>>
  BY DEF SkipBlock
<1>2. /\ head' \in [Number : Nat, BaseFee : Nat, GasUsed : 0 .. GasLimit]
      /\ head'.Number = head.Number + 1
  BY <1>1, NextHeaderType DEF AnalysisInv
<1>3. AnalysisTypes' BY <1>1, <1>2 DEF AnalysisInv, AnalysisTypes
<1>4. FeesOrdered' BY <1>1 DEF AnalysisInv, FeesOrdered
<1>5. ForecastRight'
  <2>1. head.Number \in Nat /\ latestBlockData.BlockNumber \in Nat /\ latestBlockData.BlockNumber <= head.Number
    BY DEF AnalysisInv, AnalysisTypes, ForecastRight
  <2>2. latestBlockData.BlockNumber <= head'.Number /\ latestBlockData.BlockNumber # head'.Number
    BY <1>2, <2>1
  <2>3. QED BY <1>1, <2>2 DEF AnalysisInv, ForecastRight
<1>6. QED BY <1>3, <1>4, <1>5 DEF AnalysisInv

(* An analysis keeps it.                                                   *)
LEMMA AnalyzeInv ==
    ASSUME AnalysisInv, NEW snapshot \in Snapshots, AnalyzeGasPrice(snapshot)
    PROVE  AnalysisInv'
<1>1. PICK next \in Nat : next = latestBlockData.NextBaseFee BY DEF AnalysisInv, AnalysisTypes
<1>2. PICK pending : pending = PendingPercentiles(collectPendingTx(snapshot, next)) OBVIOUS
<1>3. Ordered(pending) BY <1>2, PendingTips, PercentilesOrdered
<1>4. /\ latestResult' = UpdateResult(pending) /\ blocks # <<>>
      /\ UNCHANGED <<head, blocks, latestBlockData>>
  BY <1>1, <1>2 DEF AnalyzeGasPrice
<1>5. PICK block : block = latestResult.AnalyzerBlock /\ Ordered(block)
  BY <1>4 DEF AnalysisInv, FeesOrdered
<1>6. DOMAIN block \cap Levels = Levels BY <1>5 DEF Ordered
<1>7. PICK number \in Nat : number = latestBlockData.BlockNumber BY DEF AnalysisInv, AnalysisTypes
<1> DEFINE fees == [level \in Levels |-> Blend(block[level], pending[level])]
<1>8. Ordered(fees) BY <1>3, <1>5, BlendOrdered
<1>9. UpdateResult(pending) =
        [AnalyzerBlock |-> block, AnalyzerPending |-> pending,
         PredictResult |-> [level \in Levels |-> GasLevel(next, fees[level])],
         NextBlockNumber |-> number + 1, NextBaseFee |-> next]
  BY <1>1, <1>5, <1>6, <1>7 DEF UpdateResult
<1> HIDE DEF fees
<1>10. PICK bids : bids = [level \in Levels |-> GasLevel(next, fees[level])] OBVIOUS
<1>11. \A level \in Levels : fees[level] \in Nat BY <1>8 DEF Ordered
<1>12. ASSUME NEW level \in Levels
       PROVE  /\ GasLevel(next, fees[level]) \in [PriorityFee : Nat, MaxFee : Nat]
              /\ GasLevel(next, fees[level]).PriorityFee = fees[level]
  <2>1. PICK fee \in Nat : fee = fees[level] BY <1>11
  <2>2. AsUint64(next + fee) \in Nat
    <3>1. next + fee \in Nat OBVIOUS
    <3>2. QED BY <3>1, Uint64Is
  <2>3. QED BY <2>1, <2>2 DEF GasLevel
<1>13. /\ bids \in Bids /\ DOMAIN bids = Levels
       /\ \A level \in Levels : bids[level].PriorityFee = fees[level] /\ bids[level] = GasLevel(next, fees[level])
  BY <1>10, <1>12 DEF Bids
<1>14. /\ latestResult'.AnalyzerBlock = block /\ latestResult'.PredictResult = bids
       /\ latestResult'.NextBlockNumber = number + 1
       /\ latestResult' \in [AnalyzerBlock : [Levels -> Nat] \cup {NoLevels},
                             AnalyzerPending : [Levels -> Nat] \cup {NoLevels},
                             PredictResult : Bids \cup {NoLevels}, NextBlockNumber : Nat, NextBaseFee : Nat]
  <2>1. block \in [Levels -> Nat] /\ pending \in [Levels -> Nat] BY <1>3, <1>5 DEF Ordered
  <2>2. QED BY <1>4, <1>9, <1>10, <1>13, <2>1
<1>15. AnalysisTypes' BY <1>4, <1>14 DEF AnalysisInv, AnalysisTypes
<1>16. FeesOrdered'
  <2>1. [level \in Levels |-> bids[level].PriorityFee] = [level \in Levels |-> fees[level]] BY <1>13
  <2>2. fees = [level \in Levels |-> fees[level]] BY <1>8 DEF Ordered
  <2>3. QED BY <1>5, <1>8, <1>14, <2>1, <2>2 DEF FeesOrdered
<1>17. ForecastRight'
  <2>1. AsUint64(BaseFeeAfter(head))' = AsUint64(BaseFeeAfter(head)) BY <1>4 DEF BaseFeeAfter, AsUint64
  <2>2. QED BY <1>1, <1>4, <1>7, <1>13, <1>14, <2>1 DEF AnalysisInv, ForecastRight
<1>18. QED BY <1>15, <1>16, <1>17 DEF AnalysisInv

(* A step that changes nothing keeps it.                                   *)
LEMMA AnalysisStutter ==
    ASSUME AnalysisInv, UNCHANGED avars
    PROVE  AnalysisInv'
<1>1. UNCHANGED <<head, blocks, latestBlockData, latestResult>> BY DEF avars
<1>2. AsUint64(BaseFeeAfter(head))' = AsUint64(BaseFeeAfter(head)) BY <1>1 DEF BaseFeeAfter, AsUint64
<1>3. AnalysisTypes' BY <1>1 DEF AnalysisInv, AnalysisTypes
<1>4. FeesOrdered' BY <1>1 DEF AnalysisInv, FeesOrdered
<1>5. ForecastRight' BY <1>1, <1>2 DEF AnalysisInv, ForecastRight
<1>6. QED BY <1>3, <1>4, <1>5 DEF AnalysisInv

(* Every step keeps the invariant.                                         *)
LEMMA AnalysisNextInv == AnalysisInv /\ [AnalysisNext]_avars => AnalysisInv'
<1> SUFFICES ASSUME AnalysisInv, [AnalysisNext]_avars PROVE AnalysisInv' OBVIOUS
<1>1. CASE UNCHANGED avars BY <1>1, AnalysisStutter
<1>2. CASE \E content \in SUBSET Tx : StartOver(content) \/ ProcessBlock(content) \/ SkipBlock(content)
  BY <1>2, StartOverInv, ProcessBlockInv, SkipBlockInv
<1>3. CASE \E snapshot \in Snapshots : AnalyzeGasPrice(snapshot) BY <1>3, AnalyzeInv
<1>4. QED BY <1>1, <1>2, <1>3 DEF AnalysisNext

(* The types, the order of the fees and the rightness of the forecast, of  *)
(* every reachable state, for any transactions, table of weights, number   *)
(* of stored blocks and width of the integers.                             *)
THEOREM AnalysisInvariance == AnalysisSpec => []AnalysisInv
<1>1. QED BY AnalysisInitInv, AnalysisNextInv, PTL DEF AnalysisSpec

(* A prediction asks no less for a faster inclusion, for whatever tips of  *)
(* blocks and of pending transactions UpdateResult blends.                 *)
THEOREM PredictionsOrdered == AnalysisSpec => []LevelsOrdered
<1>1. AnalysisInv => LevelsOrdered
  <2> SUFFICES ASSUME AnalysisInv, latestResult.PredictResult # NoLevels
               PROVE  LET Fee(level) == latestResult.PredictResult[level].PriorityFee
                      IN Fee("market") <= Fee("fast") /\ Fee("fast") <= Fee("urgent")
    BY DEF LevelsOrdered
  <2>1. "market" \in Levels /\ "fast" \in Levels /\ "urgent" \in Levels BY DEF Levels
  <2>2. QED BY <2>1 DEF AnalysisInv, FeesOrdered, Ordered
<1>2. QED BY <1>1, AnalysisInvariance, PTL

(* The tip a pending transaction offers is what its receipt will show.     *)
LEMMA TipForecast ==
    ASSUME NEW t \in Tx, NEW header, header.BaseFee \in Nat, FeeCap[t] >= header.BaseFee
    PROVE  LET offered == EffectiveTip(FeeCap[t], TipCap[t], header.BaseFee)
           IN PaidTip(t, header) = IF offered = 0 THEN NoTip ELSE offered
<1>1. PICK b \in Nat : b = header.BaseFee OBVIOUS
<1>2. PICK f \in 0 .. MaxUint : f = FeeCap[t] BY TxConstants
<1>3. PICK c \in 0 .. MaxUint : c = TipCap[t] BY TxConstants
<1>4. f \in Nat /\ c \in Nat /\ MaxUint \in Nat /\ f >= b BY <1>1, <1>2, TxConstants
<1>5. PaidTip(t, header) = EffectiveTipFromReceipt(IF f < b + c THEN f ELSE b + c, b)
  BY <1>1, <1>2, <1>3 DEF PaidTip, EffectiveGasPrice
<1>6. PICK o : o = EffectiveTip(f, c, b) OBVIOUS
<1>7. EffectiveTipFromReceipt(IF f < b + c THEN f ELSE b + c, b) = IF o = 0 THEN NoTip ELSE o
  <2>1. CASE f = b BY <1>4, <1>6, <2>1 DEF EffectiveTip, EffectiveTipFromReceipt, NoTip
  <2>2. CASE f > b /\ c = 0 BY <1>4, <1>6, <2>2 DEF EffectiveTip, EffectiveTipFromReceipt, NoTip
  <2>3. CASE f > b /\ c > 0 /\ f - b > c BY <1>4, <1>6, <2>3 DEF EffectiveTip, EffectiveTipFromReceipt, NoTip
  <2>4. CASE f > b /\ c > 0 /\ ~(f - b > c)
    BY <1>4, <1>6, <2>4 DEF EffectiveTip, EffectiveTipFromReceipt, NoTip
  <2>5. QED BY <1>4, <2>1, <2>2, <2>3, <2>4
<1>8. QED BY <1>1, <1>2, <1>3, <1>5, <1>6, <1>7

(* A bid of the forecast base fee and the priority fee pays the latter.    *)
LEMMA BidPays ==
    ASSUME NEW base \in Nat, NEW fee \in 1 .. MaxUint - base
    PROVE  EffectiveTip(GasLevel(base, fee).MaxFee, fee, base) = fee
<1>1. MaxUint \in Nat BY TxConstants
<1>2. PICK s \in Nat : s = base + fee /\ s <= MaxUint BY <1>1
<1>3. AsUint64(s) = s BY <1>2, Uint64Is
<1>4. GasLevel(base, fee).MaxFee = s BY <1>2, <1>3 DEF GasLevel
<1>5. QED BY <1>2, <1>4 DEF EffectiveTip

(* What is forecast for the next block comes true when the chain makes it, *)
(* as long as its base fee is a uint64: the base fee, the tips, and that a *)
(* transaction bid as predicted pays the priority fee.  Nothing is claimed *)
(* of a base fee beyond: the forecast UpdateBlockInfoForAnalysis stores is *)
(* then another number.                                                    *)
THEOREM ForecastComesTrue == AnalysisSpec => ForecastHolds
<1> DEFINE Claim ==
        (/\ head'.Number = head.Number + 1 /\ latestBlockData.BlockNumber = head.Number
         /\ blocks # <<>> /\ head'.BaseFee <= MaxUint) =>
          /\ head'.BaseFee = latestBlockData.NextBaseFee
          /\ \A t \in {u \in Tx : FeeCap[u] >= head'.BaseFee} :
                LET offered == EffectiveTip(FeeCap[t], TipCap[t], latestBlockData.NextBaseFee)
                IN PaidTip(t, head') = IF offered = 0 THEN NoTip ELSE offered
          /\ latestResult.NextBlockNumber = head'.Number =>
                \A level \in DOMAIN latestResult.PredictResult :
                   LET bid == latestResult.PredictResult[level]
                   IN bid.PriorityFee \in 1 .. MaxUint - head'.BaseFee =>
                        EffectiveTip(bid.MaxFee, bid.PriorityFee, head'.BaseFee) = bid.PriorityFee
<1>1. AnalysisInv /\ [AnalysisNext]_avars => [Claim]_avars
  <2> SUFFICES ASSUME AnalysisInv, [AnalysisNext]_avars,
                      head'.Number = head.Number + 1, latestBlockData.BlockNumber = head.Number, blocks # <<>>,
                      head'.BaseFee <= MaxUint
               PROVE  Claim
    OBVIOUS
  <2>1. head.Number \in Nat /\ head'.Number # head.Number BY DEF AnalysisInv, AnalysisTypes
  <2>2. head'.BaseFee = BaseFeeAfter(head)
    <3>1. CASE UNCHANGED avars BY <2>1, <3>1 DEF avars
    <3>2. CASE \E content \in SUBSET Tx : StartOver(content) \/ ProcessBlock(content) \/ SkipBlock(content)
      <4>1. PICK content \in SUBSET Tx : head' = NextHeader(content)
        BY <3>2 DEF StartOver, ProcessBlock, SkipBlock
      <4>2. QED BY <4>1 DEF NextHeader
    <3>3. CASE \E snapshot \in Snapshots : AnalyzeGasPrice(snapshot) BY <2>1, <3>3 DEF AnalyzeGasPrice
    <3>4. QED BY <3>1, <3>2, <3>3 DEF AnalysisNext
  <2>3. PICK base \in Nat : base = latestBlockData.NextBaseFee BY DEF AnalysisInv, AnalysisTypes
  <2>4. head'.BaseFee = base
    <3>1. base = AsUint64(BaseFeeAfter(head)) BY <2>3 DEF AnalysisInv, ForecastRight
    <3>2. head.BaseFee \in Nat /\ head.GasUsed \in Nat BY TxConstants DEF AnalysisInv, AnalysisTypes
    <3>3. BaseFeeAfter(head) \in Nat /\ BaseFeeAfter(head) <= MaxUint BY <2>2, <3>2, BaseFeeRight
    <3>4. QED BY <2>2, <3>1, <3>3, Uint64Is
  <2>5. ASSUME NEW t \in Tx, FeeCap[t] >= head'.BaseFee
        PROVE  LET offered == EffectiveTip(FeeCap[t], TipCap[t], base)
               IN PaidTip(t, head') = IF offered = 0 THEN NoTip ELSE offered
    <3>1. PICK header : header = head' OBVIOUS
    <3>2. QED BY <2>4, <2>5, <3>1, TipForecast
  <2>6. ASSUME latestResult.NextBlockNumber = head'.Number,
               NEW level \in DOMAIN latestResult.PredictResult,
               latestResult.PredictResult[level].PriorityFee \in 1 .. MaxUint - base
        PROVE  EffectiveTip(latestResult.PredictResult[level].MaxFee,
                            latestResult.PredictResult[level].PriorityFee, base)
                 = latestResult.PredictResult[level].PriorityFee
    <3>1. PICK fee \in 1 .. MaxUint - base : fee = latestResult.PredictResult[level].PriorityFee BY <2>6
    <3>2. latestResult.NextBlockNumber = latestBlockData.BlockNumber + 1 BY <2>6
    <3>3. latestResult.PredictResult[level] = GasLevel(base, fee)
      BY <2>3, <3>1, <3>2 DEF AnalysisInv, ForecastRight
    <3>4. QED BY <3>1, <3>3, BidPays
  <2>7. QED BY <2>3, <2>4, <2>5, <2>6
<1>2. QED BY <1>1, AnalysisInvariance, PTL DEF AnalysisSpec, ForecastHolds

-----------------------------------------------------------------------------
(* The fees have the sources the reference is about.                       *)

(* The store is the recorded blocks, with their tips.                      *)
StoreRecorded ==
    /\ mined \in Seq(Entries) /\ Len(mined) = Len(blocks)
    /\ \A k \in 1 .. Len(blocks) : StoredFrom(blocks[k], mined[k])

(* The fees were computed from the store, and from the snapshot and the    *)
(* base fee that AnalyzeGasPrice saw.                                      *)
FeesComputed ==
    /\ blocks # <<>> => latestResult.AnalyzerBlock = BlockPercentiles(DecayedTips(blocks)).Fees
    /\ latestResult.AnalyzerPending # NoLevels =>
          /\ seen.Snapshot \in Snapshots /\ seen.BaseFee \in Nat
          /\ latestResult.AnalyzerPending = PendingPercentiles(collectPendingTx(seen.Snapshot, seen.BaseFee))

SourcesInv == StoreRecorded /\ FeesComputed

(* It holds at first.                                                      *)
LEMMA SourcesInit == AnalysisInit => SourcesInv
<1> SUFFICES ASSUME AnalysisInit PROVE SourcesInv OBVIOUS
<1>1. blocks = <<>> /\ mined = <<>> /\ latestResult.AnalyzerPending = NoLevels
  BY DEF AnalysisInit, ZeroResult
<1>2. mined \in Seq(Entries) /\ Len(mined) = 0 /\ Len(blocks) = 0 BY <1>1
<1>3. QED BY <1>1, <1>2 DEF SourcesInv, StoreRecorded, FeesComputed

(* The new block and its record belong together.                           *)
LEMMA NewEntry ==
    ASSUME NEW content \in SUBSET Tx, NEW header, header.BaseFee \in Nat, Minable(content, header),
           NEW stats, stats = EmptyMap \/ stats = StatsOf[content],
           NEW entry, entry = [Content |-> content, BaseFee |-> header.BaseFee, Stats |-> stats]
    PROVE  entry \in Entries /\ StoredFrom(BlockData(content, header, stats), entry)
<1>1. stats \in {EmptyMap} \cup {StatsOf[c] : c \in SUBSET Tx} OBVIOUS
<1>2. entry \in Entries BY <1>1 DEF Entries
<1>3. entry.Content = content /\ entry.BaseFee = header.BaseFee /\ entry.Stats = stats OBVIOUS
<1>4. \A t : PaidTip(t, entry) = PaidTip(t, header) BY <1>3 DEF PaidTip
<1>5. CalculateBlockTxTip(content, entry) = CalculateBlockTxTip(content, header)
  BY <1>4 DEF CalculateBlockTxTip
<1>6. \A t \in content : FeeCap[t] >= header.BaseFee BY DEF Minable
<1>7. QED BY <1>2, <1>3, <1>5, <1>6 DEF StoredFrom, BlockData

(* A block and its record are added and dropped together.                  *)
LEMMA KeptTogether ==
    ASSUME NEW b \in Stored, NEW e \in Entries, StoredFrom(b, e),
           NEW store \in Seq(Stored), NEW entries \in Seq(Entries), Len(entries) = Len(store),
           \A k \in 1 .. Len(store) : StoredFrom(store[k], entries[k])
    PROVE  LET s == Kept(<<b>> \o store)
               h == Kept(<<e>> \o entries)
           IN /\ h \in Seq(Entries) /\ Len(h) = Len(s)
              /\ \A k \in 1 .. Len(s) : StoredFrom(s[k], h[k])
<1>1. PICK n \in Nat : n = Len(store) /\ n = Len(entries) OBVIOUS
<1>2. PICK s : s = <<b>> \o store OBVIOUS
<1>3. PICK h : h = <<e>> \o entries OBVIOUS
<1>4. PICK l \in Nat : l = n + 1 OBVIOUS
<1>5. /\ s \in Seq(Stored) /\ Len(s) = l /\ s[1] = b
      /\ \A k \in 2 .. l : s[k] = store[k - 1]
  BY <1>1, <1>2, <1>4
<1>6. /\ h \in Seq(Entries) /\ Len(h) = l /\ h[1] = e
      /\ \A k \in 2 .. l : h[k] = entries[k - 1]
  BY <1>1, <1>3, <1>4
<1>7. ASSUME NEW k \in 1 .. l PROVE StoredFrom(s[k], h[k])
  <2>1. CASE k = 1 BY <1>5, <1>6, <2>1
  <2>2. CASE k # 1
    <3>1. k \in 2 .. l /\ k - 1 \in 1 .. n BY <1>4, <2>2
    <3>2. PICK j \in 1 .. n : j = k - 1 BY <3>1
    <3>3. s[k] = store[j] /\ h[k] = entries[j] BY <1>5, <1>6, <3>1, <3>2
    <3>4. QED BY <1>1, <3>2, <3>3
  <2>3. QED BY <2>1, <2>2
<1>8. MaxBlockCount \in Nat BY FeeAnalysisAssumption
<1>9. PICK m \in 0 .. l : m = IF l > MaxBlockCount THEN MaxBlockCount ELSE l BY <1>8
<1>10. Kept(s) = [k \in 1 .. m |-> s[k]] /\ Kept(h) = [k \in 1 .. m |-> h[k]]
  <2>1. Kept(s) = SubSeq(s, 1, m) /\ Kept(h) = SubSeq(h, 1, m) BY <1>5, <1>6, <1>9 DEF Kept
  <2>2. SubSeq(s, 1, m) = [k \in 1 .. m |-> s[k]] BY <1>5
  <2>3. SubSeq(h, 1, m) = [k \in 1 .. m |-> h[k]] BY <1>6
  <2>4. QED BY <2>1, <2>2, <2>3
<1>11. \A k \in 1 .. m : k \in 1 .. l /\ h[k] \in Entries BY <1>6
<1>12. PICK u : u = [k \in 1 .. m |-> s[k]] OBVIOUS
<1>13. PICK v : v = [k \in 1 .. m |-> h[k]] OBVIOUS
<1>14. Len(u) = m /\ Len(v) = m /\ v \in Seq(Entries)
  <2>1. m \in Nat OBVIOUS
  <2>2. Len(u) = m BY <1>12, <2>1
  <2>3. Len(v) = m BY <1>13, <2>1
  <2>4. \A k \in 1 .. m : h[k] \in Entries BY <1>11
  <2>5. v \in Seq(Entries) BY <1>13, <2>1, <2>4
  <2>6. QED BY <2>2, <2>3, <2>5
<1>15. \A k \in 1 .. m : StoredFrom(u[k], v[k]) BY <1>7, <1>11, <1>12, <1>13
<1>16. QED BY <1>2, <1>3, <1>10, <1>12, <1>13, <1>14, <1>15

(* Initialize and Resync keep it: one block and its record.                *)
LEMMA SourcesStartOver ==
    ASSUME AnalysisInv, SourcesInv, NEW content \in SUBSET Tx, StartOver(content)
    PROVE  SourcesInv'
<1>1. PICK header : header = NextHeader(content) OBVIOUS
<1>2. PICK entry : entry = [Content |-> content, BaseFee |-> header.BaseFee, Stats |-> EmptyMap] OBVIOUS
<1>3. PICK b : b = BlockData(content, header, EmptyMap) OBVIOUS
<1>4. /\ Minable(content, header) /\ blocks' = <<b>> /\ mined' = <<entry>>
      /\ UpdateBlockInfoForAnalysis(header, blocks', ZeroResult)
  BY <1>1, <1>2, <1>3 DEF StartOver
<1>5. header.BaseFee \in Nat BY <1>1, <1>4, NextHeaderType DEF AnalysisInv
<1>6. entry \in Entries /\ StoredFrom(b, entry) BY <1>2, <1>3, <1>4, <1>5, NewEntry
<1>7. StoreRecorded'
  <2>1. <<entry>> \in Seq(Entries) /\ Len(<<entry>>) = 1 /\ Len(<<b>>) = 1 /\ <<entry>>[1] = entry /\ <<b>>[1] = b
    BY <1>6
  <2>2. 1 .. 1 = {1} OBVIOUS
  <2>3. \A k \in 1 .. 1 : StoredFrom(<<b>>[k], <<entry>>[k]) BY <1>6, <2>1, <2>2
  <2>4. QED BY <1>4, <2>1, <2>3 DEF StoreRecorded
<1>8. FeesComputed'
  <2>1. latestResult' = [ZeroResult EXCEPT !.AnalyzerBlock = BlockPercentiles(DecayedTips(blocks')).Fees]
    BY <1>4 DEF UpdateBlockInfoForAnalysis
  <2>2. PICK fees : fees = BlockPercentiles(DecayedTips(blocks')).Fees OBVIOUS
  <2>3. latestResult'.AnalyzerBlock = fees /\ latestResult'.AnalyzerPending = NoLevels
    BY <2>1, <2>2 DEF ZeroResult
  <2>4. QED BY <2>2, <2>3 DEF FeesComputed
<1>9. QED BY <1>7, <1>8 DEF SourcesInv

(* A processed block keeps it, also when the oldest block is dropped.      *)
LEMMA SourcesProcessBlock ==
    ASSUME AnalysisInv, SourcesInv, NEW content \in SUBSET Tx, ProcessBlock(content)
    PROVE  SourcesInv'
<1>1. PICK header : header = NextHeader(content) OBVIOUS
<1>2. PICK entry : entry = [Content |-> content, BaseFee |-> header.BaseFee, Stats |-> StatsOf[content]] OBVIOUS
<1>3. PICK b : b = BlockData(content, header, StatsOf[content]) OBVIOUS
<1>4. /\ Minable(content, header) /\ UNCHANGED seen
      /\ UpdateBlockInfoForAnalysis(header, blocks', latestResult)
      /\ \/ UNCHANGED <<blocks, mined>>
         \/ blocks' = Kept(<<b>> \o blocks) /\ mined' = Kept(<<entry>> \o mined)
  BY <1>1, <1>2, <1>3 DEF ProcessBlock
<1>5. header.BaseFee \in Nat BY <1>1, <1>4, NextHeaderType DEF AnalysisInv
<1>6. entry \in Entries /\ StoredFrom(b, entry) BY <1>2, <1>3, <1>4, <1>5, NewEntry
<1>7. StoreRecorded'
  <2>1. CASE UNCHANGED <<blocks, mined>> BY <2>1 DEF SourcesInv, StoreRecorded
  <2>2. CASE blocks' = Kept(<<b>> \o blocks) /\ mined' = Kept(<<entry>> \o mined)
    <3>1. b \in Stored BY <1>3, BlockDataType
    <3>2. blocks \in Seq(Stored) BY DEF AnalysisInv, AnalysisTypes
    <3>3. /\ mined \in Seq(Entries) /\ Len(mined) = Len(blocks)
          /\ \A k \in 1 .. Len(blocks) : StoredFrom(blocks[k], mined[k])
      BY DEF SourcesInv, StoreRecorded
    <3>4. PICK s : s = Kept(<<b>> \o blocks) OBVIOUS
    <3>5. PICK h : h = Kept(<<entry>> \o mined) OBVIOUS
    <3>6. h \in Seq(Entries) /\ Len(h) = Len(s) /\ \A k \in 1 .. Len(s) : StoredFrom(s[k], h[k])
      BY <1>6, <3>1, <3>2, <3>3, <3>4, <3>5, KeptTogether
    <3>7. QED BY <2>2, <3>4, <3>5, <3>6 DEF StoreRecorded
  <2>3. QED BY <1>4, <2>1, <2>2
<1>8. FeesComputed'
  <2>1. latestResult' = [latestResult EXCEPT !.AnalyzerBlock = BlockPercentiles(DecayedTips(blocks')).Fees]
    BY <1>4 DEF UpdateBlockInfoForAnalysis
  <2>2. PICK fees : fees = BlockPercentiles(DecayedTips(blocks')).Fees OBVIOUS
  <2>3. /\ latestResult'.AnalyzerBlock = fees
        /\ latestResult'.AnalyzerPending = latestResult.AnalyzerPending
    BY <2>1, <2>2 DEF AnalysisInv, AnalysisTypes
  <2>4. QED BY <1>4, <2>2, <2>3 DEF SourcesInv, FeesComputed
<1>9. QED BY <1>7, <1>8 DEF SourcesInv

(* An analysis keeps it.                                                   *)
LEMMA SourcesAnalyze ==
    ASSUME AnalysisInv, SourcesInv, NEW snapshot \in Snapshots, AnalyzeGasPrice(snapshot)
    PROVE  SourcesInv'
<1>1. PICK next \in Nat : next = latestBlockData.NextBaseFee BY DEF AnalysisInv, AnalysisTypes
<1>2. PICK pending : pending = PendingPercentiles(collectPendingTx(snapshot, next)) OBVIOUS
<1>3. /\ latestResult' = UpdateResult(pending) /\ seen' = [Snapshot |-> snapshot, BaseFee |-> next]
      /\ UNCHANGED <<blocks, mined>>
  BY <1>1, <1>2 DEF AnalyzeGasPrice
<1>4. StoreRecorded' BY <1>3 DEF SourcesInv, StoreRecorded
<1>5. /\ latestResult'.AnalyzerBlock = latestResult.AnalyzerBlock
      /\ latestResult'.AnalyzerPending = pending
      /\ seen'.Snapshot = snapshot /\ seen'.BaseFee = next
  BY <1>3 DEF UpdateResult
<1>6. FeesComputed' BY <1>2, <1>3, <1>5 DEF SourcesInv, FeesComputed
<1>7. QED BY <1>4, <1>6 DEF SourcesInv

(* Every step keeps it.                                                    *)
LEMMA SourcesNext == AnalysisInv /\ SourcesInv /\ [AnalysisNext]_avars => SourcesInv'
<1> SUFFICES ASSUME AnalysisInv, SourcesInv, [AnalysisNext]_avars PROVE SourcesInv' OBVIOUS
<1>1. ASSUME UNCHANGED <<blocks, mined, latestResult, seen>> PROVE SourcesInv'
  BY <1>1 DEF SourcesInv, StoreRecorded, FeesComputed
<1>2. CASE UNCHANGED avars BY <1>1, <1>2 DEF avars
<1>3. CASE \E content \in SUBSET Tx : StartOver(content) \/ ProcessBlock(content) \/ SkipBlock(content)
  <2>1. PICK content \in SUBSET Tx : StartOver(content) \/ ProcessBlock(content) \/ SkipBlock(content) BY <1>3
  <2>2. CASE SkipBlock(content) BY <1>1, <2>2 DEF SkipBlock
  <2>3. QED BY <2>1, <2>2, SourcesStartOver, SourcesProcessBlock
<1>4. CASE \E snapshot \in Snapshots : AnalyzeGasPrice(snapshot) BY <1>4, SourcesAnalyze
<1>5. QED BY <1>2, <1>3, <1>4 DEF AnalysisNext

(* The fees of the blocks and of the pending transactions are the weighted *)
(* quantiles of the tips that were paid or are offered, for any            *)
(* transactions, table of weights, number of stored blocks and width of    *)
(* the integers: the running sums, the sort and the cap on outliers of     *)
(* util.go and analyzer.go compute what the reference says.                *)
THEOREM FeesAlwaysQuantiles == AnalysisSpec => []FeesAreQuantiles
<1>1. AnalysisInv /\ SourcesInv => FeesAreQuantiles
  <2> SUFFICES ASSUME AnalysisInv, SourcesInv PROVE FeesAreQuantiles OBVIOUS
  <2>1. ASSUME blocks # <<>> PROVE latestResult.AnalyzerBlock = BlockReference
    <3>1. blocks \in Seq(Stored) /\ Len(blocks) <= MaxBlockCount BY DEF AnalysisInv, AnalysisTypes
    <3>2. /\ mined \in Seq(Entries) /\ Len(mined) = Len(blocks)
          /\ \A k \in 1 .. Len(blocks) : StoredFrom(blocks[k], mined[k])
      BY DEF SourcesInv, StoreRecorded
    <3>3. BlockPercentiles(DecayedTips(blocks)).Fees = ReferenceFees(PayingTip(mined), PayingWeight(mined))
      BY <3>1, <3>2, BlockRight
    <3>4. BlockReference = ReferenceFees(PayingTip(mined), PayingWeight(mined))
      BY DEF BlockReference, PayingTip, PayingWeight, Paying
    <3>5. QED BY <2>1, <3>3, <3>4 DEF SourcesInv, FeesComputed
  <2>2. ASSUME latestResult.AnalyzerPending # NoLevels PROVE latestResult.AnalyzerPending = PendingReference
    <3>1. /\ seen.Snapshot \in Snapshots /\ seen.BaseFee \in Nat
          /\ latestResult.AnalyzerPending = PendingPercentiles(collectPendingTx(seen.Snapshot, seen.BaseFee))
      BY <2>2 DEF SourcesInv, FeesComputed
    <3>2. PendingReference = ReferenceFees(AbleTip(seen.Snapshot, seen.BaseFee), AbleWeight(seen.Snapshot, seen.BaseFee))
      BY DEF PendingReference, AbleTip, AbleWeight, Able
    <3>3. QED BY <3>1, <3>2, PendingRight
  <2>3. QED BY <2>1, <2>2 DEF FeesAreQuantiles
<1>2. QED BY <1>1, AnalysisInvariance, SourcesInit, SourcesNext, PTL DEF AnalysisSpec

-----------------------------------------------------------------------------
(* Sums of lists and of histograms.                                        *)

Places(n) == 1 .. n

(* Numbers that grow by w[i] at every i are the sums of w.                 *)
LEMMA SumsOfList ==
    ASSUME NEW n \in Nat, NEW w \in [Places(n) -> Nat], NEW c,
           c[0] = 0, \A i \in 1 .. n : c[i] = c[i - 1] + w[i]
    PROVE  \A i \in 0 .. n : c[i] = SumFunctionOnSet(w, 1 .. i)
<1> DEFINE Right(i) == c[i] = SumFunctionOnSet(w, 1 .. i)
           T == {i \in 0 .. n : ~Right(i)}
<1>0. PICK S : S = Places(n) OBVIOUS
<1>1. /\ SumFunctionOnSet(w, {}) = 0
      /\ \A U \in SUBSET S : \A x \in S \ U : SumFunctionOnSet(w, U \cup {x}) = SumFunctionOnSet(w, U) + w[x]
  <2>1. IsFiniteSet(Places(n)) BY FS_Interval DEF Places
  <2>2. IsFiniteSet(S) /\ w \in [S -> Nat] BY <1>0, <2>1
  <2> HIDE DEF Right, T
  <2>3. QED BY <2>2, SumOfSet
<1>2. Right(0)
  <2>1. 1 .. 0 = {} OBVIOUS
  <2>2. QED BY <1>1, <2>1
<1>3. ASSUME NEW i \in 1 .. n, Right(i - 1) PROVE Right(i)
  <2>1. PICK U : U = 1 .. i - 1 OBVIOUS
  <2>2. U \in SUBSET S /\ i \in S \ U /\ 1 .. i = U \cup {i}
    <3>1. \A j : j \in 1 .. i <=> j \in 1 .. i - 1 \/ j = i OBVIOUS
    <3>2. \A j \in 1 .. i - 1 : j \in 1 .. n /\ j # i OBVIOUS
    <3>3. QED BY <1>0, <2>1, <3>1, <3>2 DEF Places
  <2>3. SumFunctionOnSet(w, U \cup {i}) = SumFunctionOnSet(w, U) + w[i]
    <3>1. PICK x \in S \ U : x = i BY <2>2
    <3>2. U \in SUBSET S BY <2>2
    <3>3. SumFunctionOnSet(w, U \cup {x}) = SumFunctionOnSet(w, U) + w[x] BY <1>1, <3>2, Zenon
    <3>4. QED BY <3>1, <3>3
  <2>4. c[i - 1] = SumFunctionOnSet(w, U) BY <1>3, <2>1
  <2>5. QED BY <2>2, <2>3, <2>4
<1> HIDE DEF Right
<1>4. ASSUME T # {} PROVE FALSE
  <2>1. PICK m \in T : \A k \in T : m <= k
    <3>1. T \subseteq Nat OBVIOUS
    <3> HIDE DEF T
    <3>2. QED BY <1>4, <3>1, Smallest
  <2>2. m \in 0 .. n /\ ~Right(m) OBVIOUS
  <2>3. m # 0 BY <1>2, <2>2
  <2>4. m \in 1 .. n /\ m - 1 \in 0 .. n /\ ~(m <= m - 1) BY <2>2, <2>3
  <2>5. m - 1 \notin T
    <3> HIDE DEF T
    <3>1. QED BY <2>1, <2>4
  <2>6. Right(m - 1) BY <2>4, <2>5
  <2>7. QED BY <1>3, <2>2, <2>4, <2>6
<1>5. QED BY <1>4 DEF Right

(* The sum of two histograms has the sum of their sums.                    *)
LEMMA SumOfPlus ==
    ASSUME NEW S, IsFiniteSet(S), NEW u \in [S -> Nat], NEW v \in [S -> Nat]
    PROVE  SumFunction([x \in S |-> u[x] + v[x]]) = SumFunction(u) + SumFunction(v)
<1> DEFINE p == [x \in S |-> u[x] + v[x]]
           Right(T) == SumFunctionOnSet(p, T) = SumFunctionOnSet(u, T) + SumFunctionOnSet(v, T)
           Wrong == {T \in SUBSET S : ~Right(T)}
           N == {Cardinality(T) : T \in Wrong}
<1>1. p \in [S -> Nat] /\ \A x \in S : p[x] = u[x] + v[x] OBVIOUS
<1> HIDE DEF p
<1>2. Right({})
  <2>1. SumFunctionOnSet(p, {}) = 0 BY <1>1, SumOfSet
  <2>2. SumFunctionOnSet(u, {}) = 0 BY SumOfSet
  <2>3. SumFunctionOnSet(v, {}) = 0 BY SumOfSet
  <2>4. QED BY <2>1, <2>2, <2>3
<1>3. ASSUME NEW T \in SUBSET S, NEW x \in S \ T, Right(T) PROVE Right(T \cup {x})
  <2>1. SumFunctionOnSet(p, T \cup {x}) = SumFunctionOnSet(p, T) + p[x] BY <1>1, SumOfSet
  <2>2. SumFunctionOnSet(u, T \cup {x}) = SumFunctionOnSet(u, T) + u[x] /\ SumFunctionOnSet(u, T) \in Nat BY SumOfSet
  <2>3. SumFunctionOnSet(v, T \cup {x}) = SumFunctionOnSet(v, T) + v[x] /\ SumFunctionOnSet(v, T) \in Nat BY SumOfSet
  <2>4. PICK a \in Nat : a = SumFunctionOnSet(u, T) BY <2>2
  <2>5. PICK b \in Nat : b = SumFunctionOnSet(v, T) BY <2>3
  <2>6. PICK y \in Nat : y = u[x] OBVIOUS
  <2>7. PICK z \in Nat : z = v[x] OBVIOUS
  <2>8. SumFunctionOnSet(p, T) = a + b /\ p[x] = y + z BY <1>1, <1>3, <2>4, <2>5, <2>6, <2>7
  <2>9. (a + b) + (y + z) = (a + y) + (b + z) OBVIOUS
  <2>10. QED BY <2>1, <2>2, <2>3, <2>4, <2>5, <2>6, <2>7, <2>8, <2>9
<1> HIDE DEF Right
<1>4. ASSUME Wrong # {} PROVE FALSE
  <2>1. \A T \in SUBSET S : IsFiniteSet(T) /\ Cardinality(T) \in Nat
    <3>1. \A T \in SUBSET S : IsFiniteSet(T) BY FS_Subset
    <3>2. QED BY <3>1, FS_CardinalityType
  <2>2. N \subseteq Nat /\ N # {} BY <1>4, <2>1
  <2>3. PICK m \in N : \A k \in N : m <= k
    <3> HIDE DEF N
    <3>1. QED BY <2>2, Smallest
  <2>4. PICK T \in SUBSET S : ~Right(T) /\ m = Cardinality(T) OBVIOUS
  <2>5. PICK x \in T : TRUE BY <1>2, <2>4
  <2>6. Cardinality(T) \in Nat /\ Cardinality(T \ {x}) = Cardinality(T) - 1 BY SmallerSet
  <2>7. ~(m <= Cardinality(T \ {x})) BY <2>4, <2>6
  <2>8. Cardinality(T \ {x}) \notin N
    <3> HIDE DEF N
    <3>1. QED BY <2>3, <2>7
  <2>9. T \ {x} \in SUBSET S /\ x \in S \ (T \ {x}) /\ (T \ {x}) \cup {x} = T OBVIOUS
  <2>10. Right(T \ {x}) BY <2>8, <2>9
  <2>11. QED BY <1>3, <2>4, <2>9, <2>10
<1>5. Right(S) BY <1>4
<1>6. DOMAIN p = S /\ DOMAIN u = S /\ DOMAIN v = S BY <1>1
<1>7. SumFunction(p) = SumFunction(u) + SumFunction(v) BY <1>5, <1>6 DEF Right, SumFunction
<1>8. QED BY <1>7 DEF p

(* Of a histogram only the entries that are not zero are sent.             *)
Entry(h, j) == <<j, h[j]>>
Sent(h, T) == {Entry(h, j) : j \in {i \in T : h[i] # 0}}

(* They have its sum.                                                      *)
LEMMA SumOfSent ==
    ASSUME NEW S, IsFiniteSet(S), NEW h \in [S -> Nat]
    PROVE  SumFunction([w \in Sent(h, S) |-> w[2]]) = SumFunction(h)
<1> DEFINE P == Sent(h, S)
           p == [w \in P |-> w[2]]
           Right(T) == SumFunctionOnSet(p, Sent(h, T)) = SumFunctionOnSet(h, T)
           Wrong == {T \in SUBSET S : ~Right(T)}
           N == {Cardinality(T) : T \in Wrong}
<1>1. IsFiniteSet(P)
  <2>1. PICK D : D = {i \in S : h[i] # 0} OBVIOUS
  <2>2. IsFiniteSet(D) BY <2>1, FS_Subset
  <2>3. PICK f : f = [j \in D |-> Entry(h, j)] OBVIOUS
  <2>4. P = {f[j] : j \in D} BY <2>1, <2>3 DEF Sent
  <2> HIDE DEF P
  <2>5. f \in Surjection(D, P) BY <2>3, <2>4 DEF Surjection
  <2>6. QED BY <2>2, <2>5, FS_Surjection
<1>2. \A j \in S : h[j] \in Nat /\ Entry(h, j)[1] = j /\ Entry(h, j)[2] = h[j] BY DEF Entry
<1>3. p \in [P -> Nat] /\ \A w \in P : p[w] = w[2] BY <1>2 DEF Sent
<1>4. \A T \in SUBSET S : Sent(h, T) \in SUBSET P BY DEF Sent
<1> HIDE DEF p
<1>5. Right({})
  <2>1. Sent(h, {}) = {} BY DEF Sent
  <2>2. SumFunctionOnSet(p, {}) = 0
    <3> HIDE DEF P
    <3>1. QED BY <1>1, <1>3, SumOfSet
  <2>3. SumFunctionOnSet(h, {}) = 0 BY SumOfSet
  <2>4. QED BY <2>1, <2>2, <2>3
<1>6. ASSUME NEW T \in SUBSET S, NEW x \in S \ T, Right(T) PROVE Right(T \cup {x})
  <2>1. SumFunctionOnSet(h, T \cup {x}) = SumFunctionOnSet(h, T) + h[x] /\ SumFunctionOnSet(h, T) \in Nat BY SumOfSet
  <2>2. CASE h[x] = 0
    <3>1. Sent(h, T \cup {x}) = Sent(h, T) BY <2>2 DEF Sent
    <3>2. QED BY <1>6, <2>1, <2>2, <3>1
  <2>3. CASE h[x] # 0
    <3>1. PICK e : e = Entry(h, x) OBVIOUS
    <3>2. Sent(h, T \cup {x}) = Sent(h, T) \cup {e} BY <2>3, <3>1 DEF Sent
    <3>3. e \in P BY <2>3, <3>1 DEF Sent
    <3>4. e \notin Sent(h, T)
      <4>1. \A j \in T : Entry(h, j) # e BY <1>2, <3>1
      <4>2. QED BY <4>1 DEF Sent
    <3>5. p[e] = h[x] BY <1>2, <1>3, <3>1, <3>3
    <3>6. PICK V : V = Sent(h, T) OBVIOUS
    <3>7. V \in SUBSET P /\ e \in P \ V BY <1>4, <3>3, <3>4, <3>6
    <3>8. SumFunctionOnSet(p, V \cup {e}) = SumFunctionOnSet(p, V) + p[e]
      <4> HIDE DEF P
      <4>1. QED BY <1>1, <1>3, <3>7, SumOfSet
    <3>9. QED BY <1>6, <2>1, <3>2, <3>5, <3>6, <3>8
  <2>4. QED BY <2>2, <2>3
<1> HIDE DEF Right
<1>7. ASSUME Wrong # {} PROVE FALSE
  <2>1. \A T \in SUBSET S : IsFiniteSet(T) /\ Cardinality(T) \in Nat
    <3>1. \A T \in SUBSET S : IsFiniteSet(T) BY FS_Subset
    <3>2. QED BY <3>1, FS_CardinalityType
  <2>2. N \subseteq Nat /\ N # {} BY <1>7, <2>1
  <2>3. PICK m \in N : \A k \in N : m <= k
    <3> HIDE DEF N
    <3>1. QED BY <2>2, Smallest
  <2>4. PICK T \in SUBSET S : ~Right(T) /\ m = Cardinality(T) OBVIOUS
  <2>5. PICK x \in T : TRUE BY <1>5, <2>4
  <2>6. Cardinality(T) \in Nat /\ Cardinality(T \ {x}) = Cardinality(T) - 1 BY SmallerSet
  <2>7. ~(m <= Cardinality(T \ {x})) BY <2>4, <2>6
  <2>8. Cardinality(T \ {x}) \notin N
    <3> HIDE DEF N
    <3>1. QED BY <2>3, <2>7
  <2>9. T \ {x} \in SUBSET S /\ x \in S \ (T \ {x}) /\ (T \ {x}) \cup {x} = T OBVIOUS
  <2>10. Right(T \ {x}) BY <2>8, <2>9
  <2>11. QED BY <1>6, <2>4, <2>9, <2>10
<1>8. Right(S) BY <1>7
<1>9. SumFunction(p) = SumFunction(h) BY <1>3, <1>8 DEF Right, SumFunction
<1>10. QED BY <1>9 DEF p

-----------------------------------------------------------------------------
(* What a request says.                                                    *)

StatMaps == UNION {[D -> StatType] : D \in SUBSET Nat}

(* Every transaction that a bucket counts is in its histogram.             *)
CountsFit(stat) == stat.TxCount > 0 /\ SumFunction(stat.WaitBlockCount) = stat.TxCount
GoodStats(stats) ==
    stats \in StatMaps /\ IsFiniteSet(DOMAIN stats) /\ \A b \in DOMAIN stats : CountsFit(stats[b])

(* The fields of a map.                                                    *)
LEMMA StatFields ==
    ASSUME NEW stats \in StatMaps
    PROVE  /\ DOMAIN stats \subseteq Nat
           /\ \A b \in DOMAIN stats : stats[b] \in StatType
           /\ \A b : StatAt(stats, b) \in StatType
<1>1. PICK D \in SUBSET Nat : stats \in [D -> StatType] BY DEF StatMaps
<1>2. DOMAIN stats = D /\ \A b \in D : stats[b] \in StatType BY <1>1
<1>3. NoWaits \in StatType BY DEF NoWaits, StatType
<1>4. QED BY <1>2, <1>3 DEF StatAt

(* The sum of two statistics is one.                                       *)
LEMMA PlusType ==
    ASSUME NEW s \in StatType, NEW t \in StatType
    PROVE  /\ Plus(s, t) \in StatType
           /\ Plus(s, t).TxCount = s.TxCount + t.TxCount
           /\ Plus(s, t).TotalWaitBlocks = s.TotalWaitBlocks + t.TotalWaitBlocks
           /\ Plus(s, t).WaitBlockCount = [i \in WaitRange |-> s.WaitBlockCount[i] + t.WaitBlockCount[i]]
<1>1. /\ s.TxCount \in Nat /\ s.TotalWaitBlocks \in Nat /\ s.WaitBlockCount \in [WaitRange -> Nat]
      /\ t.TxCount \in Nat /\ t.TotalWaitBlocks \in Nat /\ t.WaitBlockCount \in [WaitRange -> Nat]
  BY DEF StatType
<1>2. \A i \in WaitRange : s.WaitBlockCount[i] + t.WaitBlockCount[i] \in Nat BY <1>1
<1>3. s.TxCount + t.TxCount \in Nat /\ s.TotalWaitBlocks + t.TotalWaitBlocks \in Nat BY <1>1
<1>4. [i \in WaitRange |-> s.WaitBlockCount[i] + t.WaitBlockCount[i]] \in [WaitRange -> Nat] BY <1>2
<1>5. QED BY <1>3, <1>4 DEF Plus, StatType

(* Nothing added changes nothing.                                          *)
LEMMA PlusNoWaits ==
    ASSUME NEW s \in StatType
    PROVE  Plus(s, NoWaits) = s /\ Plus(NoWaits, s) = s
<1>1. /\ s.TxCount \in Nat /\ s.TotalWaitBlocks \in Nat /\ s.WaitBlockCount \in [WaitRange -> Nat]
      /\ s = [TxCount |-> s.TxCount, TotalWaitBlocks |-> s.TotalWaitBlocks, WaitBlockCount |-> s.WaitBlockCount]
  BY DEF StatType
<1>2. PICK h \in [WaitRange -> Nat] : h = s.WaitBlockCount BY <1>1
<1>3. \A i \in WaitRange : h[i] + 0 = h[i] /\ 0 + h[i] = h[i] BY <1>2
<1>4. [i \in WaitRange |-> h[i] + 0] = h /\ [i \in WaitRange |-> 0 + h[i]] = h BY <1>3
<1>5. PICK z : z = [i \in WaitRange |-> 0] OBVIOUS
<1>6. \A i \in WaitRange : z[i] = 0 BY <1>5
<1>7. [i \in WaitRange |-> h[i] + z[i]] = h /\ [i \in WaitRange |-> z[i] + h[i]] = h BY <1>4, <1>6
<1>8. NoWaits.TxCount = 0 /\ NoWaits.TotalWaitBlocks = 0 /\ NoWaits.WaitBlockCount = z BY <1>5 DEF NoWaits
<1>9. s.TxCount + 0 = s.TxCount /\ 0 + s.TxCount = s.TxCount
  /\ s.TotalWaitBlocks + 0 = s.TotalWaitBlocks /\ 0 + s.TotalWaitBlocks = s.TotalWaitBlocks
  BY <1>1
<1>10. QED BY <1>1, <1>2, <1>7, <1>8, <1>9 DEF Plus

(* A block is added bucket by bucket.                                      *)
LEMMA AddStatsIs ==
    ASSUME NEW block \in StatMaps, NEW stats \in StatMaps
    PROVE  /\ AddStats(block, stats) \in StatMaps
           /\ DOMAIN AddStats(block, stats) = DOMAIN stats \cup DOMAIN block
           /\ \A b : StatAt(AddStats(block, stats), b) = Plus(StatAt(stats, b), StatAt(block, b))
<1> DEFINE D == DOMAIN stats \cup DOMAIN block
           At(b) == IF b \in DOMAIN block THEN Plus(StatAt(stats, b), block[b]) ELSE stats[b]
           sum == AddStats(block, stats)
<1>1. sum = [b \in D |-> At(b)] BY DEF AddStats
<1>2. D \in SUBSET Nat BY StatFields
<1>3. \A b : StatAt(stats, b) \in StatType /\ StatAt(block, b) \in StatType BY StatFields
<1>4. ASSUME NEW b \in D PROVE At(b) = Plus(StatAt(stats, b), StatAt(block, b))
  <2>1. CASE b \in DOMAIN block BY <2>1 DEF StatAt
  <2>2. CASE b \notin DOMAIN block
    <3>1. At(b) = StatAt(stats, b) /\ StatAt(block, b) = NoWaits BY <2>2 DEF StatAt
    <3>2. QED BY <1>3, <3>1, PlusNoWaits
  <2>3. QED BY <2>1, <2>2
<1>5. \A b \in D : At(b) \in StatType
  <2>1. \A b : Plus(StatAt(stats, b), StatAt(block, b)) \in StatType BY <1>3, PlusType
  <2> HIDE DEF At
  <2>2. QED BY <1>4, <2>1
<1>6. ASSUME NEW b, b \notin D PROVE StatAt(sum, b) = Plus(StatAt(stats, b), StatAt(block, b))
  <2>1. StatAt(sum, b) = NoWaits /\ StatAt(stats, b) = NoWaits /\ StatAt(block, b) = NoWaits
    BY <1>1, <1>6 DEF StatAt
  <2>2. QED BY <1>3, <2>1, PlusNoWaits
<1>7. \A b \in D : StatAt(sum, b) = At(b) BY <1>1 DEF StatAt
<1>8. DOMAIN sum = D /\ sum \in [D -> StatType] BY <1>1, <1>5
<1>9. sum \in StatMaps BY <1>2, <1>8 DEF StatMaps
<1> HIDE DEF sum, At
<1>10. QED BY <1>4, <1>6, <1>7, <1>8, <1>9 DEF sum

(* The maps after each block.                                              *)
LEMMA AddedUpIs ==
    ASSUME NEW list \in Seq(StatMaps)
    PROVE  /\ AddedUp(list)[0] = EmptyMap /\ EmptyMap \in StatMaps
           /\ \A i \in 1 .. Len(list) : AddedUp(list)[i] = AddStats(list[i], AddedUp(list)[i - 1])
           /\ \A i \in 0 .. Len(list) : AddedUp(list)[i] \in StatMaps
<1> DEFINE n == Len(list)
           F == [p \in Nat \X StatMaps |-> IF p[1] \in 1 .. n THEN AddStats(list[p[1]], p[2]) ELSE EmptyMap]
           Loop(g) == [i \in 0 .. n |-> IF i = 0 THEN EmptyMap ELSE AddStats(list[i], g[i - 1])]
<1>1. n \in Nat /\ \A i \in 1 .. n : list[i] \in StatMaps OBVIOUS
<1>2. EmptyMap \in StatMaps
  <2>1. EmptyMap \in [{} -> StatType] BY DEF EmptyMap
  <2>2. {} \in SUBSET Nat OBVIOUS
  <2>3. QED BY <2>1, <2>2 DEF StatMaps
<1> HIDE DEF n
<1>3. F \in [Nat \X StatMaps -> StatMaps]
  <2>1. ASSUME NEW p \in Nat \X StatMaps
        PROVE  (IF p[1] \in 1 .. n THEN AddStats(list[p[1]], p[2]) ELSE EmptyMap) \in StatMaps
    <3>1. p[2] \in StatMaps OBVIOUS
    <3>2. CASE p[1] \in 1 .. n
      <4>1. list[p[1]] \in StatMaps BY <1>1, <3>2
      <4>2. AddStats(list[p[1]], p[2]) \in StatMaps BY <3>1, <4>1, AddStatsIs
      <4>3. QED BY <3>2, <4>2
    <3>3. QED BY <1>2, <3>2
  <2>2. QED BY <2>1
<1>4. PICK g : Iterates(g, StatMaps, EmptyMap, F, 0, n)
  <2>1. 0 \in Nat /\ 0 <= n BY <1>1
  <2> HIDE DEF F
  <2>2. QED BY <1>1, <1>2, <1>3, <2>1, IteratesExist, Zenon
<1>5. g = Loop(g)
  <2>1. ASSUME NEW i \in 0 .. n PROVE g[i] = IF i = 0 THEN EmptyMap ELSE AddStats(list[i], g[i - 1])
    <3>1. CASE i = 0 BY <1>4, <3>1 DEF Iterates
    <3>2. CASE i # 0
      <4>1. i \in 1 .. n /\ i \in 0 + 1 .. n /\ i - 1 \in 0 .. n /\ i \in Nat BY <1>1, <3>2
      <4>2. g[i] = F[<<i, g[i - 1]>>] /\ g[i - 1] \in StatMaps
        <5> HIDE DEF F
        <5>1. QED BY <1>4, <4>1 DEF Iterates
      <4>3. <<i, g[i - 1]>> \in Nat \X StatMaps BY <4>1, <4>2
      <4>4. F[<<i, g[i - 1]>>] = AddStats(list[i], g[i - 1]) BY <4>1, <4>3
      <4>5. QED BY <3>2, <4>2, <4>4
    <3>3. QED BY <3>1, <3>2
  <2>2. g = [i \in 0 .. n |-> g[i]]
    <3> HIDE DEF F
    <3>1. QED BY <1>4 DEF Iterates
  <2>3. QED BY <2>1, <2>2
<1> DEFINE c == AddedUp(list)
<1>6. c = Loop(c)
  <2>1. \E h : h = Loop(h) BY <1>5
  <2>2. c = CHOOSE h : h = Loop(h) BY DEF AddedUp, n
  <2> HIDE DEF c, Loop
  <2>3. QED BY <2>1, <2>2
<1> HIDE DEF c
<1>7. c[0] = EmptyMap /\ \A i \in 1 .. n : c[i] = AddStats(list[i], c[i - 1]) BY <1>1, <1>6
<1> DEFINE T == {i \in 0 .. n : c[i] \notin StatMaps}
<1>8. ASSUME T # {} PROVE FALSE
  <2>1. PICK m \in T : \A k \in T : m <= k
    <3>1. T \subseteq Nat OBVIOUS
    <3> HIDE DEF T
    <3>2. QED BY <1>8, <3>1, Smallest
  <2>2. m \in 0 .. n /\ c[m] \notin StatMaps OBVIOUS
  <2>3. m # 0 BY <1>2, <1>7, <2>2
  <2>4. m \in 1 .. n /\ m - 1 \in 0 .. n /\ ~(m <= m - 1) BY <1>1, <2>2, <2>3
  <2>5. m - 1 \notin T
    <3> HIDE DEF T
    <3>1. QED BY <2>1, <2>4
  <2>6. c[m - 1] \in StatMaps BY <2>4, <2>5
  <2>7. QED BY <1>1, <1>7, <2>2, <2>4, <2>6, AddStatsIs
<1>9. \A i \in 0 .. n : c[i] \in StatMaps BY <1>8
<1>10. QED BY <1>2, <1>7, <1>9 DEF c, n

-----------------------------------------------------------------------------

(* The numbers of a bucket in every map of a list.                         *)
Counts(list, b) == [k \in 1 .. Len(list) |-> StatAt(list[k], b).TxCount]
Waits(list, b) == [k \in 1 .. Len(list) |-> StatAt(list[k], b).TotalWaitBlocks]
Slots(list, b, j) == [k \in 1 .. Len(list) |-> StatAt(list[k], b).WaitBlockCount[j]]

(* They are natural numbers.                                               *)
LEMMA NumbersType ==
    ASSUME NEW list \in Seq(StatMaps), NEW b
    PROVE  /\ Counts(list, b) \in [Places(Len(list)) -> Nat]
           /\ Waits(list, b) \in [Places(Len(list)) -> Nat]
           /\ \A j \in WaitRange : Slots(list, b, j) \in [Places(Len(list)) -> Nat]
<1>1. \A k \in 1 .. Len(list) : list[k] \in StatMaps OBVIOUS
<1>2. \A k \in 1 .. Len(list) : StatAt(list[k], b) \in StatType BY <1>1, StatFields
<1>3. \A s \in StatType : s.TxCount \in Nat /\ s.TotalWaitBlocks \in Nat /\ \A j \in WaitRange : s.WaitBlockCount[j] \in Nat
  BY DEF StatType
<1>4. \A k \in 1 .. Len(list) : /\ StatAt(list[k], b).TxCount \in Nat
                                /\ StatAt(list[k], b).TotalWaitBlocks \in Nat
                                /\ \A j \in WaitRange : StatAt(list[k], b).WaitBlockCount[j] \in Nat
  BY <1>2, <1>3
<1>5. QED BY <1>4 DEF Counts, Waits, Slots, Places

(* The totals of a bucket are the sums over the list.                      *)
LEMMA TotalsAre ==
    ASSUME NEW list \in Seq(StatMaps), NEW b
    PROVE  LET total == StatAt(aggregateFeeBucket(list), b)
           IN /\ total.TxCount = SumFunction(Counts(list, b))
              /\ total.TotalWaitBlocks = SumFunction(Waits(list, b))
              /\ \A j \in WaitRange : total.WaitBlockCount[j] = SumFunction(Slots(list, b, j))
<1>1. PICK n \in Nat : n = Len(list) OBVIOUS
<1>2. PICK m : m = AddedUp(list) OBVIOUS
<1> DEFINE s == [i \in 0 .. n |-> StatAt(m[i], b)]
<1>3. /\ m[0] = EmptyMap
      /\ \A i \in 1 .. n : m[i] = AddStats(list[i], m[i - 1]) /\ list[i] \in StatMaps
      /\ \A i \in 0 .. n : m[i] \in StatMaps
  BY <1>1, <1>2, AddedUpIs
<1>4. \A i \in 0 .. n : s[i] = StatAt(m[i], b) /\ s[i] \in StatType BY <1>3, StatFields
<1>5. s[0] = NoWaits BY <1>3 DEF StatAt, EmptyMap
<1> HIDE DEF s
<1>6. ASSUME NEW i \in 1 .. n
      PROVE  /\ s[i].TxCount = s[i - 1].TxCount + StatAt(list[i], b).TxCount
             /\ s[i].TotalWaitBlocks = s[i - 1].TotalWaitBlocks + StatAt(list[i], b).TotalWaitBlocks
             /\ \A j \in WaitRange :
                   s[i].WaitBlockCount[j] = s[i - 1].WaitBlockCount[j] + StatAt(list[i], b).WaitBlockCount[j]
  <2>1. i \in 0 .. n /\ i - 1 \in 0 .. n BY <1>1
  <2>2. PICK old : old = m[i - 1] /\ old \in StatMaps BY <1>3, <2>1
  <2>3. PICK block : block = list[i] /\ block \in StatMaps BY <1>3
  <2>4. m[i] = AddStats(block, old) BY <1>3, <2>2, <2>3
  <2>5. StatAt(m[i], b) = Plus(StatAt(old, b), StatAt(block, b))
    <3>1. \A c : StatAt(AddStats(block, old), c) = Plus(StatAt(old, c), StatAt(block, c))
      BY <2>2, <2>3, AddStatsIs
    <3>2. QED BY <2>4, <3>1
  <2>6. s[i] = Plus(s[i - 1], StatAt(block, b)) BY <1>4, <2>1, <2>2, <2>5
  <2>7. s[i - 1] \in StatType /\ StatAt(block, b) \in StatType BY <1>4, <2>1, <2>3, StatFields
  <2>8. PICK x \in StatType : x = s[i - 1] BY <2>7
  <2>9. PICK y \in StatType : y = StatAt(list[i], b) BY <2>3, <2>7
  <2>10. s[i] = Plus(x, y) BY <2>3, <2>6, <2>8, <2>9
  <2>11. /\ s[i].TxCount = x.TxCount + y.TxCount
         /\ s[i].TotalWaitBlocks = x.TotalWaitBlocks + y.TotalWaitBlocks
         /\ s[i].WaitBlockCount = [j \in WaitRange |-> x.WaitBlockCount[j] + y.WaitBlockCount[j]]
    BY <2>10, PlusType
  <2>12. \A j \in WaitRange : s[i].WaitBlockCount[j] = x.WaitBlockCount[j] + y.WaitBlockCount[j] BY <2>11
  <2>13. QED BY <2>8, <2>9, <2>11, <2>12
<1>7. n \in 0 .. n /\ 0 \in 0 .. n BY <1>1
<1>8. s[n].TxCount = SumFunction(Counts(list, b))
  <2>1. PICK w \in [Places(n) -> Nat] : w = Counts(list, b) BY <1>1, NumbersType
  <2>2. PICK c : c = [i \in 0 .. n |-> s[i].TxCount] OBVIOUS
  <2>3. c[0] = 0 BY <1>5, <1>7, <2>2 DEF NoWaits
  <2>4. ASSUME NEW i \in 1 .. n PROVE c[i] = c[i - 1] + w[i]
    <3>1. i \in 0 .. n /\ i - 1 \in 0 .. n BY <1>1
    <3>2. c[i] = s[i].TxCount /\ c[i - 1] = s[i - 1].TxCount BY <2>2, <3>1
    <3>3. w[i] = StatAt(list[i], b).TxCount BY <1>1, <2>1 DEF Counts
    <3>4. QED BY <1>6, <3>2, <3>3
  <2>5. c[n] = SumFunctionOnSet(w, 1 .. n) BY <1>7, <2>3, <2>4, SumsOfList
  <2>6. DOMAIN w = 1 .. n BY <2>1 DEF Places
  <2>7. c[n] = s[n].TxCount BY <1>7, <2>2
  <2>8. QED BY <2>1, <2>5, <2>6, <2>7 DEF SumFunction
<1>9. s[n].TotalWaitBlocks = SumFunction(Waits(list, b))
  <2>1. PICK w \in [Places(n) -> Nat] : w = Waits(list, b) BY <1>1, NumbersType
  <2>2. PICK c : c = [i \in 0 .. n |-> s[i].TotalWaitBlocks] OBVIOUS
  <2>3. c[0] = 0 BY <1>5, <1>7, <2>2 DEF NoWaits
  <2>4. ASSUME NEW i \in 1 .. n PROVE c[i] = c[i - 1] + w[i]
    <3>1. i \in 0 .. n /\ i - 1 \in 0 .. n BY <1>1
    <3>2. c[i] = s[i].TotalWaitBlocks /\ c[i - 1] = s[i - 1].TotalWaitBlocks BY <2>2, <3>1
    <3>3. w[i] = StatAt(list[i], b).TotalWaitBlocks BY <1>1, <2>1 DEF Waits
    <3>4. QED BY <1>6, <3>2, <3>3
  <2>5. c[n] = SumFunctionOnSet(w, 1 .. n) BY <1>7, <2>3, <2>4, SumsOfList
  <2>6. DOMAIN w = 1 .. n BY <2>1 DEF Places
  <2>7. c[n] = s[n].TotalWaitBlocks BY <1>7, <2>2
  <2>8. QED BY <2>1, <2>5, <2>6, <2>7 DEF SumFunction
<1>10. ASSUME NEW j \in WaitRange PROVE s[n].WaitBlockCount[j] = SumFunction(Slots(list, b, j))
  <2>1. PICK w \in [Places(n) -> Nat] : w = Slots(list, b, j) BY <1>1, NumbersType
  <2>2. PICK c : c = [i \in 0 .. n |-> s[i].WaitBlockCount[j]] OBVIOUS
  <2>3. c[0] = 0 BY <1>5, <1>7, <2>2 DEF NoWaits
  <2>4. ASSUME NEW i \in 1 .. n PROVE c[i] = c[i - 1] + w[i]
    <3>1. i \in 0 .. n /\ i - 1 \in 0 .. n BY <1>1
    <3>2. c[i] = s[i].WaitBlockCount[j] /\ c[i - 1] = s[i - 1].WaitBlockCount[j] BY <2>2, <3>1
    <3>3. w[i] = StatAt(list[i], b).WaitBlockCount[j] BY <1>1, <2>1 DEF Slots
    <3>4. QED BY <1>6, <3>2, <3>3
  <2>5. c[n] = SumFunctionOnSet(w, 1 .. n) BY <1>7, <2>3, <2>4, SumsOfList
  <2>6. DOMAIN w = 1 .. n BY <2>1 DEF Places
  <2>7. c[n] = s[n].WaitBlockCount[j] BY <1>7, <2>2
  <2>8. QED BY <2>1, <2>5, <2>6, <2>7 DEF SumFunction
<1>11. StatAt(aggregateFeeBucket(list), b) = s[n] BY <1>1, <1>2, <1>4, <1>7 DEF aggregateFeeBucket
<1>12. QED BY <1>8, <1>9, <1>10, <1>11

(* Counts that fit their histogram still do when they are added up.        *)
LEMMA PlusFits ==
    ASSUME NEW s \in StatType, CountsFit(s), NEW t \in StatType, CountsFit(t)
    PROVE  CountsFit(Plus(s, t))
<1>1. /\ s.TxCount \in Nat /\ t.TxCount \in Nat
      /\ s.WaitBlockCount \in [WaitRange -> Nat] /\ t.WaitBlockCount \in [WaitRange -> Nat]
  BY DEF StatType
<1>2. IsFiniteSet(WaitRange)
  <2>1. 0 \in Int /\ MaxWaitBlock \in Int BY StatisticsAssumption
  <2>2. QED BY <2>1, FS_Interval DEF WaitRange
<1>3. PICK u \in [WaitRange -> Nat] : u = s.WaitBlockCount BY <1>1
<1>4. PICK v \in [WaitRange -> Nat] : v = t.WaitBlockCount BY <1>1
<1>5. SumFunction([i \in WaitRange |-> u[i] + v[i]]) = SumFunction(u) + SumFunction(v) BY <1>2, SumOfPlus
<1>6. Plus(s, t).TxCount = s.TxCount + t.TxCount /\ Plus(s, t).WaitBlockCount = [i \in WaitRange |-> u[i] + v[i]]
  BY <1>3, <1>4, PlusType
<1>7. SumFunction(u) = s.TxCount /\ SumFunction(v) = t.TxCount /\ s.TxCount > 0 /\ t.TxCount > 0
  BY <1>3, <1>4 DEF CountsFit
<1>8. QED BY <1>1, <1>5, <1>6, <1>7 DEF CountsFit

(* So they do in every map.                                                *)
LEMMA AddStatsGood ==
    ASSUME NEW block, GoodStats(block), NEW stats, GoodStats(stats)
    PROVE  GoodStats(AddStats(block, stats))
<1>1. block \in StatMaps /\ stats \in StatMaps BY DEF GoodStats
<1>2. PICK sum : sum = AddStats(block, stats) OBVIOUS
<1>3. sum \in StatMaps /\ DOMAIN sum = DOMAIN stats \cup DOMAIN block BY <1>1, <1>2, AddStatsIs
<1>4. IsFiniteSet(DOMAIN sum)
  <2>1. IsFiniteSet(DOMAIN stats) /\ IsFiniteSet(DOMAIN block) BY DEF GoodStats
  <2>2. QED BY <1>3, <2>1, FS_Union
<1>5. ASSUME NEW b \in DOMAIN sum PROVE CountsFit(sum[b])
  <2>1. CASE b \notin DOMAIN block
    <3>1. sum[b] = stats[b] /\ b \in DOMAIN stats BY <1>2, <1>3, <2>1 DEF AddStats
    <3>2. QED BY <3>1 DEF GoodStats
  <2>2. CASE b \in DOMAIN block /\ b \notin DOMAIN stats
    <3>1. sum[b] = Plus(NoWaits, block[b]) BY <1>2, <2>2 DEF AddStats, StatAt
    <3>2. block[b] \in StatType BY <1>1, <2>2, StatFields
    <3>3. sum[b] = block[b] BY <3>1, <3>2, PlusNoWaits
    <3>4. QED BY <2>2, <3>3 DEF GoodStats
  <2>3. CASE b \in DOMAIN block /\ b \in DOMAIN stats
    <3>1. sum[b] = Plus(stats[b], block[b]) BY <1>2, <2>3 DEF AddStats, StatAt
    <3>2. block[b] \in StatType /\ stats[b] \in StatType BY <1>1, <2>3, StatFields
    <3>3. CountsFit(block[b]) /\ CountsFit(stats[b]) BY <2>3 DEF GoodStats
    <3>4. QED BY <3>1, <3>2, <3>3, PlusFits
  <2>4. QED BY <2>1, <2>2, <2>3
<1>6. QED BY <1>2, <1>3, <1>4, <1>5 DEF GoodStats

(* The buckets in some of the maps of a list.                              *)
BucketsIn(list, P) == UNION {DOMAIN list[k] : k \in P}

(* One map more adds its own.                                              *)
LEMMA OneMoreMap ==
    ASSUME NEW list, NEW P, NEW Q, NEW x, \A k : k \in P <=> k \in Q \/ k = x
    PROVE  BucketsIn(list, P) = BucketsIn(list, Q) \cup DOMAIN list[x]
<1>1. \A y : y \in BucketsIn(list, P) <=> \E k \in P : y \in DOMAIN list[k] BY DEF BucketsIn
<1>2. \A y : y \in BucketsIn(list, Q) <=> \E k \in Q : y \in DOMAIN list[k] BY DEF BucketsIn
<1>3. \A y : y \in BucketsIn(list, P) <=> y \in BucketsIn(list, Q) \/ y \in DOMAIN list[x]
  BY <1>1, <1>2, Zenon
<1>4. QED BY <1>3

(* What aggregateFeeBucket returns: exactly the buckets of the list, with  *)
(* histograms that add up.                                                 *)
LEMMA AggregateGood ==
    ASSUME NEW list \in Seq(StatMaps), \A k \in 1 .. Len(list) : GoodStats(list[k])
    PROVE  /\ GoodStats(aggregateFeeBucket(list))
           /\ DOMAIN aggregateFeeBucket(list) = BucketsIn(list, 1 .. Len(list))
<1>1. PICK n \in Nat : n = Len(list) OBVIOUS
<1>2. PICK m : m = AddedUp(list) OBVIOUS
<1>3. /\ m[0] = EmptyMap /\ EmptyMap \in StatMaps
      /\ \A i \in 1 .. n : m[i] = AddStats(list[i], m[i - 1]) /\ list[i] \in StatMaps
      /\ \A i \in 0 .. n : m[i] \in StatMaps
  BY <1>1, <1>2, AddedUpIs
<1> DEFINE Right(i) == GoodStats(m[i]) /\ DOMAIN m[i] = BucketsIn(list, 1 .. i)
           T == {i \in 0 .. n : ~Right(i)}
<1>4. Right(0)
  <2>1. DOMAIN m[0] = {} BY <1>3 DEF EmptyMap
  <2>2. IsFiniteSet(DOMAIN m[0]) BY <2>1, FS_EmptySet
  <2>3. GoodStats(m[0]) BY <1>3, <2>1, <2>2 DEF GoodStats
  <2>4. 1 .. 0 = {} OBVIOUS
  <2>5. QED BY <2>1, <2>3, <2>4 DEF BucketsIn
<1>5. ASSUME NEW i \in 1 .. n, Right(i - 1) PROVE Right(i)
  <2>1. i - 1 \in 0 .. n BY <1>1
  <2>2. PICK old : old = m[i - 1] /\ old \in StatMaps BY <1>3, <2>1
  <2>3. PICK block : block = list[i] /\ block \in StatMaps BY <1>3
  <2>4. m[i] = AddStats(block, old) BY <1>3, <2>2, <2>3
  <2>5. GoodStats(m[i])
    <3>1. GoodStats(block) /\ GoodStats(old) BY <1>1, <1>5, <2>2, <2>3
    <3>2. QED BY <2>4, <3>1, AddStatsGood
  <2>6. DOMAIN m[i] = DOMAIN old \cup DOMAIN block BY <2>2, <2>3, <2>4, AddStatsIs
  <2>7. DOMAIN old = BucketsIn(list, 1 .. i - 1) BY <1>5, <2>2
  <2>8. BucketsIn(list, 1 .. i) = BucketsIn(list, 1 .. i - 1) \cup DOMAIN list[i]
    <3>1. PICK P : P = 1 .. i OBVIOUS
    <3>2. PICK Q : Q = 1 .. i - 1 OBVIOUS
    <3>3. PICK x : x = i OBVIOUS
    <3>4. \A k : k \in P <=> k \in Q \/ k = x BY <3>1, <3>2, <3>3
    <3>5. BucketsIn(list, P) = BucketsIn(list, Q) \cup DOMAIN list[x] BY <3>4, OneMoreMap
    <3>6. QED BY <3>1, <3>2, <3>3, <3>5
  <2>9. DOMAIN m[i] = BucketsIn(list, 1 .. i) BY <2>3, <2>6, <2>7, <2>8
  <2>10. QED BY <2>5, <2>9
<1> HIDE DEF Right
<1>6. ASSUME T # {} PROVE FALSE
  <2>1. PICK j \in T : \A k \in T : j <= k
    <3>1. T \subseteq Nat OBVIOUS
    <3> HIDE DEF T
    <3>2. QED BY <1>6, <3>1, Smallest
  <2>2. j \in 0 .. n /\ ~Right(j) OBVIOUS
  <2>3. j # 0 BY <1>4, <2>2
  <2>4. j \in 1 .. n /\ j - 1 \in 0 .. n /\ ~(j <= j - 1) BY <2>2, <2>3
  <2>5. j - 1 \notin T
    <3> HIDE DEF T
    <3>1. QED BY <2>1, <2>4
  <2>6. Right(j - 1) BY <2>4, <2>5
  <2>7. QED BY <1>5, <2>2, <2>4, <2>6
<1>7. Right(n)
  <2>1. n \in 0 .. n BY <1>1
  <2>2. QED BY <1>6, <2>1
<1>8. QED BY <1>1, <1>2, <1>7 DEF Right, aggregateFeeBucket

-----------------------------------------------------------------------------

Sorted(s) == \A i, j \in DOMAIN s : i < j => s[i] < s[j]

(* Any finite set of numbers can be sorted: like the tips above.           *)
LEMMA SortingExists ==
    ASSUME NEW S \in SUBSET Nat, IsFiniteSet(S)
    PROVE  \E s \in [1 .. Cardinality(S) -> S] : Sorted(s)
<1>1. PICK q : q = SetToSeq(S) OBVIOUS
<1>2. PICK n \in Nat : n = Len(q) /\ q \in Bijection(1 .. n, S)
  <2>1. q \in Seq(S) /\ q \in Bijection(1 .. Len(q), S) BY <1>1, ListOfSet
  <2>2. QED BY <2>1
<1>3. q \in [1 .. n -> S] /\ \A i, j \in 1 .. n : q[i] = q[j] => i = j
  BY <1>2 DEF Bijection, Injection, IsInjective
<1>4. n = Cardinality(S)
  <2>1. IsFiniteSet(1 .. n) /\ Cardinality(1 .. n) = n
    <3>1. IsFiniteSet(1 .. n) /\ Cardinality(1 .. n) = IF 1 > n THEN 0 ELSE n - 1 + 1 BY FS_Interval
    <3>2. QED BY <3>1
  <2>2. ExistsBijection(1 .. n, S) BY <1>2 DEF ExistsBijection
  <2>3. Cardinality(1 .. n) = Cardinality(S) BY <2>1, <2>2, FS_Bijection
  <2>4. QED BY <2>1, <2>3
<1>5. PICK d : d = [i \in 1 .. n |-> [Tip |-> q[i], Weight |-> 0]] OBVIOUS
<1>6. d \in Seq(Tips) /\ Len(d) = n
  <2>1. \A i \in 1 .. n : q[i] \in Nat BY <1>3
  <2>2. \A i \in 1 .. n : [Tip |-> q[i], Weight |-> 0] \in Tips BY <2>1 DEF Tips
  <2>3. QED BY <1>5, <2>2
<1>7. PICK at \in Bijection(1 .. n, 1 .. n) : SortedByTip(d) = [r \in 1 .. n |-> d[at[r]]] BY <1>6, Sorts
<1>8. TipsRise(SortedByTip(d)) /\ Len(SortedByTip(d)) = n BY <1>6, Sorts
<1>9. at \in [1 .. n -> 1 .. n] /\ \A i, j \in 1 .. n : at[i] = at[j] => i = j
  BY <1>7 DEF Bijection, Injection, IsInjective
<1>10. PICK s : s = [r \in 1 .. n |-> q[at[r]]] OBVIOUS
<1>11. s \in [1 .. n -> S] BY <1>3, <1>9, <1>10
<1>12. ASSUME NEW i \in 1 .. n, NEW j \in 1 .. n, i < j PROVE s[i] < s[j]
  <2>1. PICK k \in 1 .. n : k = at[i] BY <1>9
  <2>2. PICK l \in 1 .. n : l = at[j] BY <1>9
  <2>3. s[i] = q[k] /\ s[j] = q[l] BY <1>10, <2>1, <2>2
  <2>4. PICK e : e = SortedByTip(d) OBVIOUS
  <2>5. e[i] = d[k] /\ e[j] = d[l] BY <1>7, <2>1, <2>2, <2>4
  <2>6. e[i].Tip <= e[j].Tip BY <1>8, <1>12, <2>4 DEF TipsRise
  <2>7. d[k].Tip = q[k] /\ d[l].Tip = q[l] BY <1>5
  <2>8. k # l BY <1>9, <1>12, <2>1, <2>2
  <2>9. q[k] # q[l] BY <1>3, <2>8
  <2>10. q[k] \in Nat /\ q[l] \in Nat BY <1>3
  <2>11. q[k] <= q[l] BY <2>5, <2>6, <2>7
  <2>12. QED BY <2>3, <2>9, <2>10, <2>11
<1>13. Sorted(s) BY <1>11, <1>12 DEF Sorted
<1>14. QED BY <1>4, <1>11, <1>13

(* SortedBuckets lists the set in order.                                   *)
LEMMA SortedBucketsList ==
    ASSUME NEW S \in SUBSET Nat, IsFiniteSet(S)
    PROVE  LET s == SortedBuckets(S)
           IN Sorted(s) /\ s \in [DOMAIN s -> S] /\ {s[i] : i \in DOMAIN s} = S /\ DOMAIN s \subseteq Nat
<1>1. PICK s : s = SortedBuckets(S) OBVIOUS
<1>2. PICK n \in Nat : n = Cardinality(S) BY FS_CardinalityType
<1>3. s \in [1 .. n -> S] /\ Sorted(s)
  <2>1. \E t \in [1 .. n -> S] : \A i, j \in DOMAIN t : i < j => t[i] < t[j]
    BY <1>2, SortingExists DEF Sorted
  <2>2. s = CHOOSE t \in [1 .. n -> S] : \A i, j \in DOMAIN t : i < j => t[i] < t[j]
    BY <1>1, <1>2 DEF SortedBuckets
  <2>3. s \in [1 .. n -> S] /\ \A i, j \in DOMAIN s : i < j => s[i] < s[j] BY <2>1, <2>2
  <2>4. QED BY <2>3 DEF Sorted
<1>4. DOMAIN s = 1 .. n BY <1>3
<1>5. \A i, j \in 1 .. n : s[i] = s[j] => i = j
  <2>1. SUFFICES ASSUME NEW i \in 1 .. n, NEW j \in 1 .. n, s[i] = s[j] PROVE i = j OBVIOUS
  <2>2. s[i] \in Nat /\ s[j] \in Nat BY <1>3
  <2>3. ~(s[i] < s[j]) /\ ~(s[j] < s[i]) BY <2>1, <2>2
  <2>4. ~(i < j) /\ ~(j < i) BY <1>3, <1>4, <2>3 DEF Sorted
  <2>5. QED BY <2>4
<1>6. s \in Surjection(1 .. n, S)
  <2>1. s \in Injection(1 .. n, S) BY <1>3, <1>5 DEF Injection, IsInjective
  <2>2. Cardinality(1 .. n) = n
    <3>1. Cardinality(1 .. n) = IF 1 > n THEN 0 ELSE n - 1 + 1 BY FS_Interval
    <3>2. QED BY <3>1
  <2>3. QED BY <1>2, <2>1, <2>2, FS_Injection
<1>7. \A x \in S : \E i \in 1 .. n : s[i] = x BY <1>6 DEF Surjection
<1>8. {s[i] : i \in 1 .. n} = S BY <1>3, <1>7
<1>9. QED BY <1>1, <1>3, <1>4, <1>8

(* The messages of a request.                                              *)
LEMMA MessagesAre ==
    ASSUME NEW stats, GoodStats(stats)
    PROVE  LET r == convertFeeBucketToProto(stats)
           IN /\ {r[i].Bucket : i \in DOMAIN r} = DOMAIN stats
              /\ \A i, j \in DOMAIN r : i < j => r[i].Bucket < r[j].Bucket
              /\ \A i \in DOMAIN r : r[i].Bucket \in DOMAIN stats /\ r[i] = FeeBucket(r[i].Bucket, stats[r[i].Bucket])
<1>1. PICK r : r = convertFeeBucketToProto(stats) OBVIOUS
<1>2. PICK D : D = DOMAIN stats /\ D \in SUBSET Nat /\ IsFiniteSet(D) BY StatFields DEF GoodStats
<1>3. {b \in DOMAIN stats : stats[b].TxCount # 0} = D
  <2>1. \A b \in D : stats[b] \in StatType BY <1>2, StatFields DEF GoodStats
  <2>2. \A b \in D : stats[b].TxCount \in Nat /\ stats[b].TxCount > 0 BY <1>2, <2>1 DEF GoodStats, CountsFit, StatType
  <2>3. QED BY <1>2, <2>2
<1>4. PICK s : s = SortedBuckets(D) OBVIOUS
<1>5. Sorted(s) /\ s \in [DOMAIN s -> D] /\ {s[i] : i \in DOMAIN s} = D BY <1>2, <1>4, SortedBucketsList
<1>6. r = [i \in DOMAIN s |-> FeeBucket(s[i], stats[s[i]])] BY <1>1, <1>3, <1>4 DEF convertFeeBucketToProto
<1>7. DOMAIN r = DOMAIN s BY <1>6
<1>8. \A b, stat : FeeBucket(b, stat).Bucket = b BY DEF FeeBucket
<1>9. \A i \in DOMAIN r : r[i] = FeeBucket(s[i], stats[s[i]]) /\ r[i].Bucket = s[i] BY <1>6, <1>7, <1>8
<1>10. {r[i].Bucket : i \in DOMAIN r} = D BY <1>5, <1>7, <1>9
<1>11. \A i, j \in DOMAIN r : i < j => r[i].Bucket < r[j].Bucket BY <1>5, <1>7, <1>9 DEF Sorted
<1>12. \A i \in DOMAIN r : r[i].Bucket \in D /\ r[i] = FeeBucket(r[i].Bucket, stats[r[i].Bucket]) BY <1>5, <1>7, <1>9
<1>13. QED BY <1>1, <1>2, <1>10, <1>11, <1>12

-----------------------------------------------------------------------------

(* The statistics a block may have are those of a map.                     *)
LEMMA RecordedStats ==
    ASSUME NEW e \in Entries
    PROVE  GoodStats(e.Stats)
<1>1. e.Stats = EmptyMap \/ \E content \in SUBSET Tx : e.Stats = StatsOf[content] BY DEF Entries
<1>2. CASE e.Stats = EmptyMap
  <2>1. DOMAIN EmptyMap = {} /\ EmptyMap \in [{} -> StatType] BY DEF EmptyMap
  <2>2. {} \in SUBSET Nat /\ IsFiniteSet({}) BY FS_EmptySet
  <2>3. EmptyMap \in StatMaps BY <2>1, <2>2 DEF StatMaps
  <2>4. QED BY <1>2, <2>1, <2>2, <2>3 DEF GoodStats
<1>3. CASE \E content \in SUBSET Tx : e.Stats = StatsOf[content]
  <2>1. PICK content \in SUBSET Tx : e.Stats = StatsOf[content] BY <1>3
  <2>2. PICK m : m = StatsOf[content] OBVIOUS
  <2>3. /\ IsMap(m, Nat, StatType) /\ IsFiniteSet(DOMAIN m)
        /\ \A b \in DOMAIN m : m[b].TxCount > 0 /\ SumFunction(m[b].WaitBlockCount) = m[b].TxCount
    BY <2>2, FeeAnalysisAssumption
  <2>4. m \in StatMaps BY <2>3 DEF IsMap, StatMaps
  <2>5. QED BY <2>1, <2>2, <2>3, <2>4 DEF GoodStats, CountsFit
<1>4. QED BY <1>1, <1>2, <1>3

(* What a request has to say of the blocks it is about.                    *)
SumsOf(r, list) ==
    /\ {r[i].Bucket : i \in DOMAIN r} = BucketsIn(list, 1 .. Len(list))
    /\ \A i, j \in DOMAIN r : i < j => r[i].Bucket < r[j].Bucket
    /\ \A i \in DOMAIN r :
          LET count == SumFunction(Counts(list, r[i].Bucket))
              waits == SumFunction(Waits(list, r[i].Bucket))
          IN /\ r[i].TotalTxCount = count /\ r[i].AvrWaitBlocks = <<waits, count>>
             /\ SumFunction([w \in r[i].WaitBlockCount |-> w[2]]) = count
             /\ \A w \in r[i].WaitBlockCount : w[2] = SumFunction(Slots(list, r[i].Bucket, w[1]))

(* It does.                                                                *)
LEMMA RequestSums ==
    ASSUME NEW list \in Seq(StatMaps), \A k \in 1 .. Len(list) : GoodStats(list[k])
    PROVE  SumsOf(convertFeeBucketToProto(aggregateFeeBucket(list)), list)
<1>1. PICK stats : stats = aggregateFeeBucket(list) OBVIOUS
<1>2. PICK r : r = convertFeeBucketToProto(stats) OBVIOUS
<1>3. GoodStats(stats) /\ DOMAIN stats = BucketsIn(list, 1 .. Len(list)) BY <1>1, AggregateGood
<1>4. /\ {r[i].Bucket : i \in DOMAIN r} = DOMAIN stats
      /\ \A i, j \in DOMAIN r : i < j => r[i].Bucket < r[j].Bucket
      /\ \A i \in DOMAIN r : r[i].Bucket \in DOMAIN stats /\ r[i] = FeeBucket(r[i].Bucket, stats[r[i].Bucket])
  BY <1>2, <1>3, MessagesAre
<1>5. IsFiniteSet(WaitRange)
  <2>1. 0 \in Int /\ MaxWaitBlock \in Int BY StatisticsAssumption
  <2>2. QED BY <2>1, FS_Interval DEF WaitRange
<1>6. ASSUME NEW i \in DOMAIN r
      PROVE  LET count == SumFunction(Counts(list, r[i].Bucket))
                 waits == SumFunction(Waits(list, r[i].Bucket))
             IN /\ r[i].TotalTxCount = count /\ r[i].AvrWaitBlocks = <<waits, count>>
                /\ SumFunction([w \in r[i].WaitBlockCount |-> w[2]]) = count
                /\ \A w \in r[i].WaitBlockCount : w[2] = SumFunction(Slots(list, r[i].Bucket, w[1]))
  <2>1. PICK b : b = r[i].Bucket /\ b \in DOMAIN stats BY <1>4
  <2>2. PICK s : s = stats[b] /\ s \in StatType /\ CountsFit(s) BY <1>3, <2>1, StatFields DEF GoodStats
  <2>3. StatAt(stats, b) = s BY <2>1, <2>2 DEF StatAt
  <2>4. /\ s.TxCount = SumFunction(Counts(list, b))
        /\ s.TotalWaitBlocks = SumFunction(Waits(list, b))
        /\ \A j \in WaitRange : s.WaitBlockCount[j] = SumFunction(Slots(list, b, j))
    BY <1>1, <2>3, TotalsAre
  <2>5. PICK h \in [WaitRange -> Nat] : h = s.WaitBlockCount BY <2>2 DEF StatType
  <2>6. PICK f : f = r[i] OBVIOUS
  <2>7. f = FeeBucket(b, s) BY <1>4, <2>1, <2>2, <2>6
  <2>8. /\ f.TotalTxCount = s.TxCount /\ f.AvrWaitBlocks = <<s.TotalWaitBlocks, s.TxCount>>
        /\ f.WaitBlockCount = Sent(h, WaitRange)
    BY <2>5, <2>7 DEF FeeBucket, Sent, Entry
  <2>9. SumFunction([w \in Sent(h, WaitRange) |-> w[2]]) = s.TxCount BY <1>5, <2>2, <2>5, SumOfSent DEF CountsFit
  <2>10. ASSUME NEW w \in Sent(h, WaitRange) PROVE w[2] = SumFunction(Slots(list, b, w[1]))
    <3>1. PICK j \in WaitRange : w = Entry(h, j) BY DEF Sent
    <3>2. w[1] = j /\ w[2] = h[j] BY <3>1 DEF Entry
    <3>3. QED BY <2>4, <2>5, <3>2
  <2>11. QED BY <2>1, <2>4, <2>6, <2>8, <2>9, <2>10
<1>7. QED BY <1>1, <1>2, <1>3, <1>4, <1>6 DEF SumsOf

(* The statistics that were recorded with the stored blocks.               *)
StatsOfBlocks(entries) == [k \in 1 .. Len(entries) |-> entries[k].Stats]

(* A request has the sums over exactly the stored blocks, for any buckets, *)
(* histograms of any length and any number of stored blocks: the loops of  *)
(* aggregateFeeBucket count every block once, no bucket is lost or sent    *)
(* twice, and the histogram adds up to the number of transactions.         *)
THEOREM RequestsSumWindow == AnalysisSpec => RequestSumsWindow
<1>1. AnalysisInv' /\ SourcesInv' /\ [AnalysisNext]_avars => (request' # request => SumsWindow(request', mined'))
  <2> SUFFICES ASSUME AnalysisInv', SourcesInv', [AnalysisNext]_avars, request' # request PROVE SumsWindow(request', mined') OBVIOUS
  <2>1. PICK content \in SUBSET Tx : ProcessBlock(content)
    BY DEF AnalysisNext, StartOver, SkipBlock, AnalyzeGasPrice, avars
  <2>2. request' = convertFeeBucketToProto(aggregateFeeBucket(FeeBuckets(blocks'))) BY <2>1 DEF ProcessBlock
  <2>3. PICK r : r = request' OBVIOUS
  <2>4. PICK store : store = blocks' OBVIOUS
  <2>5. PICK m : m = mined' OBVIOUS
  <2>6. /\ m \in Seq(Entries) /\ Len(m) = Len(store)
        /\ \A k \in 1 .. Len(store) : StoredFrom(store[k], m[k])
    BY <2>4, <2>5 DEF SourcesInv, StoreRecorded
  <2>7. PICK n \in Nat : n = Len(m) /\ DOMAIN m = 1 .. n BY <2>6
  <2>8. PICK list : list = StatsOfBlocks(m) OBVIOUS
  <2>9. \A k \in 1 .. n : m[k] \in Entries /\ GoodStats(m[k].Stats) /\ store[k].FeeBuckets = m[k].Stats
    BY <2>6, <2>7, RecordedStats DEF StoredFrom
  <2>10. /\ list \in Seq(StatMaps) /\ Len(list) = n
         /\ \A k \in 1 .. n : list[k] = m[k].Stats /\ GoodStats(list[k])
    <3>1. list = [k \in 1 .. n |-> m[k].Stats] BY <2>7, <2>8 DEF StatsOfBlocks
    <3>2. \A k \in 1 .. n : m[k].Stats \in StatMaps BY <2>9 DEF GoodStats
    <3>3. list \in Seq(StatMaps) /\ Len(list) = n BY <3>1, <3>2
    <3>4. QED BY <2>9, <3>1, <3>3
  <2>11. FeeBuckets(store) = list
    <3>1. store \in Seq(Stored) BY <2>4 DEF AnalysisInv, AnalysisTypes
    <3>2. DOMAIN store = 1 .. n BY <2>6, <2>7, <3>1
    <3>3. FeeBuckets(store) = [k \in 1 .. n |-> store[k].FeeBuckets] BY <3>2 DEF FeeBuckets
    <3>4. list = [k \in 1 .. n |-> m[k].Stats] BY <2>7, <2>8 DEF StatsOfBlocks
    <3>5. QED BY <2>9, <3>3, <3>4
  <2>12. SumsOf(r, list) BY <2>2, <2>3, <2>4, <2>10, <2>11, RequestSums
  <2>13. ASSUME NEW b
         PROVE  /\ [k \in DOMAIN m |-> StatAt(m[k].Stats, b).TxCount] = Counts(list, b)
                /\ [k \in DOMAIN m |-> StatAt(m[k].Stats, b).TotalWaitBlocks] = Waits(list, b)
                /\ \A j : [k \in DOMAIN m |-> StatAt(m[k].Stats, b).WaitBlockCount[j]] = Slots(list, b, j)
    <3>1. Len(list) = n /\ \A k \in 1 .. n : list[k] = m[k].Stats BY <2>10
    <3>2. QED BY <2>7, <3>1 DEF Counts, Waits, Slots
  <2>14. UNION {DOMAIN m[k].Stats : k \in DOMAIN m} = BucketsIn(list, 1 .. Len(list))
    <3>1. Len(list) = n /\ \A k \in 1 .. n : list[k] = m[k].Stats BY <2>10
    <3>2. \A y : y \in BucketsIn(list, 1 .. Len(list)) <=> \E k \in 1 .. n : y \in DOMAIN m[k].Stats
      BY <3>1 DEF BucketsIn
    <3>3. QED BY <2>7, <3>2
  <2>15. ASSUME NEW i \in DOMAIN r
         PROVE  LET fb == r[i]
                    count == SumFunction([k \in DOMAIN m |-> StatAt(m[k].Stats, fb.Bucket).TxCount])
                    waits == SumFunction([k \in DOMAIN m |-> StatAt(m[k].Stats, fb.Bucket).TotalWaitBlocks])
                IN /\ fb.TotalTxCount = count /\ fb.AvrWaitBlocks = <<waits, count>>
                   /\ SumFunction([w \in fb.WaitBlockCount |-> w[2]]) = count
                   /\ \A w \in fb.WaitBlockCount :
                         w[2] = SumFunction([k \in DOMAIN m |-> StatAt(m[k].Stats, fb.Bucket).WaitBlockCount[w[1]]])
    <3>1. PICK b : b = r[i].Bucket OBVIOUS
    <3>2. LET count == SumFunction(Counts(list, b))
              waits == SumFunction(Waits(list, b))
          IN /\ r[i].TotalTxCount = count /\ r[i].AvrWaitBlocks = <<waits, count>>
             /\ SumFunction([w \in r[i].WaitBlockCount |-> w[2]]) = count
             /\ \A w \in r[i].WaitBlockCount : w[2] = SumFunction(Slots(list, b, w[1]))
      BY <2>12, <3>1 DEF SumsOf
    <3>3. /\ [k \in DOMAIN m |-> StatAt(m[k].Stats, b).TxCount] = Counts(list, b)
          /\ [k \in DOMAIN m |-> StatAt(m[k].Stats, b).TotalWaitBlocks] = Waits(list, b)
          /\ \A j : [k \in DOMAIN m |-> StatAt(m[k].Stats, b).WaitBlockCount[j]] = Slots(list, b, j)
      BY <2>13
    <3>4. QED BY <3>1, <3>2, <3>3
  <2>16. /\ {r[i].Bucket : i \in DOMAIN r} = UNION {DOMAIN m[k].Stats : k \in DOMAIN m}
         /\ \A i, j \in DOMAIN r : i < j => r[i].Bucket < r[j].Bucket
    BY <2>12, <2>14 DEF SumsOf
  <2>17. SumsWindow(r, m) BY <2>15, <2>16 DEF SumsWindow
  <2>18. QED BY <2>3, <2>5, <2>17
<1>2. AnalysisSpec => [](AnalysisInv /\ SourcesInv)
  BY AnalysisInvariance, SourcesInit, SourcesNext, PTL DEF AnalysisSpec
<1>3. QED BY <1>1, <1>2, PTL DEF AnalysisSpec, RequestSumsWindow

=============================================================================
