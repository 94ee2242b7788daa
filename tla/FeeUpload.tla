------------------------------- MODULE FeeUpload -------------------------------
(***************************************************************************)
(* The upload of the fee statistics: internal/network/grpcClient keeps     *)
(* only the newest request in a channel (FeeBucketSend), and the unary     *)
(* worker uploads it with a few attempts.  Each attempt passes the         *)
(* interceptor and so needs a token of the TokenManager, which the stream  *)
(* worker of GasStream shares.  What a request holds is in FeeAnalysis; a  *)
(* request is its number here.                                             *)
(***************************************************************************)
EXTENDS Sequences, TokenManager

CONSTANTS
    BufferSize,         \* feeBucketBufferSize
    MaxAttempts,        \* maxFeeBucketAttempts
    MaxRequests         \* bound: requests made

ASSUME FeeUploadAssumption ==
    /\ BufferSize \in Nat \ {0} /\ MaxAttempts \in Nat \ {0} /\ MaxRequests \in Nat
    /\ {"unary", "stream"} \subseteq Caller

VARIABLES
    requests,                   \* requests made so far
    FeeBucketCh,
    ppc, req,                   \* the block goroutine inside FeeBucketSend
    upc, sending, attempt,      \* the unary worker
    got                         \* history: number of the newest request the server took

pvars == <<requests, ppc, req>>
uvars == <<upc, sending, attempt>>
vars == <<pvars, FeeBucketCh, uvars, tvars, env, got>>

NoRequest == 0

Init ==
    /\ TokenInit
    /\ requests = 0 /\ FeeBucketCh = <<>>
    /\ ppc = "idle" /\ req = NoRequest
    /\ upc = "select" /\ sending = NoRequest /\ attempt = 0
    /\ got = 0

-----------------------------------------------------------------------------
(* The block goroutine: the three selects of FeeBucketSend.                *)

FeeBucketSend ==
    /\ ppc = "idle" /\ requests < MaxRequests
    /\ requests' = requests + 1 /\ ppc' = "try" /\ req' = requests + 1
    /\ UNCHANGED <<FeeBucketCh, uvars, tvars, env, got>>

SendTry ==
    /\ ppc = "try"
    /\ IF Len(FeeBucketCh) < BufferSize
       THEN FeeBucketCh' = Append(FeeBucketCh, req) /\ ppc' = "idle" /\ req' = NoRequest
       ELSE UNCHANGED <<FeeBucketCh, req>> /\ ppc' = "drop"
    /\ UNCHANGED <<requests, uvars, tvars, env, got>>

Shortened(ch) == IF ch = <<>> THEN ch ELSE Tail(ch)

SendDrop ==
    /\ ppc = "drop"
    /\ FeeBucketCh' = Shortened(FeeBucketCh)
    /\ ppc' = "again"
    /\ UNCHANGED <<requests, req, uvars, tvars, env, got>>

SendAgain ==
    /\ ppc = "again"
    /\ FeeBucketCh' = IF Len(FeeBucketCh) < BufferSize THEN Append(FeeBucketCh, req) ELSE FeeBucketCh
    /\ ppc' = "idle" /\ req' = NoRequest
    /\ UNCHANGED <<requests, uvars, tvars, env, got>>

-----------------------------------------------------------------------------
(* The unary worker                                                        *)

Stop == upc' = "stopped" /\ sending' = NoRequest /\ attempt' = 0
BackToSelect == upc' = "select" /\ sending' = NoRequest /\ attempt' = 0

WorkerDone ==
    /\ upc = "select" /\ ctxDone
    /\ Stop
    /\ UNCHANGED <<pvars, FeeBucketCh, tvars, env, got>>

(* sendFeeBucket looks at the context before every attempt.                *)
TakeRequest ==
    /\ upc = "select" /\ FeeBucketCh # <<>>
    /\ FeeBucketCh' = Tail(FeeBucketCh)
    /\ IF ctxDone THEN Stop
       ELSE upc' = "token" /\ sending' = Head(FeeBucketCh) /\ attempt' = 1
    /\ UNCHANGED <<pvars, tvars, env, got>>

(* UnaryClientInterceptor: the token first, then the call with it.         *)
UnaryClientInterceptor ==
    /\ upc = "token"
    /\ GetAccessToken("unary")
    /\ upc' = "call"
    /\ UNCHANGED <<pvars, FeeBucketCh, sending, attempt, got>>

TokenUsed(c) ==
    /\ gpc' = [gpc EXCEPT ![c] = "idle"] /\ token' = [token EXCEPT ![c] = None]
    /\ UNCHANGED <<accessToken, leader, issued>>

HasToken == upc = "call" /\ gpc["unary"] = "done"
Accepted == token["unary"] > clock

(* Success, or a refusal that no attempt will change: INVALID_REQUEST.     *)
UploadFeeBuckets ==
    /\ HasToken /\ Accepted /\ ~ctxDone
    /\ got' \in {sending} \cup (IF healthy THEN {} ELSE {got})
    /\ BackToSelect /\ TokenUsed("unary")
    /\ UNCHANGED <<pvars, FeeBucketCh, env>>

MayRetry == attempt < MaxAttempts

(* No token, an expired one, an error, an empty answer or a refusal; the   *)
(* server may have taken the request although its answer was lost.         *)
UploadFails ==
    /\ HasToken /\ (MayFail \/ ~Accepted)
    /\ got' \in {got} \cup (IF Accepted THEN {sending} ELSE {})
    /\ IF MayRetry THEN upc' = "delay" /\ UNCHANGED <<sending, attempt>> ELSE BackToSelect
    /\ TokenUsed("unary")
    /\ UNCHANGED <<pvars, FeeBucketCh, env>>

(* Mutant of Delayed: a failed request goes to the end of the queue.       *)
DelayedRequeueing ==
    /\ FeeBucketCh' = Append(FeeBucketCh, sending)
    /\ BackToSelect

Delayed == upc' = "token" /\ attempt' = attempt + 1 /\ UNCHANGED <<sending, FeeBucketCh>>

(* WaitForRetry: the timer or the cancellation, which the next attempt     *)
(* would notice too.                                                       *)
RetryDelay ==
    /\ upc = "delay"
    /\ IF ctxDone THEN Stop /\ UNCHANGED FeeBucketCh ELSE Delayed
    /\ UNCHANGED <<pvars, tvars, env, got>>

-----------------------------------------------------------------------------
(* The stream worker asks for a token whenever it reconnects.              *)

StreamClientInterceptor ==
    /\ ~ctxDone
    /\ GetAccessToken("stream")
    /\ UNCHANGED <<pvars, FeeBucketCh, uvars, got>>

StreamReturns ==
    /\ gpc["stream"] = "done"
    /\ TokenUsed("stream")
    /\ UNCHANGED <<pvars, FeeBucketCh, uvars, env, got>>

Refresh(c) == Refreshing(c) /\ UNCHANGED <<pvars, FeeBucketCh, uvars, got>>

-----------------------------------------------------------------------------

(* A working server answers well within the refresh margin.                *)
Prompt == healthy => gpc["unary"] # "done" /\ \A c \in Caller : gpc[c] # "auth"

Tick ==
    /\ clock < MaxTime /\ Prompt
    /\ clock' = clock + 1
    /\ UNCHANGED <<healthy, ctxDone, pvars, FeeBucketCh, uvars, tvars, got>>

Outage == healthy' = ~healthy /\ UNCHANGED <<pvars, FeeBucketCh, uvars, tvars, clock, ctxDone, got>>

Close == ~ctxDone /\ ctxDone' = TRUE /\ UNCHANGED <<pvars, FeeBucketCh, uvars, tvars, clock, healthy, got>>

Sending == SendTry \/ SendDrop \/ SendAgain
Working == TakeRequest \/ UnaryClientInterceptor \/ UploadFeeBuckets \/ UploadFails \/ RetryDelay

Next ==
    \/ FeeBucketSend \/ Sending
    \/ Working \/ WorkerDone
    \/ StreamClientInterceptor \/ StreamReturns
    \/ \E c \in Caller : Refresh(c)
    \/ Tick \/ Outage \/ Close

Spec == Init /\ [][Next]_vars

(* Neither the upload nor the refresh has a deadline: only a working       *)
(* server ends them.                                                       *)
FairSpec ==
    /\ Spec /\ WF_vars(Sending) /\ WF_vars(healthy /\ Working)
    /\ \A c \in Caller : WF_vars(healthy /\ Refresh(c))

-----------------------------------------------------------------------------
(* Properties.                                                             *)

TypeOK ==
    /\ TokenTypeOK
    /\ requests \in 0 .. MaxRequests /\ req \in 0 .. requests
    /\ FeeBucketCh \in Seq(1 .. requests) /\ Len(FeeBucketCh) <= BufferSize
    /\ ppc \in {"idle", "try", "drop", "again"}
    /\ upc \in {"select", "token", "call", "delay", "stopped"}
    /\ sending \in 0 .. requests /\ attempt \in 0 .. MaxAttempts
    /\ healthy \in BOOLEAN /\ ctxDone \in BOOLEAN
    /\ got \in 0 .. requests

(* The server never replaces statistics by older ones, although requests   *)
(* are retried and answers lost.                                           *)
ServerNeverGoesBack == [][got' >= got]_vars

(* The last request made while the server works is uploaded, although the  *)
(* token it is sent with may be missing or have expired on its way, unless *)
(* the server fails or the client is closed.                               *)
NewestUploaded ==
    \A n \in 1 .. MaxRequests :
        (req = n) ~> (got >= n \/ requests > n \/ ~healthy \/ ctxDone)

=============================================================================
