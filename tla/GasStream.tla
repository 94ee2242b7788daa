------------------------------- MODULE GasStream -------------------------------
(***************************************************************************)
(* internal/network/grpcClient: the upload of gas predictions.             *)
(*                                                                         *)
(* The analyzer calls GasPredictResultSend, which puts a gap event before  *)
(* a prediction that does not follow the last acknowledged one, and        *)
(* enqueue, which makes room in a full channel by dropping the oldest      *)
(* message: three channel operations that are not atomic together.  The    *)
(* stream worker connects, takes messages from the channel, sends each and *)
(* waits for its acknowledgement; whatever fails costs the message it was  *)
(* busy with and the connection.  Between two messages the worker does not *)
(* look at the stream: one that breaks meanwhile is only noticed by the    *)
(* next message, however long the server has been back by then.            *)
(***************************************************************************)
EXTENDS Integers, Sequences, SequencesExt

CONSTANTS
    BufferSize,         \* gasPredictionBufferSize
    FastRetryCount,     \* streamFastRetryCount
    FastRetryDelay, MaxRetryDelay,  \* streamFastRetryDelay, streamMaxRetryDelay
    MaxBlock,           \* bound: predicted block numbers
    MaxSends            \* bound: calls of GasPredictResultSend

ASSUME StreamAssumption ==
    /\ BufferSize \in Nat \ {0}
    /\ FastRetryCount \in Nat
    /\ FastRetryDelay \in Nat \ {0} /\ MaxRetryDelay \in Nat
    /\ FastRetryDelay <= MaxRetryDelay
    /\ MaxBlock \in Nat \ {0} /\ MaxSends \in Nat

VARIABLES
    GasPredictCh, lastSentBlock,    \* shared by the two goroutines
    ppc, ptodo, newest, sends,      \* the analyzer goroutine inside enqueue
    spc, msg, retryCount, retryDelay,   \* the stream worker
    healthy, broken, ctxDone,       \* the server works; the open stream does
                                    \* not; the client was closed
    acked, lost                     \* history: acknowledged predictions, and the
                                    \* blocks of gap events that broke with the
                                    \* stream while they were still ahead of
                                    \* lastSentBlock and that the server has not
                                    \* heard of since

pvars == <<ppc, ptodo, newest, sends>>
svars == <<spc, msg, retryCount, retryDelay>>
env == <<healthy, broken, ctxDone>>
hist == <<acked, lost>>
vars == <<GasPredictCh, lastSentBlock, pvars, svars, env, hist>>

Num == 1 .. MaxBlock
Prediction(n) == [Event |-> "prediction", FromBlock |-> n, ToBlock |-> n]
Gap(m, n) == [Event |-> "gap", FromBlock |-> m, ToBlock |-> n]
MsgType == [Event : {"prediction", "gap"}, FromBlock : Num, ToBlock : Num]
NoMsg == [Event |-> "none", FromBlock |-> 0, ToBlock |-> 0]

Init ==
    /\ GasPredictCh = <<>> /\ lastSentBlock = 0
    /\ ppc = "idle" /\ ptodo = <<>> /\ newest = 0 /\ sends = 0
    /\ spc = "connect" /\ msg = NoMsg /\ retryCount = 0 /\ retryDelay = FastRetryDelay
    /\ healthy \in BOOLEAN /\ broken = FALSE /\ ctxDone = FALSE
    /\ acked = {} /\ lost = {}

-----------------------------------------------------------------------------
(* The analyzer: GasPredictResultSend and enqueue                          *)

(* Mutant of Missed: the first block after a start is reported as a gap.   *)
MissedAlways(last, n) == IF n > last + 1 THEN <<Gap(last + 1, n - 1)>> ELSE <<>>

(* The gap event for the blocks between the last acknowledged and the new  *)
(* prediction, if there are any.                                           *)
Missed(last, n) == IF last # 0 /\ n > last + 1 THEN <<Gap(last + 1, n - 1)>> ELSE <<>>

(* A prediction is made every two seconds, for the successor of the block  *)
(* the analyzer knows: the number repeats, advances, jumps, or goes back   *)
(* after a resync on a provider that lags.                                 *)
GasPredictResultSend(n) ==
    /\ ppc = "idle" /\ sends < MaxSends
    /\ ptodo' = Append(Missed(lastSentBlock, n), Prediction(n))
    /\ newest' = n
    /\ sends' = sends + 1
    /\ ppc' = "try"
    /\ UNCHANGED <<GasPredictCh, lastSentBlock, svars, env, hist>>

(* enqueue returns, and is called again if a second message is left.       *)
Enqueued == ptodo' = Tail(ptodo) /\ ppc' = IF Len(ptodo) = 1 THEN "idle" ELSE "try"

EnqueueTry ==
    /\ ppc = "try"
    /\ IF Len(GasPredictCh) < BufferSize
       THEN GasPredictCh' = Append(GasPredictCh, Head(ptodo)) /\ Enqueued
       ELSE UNCHANGED <<GasPredictCh, ptodo>> /\ ppc' = "drop"
    /\ UNCHANGED <<lastSentBlock, newest, sends, svars, env, hist>>

(* Mutant of Shortened: nothing is dropped.                                *)
NotShortened(ch) == ch

(* The receive of enqueue's second select, which finds nothing if the      *)
(* worker has emptied the channel meanwhile.                               *)
Shortened(ch) == IF ch = <<>> THEN ch ELSE Tail(ch)

EnqueueDrop ==
    /\ ppc = "drop"
    /\ GasPredictCh' = Shortened(GasPredictCh)
    /\ ppc' = "again"
    /\ UNCHANGED <<lastSentBlock, ptodo, newest, sends, svars, env, hist>>

EnqueueAgain ==
    /\ ppc = "again"
    /\ GasPredictCh' = IF Len(GasPredictCh) < BufferSize
                       THEN Append(GasPredictCh, Head(ptodo)) ELSE GasPredictCh
    /\ Enqueued
    /\ UNCHANGED <<lastSentBlock, newest, sends, svars, env, hist>>

-----------------------------------------------------------------------------
(* The stream worker                                                       *)

MayFail == ~healthy \/ ctxDone
MayAnswer == ~ctxDone

(* Mutant of Connected: the delay of the last outage is kept.              *)
ConnectedKeepingDelay == retryCount' = 0 /\ retryDelay' = retryDelay

Connected == retryCount' = 0 /\ retryDelay' = FastRetryDelay

Connect ==
    /\ spc = "connect" /\ MayAnswer
    /\ Connected
    /\ broken' = FALSE
    /\ spc' = "stream"
    /\ UNCHANGED <<GasPredictCh, lastSentBlock, pvars, msg, healthy, ctxDone, hist>>

ConnectFails ==
    /\ spc = "connect" /\ MayFail
    /\ spc' = IF ctxDone THEN "stopped" ELSE "delay"
    /\ UNCHANGED <<GasPredictCh, lastSentBlock, pvars, msg, retryCount, retryDelay, env, hist>>

Doubled(d) == IF d * 2 > MaxRetryDelay THEN MaxRetryDelay ELSE d * 2

(* FastRetryCount short delays, then longer and longer ones.               *)
WaitForRetry ==
    /\ spc = "delay"
    /\ \/ /\ retryCount < FastRetryCount
          /\ retryCount' = retryCount + 1 /\ UNCHANGED retryDelay
       \/ /\ retryCount >= FastRetryCount
          /\ retryDelay' = Doubled(retryDelay) /\ UNCHANGED retryCount
    /\ spc' = "connect"
    /\ UNCHANGED <<GasPredictCh, lastSentBlock, pvars, msg, env, hist>>

WaitCancelled ==
    /\ spc = "delay" /\ ctxDone
    /\ spc' = "stopped"
    /\ UNCHANGED <<GasPredictCh, lastSentBlock, pvars, msg, retryCount, retryDelay, env, hist>>

TakeMessage ==
    /\ spc = "stream" /\ GasPredictCh # <<>>
    /\ msg' = Head(GasPredictCh)
    /\ GasPredictCh' = Tail(GasPredictCh)
    /\ spc' = "send"
    /\ UNCHANGED <<lastSentBlock, pvars, retryCount, retryDelay, env, hist>>

(* Mutant of StreamCancelled: a loop over the channel alone.               *)
NotCancelled == FALSE

StreamCancelled ==
    /\ spc = "stream" /\ ctxDone
    /\ spc' = "stopped"
    /\ UNCHANGED <<GasPredictCh, lastSentBlock, pvars, msg, retryCount, retryDelay, env, hist>>

(* A stream that broke may take the message all the same.                  *)
Send ==
    /\ spc = "send" /\ MayAnswer
    /\ spc' = "recv"
    /\ UNCHANGED <<GasPredictCh, lastSentBlock, pvars, msg, retryCount, retryDelay, env, hist>>

MsgBlocks == msg.FromBlock .. msg.ToBlock

(* Send fails, Recv fails or the server rejects: processStream returns and *)
(* the message is gone.  The server may have got it in the last two cases. *)
StreamBreaks ==
    /\ spc \in {"send", "recv"} /\ (MayFail \/ broken)
    /\ \/ spc = "recv" /\ lost' = lost \ MsgBlocks
       \/ lost' = lost \cup (IF msg.Event = "gap" THEN {n \in MsgBlocks : n > lastSentBlock} ELSE {})
    /\ msg' = NoMsg
    /\ spc' = IF ctxDone THEN "stopped" ELSE "delay"
    /\ UNCHANGED <<GasPredictCh, lastSentBlock, pvars, retryCount, retryDelay, env, acked>>

(* Mutant of Acknowledged: the test of the message's kind is inverted.     *)
AcknowledgedGaps(last, m) == IF m.Event = "gap" THEN m.ToBlock ELSE last

Acknowledged(last, m) == IF m.Event = "prediction" THEN m.FromBlock ELSE last

Recv ==
    /\ spc = "recv" /\ MayAnswer /\ ~broken
    /\ lost' = lost \ MsgBlocks
    /\ lastSentBlock' = Acknowledged(lastSentBlock, msg)
    /\ acked' = IF msg.Event = "prediction" THEN acked \cup {msg.FromBlock} ELSE acked
    /\ msg' = NoMsg
    /\ spc' = "stream"
    /\ UNCHANGED <<GasPredictCh, pvars, retryCount, retryDelay, env>>

-----------------------------------------------------------------------------

(* The server, or the way to it, fails or works again.                     *)
Outage ==
    /\ healthy' = ~healthy
    /\ UNCHANGED <<GasPredictCh, lastSentBlock, pvars, svars, broken, ctxDone, hist>>

(* An outage may cost the open stream, which does not come back with the   *)
(* server.                                                                 *)
StreamDies ==
    /\ ~healthy /\ ~broken /\ spc \in {"stream", "send", "recv"}
    /\ broken' = TRUE
    /\ UNCHANGED <<GasPredictCh, lastSentBlock, pvars, svars, healthy, ctxDone, hist>>

Close ==
    /\ ~ctxDone /\ ctxDone' = TRUE
    /\ UNCHANGED <<GasPredictCh, lastSentBlock, pvars, svars, healthy, broken, hist>>

Producing == EnqueueTry \/ EnqueueDrop \/ EnqueueAgain

Streaming ==
    \/ Connect \/ ConnectFails \/ WaitForRetry \/ WaitCancelled
    \/ TakeMessage \/ Send \/ StreamBreaks \/ Recv

Next ==
    \/ \E n \in Num : GasPredictResultSend(n)
    \/ Producing \/ Streaming \/ StreamCancelled
    \/ Outage \/ StreamDies \/ Close

Spec == Init /\ [][Next]_vars

(* Calls of gRPC end, timers fire, and select picks among its ready        *)
(* branches at random.                                                     *)
FairSpec ==
    Spec /\ WF_vars(Producing) /\ WF_vars(Streaming) /\ SF_vars(StreamCancelled)

-----------------------------------------------------------------------------
(* Properties.                                                             *)

(* The channel stays within its capacity and every variable in its range.  *)
TypeOK ==
    /\ GasPredictCh \in Seq(MsgType) /\ Len(GasPredictCh) <= BufferSize
    /\ lastSentBlock \in 0 .. MaxBlock
    /\ ppc \in {"idle", "try", "drop", "again"}
    /\ ptodo \in Seq(MsgType) /\ Len(ptodo) <= 2
    /\ newest \in 0 .. MaxBlock /\ sends \in 0 .. MaxSends
    /\ spc \in {"connect", "delay", "stream", "send", "recv", "stopped"}
    /\ msg \in MsgType \cup {NoMsg}
    /\ retryCount \in 0 .. FastRetryCount
    /\ retryDelay \in FastRetryDelay .. MaxRetryDelay
    /\ healthy \in BOOLEAN /\ broken \in BOOLEAN /\ ctxDone \in BOOLEAN
    /\ acked \subseteq Num /\ lost \subseteq Num

(* Whenever the analyzer is outside enqueue, a channel that holds anything *)
(* ends with the newest prediction: dropping the oldest message always     *)
(* makes room for it, whatever the worker takes between the three selects, *)
(* so the branch of enqueue that loses the new message is dead.            *)
NewestIsLast ==
    ppc = "idle" /\ GasPredictCh # <<>> => Last(GasPredictCh) = Prediction(newest)

(* The message behind the i-th of the channel, or the one enqueue is still *)
(* to put behind it.                                                       *)
Behind(i) ==
    IF i < Len(GasPredictCh) THEN GasPredictCh[i + 1]
    ELSE IF ptodo # <<>> THEN Head(ptodo) ELSE NoMsg

(* A gap event joins on to a prediction that was acknowledged and to the   *)
(* one directly behind it in the channel, whatever enqueue drops and the   *)
(* worker takes or loses meanwhile, and also when the numbers go back.     *)
GapAfterAcknowledged ==
    \A i \in 1 .. Len(GasPredictCh) : GasPredictCh[i].Event = "gap" =>
        /\ GasPredictCh[i].FromBlock - 1 \in acked
        /\ GasPredictCh[i].FromBlock <= GasPredictCh[i].ToBlock
        /\ Behind(i) = Prediction(GasPredictCh[i].ToBlock + 1)

(* Long delays only come after all the fast retries of the same outage.    *)
FastRetriesFirst == TypeOK /\ (retryDelay > FastRetryDelay => retryCount = FastRetryCount)

(* A prediction at the end of the channel is acknowledged, whatever outage *)
(* came before, unless another one is made, the server fails again or the  *)
(* client is closed.  A stream that broke while the worker waited for a    *)
(* message costs the next one, and no more than that.                      *)
NewestDelivered ==
    \A n \in Num :
        (/\ GasPredictCh # <<>> /\ Last(GasPredictCh) = Prediction(n)
         /\ ~broken \/ msg # NoMsg \/ Len(GasPredictCh) > 1)
            ~> (lastSentBlock = n \/ newest # n \/ ~healthy \/ ctxDone)

(* Closing the client ends the stream worker.                              *)
WorkerStops == ctxDone ~> spc = "stopped"

(* docs/CODE_REVIEW.md: a lost gap event is made again.  Then no           *)
(* acknowledgement passes the blocks of one before the server has heard of *)
(* them.                                                                   *)
LostGapIsRegenerated == \A n \in lost : lastSentBlock <= n

=============================================================================
