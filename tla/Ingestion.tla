------------------------------- MODULE Ingestion -------------------------------
(***************************************************************************)
(* internal/network/ingestion and the end of cmd/server's main.  One       *)
(* goroutine keeps a subscription to new headers: it changes the provider  *)
(* after a failure or when the watchdog has seen no header for too long,   *)
(* and tells the second goroutine, which keeps a subscription to pending   *)
(* transactions.  That one also changes the provider from time to time:    *)
(* it starts a session with the next provider and cancels the old one when *)
(* the new one is ready.  Every session is a goroutine of its own.  main   *)
(* waits for a fatal error or a signal and shuts everything down.          *)
(*                                                                         *)
(* Headers and hashes are left out: BlockPipeline and PendingPipeline      *)
(* model what becomes of them.                                             *)
(***************************************************************************)
EXTENDS Integers, Sequences, FiniteSets

CONSTANTS
    N,                  \* len(s.providers)
    SwitchBuffer,       \* capacity of pendingSwitch
    RetryCount,         \* connectRetryCount
    HeaderTimeout,      \* headerTimeout in ticks of the watchdog
    MaxStray            \* bound: sessions that nobody refers to any more

Provider == 0 .. N - 1
NoProvider == N

ASSUME IngestionAssumption ==
    /\ N \in Nat \ {0} /\ SwitchBuffer \in Nat \ {0} /\ RetryCount \in Nat \ {0}
    /\ HeaderTimeout \in Nat \ {0} /\ MaxStray \in Nat \ {0}

VARIABLES
    url,                        \* providers with a Url in the configuration
    status,                     \* per provider: "up", "silent" or "down"
    hpc, currentProvider, quiet,    \* the header goroutine; ticks since the last header
    pendingSwitch, errChan,
    ppc, mode, i,               \* the pending goroutine; why it starts sessions, attempts
    session, next,              \* ... the current and the new session
    stray,                      \* sessions that still run and that nobody refers to
    mpc, ctxDone                \* main

hvars == <<hpc, currentProvider, quiet>>
chans == <<pendingSwitch, errChan>>
pvars == <<ppc, mode, i, session, next, stray>>
env == <<url, status>>
vars == <<env, hvars, chans, pvars, mpc, ctxDone>>

NoSession == [provider |-> NoProvider, state |-> "none", ready |-> FALSE, cancelled |-> FALSE]
NewSession(p) == [NoSession EXCEPT !.provider = p, !.state = "dial"]
Running(s) == s.state \in {"dial", "live"}

Init ==
    /\ url \in SUBSET Provider
    /\ status \in [Provider -> {"up", "silent", "down"}] /\ \A p \in Provider \ url : status[p] = "down"
    /\ hpc = "top" /\ currentProvider = 0 /\ quiet = 0
    /\ pendingSwitch = <<>> /\ errChan = FALSE
    /\ ppc = "wait" /\ mode = "init" /\ i = 1
    /\ session = NoSession /\ next = NewSession(0) /\ stray = {}
    /\ mpc = "select" /\ ctxDone = FALSE

Accepts(p) == status[p] # "down"

(* The next provider in the ring that has a Url and is another one.        *)
alternateProvider(p) ==
    LET others == {k \in 1 .. N : (p + k) % N \in url \ {p}}
    IN IF others = {} THEN NoProvider
       ELSE (p + CHOOSE k \in others : \A l \in others : k <= l) % N

-----------------------------------------------------------------------------
(* The header goroutine                                                    *)

(* The end of the loop's body: the provider is changed and the pending     *)
(* goroutine told, if its channel has room.                                *)
ChangeProvider ==
    LET alternate == alternateProvider(currentProvider)
    IN /\ quiet' = 0
       /\ IF ctxDone THEN hpc' = "returned" /\ UNCHANGED <<currentProvider, pendingSwitch>>
          ELSE /\ hpc' = "delay"
               /\ IF alternate = NoProvider THEN UNCHANGED <<currentProvider, pendingSwitch>>
                  ELSE /\ currentProvider' = alternate
                       /\ pendingSwitch' = IF Len(pendingSwitch) < SwitchBuffer
                                           THEN Append(pendingSwitch, alternate) ELSE pendingSwitch

(* The start of the loop's body: a provider without a Url is passed over;  *)
(* without any, the subscriber gives up.                                   *)
runHeaderSub ==
    /\ hpc = "top" /\ (ctxDone \/ currentProvider \notin url)
    /\ LET alternate == alternateProvider(currentProvider)
       IN IF ctxDone THEN hpc' = "returned" /\ UNCHANGED <<currentProvider, errChan>>
          ELSE IF alternate = NoProvider
          THEN hpc' = "returned" /\ errChan' = TRUE /\ UNCHANGED currentProvider
          ELSE currentProvider' = alternate /\ UNCHANGED <<hpc, errChan>>
    /\ UNCHANGED <<env, quiet, pendingSwitch, pvars, mpc, ctxDone>>

connectHeadAndStream ==
    /\ hpc = "top" /\ ~ctxDone /\ currentProvider \in url
    /\ IF Accepts(currentProvider)
       THEN hpc' = "stream" /\ UNCHANGED <<currentProvider, quiet, pendingSwitch>>
       ELSE ChangeProvider
    /\ UNCHANGED <<env, errChan, pvars, mpc, ctxDone>>

(* The branches of consumeHeaderStream: a header, a tick of the watchdog,  *)
(* an error or the cancellation.  A provider that works sends headers in   *)
(* time.                                                                   *)
PushHeader ==
    /\ hpc = "stream" /\ status[currentProvider] = "up" /\ quiet # 0
    /\ quiet' = 0
    /\ UNCHANGED <<env, hpc, currentProvider, chans, pvars, mpc, ctxDone>>

(* Mutant of TimedOut: silence is never noticed.                           *)
NeverTimedOut == FALSE

TimedOut == quiet >= HeaderTimeout

Watchdog ==
    /\ hpc = "stream" /\ (status[currentProvider] = "up" => quiet < HeaderTimeout)
    /\ IF TimedOut THEN ChangeProvider
       ELSE /\ quiet' = IF quiet < HeaderTimeout THEN quiet + 1 ELSE quiet
            /\ UNCHANGED <<hpc, currentProvider, pendingSwitch>>
    /\ UNCHANGED <<env, errChan, pvars, mpc, ctxDone>>

HeaderLost ==
    /\ hpc = "stream" /\ (ctxDone \/ ~Accepts(currentProvider))
    /\ ChangeProvider
    /\ UNCHANGED <<env, errChan, pvars, mpc, ctxDone>>

HeaderDelay ==
    /\ hpc = "delay"
    /\ hpc' = IF ctxDone THEN "returned" ELSE "top"
    /\ UNCHANGED <<env, currentProvider, quiet, chans, pvars, mpc, ctxDone>>

HeaderStep == runHeaderSub \/ connectHeadAndStream \/ HeaderLost \/ HeaderDelay

-----------------------------------------------------------------------------
(* Session goroutines: connectPendingAndStream.  The result goes into the  *)
(* buffered channel done, so nobody has to wait for it.                    *)

Dialled(s) == [s EXCEPT !.state = "live", !.ready = TRUE]
MayDial(s) == s.state = "dial" /\ Accepts(s.provider) /\ ~s.cancelled /\ ~ctxDone
MustEnd(s) == Running(s) /\ (s.cancelled \/ ctxDone \/ ~Accepts(s.provider))
Ended(s) == [s EXCEPT !.state = "ended"]

NextDialled ==
    /\ MayDial(next) /\ next' = Dialled(next)
    /\ UNCHANGED <<env, hvars, chans, ppc, mode, i, session, stray, mpc, ctxDone>>

NextEnds ==
    /\ MustEnd(next) /\ next' = Ended(next)
    /\ UNCHANGED <<env, hvars, chans, ppc, mode, i, session, stray, mpc, ctxDone>>

SessionEnds ==
    /\ MustEnd(session) /\ session' = Ended(session)
    /\ UNCHANGED <<env, hvars, chans, ppc, mode, i, next, stray, mpc, ctxDone>>

StrayEnds ==
    /\ \E s \in stray : MustEnd(s) /\ stray' = stray \ {s}
    /\ UNCHANGED <<env, hvars, chans, ppc, mode, i, session, next, mpc, ctxDone>>

-----------------------------------------------------------------------------
(* The pending goroutine                                                   *)

(* A session is cancelled and not referred to any more.                    *)
Dismiss(s) ==
    /\ stray' = IF Running(s) THEN stray \cup {[s EXCEPT !.cancelled = TRUE]} ELSE stray
    /\ Cardinality(stray') <= MaxStray

(* Mutant of GiveUp: a session that was not ready in time is forgotten.    *)
Forget(s) ==
    /\ stray' = IF Running(s) THEN stray \cup {s} ELSE stray
    /\ Cardinality(stray') <= MaxStray

(* What startPendingSession does with the new session before it returns an *)
(* error.                                                                  *)
GiveUp(s) == Dismiss(s)

StartSession(m, p, n) == ppc' = "wait" /\ mode' = m /\ i' = n /\ next' = NewSession(p)
Idle(place) == ppc' = place /\ i' = 1 /\ next' = NoSession

(* A handover that fails leaves the old session; after a disconnection it  *)
(* is tried again.                                                         *)
HandoverFails(m) ==
    /\ Idle(IF m = "lost" THEN "delay" ELSE "select")
    /\ mode' = IF m = "lost" THEN "lost" ELSE "rotate"

(* handoverPending looks at the context before it starts a session.        *)
Handover(m, p) == IF ctxDone THEN HandoverFails(m) ELSE StartSession(m, p, 1)

Return == Idle("returned") /\ mode' = "rotate" /\ session' = NoSession

(* startPendingSession returns the new session, and the old one, if any,   *)
(* is cancelled.                                                           *)
SessionReady ==
    /\ ppc = "wait" /\ next.ready
    /\ Dismiss(session) /\ session' = next
    /\ Idle("select") /\ mode' = "rotate"
    /\ UNCHANGED <<env, hvars, chans, mpc, ctxDone>>

(* startPendingSession returns an error: the session ended, was not ready  *)
(* in time, as a working provider is, or the context was cancelled.        *)
NotReady == next.state = "ended" \/ ~Accepts(next.provider) \/ ctxDone

(* connectInitialPendingSession: a few attempts with every provider.       *)
InitialFails ==
    /\ ppc = "wait" /\ mode = "init" /\ NotReady
    /\ GiveUp(next)
    /\ IF i < RetryCount
       THEN /\ ppc' = "delay" /\ next' = [NoSession EXCEPT !.provider = next.provider]
            /\ UNCHANGED <<mode, i, session, errChan>>
       ELSE IF next.provider + 1 < N /\ ~ctxDone
       THEN StartSession("init", next.provider + 1, 1) /\ UNCHANGED <<session, errChan>>
       ELSE Return /\ errChan' = TRUE
    /\ UNCHANGED <<env, hvars, pendingSwitch, mpc, ctxDone>>

InitialDelay ==
    /\ ppc = "delay" /\ mode = "init"
    /\ IF ctxDone THEN Return /\ errChan' = TRUE
       ELSE StartSession("init", next.provider, i + 1) /\ UNCHANGED <<session, errChan>>
    /\ UNCHANGED <<env, hvars, pendingSwitch, stray, mpc, ctxDone>>

(* Mutant of Attempts: only the first provider is tried.                   *)
OneAttempt == 1

Attempts == N

(* handoverPending: one attempt with each provider of the ring.            *)
AttemptFails ==
    /\ ppc = "wait" /\ mode # "init" /\ NotReady
    /\ GiveUp(next)
    /\ LET alternate == alternateProvider(next.provider)
       IN IF ctxDone \/ i >= Attempts \/ alternate = NoProvider
          THEN HandoverFails(mode)
          ELSE StartSession(mode, alternate, i + 1)
    /\ UNCHANGED <<env, hvars, chans, session, mpc, ctxDone>>

(* Mutant of DelayCancelled: the delay does not look at the context.       *)
DelayNotCancelled == FALSE

DelayCancelled == ctxDone

ReconnectDelay ==
    /\ ppc = "delay" /\ mode = "lost"
    /\ IF DelayCancelled THEN Return
       ELSE Handover("lost", alternateProvider(session.provider)) /\ UNCHANGED session
    /\ UNCHANGED <<env, hvars, chans, stray, mpc, ctxDone>>

(* The branches of the select in runPendingSub.                            *)
PendingDone ==
    /\ ppc = "select" /\ ctxDone
    /\ Dismiss(session) /\ Return
    /\ UNCHANGED <<env, hvars, chans, mpc, ctxDone>>

Rotate ==
    /\ ppc = "select"
    /\ LET alternate == alternateProvider(session.provider)
       IN alternate # NoProvider /\ Handover("rotate", alternate)
    /\ UNCHANGED <<env, hvars, chans, session, stray, mpc, ctxDone>>

Forced ==
    /\ ppc = "select" /\ pendingSwitch # <<>>
    /\ pendingSwitch' = Tail(pendingSwitch)
    /\ LET forced == Head(pendingSwitch)
       IN IF forced = session.provider \/ forced \notin url
          THEN UNCHANGED <<ppc, mode, i, next>>
          ELSE Handover("rotate", forced)
    /\ UNCHANGED <<env, hvars, errChan, session, stray, mpc, ctxDone>>

Disconnected ==
    /\ ppc = "select" /\ session.state = "ended"
    /\ LET alternate == alternateProvider(session.provider)
       IN IF alternate = NoProvider THEN Return
          ELSE Handover("lost", alternate) /\ UNCHANGED session
    /\ UNCHANGED <<env, hvars, chans, stray, mpc, ctxDone>>

PendingStep == SessionReady \/ InitialFails \/ InitialDelay \/ AttemptFails \/ ReconnectDelay

-----------------------------------------------------------------------------
(* main, from its select on.  That the coordinator stops is what           *)
(* StopsOnCancel of BlockPipeline and WorkersStop of PendingPipeline say.  *)

Shutdown ==
    /\ mpc = "select" /\ (errChan \/ ctxDone)
    /\ mpc' = "wait" /\ ctxDone' = TRUE
    /\ UNCHANGED <<env, hvars, chans, pvars>>

SubscriberWait ==
    /\ mpc = "wait" /\ hpc = "returned" /\ ppc = "returned"
    /\ mpc' = "exit"
    /\ UNCHANGED <<env, hvars, chans, pvars, ctxDone>>

Signal == ~ctxDone /\ ctxDone' = TRUE /\ UNCHANGED <<env, hvars, chans, pvars, mpc>>

(* Once the context is cancelled nobody asks a provider for anything.      *)
ProviderChanges ==
    /\ ~ctxDone
    /\ \E p \in url, st \in {"up", "silent", "down"} : status' = [status EXCEPT ![p] = st]
    /\ UNCHANGED <<url, hvars, chans, pvars, mpc, ctxDone>>

Exited == mpc = "exit" /\ UNCHANGED vars

Next ==
    \/ HeaderStep \/ PushHeader \/ Watchdog
    \/ PendingStep \/ PendingDone \/ Rotate \/ Forced \/ Disconnected
    \/ NextDialled \/ NextEnds \/ SessionEnds \/ StrayEnds
    \/ Shutdown \/ SubscriberWait \/ Signal \/ ProviderChanges \/ Exited

Spec == Init /\ [][Next]_vars

(* Dials end, timers fire, and select picks among its ready branches at    *)
(* random.                                                                 *)
FairSpec ==
    /\ Spec
    /\ WF_vars(HeaderStep) /\ WF_vars(Watchdog) /\ WF_vars(PendingStep)
    /\ WF_vars(PendingDone) /\ SF_vars(Rotate) /\ WF_vars(Disconnected)
    /\ WF_vars(NextDialled \/ NextEnds) /\ WF_vars(SessionEnds) /\ WF_vars(StrayEnds)
    /\ WF_vars(Shutdown) /\ WF_vars(SubscriberWait)

-----------------------------------------------------------------------------
(* Properties.                                                             *)

SessionType ==
    [provider : Provider \cup {NoProvider}, state : {"none", "dial", "live", "ended"},
     ready : BOOLEAN, cancelled : BOOLEAN]

TypeOK ==
    /\ hpc \in {"top", "stream", "delay", "returned"}
    /\ currentProvider \in Provider /\ quiet \in 0 .. HeaderTimeout
    /\ pendingSwitch \in Seq(Provider) /\ Len(pendingSwitch) <= SwitchBuffer /\ errChan \in BOOLEAN
    /\ ppc \in {"wait", "delay", "select", "returned"} /\ mode \in {"init", "rotate", "lost"}
    /\ i \in 1 .. (IF N > RetryCount THEN N ELSE RetryCount)
    /\ session \in SessionType /\ next \in SessionType /\ stray \subseteq SessionType
    /\ mpc \in {"select", "wait", "exit"} /\ ctxDone \in BOOLEAN

(* No subscription is left behind by rotations, forced changes, timeouts   *)
(* and failures: a session that is neither the current one nor the one     *)
(* being started has been cancelled, and the current one never is.         *)
NoStraySession ==
    /\ TypeOK
    /\ \A s \in stray : s.cancelled
    /\ ~session.cancelled /\ ~next.cancelled

(* When a provider works from some time on, headers are received again and *)
(* again, whichever provider was in use and however it failed.             *)
HeadersComeBack ==
    \A p \in Provider :
        <>[](status[p] = "up")
           => []<>(ctxDone \/ (hpc = "stream" /\ status[currentProvider] = "up"))

(* The same for pending transactions, when two providers are configured:   *)
(* with one, the goroutine returns when it is disconnected.  The program   *)
(* ends if not even the first session can be had.                          *)
PendingComesBack ==
    \A p \in Provider :
        (Cardinality(url) > 1 /\ <>[](status[p] = "up"))
           => []<>(ctxDone \/ (session.state = "live" /\ status[session.provider] = "up"))

(* A signal or a fatal error ends the program, wherever the goroutines are. *)
ShutsDown == (ctxDone \/ errChan) ~> mpc = "exit"

=============================================================================
