---------------------------- MODULE IngestionProofs ----------------------------
(***************************************************************************)
(* The subscriptions, proved for any number of providers, with or without  *)
(* a Url, any retry count, timeout and capacity of pendingSwitch.          *)
(***************************************************************************)
EXTENDS Ingestion, SequenceTheorems, NaturalsInduction, WellFoundedInduction, TLAPS

(* A retry with the same provider is pending only while attempts are left. *)
RetryLeft == ppc = "delay" /\ mode = "init" => i < RetryCount

Inv == url \subseteq Provider /\ NoStraySession /\ RetryLeft

-----------------------------------------------------------------------------

(* What the assumption says of each constant.                              *)
LEMMA Constants ==
    /\ N \in Nat /\ N > 0 /\ 0 \in Provider /\ NoProvider = N
    /\ SwitchBuffer \in Nat /\ SwitchBuffer > 0 /\ RetryCount \in Nat /\ RetryCount > 0
    /\ HeaderTimeout \in Nat /\ HeaderTimeout > 0
  BY IngestionAssumption DEF Provider, NoProvider

(* A set of numbers that is not empty has a smallest.                      *)
LEMMA Smallest ==
    ASSUME NEW T, T \subseteq Nat, T # {}
    PROVE  \E m \in T : \A k \in T : m <= k
<1> DEFINE R == OpToRel(<, Nat)
<1>1. IsWellFoundedOn(R, Nat) BY NatLessThanWellFounded, Zenon
<1>2. \A k, m \in Nat : k < m => <<k, m>> \in R BY DEF OpToRel
<1> HIDE DEF R
<1>3. PICK m \in T : \A k \in T : ~(<<k, m>> \in R) BY <1>1, WFMin
<1>4. \A k \in T : ~(k < m) BY <1>2, <1>3
<1>5. \A k \in T : k \in Nat /\ m \in Nat OBVIOUS
<1>6. QED BY <1>4, <1>5

(* The alternate is a provider with a Url, and another one, if there is    *)
(* such a provider in the ring.                                            *)
LEMMA AlternateIsProvider ==
    ASSUME NEW p \in Provider \cup {NoProvider}, url \subseteq Provider
    PROVE  /\ alternateProvider(p) \in Provider \cup {NoProvider}
           /\ alternateProvider(p) # NoProvider => alternateProvider(p) \in url \ {p}
<1> DEFINE others == {k \in 1 .. N : (p + k) % N \in url \ {p}}
           least == CHOOSE k \in others : \A l \in others : k <= l
<1>1. CASE others = {} BY <1>1 DEF alternateProvider
<1>2. CASE others # {}
  <2>1. others \subseteq Nat BY Constants
  <2>2. \E m \in others : \A k \in others : m <= k
    <3> HIDE DEF others
    <3>1. QED BY <1>2, <2>1, Smallest
  <2>3. least \in others BY <2>2
  <2>4. (p + least) % N \in url \ {p} BY <2>3
  <2>5. alternateProvider(p) = (p + least) % N BY <1>2 DEF alternateProvider
  <2> HIDE DEF others, least
  <2>6. QED BY <2>4, <2>5
<1>3. QED BY <1>1, <1>2

(* The values a session takes.                                             *)
LEMMA SessionTypes ==
    /\ NoSession \in SessionType /\ ~NoSession.cancelled
    /\ \A p \in Provider \cup {NoProvider} :
          /\ NewSession(p) \in SessionType /\ ~NewSession(p).cancelled
          /\ [NoSession EXCEPT !.provider = p] \in SessionType
          /\ ~[NoSession EXCEPT !.provider = p].cancelled
    /\ \A s \in SessionType :
          /\ Dialled(s) \in SessionType /\ Dialled(s).cancelled = s.cancelled
          /\ Ended(s) \in SessionType /\ Ended(s).cancelled = s.cancelled
          /\ [s EXCEPT !.cancelled = TRUE] \in SessionType
          /\ [s EXCEPT !.cancelled = TRUE].cancelled
          /\ s.provider \in Provider \cup {NoProvider}
<1>1. NoSession \in SessionType /\ ~NoSession.cancelled BY DEF NoSession, SessionType
<1>2. ASSUME NEW p \in Provider \cup {NoProvider}
      PROVE  /\ NewSession(p) \in SessionType /\ ~NewSession(p).cancelled
             /\ [NoSession EXCEPT !.provider = p] \in SessionType
             /\ ~[NoSession EXCEPT !.provider = p].cancelled
  BY DEF NoSession, NewSession, SessionType
<1>3. ASSUME NEW s \in SessionType
      PROVE  /\ Dialled(s) \in SessionType /\ Dialled(s).cancelled = s.cancelled
             /\ Ended(s) \in SessionType /\ Ended(s).cancelled = s.cancelled
             /\ [s EXCEPT !.cancelled = TRUE] \in SessionType
             /\ [s EXCEPT !.cancelled = TRUE].cancelled
             /\ s.provider \in Provider \cup {NoProvider}
  BY DEF Dialled, Ended, SessionType
<1>4. QED BY <1>1, <1>2, <1>3

(* A session that is dismissed joins the strays cancelled.                 *)
LEMMA Dismissed ==
    ASSUME Inv, NEW s \in SessionType, Dismiss(s)
    PROVE  stray' \subseteq SessionType /\ \A t \in stray' : t.cancelled
<1>1. stray \subseteq SessionType /\ \A t \in stray : t.cancelled
  BY DEF Inv, NoStraySession, TypeOK
<1>2. [s EXCEPT !.cancelled = TRUE] \in SessionType /\ [s EXCEPT !.cancelled = TRUE].cancelled
  BY SessionTypes
<1>3. QED BY <1>1, <1>2 DEF Dismiss

-----------------------------------------------------------------------------

(* The first session is being started.                                     *)
LEMMA InitInv == Init => Inv
<1> SUFFICES ASSUME Init PROVE Inv OBVIOUS
<1>1. <<>> \in Seq(Provider) /\ Len(<<>>) = 0 BY EmptySeq
<1>2. /\ 0 \in 0 .. HeaderTimeout /\ 0 <= SwitchBuffer
      /\ 1 \in 1 .. (IF N > RetryCount THEN N ELSE RetryCount)
  BY Constants
<1>3. TypeOK BY <1>1, <1>2, Constants, SessionTypes DEF Init, TypeOK
<1>4. \A s \in stray : s.cancelled BY DEF Init
<1>5. ~session.cancelled /\ ~next.cancelled BY Constants, SessionTypes DEF Init
<1>6. url \subseteq Provider /\ RetryLeft BY DEF Init, RetryLeft
<1>7. QED BY <1>3, <1>4, <1>5, <1>6 DEF Inv, NoStraySession

(* The header goroutine moves between providers and does not touch the     *)
(* sessions.                                                               *)
LEMMA HeaderInv ==
    ASSUME Inv, HeaderStep \/ PushHeader \/ Watchdog
    PROVE  Inv'
<1>1. UNCHANGED <<env, pvars, mpc, ctxDone>>
  BY DEF HeaderStep, runHeaderSub, connectHeadAndStream, HeaderLost, HeaderDelay, PushHeader, Watchdog
<1>2. /\ hpc \in {"top", "stream", "delay", "returned"} /\ currentProvider \in Provider
      /\ quiet \in 0 .. HeaderTimeout /\ errChan \in BOOLEAN
      /\ pendingSwitch \in Seq(Provider) /\ Len(pendingSwitch) <= SwitchBuffer
  BY DEF Inv, NoStraySession, TypeOK
<1>3. LET a == alternateProvider(currentProvider)
      IN a \in Provider \cup {NoProvider} /\ (a # NoProvider => a \in Provider)
  BY <1>2, AlternateIsProvider DEF Inv
<1>4. 0 \in 0 .. HeaderTimeout BY Constants
<1> DEFINE Fits ==
      /\ hpc' \in {"top", "stream", "delay", "returned"} /\ currentProvider' \in Provider
      /\ quiet' \in 0 .. HeaderTimeout
      /\ pendingSwitch' \in Seq(Provider) /\ Len(pendingSwitch') <= SwitchBuffer
<1>5. ASSUME ChangeProvider PROVE Fits
  <2>1. CASE pendingSwitch' = pendingSwitch
    BY <1>2, <1>3, <1>4, <1>5, <2>1 DEF ChangeProvider
  <2>2. CASE /\ Len(pendingSwitch) < SwitchBuffer /\ alternateProvider(currentProvider) # NoProvider
             /\ pendingSwitch' = Append(pendingSwitch, alternateProvider(currentProvider))
    <3>1. pendingSwitch' \in Seq(Provider) /\ Len(pendingSwitch') = Len(pendingSwitch) + 1
      BY <1>2, <1>3, <2>2, AppendProperties
    <3>2. Len(pendingSwitch) \in Nat BY <1>2, LenProperties
    <3>3. Len(pendingSwitch') <= SwitchBuffer BY <2>2, <3>1, <3>2, Constants
    <3>4. QED BY <1>3, <1>4, <1>2, <1>5, <3>1, <3>3 DEF ChangeProvider
  <2>3. QED BY <1>5, <2>1, <2>2 DEF ChangeProvider
<1>6. Fits /\ errChan' \in BOOLEAN
  <2>1. CASE runHeaderSub BY <1>2, <1>3, <2>1 DEF runHeaderSub
  <2>2. CASE connectHeadAndStream BY <1>2, <1>5, <2>2 DEF connectHeadAndStream
  <2>3. CASE HeaderLost BY <1>2, <1>5, <2>3 DEF HeaderLost
  <2>4. CASE HeaderDelay BY <1>2, <2>4 DEF HeaderDelay, chans
  <2>5. CASE PushHeader BY <1>2, <1>4, <2>5 DEF PushHeader, chans
  <2>6. CASE Watchdog
    <3>1. quiet < HeaderTimeout => quiet + 1 \in 0 .. HeaderTimeout BY <1>2, Constants
    <3>2. QED BY <1>2, <1>5, <2>6, <3>1 DEF Watchdog
  <2>7. QED BY <2>1, <2>2, <2>3, <2>4, <2>5, <2>6 DEF HeaderStep
<1>7. TypeOK' BY <1>1, <1>6 DEF Inv, NoStraySession, TypeOK, pvars
<1>8. QED BY <1>1, <1>7 DEF Inv, NoStraySession, RetryLeft, env, pvars

(* The session goroutines and main.                                        *)
LEMMA SessionInv ==
    ASSUME Inv, \/ NextDialled \/ NextEnds \/ SessionEnds \/ StrayEnds
                \/ Shutdown \/ SubscriberWait \/ Signal \/ ProviderChanges
    PROVE  Inv'
<1>1. UNCHANGED <<url, hvars, chans, ppc, mode, i>>
  BY DEF NextDialled, NextEnds, SessionEnds, StrayEnds, Shutdown, SubscriberWait, Signal,
         ProviderChanges, env, pvars
<1>2. session \in SessionType /\ next \in SessionType /\ stray \subseteq SessionType
  BY DEF Inv, NoStraySession, TypeOK
<1>3. /\ session' \in {session, Ended(session)} /\ next' \in {next, Ended(next), Dialled(next)}
      /\ stray' \subseteq stray
  BY DEF NextDialled, NextEnds, SessionEnds, StrayEnds, Shutdown, SubscriberWait, Signal,
         ProviderChanges, pvars
<1>4. /\ session' \in SessionType /\ session'.cancelled = session.cancelled
      /\ next' \in SessionType /\ next'.cancelled = next.cancelled
  BY <1>2, <1>3, SessionTypes
<1>5. mpc' \in {"select", "wait", "exit"} /\ ctxDone' \in BOOLEAN
  BY DEF NextDialled, NextEnds, SessionEnds, StrayEnds, Shutdown, SubscriberWait, Signal,
         ProviderChanges, Inv, NoStraySession, TypeOK
<1>6. TypeOK' BY <1>1, <1>2, <1>3, <1>4, <1>5 DEF Inv, NoStraySession, TypeOK, hvars, chans
<1>7. QED BY <1>1, <1>3, <1>4, <1>6 DEF Inv, NoStraySession, RetryLeft

(* The pending goroutine: whatever it stops referring to, it cancels.      *)
LEMMA PendingInv ==
    ASSUME Inv, PendingStep \/ PendingDone \/ Rotate \/ Forced \/ Disconnected
    PROVE  Inv'
<1> DEFINE Tries == 1 .. (IF N > RetryCount THEN N ELSE RetryCount)
           Ring == Provider \cup {NoProvider}
           Fits ==
             /\ ppc' \in {"wait", "delay", "select", "returned"} /\ mode' \in {"init", "rotate", "lost"}
             /\ i' \in Tries
             /\ next' \in SessionType /\ ~next'.cancelled
             /\ ppc' = "delay" /\ mode' = "init" => i' < RetryCount
           Kept == session' \in SessionType /\ ~session'.cancelled
           Cancelled == stray' \subseteq SessionType /\ \A t \in stray' : t.cancelled
<1>1. UNCHANGED <<env, hvars, mpc, ctxDone>>
  BY DEF PendingStep, SessionReady, InitialFails, InitialDelay, AttemptFails, ReconnectDelay,
         PendingDone, Rotate, Forced, Disconnected
<1>2. /\ url \subseteq Provider
      /\ ppc \in {"wait", "delay", "select", "returned"} /\ mode \in {"init", "rotate", "lost"}
      /\ i \in Tries
      /\ session \in SessionType /\ ~session.cancelled
      /\ next \in SessionType /\ ~next.cancelled
      /\ stray \subseteq SessionType /\ \A t \in stray : t.cancelled
      /\ pendingSwitch \in Seq(Provider) /\ Len(pendingSwitch) <= SwitchBuffer
      /\ errChan \in BOOLEAN
  BY DEF Inv, NoStraySession, TypeOK
<1>3. 1 \in Tries /\ (\A k \in Tries : k \in Nat /\ (k < N \/ k < RetryCount => k + 1 \in Tries))
  BY Constants
<1>4. session.provider \in Ring /\ next.provider \in Ring BY <1>2, SessionTypes
<1>5. alternateProvider(session.provider) \in Ring /\ alternateProvider(next.provider) \in Ring
  BY <1>2, <1>4, AlternateIsProvider
<1> HIDE DEF Tries
<1>6. ASSUME NEW m \in {"init", "rotate", "lost"}, NEW p \in Ring, NEW n \in Tries, StartSession(m, p, n)
      PROVE  Fits
  BY <1>6, SessionTypes DEF StartSession
<1>7. ASSUME NEW m, HandoverFails(m) PROVE Fits
  BY <1>3, <1>7, SessionTypes DEF HandoverFails, Idle
<1>8. ASSUME Return PROVE Fits /\ Kept BY <1>3, <1>8, SessionTypes DEF Return, Idle
<1>9. ASSUME NEW m \in {"rotate", "lost"}, NEW p \in Ring, Handover(m, p) PROVE Fits
  BY <1>3, <1>6, <1>7, <1>9 DEF Handover
<1>10. ASSUME NEW s \in {session, next}, Dismiss(s) PROVE Cancelled
  BY <1>2, <1>10, Dismissed
<1> DEFINE Channels ==
             /\ pendingSwitch' \in Seq(Provider) /\ Len(pendingSwitch') <= SwitchBuffer
             /\ errChan' \in BOOLEAN
<1> HIDE DEF Fits, Kept, Cancelled
<1>11. Fits /\ Kept /\ Cancelled /\ Channels
  <2>0. /\ session' = session => Kept
        /\ stray' = stray => Cancelled
        /\ UNCHANGED chans => Channels
    BY <1>2 DEF Kept, Cancelled, chans
  <2>1. CASE SessionReady
    <3>1. Cancelled BY <1>10, <2>1 DEF SessionReady
    <3>2. Kept BY <1>2, <2>1 DEF SessionReady, Kept
    <3>3. Fits BY <1>3, <2>1, SessionTypes DEF SessionReady, Idle, Fits
    <3>4. QED BY <2>0, <2>1, <3>1, <3>2, <3>3 DEF SessionReady
  <2>2. CASE InitialFails
    <3>1. Cancelled BY <1>10, <2>2 DEF InitialFails, GiveUp
    <3>2. CASE i < RetryCount
      <4>1. Fits BY <1>2, <1>4, <2>2, <3>2, SessionTypes DEF InitialFails, Fits
      <4>2. QED BY <1>2, <2>0, <2>2, <3>1, <3>2, <4>1 DEF InitialFails
    <3>3. CASE ~(i < RetryCount) /\ next.provider + 1 < N /\ ~ctxDone
      <4>1. next.provider + 1 \in Ring BY <1>4, <3>3, Constants DEF Provider
      <4>2. StartSession("init", next.provider + 1, 1) BY <2>2, <3>3 DEF InitialFails
      <4>3. Fits BY <1>3, <1>6, <4>1, <4>2
      <4>4. QED BY <1>2, <2>0, <2>2, <3>1, <3>3, <4>3 DEF InitialFails
    <3>4. CASE ~(i < RetryCount) /\ ~(next.provider + 1 < N /\ ~ctxDone)
      BY <1>2, <1>8, <2>2, <3>1, <3>4 DEF InitialFails
    <3>5. QED BY <3>2, <3>3, <3>4
  <2>3. CASE InitialDelay
    <3>1. i + 1 \in Tries BY <1>2, <1>3, <2>3 DEF InitialDelay, Inv, RetryLeft
    <3>2. ASSUME StartSession("init", next.provider, i + 1) PROVE Fits
      BY <1>4, <1>6, <3>1, <3>2
    <3>3. QED BY <1>2, <1>8, <2>0, <2>3, <3>2 DEF InitialDelay
  <2>4. CASE AttemptFails
    <3>1. Cancelled BY <1>10, <2>4 DEF AttemptFails, GiveUp
    <3>2. CASE HandoverFails(mode) BY <1>7, <2>0, <2>4, <3>1, <3>2 DEF AttemptFails
    <3>3. CASE i < N /\ StartSession(mode, alternateProvider(next.provider), i + 1)
      <4>1. i + 1 \in Tries BY <1>2, <1>3, <3>3
      <4>2. Fits BY <1>2, <1>5, <1>6, <3>3, <4>1
      <4>3. QED BY <2>0, <2>4, <3>1, <4>2 DEF AttemptFails
    <3>4. i < N \/ i >= N BY <1>2, <1>3, Constants
    <3>5. QED BY <2>4, <3>2, <3>3, <3>4 DEF AttemptFails, Attempts
  <2>5. CASE ReconnectDelay
    BY <1>5, <1>8, <1>9, <2>0, <2>5 DEF ReconnectDelay
  <2>6. CASE PendingDone
    BY <1>8, <1>10, <2>0, <2>6 DEF PendingDone
  <2>7. CASE Rotate
    BY <1>5, <1>9, <2>0, <2>7 DEF Rotate
  <2>8. CASE Forced
    <3>1. pendingSwitch # <<>> /\ pendingSwitch' = Tail(pendingSwitch) BY <2>8 DEF Forced
    <3>2. /\ Head(pendingSwitch) \in Provider /\ Tail(pendingSwitch) \in Seq(Provider)
          /\ Len(Tail(pendingSwitch)) = Len(pendingSwitch) - 1 /\ Len(pendingSwitch) \in Nat
      BY <1>2, <3>1, HeadTailProperties, LenProperties
    <3>3. Channels
      <4>1. Len(pendingSwitch') <= SwitchBuffer BY <1>2, <3>1, <3>2, Constants
      <4>2. QED BY <1>2, <2>8, <3>1, <3>2, <4>1 DEF Forced
    <3>4. UNCHANGED <<ppc, mode, i, next>> => Fits BY <1>2 DEF Inv, RetryLeft, Fits
    <3>5. Handover("rotate", Head(pendingSwitch)) => Fits BY <1>9, <3>2
    <3>6. QED BY <2>0, <2>8, <3>3, <3>4, <3>5 DEF Forced
  <2>9. CASE Disconnected
    BY <1>5, <1>8, <1>9, <2>0, <2>9 DEF Disconnected
  <2>10. QED
    BY <2>1, <2>2, <2>3, <2>4, <2>5, <2>6, <2>7, <2>8, <2>9 DEF PendingStep
<1>12. TypeOK'
  BY <1>1, <1>11 DEF Inv, NoStraySession, TypeOK, hvars, Fits, Kept, Cancelled, Tries
<1>13. QED
  BY <1>1, <1>11, <1>12 DEF Inv, NoStraySession, RetryLeft, env, Fits, Kept, Cancelled

(* Every step of every goroutine keeps the invariant.                      *)
LEMMA NextInv == Inv /\ [Next]_vars => Inv'
<1> SUFFICES ASSUME Inv, [Next]_vars PROVE Inv' OBVIOUS
<1>1. CASE HeaderStep \/ PushHeader \/ Watchdog BY <1>1, HeaderInv
<1>2. CASE PendingStep \/ PendingDone \/ Rotate \/ Forced \/ Disconnected BY <1>2, PendingInv
<1>3. CASE \/ NextDialled \/ NextEnds \/ SessionEnds \/ StrayEnds
           \/ Shutdown \/ SubscriberWait \/ Signal \/ ProviderChanges
  BY <1>3, SessionInv
<1>4. CASE UNCHANGED vars
  BY <1>4 DEF vars, env, hvars, chans, pvars, Inv, NoStraySession, TypeOK, RetryLeft
<1>5. QED BY <1>1, <1>2, <1>3, <1>4 DEF Next, Exited

(* The invariant holds throughout.                                         *)
THEOREM Invariance == Spec => []Inv
  BY InitInv, NextInv, PTL DEF Spec

(* No rotation, forced change, timeout or failure of the pending goroutine *)
(* leaves a session running that nobody refers to and nobody cancelled.    *)
THEOREM NoSessionLeft == Spec => []NoStraySession
<1>1. Inv => NoStraySession BY DEF Inv
<1>2. QED BY <1>1, Invariance, PTL

=============================================================================
