--------------------------- MODULE RpcManagerProofs ---------------------------
(***************************************************************************)
(* EthClientFunc, proved for any number of clients and callers, any        *)
(* limits and any costs.                                                   *)
(***************************************************************************)
EXTENDS RpcManager, TLAPS

(* The client at place k of the ring that starts at client a.              *)
Ring(a, k) == IF a + k < N THEN a + k ELSE a + k - N

(* The remainder of the code is one step round the ring: no sum it is      *)
(* applied to reaches 2 * N.                                               *)
LEMMA RingIsRemainder ==
    ASSUME NEW a \in Client, NEW k \in 0 .. N - 1
    PROVE  (a + k) % N = Ring(a, k)
<1>1. N \in Nat \ {0} BY RpcAssumption
<1>2. a \in Int /\ k \in Int /\ 0 <= a /\ a < N /\ 0 <= k /\ k < N BY <1>1 DEF Client
<1>3. CASE a + k < N
  BY <1>1, <1>2, <1>3 DEF Ring
<1>4. CASE a + k >= N
  BY <1>1, <1>2, <1>4 DEF Ring
<1>5. QED BY <1>1, <1>2, <1>3, <1>4

(* Within one round the ring meets every client once.                      *)
LEMMA RingInjective ==
    ASSUME NEW a \in Client, NEW k \in 0 .. N - 1, NEW l \in 0 .. N - 1,
           Ring(a, k) = Ring(a, l)
    PROVE  k = l
  BY RpcAssumption DEF Ring, Client

(* Within one round the ring misses no client.                             *)
LEMMA RingOnto ==
    ASSUME NEW a \in Client, NEW p \in Client
    PROVE  \E k \in 0 .. N - 1 : Ring(a, k) = p
<1>1. N \in Nat \ {0} BY RpcAssumption
<1> DEFINE k == IF p >= a THEN p - a ELSE p + N - a
<1>2. k \in 0 .. N - 1 BY <1>1 DEF Client
<1>3. Ring(a, k) = p BY <1>1 DEF Ring, Client
<1>4. QED BY <1>2, <1>3

-----------------------------------------------------------------------------
(* What a call c has tried is the start of the ring from the client that   *)
(* was active when it chose, whatever the other calls make of active since.*)
TriedIsRing(c) ==
    /\ Len(tried[c]) = i[c]
    /\ \A k \in 1 .. i[c] : tried[c][k] = Ring(idx[c], k - 1)

(* Where the call is tells how many attempts it has made.                  *)
Attempts(c) ==
    /\ pc[c] \in {"idle", "lock"} => i[c] = 0
    /\ pc[c] \in {"wait", "call", "note", "ok"} => i[c] < N
    /\ pc[c] = "failed" => i[c] = N

Inv ==
    /\ TypeOK /\ tried \in [Caller -> Seq(Client)]
    /\ \A c \in Caller : TriedIsRing(c) /\ Attempts(c)

(* The ring does not wrap before the call fails.                           *)
LEMMA TriedInRing ==
    ASSUME Inv, NEW c \in Caller, pc[c] \in {"wait", "call", "note"}
    PROVE  Tried(c) = Ring(idx[c], i[c]) /\ Tried(c) \in Client
<1>1. idx[c] \in Client /\ i[c] \in 0 .. N - 1
  BY RpcAssumption DEF Inv, TypeOK, Attempts
<1>2. Tried(c) = Ring(idx[c], i[c]) BY <1>1, RingIsRemainder DEF Tried
<1>3. QED BY <1>1, <1>2, RpcAssumption DEF Ring, Client

(* A failed attempt extends the ring by one.                               *)
LEMMA NextAttemptExtends ==
    ASSUME Inv, NEW c \in Caller, pc[c] \in {"wait", "call"}, NextAttempt(c),
           UNCHANGED <<env, shared, now, idx, cost>>
    PROVE  Inv'
<1>1. i[c] \in 0 .. N - 1 /\ idx[c] \in Client /\ N \in Nat \ {0}
  BY RpcAssumption DEF Inv, TypeOK, Attempts
<1>2. Tried(c) = Ring(idx[c], i[c]) /\ Tried(c) \in Client BY TriedInRing
<1>3. TypeOK' /\ tried' \in [Caller -> Seq(Client)]
  BY <1>1, <1>2 DEF Inv, TypeOK, NextAttempt, env, shared
<1>4. ASSUME NEW d \in Caller PROVE TriedIsRing(d)' /\ Attempts(d)'
  <2>1. CASE d # c
    BY <1>4, <2>1 DEF Inv, TypeOK, NextAttempt, TriedIsRing, Attempts
  <2>2. CASE d = c
    <3>1. tried[c] \in Seq(Client) /\ Len(tried[c]) = i[c] BY DEF Inv, TriedIsRing
    <3> DEFINE s == tried[c]
    <3>2. /\ i'[c] = i[c] + 1 /\ idx' = idx
          /\ pc'[c] = IF i[c] + 1 < N THEN "wait" ELSE "failed"
      BY DEF Inv, TypeOK, NextAttempt
    <3>3. tried'[c] = Append(s, Tried(c)) BY DEF Inv, NextAttempt
    <3>4. QED BY <1>1, <1>2, <2>2, <3>1, <3>2, <3>3 DEF Inv, TriedIsRing, Attempts
  <2>3. QED BY <2>1, <2>2
<1>5. QED BY <1>3, <1>4 DEF Inv

(* No call has been made.                                                  *)
LEMMA InitInv == Init => Inv
<1> SUFFICES ASSUME Init PROVE Inv OBVIOUS
<1>1. N \in Nat \ {0} /\ MaxTime \in Nat BY RpcAssumption
<1>2. TypeOK
  <2>1. 0 \in Client /\ 0 \in 0 .. N /\ 0 \in 0 .. MaxTime /\ 0 \in 0 .. 0 BY <1>1 DEF Client
  <2>2. up \subseteq Client /\ ctxDone \in BOOLEAN BY DEF Init
  <2>3. QED BY <2>1, <2>2 DEF Init, TypeOK
<1>3. tried = [c \in Caller |-> <<>>] /\ <<>> \in Seq(Client) /\ Len(<<>>) = 0
  BY DEF Init
<1>4. tried \in [Caller -> Seq(Client)] BY <1>3
<1>5. ASSUME NEW c \in Caller PROVE TriedIsRing(c) /\ Attempts(c)
  BY <1>3, <1>5 DEF Init, TriedIsRing, Attempts
<1>6. QED BY <1>2, <1>4, <1>5 DEF Inv

(* Every step of a call, of the clock and of the providers keeps the       *)
(* invariant.                                                              *)
LEMMA NextInv == Inv /\ [Next]_vars => Inv'
<1> SUFFICES ASSUME Inv, [Next]_vars PROVE Inv' OBVIOUS
<1>1. ASSUME NEW c \in Caller, EthClientFunc(c) PROVE Inv'
  <2>1. N \in Nat \ {0} /\ <<>> \in Seq(Client) /\ Len(<<>>) = 0 BY RpcAssumption
  <2>2. TypeOK' BY <1>1, <2>1 DEF EthClientFunc, Inv, TypeOK, env, shared
  <2>3. tried' \in [Caller -> Seq(Client)] BY <1>1, <2>1 DEF EthClientFunc, Inv
  <2>4. ASSUME NEW d \in Caller PROVE TriedIsRing(d)' /\ Attempts(d)'
    <3>1. CASE d = c
      BY <1>1, <2>1, <3>1 DEF EthClientFunc, Inv, TypeOK, TriedIsRing, Attempts
    <3>2. CASE d # c
      BY <1>1, <2>4, <3>2 DEF EthClientFunc, Inv, TypeOK, TriedIsRing, Attempts
    <3>3. QED BY <3>1, <3>2
  <2>5. QED BY <2>2, <2>3, <2>4 DEF Inv
<1>2. ASSUME NEW c \in Caller, Choose(c) PROVE Inv'
  <2>1. N \in Nat \ {0} /\ active \in Client BY RpcAssumption DEF Inv, TypeOK
  <2>2. (active + 1) % N \in Client BY <2>1 DEF Client
  <2>3. active' \in Client /\ (lastRotateAt' = lastRotateAt \/ lastRotateAt' = now[c])
    BY <1>2, <2>1, <2>2 DEF Choose, shared
  <2>4. TypeOK' /\ tried' \in [Caller -> Seq(Client)]
    BY <1>2, <2>3 DEF Choose, Inv, TypeOK, env
  <2>5. ASSUME NEW d \in Caller PROVE TriedIsRing(d)' /\ Attempts(d)'
    <3>1. CASE d = c
      BY <1>2, <2>1, <3>1 DEF Choose, Inv, TypeOK, TriedIsRing, Attempts
    <3>2. CASE d # c
      BY <1>2, <2>5, <3>2 DEF Choose, Inv, TypeOK, TriedIsRing, Attempts
    <3>3. QED BY <3>1, <3>2
  <2>6. QED BY <2>4, <2>5 DEF Inv
<1>3. ASSUME NEW c \in Caller, Wait(c) PROVE Inv'
  BY <1>3 DEF Wait, Inv, TypeOK, TriedIsRing, Attempts, env, shared, locals
<1>4. ASSUME NEW c \in Caller, WaitFails(c) PROVE Inv'
  BY <1>4, NextAttemptExtends DEF WaitFails
<1>5. ASSUME NEW c \in Caller, Answer(c) PROVE Inv'
  BY <1>5 DEF Answer, Inv, TypeOK, TriedIsRing, Attempts, env, shared, locals
<1>6. ASSUME NEW c \in Caller, CallFails(c) PROVE Inv'
  BY <1>6, NextAttemptExtends DEF CallFails
<1>7. ASSUME NEW c \in Caller, Failover(c) PROVE Inv'
  <2>1. Tried(c) \in Client BY <1>7, TriedInRing DEF Failover
  <2>2. QED
    BY <1>7, <2>1 DEF Failover, Noted, Inv, TypeOK, TriedIsRing, Attempts, env, locals
<1>8. CASE Tick
  BY <1>8, RpcAssumption DEF Tick, Inv, TypeOK, TriedIsRing, Attempts, shared, locals
<1>9. CASE Outage
  BY <1>9 DEF Outage, Inv, TypeOK, TriedIsRing, Attempts, shared, locals
<1>10. CASE Cancel
  BY <1>10 DEF Cancel, Inv, TypeOK, TriedIsRing, Attempts, shared, locals
<1>11. CASE UNCHANGED vars
  BY <1>11 DEF vars, env, shared, locals, Inv, TypeOK, TriedIsRing, Attempts
<1>12. QED
  BY <1>1, <1>2, <1>3, <1>4, <1>5, <1>6, <1>7, <1>8, <1>9, <1>10, <1>11 DEF Next, Ending

(* What a call has tried is a part of the ring, in every reachable state.  *)
THEOREM Invariance == Spec => []Inv
  BY InitInv, NextInv, PTL DEF Spec

(* A call tries no provider twice and gives up only when every provider    *)
(* has failed it, however the other calls move the active provider.        *)
THEOREM ProvidersOnce == Spec => []EveryProviderOnce
<1>1. Inv => EveryProviderOnce
  <2> SUFFICES ASSUME Inv, NEW c \in Caller
               PROVE  /\ IsInjective(tried[c])
                      /\ pc[c] = "failed" => Range(tried[c]) = Client
    BY DEF Inv, EveryProviderOnce
  <2>1. /\ N \in Nat \ {0} /\ idx[c] \in Client /\ i[c] \in 0 .. N
        /\ tried[c] \in Seq(Client) /\ DOMAIN tried[c] = 1 .. i[c]
        /\ \A k \in 1 .. i[c] : tried[c][k] = Ring(idx[c], k - 1)
    BY RpcAssumption DEF Inv, TypeOK, TriedIsRing
  <2>2. IsInjective(tried[c])
    <3> SUFFICES ASSUME NEW a \in 1 .. i[c], NEW b \in 1 .. i[c], tried[c][a] = tried[c][b]
                 PROVE  a = b
      BY <2>1 DEF IsInjective
    <3>1. a - 1 \in 0 .. N - 1 /\ b - 1 \in 0 .. N - 1 BY <2>1
    <3>2. a - 1 = b - 1 BY <2>1, <3>1, RingInjective
    <3>3. QED BY <2>1, <3>2
  <2>3. ASSUME pc[c] = "failed" PROVE Range(tried[c]) = Client
    <3>1. i[c] = N BY <2>3 DEF Inv, Attempts
    <3>2. ASSUME NEW p \in Client PROVE p \in Range(tried[c])
      <4>1. PICK k \in 0 .. N - 1 : Ring(idx[c], k) = p BY <2>1, RingOnto
      <4>2. k + 1 \in 1 .. i[c] /\ tried[c][k + 1] = p BY <2>1, <3>1, <4>1
      <4>3. QED BY <2>1, <4>2 DEF Range
    <3>3. Range(tried[c]) \subseteq Client BY <2>1 DEF Range
    <3>4. QED BY <3>2, <3>3
  <2>4. QED BY <2>2, <2>3
<1>2. QED BY <1>1, Invariance, PTL

(* The time of the last change of provider never goes back: a call that    *)
(* rotates read the clock at least RotateInterval after the last change,   *)
(* and a call that fails over notes the clock itself.                      *)
THEOREM RotationClock == Spec => RotationClockAdvances
<1> DEFINE A == lastRotateAt' >= lastRotateAt
<1>1. Inv /\ [Next]_vars => [A]_vars
  <2> SUFFICES ASSUME Inv, Next PROVE A OBVIOUS
  <2>1. /\ lastRotateAt \in Int /\ clock \in Int /\ lastRotateAt <= clock
        /\ RotateInterval \in Nat /\ \A c \in Caller : now[c] \in Int
    BY RpcAssumption DEF Inv, TypeOK
  <2>2. ASSUME NEW c \in Caller, Choose(c) PROVE A
    BY <2>1, <2>2 DEF Choose, RotateDue, shared
  <2>3. ASSUME NEW c \in Caller, Failover(c) PROVE A
    BY <2>1, <2>3 DEF Failover, Noted
  <2>4. CASE lastRotateAt' = lastRotateAt BY <2>1, <2>4
  <2>5. QED
    BY <2>2, <2>3, <2>4 DEF Next, Ending, EthClientFunc, WaitFails, CallFails, Wait, Answer,
       Tick, Outage, Cancel, shared
<1>2. QED BY <1>1, Invariance, PTL DEF Spec, RotationClockAdvances

=============================================================================
