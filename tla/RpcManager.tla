------------------------------ MODULE RpcManager ------------------------------
(***************************************************************************)
(* internal/network/rpcManager: every call of the program to an Ethereum   *)
(* node goes through EthClientFunc, which rotates between the providers    *)
(* and, when one fails, tries the others.  The block goroutine, the        *)
(* cleanup goroutine and the pending workers call it at the same time; the *)
(* lock covers the choice of the first provider and the note of a          *)
(* successful failover, not the calls.                                     *)
(*                                                                         *)
(* NewRpcManager keeps only clients that it could dial, so the tests for a *)
(* nil client never hold.  FetchBatch is EthClientFunc with a batch.       *)
(***************************************************************************)
EXTENDS Integers, Sequences, SequencesExt

CONSTANTS
    N,                  \* number of clients, at least one
    Caller,             \* the goroutines that call
    RotateInterval,
    LimitType, Burst,   \* per client: the unit of its limiter and its burst
    Costs,              \* the RPCCosts of the program's calls
    MaxTime             \* bound: the clock

Client == 0 .. N - 1

ASSUME RpcAssumption ==
    /\ N \in Nat \ {0} /\ RotateInterval \in Nat \ {0} /\ MaxTime \in Nat
    /\ LimitType \in [Client -> {"CU", "RPC"}] /\ Burst \in [Client -> Nat]
    /\ \A cost \in Costs : cost.CU \in Nat /\ cost.RPC \in Nat

VARIABLES
    clock,                          \* time.Now()
    active, lastRotateAt,           \* under the lock
    pc, now, idx, i, cost,          \* locals of EthClientFunc, per caller
    up, ctxDone,                    \* clients that answer; the program was told to stop
    tried                           \* history: clients that failed the call, in order

shared == <<active, lastRotateAt>>
locals == <<now, idx, i, cost>>
env == <<clock, up, ctxDone>>
vars == <<env, shared, pc, locals, tried>>

NoCost == [CU |-> 0, RPC |-> 0]

Init ==
    /\ clock = 0
    /\ active = 0 /\ lastRotateAt = 0
    /\ pc = [c \in Caller |-> "idle"]
    /\ now = [c \in Caller |-> 0] /\ idx = [c \in Caller |-> 0]
    /\ i = [c \in Caller |-> 0] /\ cost = [c \in Caller |-> NoCost]
    /\ up \in SUBSET Client /\ ctxDone = FALSE
    /\ tried = [c \in Caller |-> <<>>]

-----------------------------------------------------------------------------

(* The time is read before the lock is asked for.                          *)
EthClientFunc(c) ==
    /\ pc[c] \in {"idle", "ok", "failed"}
    /\ now' = [now EXCEPT ![c] = clock]
    /\ \E k \in Costs : cost' = [cost EXCEPT ![c] = k]
    /\ pc' = [pc EXCEPT ![c] = "lock"]
    /\ i' = [i EXCEPT ![c] = 0] /\ tried' = [tried EXCEPT ![c] = <<>>]
    /\ UNCHANGED <<env, shared, idx>>

RotateDue(c) == now[c] - lastRotateAt >= RotateInterval

(* The first critical section.                                             *)
Choose(c) ==
    /\ pc[c] = "lock"
    /\ IF RotateDue(c)
       THEN active' = (active + 1) % N /\ lastRotateAt' = now[c]
       ELSE UNCHANGED shared
    /\ idx' = [idx EXCEPT ![c] = active']
    /\ pc' = [pc EXCEPT ![c] = "wait"]
    /\ UNCHANGED <<env, now, i, cost, tried>>

(* Mutant of Tried: the ring starts at the client that is active now.      *)
TriedFromActive(c) == (active + i[c]) % N

(* The client of the i-th attempt.                                         *)
Tried(c) == (idx[c] + i[c]) % N

(* Mutant of NextAttempt: a failed attempt is made again with the same     *)
(* client.                                                                 *)
SameAttempt(c) ==
    /\ pc' = [pc EXCEPT ![c] = "wait"]
    /\ UNCHANGED <<i, tried>>

(* The attempt failed: on to the next client, or the call fails.           *)
NextAttempt(c) ==
    /\ tried' = [tried EXCEPT ![c] = Append(@, Tried(c))]
    /\ i' = [i EXCEPT ![c] = @ + 1]
    /\ pc' = [pc EXCEPT ![c] = IF i[c] + 1 < N THEN "wait" ELSE "failed"]

Fits(c) == cost[c][LimitType[Tried(c)]] <= Burst[Tried(c)]

(* Client.Wait: the limiter lets the call pass in the end, at once refuses *)
(* a cost above its burst, and gives up when the context is cancelled.     *)
Wait(c) ==
    /\ pc[c] = "wait" /\ Fits(c) /\ ~ctxDone
    /\ pc' = [pc EXCEPT ![c] = "call"]
    /\ UNCHANGED <<env, shared, locals, tried>>

WaitFails(c) ==
    /\ pc[c] = "wait" /\ (~Fits(c) \/ ctxDone)
    /\ NextAttempt(c)
    /\ UNCHANGED <<env, shared, now, idx, cost>>

(* fn answers.  Nothing is noted when the first client did.                *)
Answer(c) ==
    /\ pc[c] = "call" /\ Tried(c) \in up /\ ~ctxDone
    /\ pc' = [pc EXCEPT ![c] = IF i[c] = 0 THEN "ok" ELSE "note"]
    /\ UNCHANGED <<env, shared, locals, tried>>

(* fn fails: the provider, the connection or the context.                  *)
CallFails(c) ==
    /\ pc[c] = "call" /\ (Tried(c) \notin up \/ ctxDone)
    /\ NextAttempt(c)
    /\ UNCHANGED <<env, shared, now, idx, cost>>

(* Mutant of Noted: the time the call began is noted.                      *)
NotedBegin(c) == active' = Tried(c) /\ lastRotateAt' = now[c]

Noted(c) == active' = Tried(c) /\ lastRotateAt' = clock

(* The second critical section.                                            *)
Failover(c) ==
    /\ pc[c] = "note"
    /\ Noted(c)
    /\ pc' = [pc EXCEPT ![c] = "ok"]
    /\ UNCHANGED <<env, locals, tried>>

-----------------------------------------------------------------------------

Tick == clock < MaxTime /\ clock' = clock + 1 /\ UNCHANGED <<up, ctxDone, shared, pc, locals, tried>>

Outage ==
    /\ \E p \in Client : up' = IF p \in up THEN up \ {p} ELSE up \cup {p}
    /\ UNCHANGED <<clock, ctxDone, shared, pc, locals, tried>>

Cancel == ~ctxDone /\ ctxDone' = TRUE /\ UNCHANGED <<clock, up, shared, pc, locals, tried>>

Ending(c) == Choose(c) \/ WaitFails(c) \/ CallFails(c) \/ Failover(c)

Next ==
    \/ \E c \in Caller : EthClientFunc(c) \/ Ending(c) \/ Wait(c) \/ Answer(c)
    \/ Tick \/ Outage \/ Cancel

Spec == Init /\ [][Next]_vars

(* The lock is released quickly, and the context ends what is in flight.   *)
(* Nothing makes a provider answer: the calls have no deadline.            *)
FairSpec == Spec /\ \A c \in Caller : WF_vars(ctxDone /\ Ending(c))

-----------------------------------------------------------------------------
(* Properties.                                                             *)

TypeOK ==
    /\ clock \in 0 .. MaxTime /\ active \in Client /\ lastRotateAt \in 0 .. clock
    /\ pc \in [Caller -> {"idle", "lock", "wait", "call", "note", "ok", "failed"}]
    /\ now \in [Caller -> 0 .. clock] /\ idx \in [Caller -> Client] /\ i \in [Caller -> 0 .. N]
    /\ up \subseteq Client /\ ctxDone \in BOOLEAN

(* A call tries no provider twice and fails only when every provider has   *)
(* failed it, although other calls move the active provider meanwhile.     *)
EveryProviderOnce ==
    /\ TypeOK
    /\ \A c \in Caller :
          /\ IsInjective(tried[c])
          /\ pc[c] = "failed" => Range(tried[c]) = Client

(* The time of the last change never goes back, although calls read the    *)
(* clock long before they get the lock: a slow call does not make the      *)
(* providers rotate early.                                                 *)
RotationClockAdvances == [][lastRotateAt' >= lastRotateAt]_vars

(* A cancellation ends every call, so that the goroutines that make them   *)
(* can be waited for.                                                      *)
CallsEndOnCancel ==
    \A c \in Caller : (ctxDone /\ pc[c] \in {"lock", "wait", "call", "note"})
                         ~> pc[c] \in {"ok", "failed"}

=============================================================================
