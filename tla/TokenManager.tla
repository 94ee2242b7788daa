----------------------------- MODULE TokenManager -----------------------------
(***************************************************************************)
(* internal/network/auth: the bearer token of the gRPC calls.  The         *)
(* interceptors ask GetAccessToken before every call; it answers from the  *)
(* cache, or joins the one refresh in flight (singleflight), whose leader  *)
(* asks the server without holding a lock.                                 *)
(*                                                                         *)
(* A token is the time of its exp claim, which is also expiresAt; None is  *)
(* the empty token.  The server gives all its tokens the same life.        *)
(***************************************************************************)
EXTENDS Integers

CONSTANTS
    Caller,                 \* the goroutines that make gRPC calls
    Life,                   \* life of a token
    tokenRefreshMargin,
    MaxTime                 \* bound: the clock

None == 0
NoLeader == "none"

ASSUME TokenAssumption ==
    /\ tokenRefreshMargin \in Nat /\ Life \in Nat /\ Life > tokenRefreshMargin
    /\ MaxTime \in Nat \ {0} /\ NoLeader \notin Caller

VARIABLES
    clock,
    accessToken,            \* the cached token
    leader,                 \* the caller that runs the refresh, or NoLeader
    gpc, token,             \* per caller: place in GetAccessToken, result
    issued,                 \* the server's answer on its way to the leader
    healthy, ctxDone        \* the server works; the client was closed

tvars == <<accessToken, leader, gpc, token, issued>>
env == <<clock, healthy, ctxDone>>

TokenInit ==
    /\ clock = 1 /\ accessToken = None /\ leader = NoLeader
    /\ gpc = [c \in Caller |-> "idle"] /\ token = [c \in Caller |-> None]
    /\ issued = [c \in Caller |-> None]
    /\ healthy \in BOOLEAN /\ ctxDone = FALSE

MayFail == ~healthy \/ ctxDone

-----------------------------------------------------------------------------

isAccessTokenValid == accessToken # None /\ clock + tokenRefreshMargin < accessToken

(* The first look, under the read lock.                                    *)
GetAccessToken(c) ==
    /\ gpc[c] = "idle"
    /\ IF isAccessTokenValid
       THEN gpc' = [gpc EXCEPT ![c] = "done"] /\ token' = [token EXCEPT ![c] = accessToken]
       ELSE gpc' = [gpc EXCEPT ![c] = "do"] /\ UNCHANGED token
    /\ UNCHANGED <<accessToken, leader, issued, env>>

(* Mutant of Join: every caller makes a refresh of its own.                *)
JoinNobody(c) ==
    /\ leader' = c
    /\ gpc' = [gpc EXCEPT ![c] = "recheck"]

(* singleflight.Group.Do: lead the refresh, or wait for the one in flight. *)
Join(c) ==
    IF leader = NoLeader
    THEN leader' = c /\ gpc' = [gpc EXCEPT ![c] = "recheck"]
    ELSE gpc' = [gpc EXCEPT ![c] = "join"] /\ UNCHANGED leader

Do(c) ==
    /\ gpc[c] = "do"
    /\ Join(c)
    /\ UNCHANGED <<accessToken, token, issued, env>>

(* The refresh ends: the leader and all who joined it get its result.      *)
Finish(c, result) ==
    LET served == {c} \cup {d \in Caller : gpc[d] = "join"}
    IN /\ gpc' = [d \in Caller |-> IF d \in served THEN "done" ELSE gpc[d]]
       /\ token' = [d \in Caller |-> IF d \in served THEN result ELSE token[d]]
       /\ issued' = [issued EXCEPT ![c] = None]

Recheck(c) ==
    /\ gpc[c] = "recheck"
    /\ IF isAccessTokenValid
       THEN Finish(c, accessToken) /\ leader' = NoLeader
       ELSE gpc' = [gpc EXCEPT ![c] = "auth"] /\ UNCHANGED <<token, issued, leader>>
    /\ UNCHANGED <<accessToken, env>>

(* The server makes a token; its answer takes its time.                    *)
Issue(c) ==
    /\ gpc[c] = "auth" /\ issued[c] = None /\ ~ctxDone
    /\ issued' = [issued EXCEPT ![c] = clock + Life]
    /\ UNCHANGED <<accessToken, leader, gpc, token, env>>

(* authenticate returns and the token is stored, under the lock.           *)
Store(c) ==
    /\ gpc[c] = "auth" /\ issued[c] # None
    /\ accessToken' = issued[c]
    /\ Finish(c, issued[c]) /\ leader' = NoLeader
    /\ UNCHANGED env

(* Mutant of Release: a failed refresh stays registered.                   *)
KeepLeader == UNCHANGED leader

Release == leader' = NoLeader

(* An error, an empty token or one without a usable exp claim.             *)
AuthFails(c) ==
    /\ gpc[c] = "auth" /\ MayFail
    /\ Finish(c, None) /\ Release
    /\ UNCHANGED <<accessToken, env>>

Refreshing(c) == Do(c) \/ Recheck(c) \/ Issue(c) \/ Store(c) \/ AuthFails(c)

-----------------------------------------------------------------------------
(* Properties.                                                             *)

TokenTypeOK ==
    /\ clock \in 1 .. MaxTime /\ accessToken \in 0 .. MaxTime + Life
    /\ leader \in Caller \cup {NoLeader}
    /\ gpc \in [Caller -> {"idle", "do", "join", "recheck", "auth", "done"}]
    /\ token \in [Caller -> 0 .. MaxTime + Life] /\ issued \in [Caller -> 0 .. MaxTime + Life]

(* A token in the cache is never replaced by one that expires earlier,     *)
(* however long the answers of the server take.                            *)
TokensOnlyNewer == [][accessToken' >= accessToken]_<<tvars, env>>

=============================================================================
