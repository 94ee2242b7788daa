----------------------------- MODULE PoolSnapshot -----------------------------
(***************************************************************************)
(* What the analyzer reads of the pool: PendingMemPool.Snapshot, which     *)
(* copies every transaction and marks those behind a hole in the nonces of *)
(* their sender.  It takes the read lock, so it runs between two           *)
(* operations, and changes nothing.  The accounts come in no particular    *)
(* order and the caller sorts the copies: they are a set here.             *)
(***************************************************************************)
EXTENDS PendingMemPool, FiniteSets

(* A nonce is a uint64.                                                    *)
ASSUME NonceAssumption == Nonces \subseteq 0 .. U64 - 1

Increasing(s) == \A i, j \in DOMAIN s : i < j => s[i] < s[j]

NoncesOf(p, a) == {s[2] : s \in {t \in DOMAIN p.NonceMap : t[1] = a}}

(* The keys of the account's map, sorted.                                  *)
SortedNonces(S) == CHOOSE s \in [1 .. Cardinality(S) -> S] : Increasing(s)

(* Mutant of HasGap: a nonce that follows its predecessor has no gap.      *)
HasGapJustBefore(hadGap, expected, nonce) == nonce # expected

(* Behind one hole the gap stays: those transactions have to wait too.     *)
HasGap(hadGap, expected, nonce) == hadGap \/ nonce # expected

(* The loop over the nonces of one account, lowest first: what it finds at *)
(* each of them.                                                           *)
GapFlags(nonces) ==
    LET hasGap[k \in DOMAIN nonces] ==
            IF k = 1 THEN HasGap(FALSE, nonces[1], nonces[1])
            ELSE HasGap(hasGap[k - 1], (nonces[k - 1] + 1) % U64, nonces[k])
    IN hasGap

SnapshotAccount(p, a) ==
    LET nonces == SortedNonces(NoncesOf(p, a))
    IN {[Hash |-> p.NonceMap[<<a, nonces[k]>>], NonceGap |-> GapFlags(nonces)[k]] : k \in DOMAIN nonces}

Snapshot(p) == UNION {SnapshotAccount(p, a) : a \in p.Accounts}

-----------------------------------------------------------------------------

Lowest(h) == CHOOSE n \in Nonces :
    /\ <<From[h], n>> \in DOMAIN pool.NonceMap
    /\ \A m \in Nonces : <<From[h], m>> \in DOMAIN pool.NonceMap => n <= m

(* Whatever replacements, inclusions and expiries left of an account, the  *)
(* snapshot between two operations has every transaction that can be found *)
(* by hash exactly once, marked if and only if some nonce between the      *)
(* lowest of its sender and its own is missing.                            *)
SnapshotFlagsGaps ==
    mu = "free" =>
        Snapshot(pool) =
            {[Hash |-> h,
              NonceGap |-> \E n \in Lowest(h) .. Nonce[h] : <<From[h], n>> \notin DOMAIN pool.NonceMap] :
                h \in DOMAIN pool.HashIndex}

=============================================================================
