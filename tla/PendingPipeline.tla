---------------------------- MODULE PendingPipeline ----------------------------
(***************************************************************************)
(* From an announced hash to the pool: the subscription sessions of        *)
(* internal/network/ingestion filter the hashes through a cache they share *)
(* (cache.go), internal/coordinator/pendingPipeline.go passes them through *)
(* a bounded channel to workers that collect batches, and                  *)
(* Process.GetTxInfo fetches a batch chunk by chunk.  What a full channel, *)
(* a failed call or a cancellation costs is counted.                       *)
(***************************************************************************)
EXTENDS Integers, Sequences, FiniteSets, SequencesExt

CONSTANTS
    Hash, NoHash,   \* transaction hashes, and none of them
    Sessions,       \* two sessions receive during a handover between providers
    Announced,      \* what the provider of each session announces, once
    CacheSize,      \* capacity of the LRU cache
    Workers,        \* pendingWorkerCount goroutines
    BufferSize,     \* txBufferSize
    MaxBatch,       \* maxBatchSize
    ChunkSize       \* getTxChunkSize

ASSUME PendingAssumption ==
    /\ BufferSize \in Nat \ {0} /\ MaxBatch \in Nat \ {0} /\ ChunkSize \in Nat \ {0}
    /\ CacheSize \in Nat \ {0} /\ NoHash \notin Hash
    /\ IsFiniteSet(Sessions) /\ IsFiniteSet(Workers)
    /\ Announced \in [Sessions -> SUBSET Hash]

VARIABLES
    coming,             \* per session: what its provider has yet to announce
    new,                \* per session: the new hash it is about to push
    cache,              \* the LRU cache, least recently used first
    jobs,               \* the channel
    wpc, batch, from,   \* per worker: place, batch, first index of the next chunk
    ctxDone,
    accepted, evicted,  \* history, per hash: found new; forgotten by the cache
    dropped, handled    \* history, per hash: refused by the full channel; left
                        \* the workers, fetched or not

ivars == <<coming, new, cache, accepted, evicted>>
chan == <<jobs, dropped>>
wvars == <<wpc, batch, from>>
vars == <<ivars, chan, wvars, ctxDone, handled>>

Zero == [h \in Hash |-> 0]
Copies(list, h) == Cardinality({k \in DOMAIN list : list[k] = h})
Plus(count, list) == [h \in Hash |-> count[h] + Copies(list, h)]

Init ==
    /\ coming = Announced /\ new = [s \in Sessions |-> NoHash]
    /\ cache = <<>> /\ jobs = <<>>
    /\ wpc = [w \in Workers |-> "select"]
    /\ batch = [w \in Workers |-> <<>>] /\ from = [w \in Workers |-> 1]
    /\ ctxDone = FALSE
    /\ accepted = Zero /\ evicted = Zero
    /\ dropped = Zero /\ handled = Zero

-----------------------------------------------------------------------------
(* The sessions                                                            *)

Place(list, h) == CHOOSE k \in DOMAIN list : list[k] = h

Used(list, h) == Append(IF h \in Range(list) THEN RemoveAt(list, Place(list, h)) ELSE list, h)

(* Mutant of Remembered: a full cache takes in nothing new.                *)
RememberedFirst(list, h) == IF Len(list) < CacheSize THEN Used(list, h) ELSE list

(* lru.Get and lru.Add: the hash becomes the most recently used one, and   *)
(* the cache keeps its size.                                               *)
Remembered(list, h) ==
    IF Len(Used(list, h)) > CacheSize THEN Tail(Used(list, h)) ELSE Used(list, h)

(* A session receives a hash; Seen holds the lock of the cache throughout. *)
Seen(s, h) ==
    /\ ~ctxDone /\ new[s] = NoHash /\ h \in coming[s]
    /\ coming' = [coming EXCEPT ![s] = @ \ {h}]
    /\ cache' = Remembered(cache, h)
    /\ evicted' = [g \in Hash |-> IF g \in Range(cache) \ Range(cache')
                                  THEN evicted[g] + 1 ELSE evicted[g]]
    /\ IF h \in Range(cache)
       THEN UNCHANGED <<new, accepted>>
       ELSE new' = [new EXCEPT ![s] = h] /\ accepted' = Plus(accepted, <<h>>)
    /\ UNCHANGED <<chan, wvars, ctxDone, handled>>

(* PushTxHash: a full channel refuses the hash, which stays in the cache.  *)
push(s) ==
    /\ new[s] # NoHash
    /\ IF Len(jobs) < BufferSize
       THEN jobs' = Append(jobs, new[s]) /\ UNCHANGED dropped
       ELSE dropped' = Plus(dropped, <<new[s]>>) /\ UNCHANGED jobs
    /\ new' = [new EXCEPT ![s] = NoHash]
    /\ UNCHANGED <<coming, cache, accepted, evicted, wvars, ctxDone, handled>>

Cancel == ~ctxDone /\ ctxDone' = TRUE /\ UNCHANGED <<ivars, chan, wvars, handled>>

-----------------------------------------------------------------------------
(* The workers                                                             *)

Full(list) == Len(list) >= MaxBatch

(* The receive branch of the worker's select; a full batch is flushed.     *)
Collect(w) ==
    /\ wpc[w] = "select" /\ jobs # <<>>
    /\ jobs' = Tail(jobs)
    /\ batch' = [batch EXCEPT ![w] = Append(@, Head(jobs))]
    /\ wpc' = [wpc EXCEPT ![w] = IF Full(batch'[w]) THEN "fetch" ELSE "select"]
    /\ UNCHANGED <<ivars, dropped, from, ctxDone, handled>>

(* Mutant of Tick: only a full batch is flushed.                           *)
NoTick(w) == FALSE

(* The ticker's branch: flush returns at once on an empty batch.           *)
Tick(w) ==
    /\ wpc[w] = "select" /\ batch[w] # <<>>
    /\ wpc' = [wpc EXCEPT ![w] = "fetch"]
    /\ UNCHANGED <<ivars, chan, batch, from, ctxDone, handled>>

ChunkEnd(i, n) == IF i + ChunkSize - 1 > n THEN n ELSE i + ChunkSize - 1

Chunk(w) == SubSeq(batch[w], from[w], ChunkEnd(from[w], Len(batch[w])))

(* GetTxInfo, one chunk: whether the call fails and the chunk is passed    *)
(* over, or some transactions come back and go to the pool (FetchTx and    *)
(* PushTx of Processor), the loop takes the next chunk.                    *)
FetchChunk(w) ==
    /\ wpc[w] = "fetch" /\ from[w] <= Len(batch[w])
    /\ handled' = Plus(handled, Chunk(w))
    /\ from' = [from EXCEPT ![w] = @ + ChunkSize]
    /\ UNCHANGED <<ivars, chan, wpc, batch, ctxDone>>

(* Mutant of Emptied: the batch is kept after a flush.                     *)
NotEmptied(list) == list

Emptied(list) == <<>>

Flushed(w) ==
    /\ wpc[w] = "fetch" /\ from[w] > Len(batch[w])
    /\ batch' = [batch EXCEPT ![w] = Emptied(@)]
    /\ from' = [from EXCEPT ![w] = 1]
    /\ wpc' = [wpc EXCEPT ![w] = "select"]
    /\ UNCHANGED <<ivars, chan, ctxDone, handled>>

(* Mutant of WorkerDone: a break that leaves the select and not the loop.  *)
WorkerBreak(w) == wpc[w] = "select" /\ ctxDone /\ UNCHANGED vars

(* The worker returns with what it had collected.                          *)
WorkerDone(w) ==
    /\ wpc[w] = "select" /\ ctxDone
    /\ handled' = Plus(handled, batch[w])
    /\ batch' = [batch EXCEPT ![w] = <<>>]
    /\ wpc' = [wpc EXCEPT ![w] = "stopped"]
    /\ UNCHANGED <<ivars, chan, from, ctxDone>>

Working(w) == FetchChunk(w) \/ Flushed(w)

Terminated == (\A w \in Workers : wpc[w] = "stopped") /\ UNCHANGED vars

Quiet ==
    /\ jobs = <<>> /\ \A w \in Workers : batch[w] = <<>>
    /\ \A s \in Sessions : coming[s] = {} /\ new[s] = NoHash
    /\ UNCHANGED vars

Next ==
    \/ \E s \in Sessions : push(s) \/ \E h \in Hash : Seen(s, h)
    \/ Cancel
    \/ \E w \in Workers : Collect(w) \/ Tick(w) \/ Working(w) \/ WorkerDone(w)
    \/ Terminated \/ Quiet

Spec == Init /\ [][Next]_vars

(* A call ends, the ticker fires, and select picks among its ready         *)
(* branches at random.                                                     *)
FairSpec ==
    /\ Spec
    /\ \A w \in Workers :
          WF_vars(Working(w)) /\ SF_vars(Collect(w)) /\ SF_vars(Tick(w)) /\ SF_vars(WorkerDone(w))

-----------------------------------------------------------------------------
(* Properties.                                                             *)

(* The channel keeps its capacity and every batch its size.                *)
TypeOK ==
    /\ coming \in [Sessions -> SUBSET Hash] /\ new \in [Sessions -> Hash \cup {NoHash}]
    /\ cache \in Seq(Hash) /\ Len(cache) <= CacheSize /\ IsInjective(cache)
    /\ jobs \in Seq(Hash) /\ Len(jobs) <= BufferSize
    /\ wpc \in [Workers -> {"select", "fetch", "stopped"}]
    /\ batch \in [Workers -> Seq(Hash)] /\ \A w \in Workers : Len(batch[w]) <= MaxBatch
    /\ from \in [Workers -> Nat]
    /\ ctxDone \in BOOLEAN
    /\ \A count \in {accepted, evicted, dropped, handled} : count \in [Hash -> Nat]

(* A hash that both sessions announce is accepted once, and again only     *)
(* after the cache had to forget it.                                       *)
NoRepeats == \A h \in Hash : accepted[h] <= evicted[h] + 1

(* Where h waits in a batch: the worker, and the index in its batch.       *)
Undone(h) == {p \in Workers \X (1 .. MaxBatch) :
                 p[2] \in from[p[1]] .. Len(batch[p[1]]) /\ batch[p[1]][p[2]] = h}

(* Every accepted hash is in one place: about to be pushed, in the         *)
(* channel, in one batch ahead of the chunk being fetched, or settled.     *)
(* None is fetched by two workers or in two batches, and none disappears.  *)
FetchedOnce ==
    /\ TypeOK
    /\ \A h \in Hash :
          accepted[h] = Cardinality({s \in Sessions : new[s] = h}) + Copies(jobs, h)
                        + Cardinality(Undone(h)) + dropped[h] + handled[h]

(* Every hash that entered the channel is asked for, unless the program is *)
(* stopped: also the last of a batch that does not divide into chunks, or  *)
(* never fills.                                                            *)
EveryHashFetched ==
    \A h \in Hash : (h \in Range(jobs)) ~> (handled[h] > 0 \/ ctxDone)

(* After a cancellation every worker returns, so that stop returns.        *)
WorkersStop == ctxDone ~> \A w \in Workers : wpc[w] = "stopped"

=============================================================================
