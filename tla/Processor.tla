------------------------------- MODULE Processor -------------------------------
(***************************************************************************)
(* internal/processor, internal/blockstore and the locking of              *)
(* internal/gasanalyzer: the state that four kinds of goroutines share.    *)
(*                                                                         *)
(*   the block goroutine   Initialize, then ProcessBlock and Resync, as    *)
(*                         blockProcLoop calls them (bpc, job);            *)
(*   the failed blocks     CleanupFailedBlock, as failBlockLoop calls it   *)
(*                         (fpc);                                          *)
(*   the workers           GetTxInfo: fetch, stamp, push (wpc);            *)
(*   the analyzer          AnalyzeGasPrice, on its ticker (apc).           *)
(*                                                                         *)
(* Every critical section of pool.mu, blockstore.mu and analyzer.mu is one *)
(* step, and so is every RPC; runMu is held over several.  The pool is     *)
(* PoolSpec, which PendingMemPool implements.                              *)
(*                                                                         *)
(* Fees are abstracted to where they come from: every call of              *)
(* UpdateLatestBlockData gets a number, gen, and a result remembers the    *)
(* gen of the data it was computed from, 0 for the zero value.             *)
(***************************************************************************)
EXTENDS PoolTypes, FiniteSets

CONSTANTS
    Workers,        \* pendingWorkerCount goroutines
    StartBlock,     \* newest block at Initialize
    MaxBlock,       \* bound: the chain ends here
    MaxResync,      \* bound: resyncs in one behaviour
    MaxBlockCount,  \* capacity of the block store
    Unannounced,    \* transactions that no provider announces before their block
    NoTx            \* what a worker without a transaction has

ASSUME ProcessorAssumption ==
    /\ StartBlock \in Nat \ {0} /\ MaxBlock \in Nat /\ StartBlock <= MaxBlock
    /\ MaxResync \in Nat
    /\ MaxBlockCount \in Nat \ {0}
    /\ Unannounced \subseteq Hash
    /\ NoTx \notin Hash

VARIABLES
    content,        \* the chain: the transactions of every block
    live,           \* the pending pool
    blocks,         \* blockstore.blocks, newest first
    ready, latestBlockData, latestResult, runMu,    \* the analyzer's fields
    gen, resetGen,  \* history: updates so far, and those before the last Reset
    bpc, job, done, resyncs,    \* block goroutine; done is nextBlockNum - 1
    fpc, failed,                \* failBlockLoop and its channel
    wpc, wtx, wblock, coming,   \* workers, and the hashes still to be heard of
    apc, out                    \* analyzer goroutine and the result it builds

pstate == <<live, blocks>>
analyzer == <<ready, latestBlockData, latestResult, gen, resetGen>>
bvars == <<bpc, job, done, resyncs>>
fvars == <<fpc, failed>>
wvars == <<wpc, wtx, wblock, coming>>
avars == <<apc, out, runMu>>
vars == <<content, pstate, analyzer, bvars, fvars, wvars, avars>>

Pool == INSTANCE PoolSpec

Num == StartBlock .. MaxBlock
BlockAt(n) == [Number |-> n, Time |-> n]    \* block times grow with the number
ZeroData == [BlockNumber |-> 0, gen |-> 0]
ZeroResult == [AnalyzerBlock |-> 0, AnalyzerPending |-> 0]
NoOut == [data |-> 0, block |-> 0, pending |-> 0]
NoJob == [Kind |-> "none", Number |-> 0, Waits |-> {}]
Job(kind, n) == [Kind |-> kind, Number |-> n, Waits |-> {}]

(* No two blocks hold the same transaction, and the first is not empty:    *)
(* Initialize and Resync refuse an empty block.                            *)
Init ==
    /\ content \in [Num -> SUBSET Hash]
    /\ \A m, n \in Num : m # n => content[m] \cap content[n] = {}
    /\ content[StartBlock] # {}
    /\ live = EmptyMap /\ blocks = <<>>
    /\ ready = FALSE /\ latestBlockData = ZeroData /\ latestResult = ZeroResult
    /\ runMu = "free" /\ gen = 0 /\ resetGen = 0
    /\ bpc = "start" /\ job = NoJob /\ done = 0 /\ resyncs = 0
    /\ fpc = 0 /\ failed = {}
    /\ wpc = [w \in Workers |-> "idle"] /\ wtx = [w \in Workers |-> NoTx]
    /\ wblock = [w \in Workers |-> BlockAt(0)] /\ coming = Hash \ Unannounced
    /\ apc = "idle" /\ out = NoOut

-----------------------------------------------------------------------------
(* The block goroutine: what starts a job.                                 *)

Initialize ==
    /\ bpc = "start"
    /\ job' = Job("init", StartBlock)
    /\ bpc' = "add"
    /\ UNCHANGED <<content, pstate, analyzer, done, resyncs, fvars, wvars, avars>>

(* ProcessBlock got the receipts of the next block.  An empty block skips  *)
(* the pool and the store.                                                 *)
ProcessBlock ==
    /\ bpc = "idle" /\ done < MaxBlock
    /\ LET empty == content[done + 1] = {}
       IN /\ job' = Job(IF empty THEN "empty" ELSE "process", done + 1)
          /\ bpc' = IF empty THEN "expire" ELSE "clear"
    /\ UNCHANGED <<content, pstate, analyzer, done, resyncs, fvars, wvars, avars>>

(* Every attempt failed before it changed anything; the pipeline skips the *)
(* block and leaves it to failBlockLoop.                                   *)
SkipBlock ==
    /\ bpc = "idle" /\ done < MaxBlock
    /\ done' = done + 1
    /\ failed' = failed \cup {done + 1}
    /\ UNCHANGED <<content, pstate, analyzer, bpc, job, resyncs, fpc, wvars, avars>>

(* The newest block, maybe from a provider that is behind.                 *)
Resync(n) ==
    /\ bpc = "idle" /\ resyncs < MaxResync
    /\ content[n] # {}
    /\ job' = Job("resync", n)
    /\ resyncs' = resyncs + 1
    /\ bpc' = "reset"
    /\ UNCHANGED <<content, pstate, analyzer, done, fvars, wvars, avars>>

-----------------------------------------------------------------------------
(* The block goroutine: the parts of a job.                                *)

(* Mutant of runMuFree: Reset does not wait for a running analysis.        *)
runMuIgnored == TRUE

runMuFree == runMu = "free"

Reset ==
    /\ bpc = "reset" /\ runMuFree
    /\ ready' = FALSE
    /\ latestResult' = ZeroResult
    /\ latestBlockData' = ZeroData
    /\ resetGen' = gen
    /\ bpc' = "clearStore"
    /\ UNCHANGED <<content, pstate, gen, job, done, resyncs, fvars, wvars, avars>>

(* Mutant of Cleared: the store keeps the blocks from before the resync.   *)
NotCleared(bs) == bs

Cleared(bs) == <<>>

ClearStore ==
    /\ bpc = "clearStore"
    /\ blocks' = Cleared(blocks)
    /\ bpc' = "add"
    /\ UNCHANGED <<content, live, analyzer, job, done, resyncs, fvars, wvars, avars>>

(* RemoveByReceipts: the transactions of the block leave the pool, and the *)
(* wait of each is recorded, unless it was seen after the block.           *)
Included(n) == content[n] \cap DOMAIN live

WaitsOf(n) ==
    {n - live[h].SeenBlock : h \in {g \in Included(n) :
        live[g].SeenBlock <= n /\ live[g].SeenBlockTime <= BlockAt(n).Time}}

ClearMempoolToReceipts ==
    /\ bpc = "clear"
    /\ job' = [job EXCEPT !.Waits = WaitsOf(job.Number)]
    /\ live' = Without(live, content[job.Number])
    /\ bpc' = "add"
    /\ UNCHANGED <<content, blocks, analyzer, done, resyncs, fvars, wvars, avars>>

Truncated(bs) == SubSeq(bs, 1, IF Len(bs) > MaxBlockCount THEN MaxBlockCount ELSE Len(bs))

AddBlock ==
    /\ bpc = "add"
    /\ blocks' = Truncated(<<[Number |-> job.Number, Waits |-> job.Waits]>> \o blocks)
    /\ bpc' = IF job.Kind = "process" THEN "expire" ELSE "latest"
    /\ UNCHANGED <<content, live, analyzer, job, done, resyncs, fvars, wvars, avars>>

removeExpired ==
    /\ bpc = "expire"
    /\ Pool!Expire(job.Number)
    /\ bpc' = "latest"
    /\ UNCHANGED <<content, blocks, analyzer, job, done, resyncs, fvars, wvars, avars>>

(* UpdateBlockInfoForAnalysis: two critical sections.  The store is never  *)
(* empty here: Initialize and Resync put a block into it.                  *)
UpdateLatestBlockData ==
    /\ bpc = "latest"
    /\ gen' = gen + 1
    /\ latestBlockData' = [BlockNumber |-> job.Number, gen |-> gen + 1]
    /\ bpc' = "analysis"
    /\ UNCHANGED <<content, pstate, ready, latestResult, resetGen, job, done, resyncs,
                   fvars, wvars, avars>>

(* Mutant of AfterAnalysis: Resync forgets to clear the pool and SetReady. *)
AfterAnalysisForgetful(kind) == IF kind = "init" THEN "ready" ELSE "idle"

AfterAnalysis(kind) ==
    CASE kind = "init" -> "ready" [] kind = "resync" -> "clearPool" [] OTHER -> "idle"

(* Mutant of BlockFees: an empty block leaves the old percentiles alone.   *)
BlockFeesUnlessEmpty(kind) == IF kind = "empty" THEN latestResult.AnalyzerBlock ELSE gen

BlockFees(kind) == gen

UpdateAnalBlock ==
    /\ bpc = "analysis"
    /\ latestResult' = [latestResult EXCEPT !.AnalyzerBlock = BlockFees(job.Kind)]
    /\ bpc' = AfterAnalysis(job.Kind)
    /\ done' = job.Number
    /\ job' = IF bpc' = "idle" THEN NoJob ELSE job
    /\ UNCHANGED <<content, pstate, ready, latestBlockData, gen, resetGen, resyncs,
                   fvars, wvars, avars>>

ClearPool ==
    /\ bpc = "clearPool"
    /\ Pool!Clear
    /\ bpc' = "ready"
    /\ UNCHANGED <<content, blocks, analyzer, job, done, resyncs, fvars, wvars, avars>>

SetReady ==
    /\ bpc = "ready"
    /\ ready' = TRUE
    /\ bpc' = "idle"
    /\ job' = NoJob
    /\ UNCHANGED <<content, pstate, latestBlockData, latestResult, gen, resetGen,
                   done, resyncs, fvars, wvars, avars>>

-----------------------------------------------------------------------------
(* The failed blocks: fetch the receipts again, then remove the included   *)
(* transactions; the statistics are dropped.                               *)

FetchFailedBlock ==
    /\ fpc = 0
    /\ \E n \in failed :
          /\ failed' = failed \ {n}
          /\ fpc' \in {0, n}        \* the RPC fails, or answers
    /\ UNCHANGED <<content, pstate, analyzer, bvars, wvars, avars>>

CleanupFailedBlock ==
    /\ fpc # 0
    /\ live' = Without(live, content[fpc])
    /\ fpc' = 0
    /\ UNCHANGED <<content, blocks, analyzer, bvars, failed, wvars, avars>>

-----------------------------------------------------------------------------
(* GetTxInfo.  Subscriptions start after Initialize has returned.          *)

FetchTx(w) ==
    /\ bpc # "start" /\ job.Kind # "init"
    /\ wpc[w] = "idle"
    /\ \E h \in coming :
          /\ coming' = coming \ {h}
          /\ wtx' = [wtx EXCEPT ![w] = h]
    /\ wpc' = [wpc EXCEPT ![w] = "fetched"]
    /\ UNCHANGED <<content, pstate, analyzer, bvars, fvars, wblock, avars>>

(* GetCurrentBlockNumAndTime                                               *)
StampTx(w) ==
    /\ wpc[w] = "fetched"
    /\ wblock' = [wblock EXCEPT ![w] = BlockAt(latestBlockData.BlockNumber)]
    /\ wpc' = [wpc EXCEPT ![w] = "stamped"]
    /\ UNCHANGED <<content, pstate, analyzer, bvars, fvars, wtx, coming, avars>>

PushTx(w) ==
    /\ wpc[w] = "stamped"
    /\ IF wtx[w] \in Malformed THEN UNCHANGED live ELSE Pool!Offer(wtx[w], wblock[w])
    /\ wpc' = [wpc EXCEPT ![w] = "idle"]
    /\ wtx' = [wtx EXCEPT ![w] = NoTx]
    /\ wblock' = [wblock EXCEPT ![w] = BlockAt(0)]
    /\ UNCHANGED <<content, blocks, analyzer, bvars, fvars, coming, avars>>

-----------------------------------------------------------------------------
(* AnalyzeGasPrice                                                         *)

(* The ticker fires; without ready the analysis ends as it began.          *)
StartAnalysis ==
    /\ apc = "idle" /\ runMu = "free" /\ ready
    /\ runMu' = "analysis"
    /\ out' = [NoOut EXCEPT !.data = latestBlockData.gen]
    /\ apc' = "collect"
    /\ UNCHANGED <<content, pstate, analyzer, bvars, fvars, wvars>>

(* Snapshot and PendingPercentiles end in UpdateAnalPending.               *)
UpdateAnalPending ==
    /\ apc = "collect"
    /\ latestResult' = [latestResult EXCEPT !.AnalyzerPending = out.data]
    /\ apc' = "result"
    /\ UNCHANGED <<content, pstate, ready, latestBlockData, gen, resetGen,
                   bvars, fvars, wvars, out, runMu>>

(* The block number and base fee are those read at the start; the two      *)
(* priority fees are the newest.                                           *)
UpdateResult ==
    /\ apc = "result"
    /\ out' = [out EXCEPT !.block = latestResult.AnalyzerBlock,
                          !.pending = latestResult.AnalyzerPending]
    /\ apc' = "send"
    /\ UNCHANGED <<content, pstate, analyzer, bvars, fvars, wvars, runMu>>

sendResultToGRPC ==
    /\ apc = "send"
    /\ apc' = "idle" /\ out' = NoOut
    /\ runMu' = "free"
    /\ UNCHANGED <<content, pstate, analyzer, bvars, fvars, wvars>>

-----------------------------------------------------------------------------

BlockStep ==
    \/ Initialize \/ Reset \/ ClearStore \/ ClearMempoolToReceipts \/ AddBlock
    \/ removeExpired \/ UpdateLatestBlockData \/ UpdateAnalBlock \/ ClearPool \/ SetReady

AnalyzerStep == UpdateAnalPending \/ UpdateResult \/ sendResultToGRPC

(* The chain has ended and everything that was under way is done.          *)
Quiet ==
    /\ bpc = "idle" /\ done = MaxBlock /\ resyncs = MaxResync
    /\ coming = {} /\ failed = {}
    /\ UNCHANGED vars

Next ==
    \/ BlockStep
    \/ ProcessBlock \/ SkipBlock \/ (\E n \in Num : Resync(n))
    \/ FetchFailedBlock \/ CleanupFailedBlock
    \/ \E w \in Workers : FetchTx(w) \/ StampTx(w) \/ PushTx(w)
    \/ StartAnalysis \/ AnalyzerStep
    \/ Quiet

Spec == Init /\ [][Next]_vars

(* A goroutine that is not blocked runs.  Reset competes for runMu with    *)
(* the next analysis: a Go mutex hands over to a waiter it starved.        *)
Fairness == WF_vars(BlockStep) /\ SF_vars(Reset) /\ WF_vars(AnalyzerStep)

FairSpec == Spec /\ Fairness

-----------------------------------------------------------------------------
(* Properties.                                                             *)

(* Every variable keeps its type, and the block store its capacity.        *)
TypeOK ==
    /\ content \in [Num -> SUBSET Hash]
    /\ IsMap(live, Hash, [SeenBlock : 0 .. MaxBlock, SeenBlockTime : 0 .. MaxBlock])
    /\ blocks \in Seq([Number : Num, Waits : SUBSET (0 .. MaxBlock)])
    /\ Len(blocks) <= MaxBlockCount
    /\ ready \in BOOLEAN /\ runMu \in {"free", "analysis"}
    /\ latestBlockData \in [BlockNumber : {0} \cup Num, gen : 0 .. gen]
    /\ latestResult \in [AnalyzerBlock : 0 .. gen, AnalyzerPending : 0 .. gen]
    /\ gen \in Nat /\ resetGen \in 0 .. gen
    /\ bpc \in {"start", "idle", "reset", "clearStore", "clear", "add", "expire",
                "latest", "analysis", "clearPool", "ready"}
    /\ done \in {0} \cup Num /\ resyncs \in 0 .. MaxResync
    /\ fpc \in {0} \cup Num /\ failed \subseteq Num
    /\ wpc \in [Workers -> {"idle", "fetched", "stamped"}]
    /\ coming \subseteq Hash
    /\ apc \in {"idle", "collect", "result", "send"}
    /\ out \in [data : 0 .. gen, block : 0 .. gen, pending : 0 .. gen]

(* The block store is ordered newest first without repetition, also after  *)
(* a resync that went back: the decay of a block is its position there.    *)
BlocksNewestFirst ==
    /\ TypeOK
    /\ \A i, j \in 1 .. Len(blocks) : i < j => blocks[i].Number > blocks[j].Number

(* A prediction is computed from data of one lifecycle: neither the block  *)
(* number nor the block fees nor the pending fees in it are zero values or *)
(* survived the last Reset.                                                *)
PredictionOfOneLifecycle ==
    apc = "send" => /\ out.data > resetGen /\ out.block > resetGen
                    /\ out.pending = out.data

(* Although an analysis may begin between the two critical sections of an  *)
(* update, the block fees blended into a prediction are at most one update *)
(* older than the block data it names.  Blocks that arrive during the      *)
(* analysis make them newer, by any number of updates.                     *)
PredictionAtMostOneBehind ==
    apc = "send" => out.block >= out.data - 1

(* A Resync gets hold of runMu, however often the analysis runs, and ends  *)
(* with the analyzer ready again.                                          *)
AnalysisResumes == (bpc = "reset" ~> ~ready) /\ (~ready ~> ready)

(* The comment at RemoveByReceipts: it counts within how many blocks a     *)
(* transaction was included.  The program cannot have waited longer than   *)
(* it has been listening.                                                  *)
WaitsWithinUptime ==
    \A i \in 1 .. Len(blocks) : \A wait \in blocks[i].Waits :
        wait <= blocks[i].Number - StartBlock

=============================================================================
