----------------------------- MODULE BlockPipeline -----------------------------
(***************************************************************************)
(* internal/coordinator/blockPipeline.go: block headers arrive from a      *)
(* subscription that loses, repeats and reorders them; the pipeline hands  *)
(* every block to the processor once and in order, fetches the headers it  *)
(* missed, gives up on a block after RetryCount attempts, follows reorgs,  *)
(* and starts over from the newest block when it lags too far behind.      *)
(*                                                                         *)
(* Two goroutines run: blockProcLoop (pc) and failBlockLoop (fpc).  Every  *)
(* call of the processor is an RPC and a step of its own, so that the      *)
(* chain, the subscription and a cancellation move between any two.        *)
(* nextBlockNum and pendingBlock are only touched by blockProcLoop, so     *)
(* what it does between two RPCs is one step.                              *)
(***************************************************************************)
EXTENDS Integers, Sequences, FiniteSetsExt, Maps

CONSTANTS
    HeadBufferSize, FailedBlockBufferSize,  \* channel capacities
    RetryCount,     \* attempts at one block
    MaxBlockLag,    \* distance at which the pipeline resynchronises
    InitHead,       \* newest block when the program starts
    MaxBlock,       \* bound: the chain stops growing here
    MaxVersion,     \* bound: versions of one block that reorgs create
    ReorgBlocks,    \* bound: the blocks a reorg may begin with
    EmptyBlocks     \* the headers of blocks without a transaction

ASSUME PipelineAssumption ==
    /\ HeadBufferSize \in Nat \ {0}
    /\ FailedBlockBufferSize \in Nat \ {0}
    /\ RetryCount \in Nat \ {0}
    /\ MaxBlockLag \in Nat \ {0}
    /\ InitHead \in Nat \ {0}
    /\ MaxBlock \in Nat
    /\ InitHead <= MaxBlock
    /\ MaxVersion \in Nat

VARIABLES
    head, chain,    \* the network: newest block, version of every block
    healthy,        \* RPCs answer, and no provider lags behind the chain
    ctxDone,        \* the context is cancelled
    headerChan, failedBlockChan, wakeupChan,
    nextBlockNum, pendingBlock,
    pc, hdr, attempt, gapNum, gapTop,   \* blockProcLoop
    fpc, fhdr,                          \* failBlockLoop
    base, log,      \* history: the last block taken over by Initialize or
                    \* resync, and the blocks done with since
    stalled         \* history: "call" when the last procAvailable ended in a
                    \* failed RPC, "newest" when its resync could not use the
                    \* newest block, "no" otherwise

net == <<head, chain, healthy>>
chans == <<headerChan, failedBlockChan, wakeupChan>>
loop == <<nextBlockNum, pendingBlock, pc, hdr, attempt, gapNum, gapTop, base, log, stalled>>
floop == <<fpc, fhdr>>
vars == <<net, ctxDone, chans, loop, floop>>

BlockNum == 1 .. MaxBlock
HeaderType == [Number : BlockNum, Hash : 0 .. MaxVersion]
NoHeader == [Number |-> 0, Hash |-> 0]

(* The block at a height, from whichever provider is asked: one that lags  *)
(* may still have a version that a reorg replaced.                         *)
HeaderByNumber(n) ==
    {[Number |-> n, Hash |-> v] : v \in IF healthy THEN {chain[n]} ELSE 0 .. chain[n]}

Canonical(h) == h.Hash = chain[h.Number]

Init ==
    /\ head = InitHead
    /\ chain = [n \in BlockNum |-> 0]
    /\ healthy \in BOOLEAN
    /\ ctxDone = FALSE
    /\ headerChan = <<>> /\ failedBlockChan = <<>> /\ wakeupChan = FALSE
    /\ nextBlockNum = 0 /\ pendingBlock = EmptyMap
    /\ pc = "start" /\ hdr = NoHeader /\ attempt = 0 /\ gapNum = 0 /\ gapTop = 0
    /\ fpc = "off" /\ fhdr = NoHeader
    /\ base = 0 /\ log = <<>> /\ stalled = "no"

-----------------------------------------------------------------------------
(* The network and the caller.                                             *)

Mine ==
    /\ head < MaxBlock
    /\ head' = head + 1
    /\ UNCHANGED <<chain, healthy, ctxDone, chans, loop, floop>>

(* Every block from n on is replaced by a sibling.                         *)
Reorg(n) ==
    /\ n \in ReorgBlocks \cap (1 .. head)
    /\ \A m \in n .. head : chain[m] < MaxVersion
    /\ chain' = [m \in BlockNum |-> IF m \in n .. head THEN chain[m] + 1 ELSE chain[m]]
    /\ UNCHANGED <<head, healthy, ctxDone, chans, loop, floop>>

Heal ==
    /\ ~healthy
    /\ healthy' = TRUE
    /\ UNCHANGED <<head, chain, ctxDone, chans, loop, floop>>

Cancel ==
    /\ ~ctxDone
    /\ ctxDone' = TRUE
    /\ UNCHANGED <<net, chans, loop, floop>>

(* start has not come to its goroutines.                                   *)
Unstarted == {"start", "initialize", "panicked"}

(* The subscription calls push with a header its provider has, not         *)
(* necessarily the newest or a new one.  A full channel drops it.          *)
push(n) ==
    /\ pc \notin Unstarted
    /\ n \in 1 .. head
    /\ Len(headerChan) < HeadBufferSize
    /\ \E h \in HeaderByNumber(n) : headerChan' = Append(headerChan, h)
    /\ UNCHANGED <<net, ctxDone, failedBlockChan, wakeupChan, loop, floop>>

(* An RPC may fail while the providers are unhealthy, and does nothing but *)
(* fail once the context is cancelled.                                     *)
MayFail == ~healthy \/ ctxDone
MayAnswer == ~ctxDone

(* The newest block as some provider knows it.                             *)
Latest == UNION {HeaderByNumber(n) : n \in IF healthy THEN {head} ELSE 1 .. head}

(* Initialize and Resync have asked for the newest block and now ask for   *)
(* its receipts: they do without a block that is empty or that a reorg has *)
(* replaced in between.                                                    *)
NewestUnusable == hdr \in EmptyBlocks \/ ~Canonical(hdr)

-----------------------------------------------------------------------------
(* start                                                                   *)

AskNewest(from, to) ==
    /\ pc = from /\ MayAnswer
    /\ hdr' \in Latest
    /\ pc' = to
    /\ UNCHANGED <<net, ctxDone, chans, nextBlockNum, pendingBlock, attempt, gapNum,
                   gapTop, base, log, stalled, floop>>

(* The position after the newest block, whose header is hdr.               *)
TakeOver ==
    /\ nextBlockNum' = hdr.Number + 1
    /\ base' = hdr.Number
    /\ hdr' = NoHeader

Start ==
    /\ pc = "initialize" /\ MayAnswer /\ hdr \notin EmptyBlocks
    /\ TakeOver
    /\ pc' = "select" /\ fpc' = "select"
    /\ UNCHANGED <<net, ctxDone, chans, pendingBlock, attempt, gapNum, gapTop,
                   log, stalled, fhdr>>

StartPanics ==
    /\ pc \in {"start", "initialize"}
    /\ MayFail \/ (pc = "initialize" /\ NewestUnusable)
    /\ pc' = "panicked"
    /\ UNCHANGED <<net, ctxDone, chans, nextBlockNum, pendingBlock, hdr, attempt,
                   gapNum, gapTop, base, log, stalled, floop>>

-----------------------------------------------------------------------------
(* blockProcLoop: the three branches of its select                         *)

ProcLoopDone ==
    /\ pc = "select" /\ ctxDone
    /\ pc' = "stopped"
    /\ UNCHANGED <<net, ctxDone, chans, nextBlockNum, pendingBlock, hdr, attempt,
                   gapNum, gapTop, base, log, stalled, floop>>

WokenUp ==
    /\ pc = "select" /\ wakeupChan
    /\ wakeupChan' = FALSE
    /\ pc' = "available"
    /\ UNCHANGED <<net, ctxDone, headerChan, failedBlockChan, nextBlockNum, pendingBlock,
                   hdr, attempt, gapNum, gapTop, base, log, stalled, floop>>

(* Mutant of Wanted: a header that is already waiting is taken again.      *)
WantedAgain(h) == h.Number >= nextBlockNum

(* handleHeader ignores a block that is done or already waiting.  The call *)
(* of CompareFeeHistory before it only reads the processor's state.        *)
Wanted(h) == h.Number >= nextBlockNum /\ h.Number \notin DOMAIN pendingBlock

handleHeader ==
    /\ pc = "select" /\ headerChan # <<>>
    /\ LET h == Head(headerChan)
       IN IF Wanted(h)
          THEN pendingBlock' = With(pendingBlock, h.Number, h) /\ pc' = "available"
          ELSE UNCHANGED <<pendingBlock, pc>>
    /\ headerChan' = Tail(headerChan)
    /\ UNCHANGED <<net, ctxDone, failedBlockChan, wakeupChan, nextBlockNum, hdr, attempt,
                   gapNum, gapTop, base, log, stalled, floop>>

-----------------------------------------------------------------------------
(* procAvailable                                                           *)

TakeNext ==
    /\ pc = "available" /\ nextBlockNum \in DOMAIN pendingBlock
    /\ hdr' = pendingBlock[nextBlockNum]
    /\ attempt' = 1
    /\ pc' = "attempt"
    /\ stalled' = "no"
    /\ UNCHANGED <<net, ctxDone, chans, nextBlockNum, pendingBlock, gapNum, gapTop,
                   base, log, floop>>

(* checkBlockGap, up to its first RPC.                                     *)
highest == Max(DOMAIN pendingBlock \cup {0})

checkBlockGap ==
    /\ pc = "available" /\ nextBlockNum \notin DOMAIN pendingBlock
    /\ \/ /\ highest <= nextBlockNum
          /\ pc' = "select" /\ UNCHANGED <<gapNum, gapTop>>
       \/ /\ highest > nextBlockNum /\ highest - nextBlockNum >= MaxBlockLag
          /\ pc' = "resync" /\ UNCHANGED <<gapNum, gapTop>>
       \/ /\ highest > nextBlockNum /\ highest - nextBlockNum < MaxBlockLag
          /\ pc' = "backfill" /\ gapNum' = nextBlockNum /\ gapTop' = highest
    /\ stalled' = "no"
    /\ UNCHANGED <<net, ctxDone, chans, nextBlockNum, pendingBlock, hdr, attempt,
                   base, log, floop>>

(* procAvailable goes round: its local variables start afresh.             *)
Forget == pc' = "available" /\ hdr' = NoHeader /\ attempt' = 0

(* The block is done with, processed or not.                               *)
Advance ==
    /\ pendingBlock' = Without(pendingBlock, {hdr.Number})
    /\ nextBlockNum' = nextBlockNum + 1
    /\ log' = Append(log, hdr.Number)
    /\ Forget

(* ProcessBlock asks for the receipts by hash: the node may or may not     *)
(* still know a block that a reorg replaced.                               *)
ProcessBlock ==
    /\ pc = "attempt" /\ MayAnswer
    /\ Advance
    /\ UNCHANGED <<net, ctxDone, chans, gapNum, gapTop, base, stalled, floop>>

MayRetry == attempt < RetryCount

ProcessBlockFails ==
    /\ pc = "attempt" /\ (MayFail \/ ~Canonical(hdr))
    /\ pc' = IF MayRetry THEN "delay" ELSE "stale"
    /\ UNCHANGED <<net, ctxDone, chans, nextBlockNum, pendingBlock, hdr, attempt,
                   gapNum, gapTop, base, log, stalled, floop>>

RetryDelay ==
    /\ pc = "delay"
    /\ \/ pc' = "attempt" /\ attempt' = attempt + 1
       \/ pc' = "stale" /\ ctxDone /\ UNCHANGED attempt
    /\ UNCHANGED <<net, ctxDone, chans, nextBlockNum, pendingBlock, hdr,
                   gapNum, gapTop, base, log, stalled, floop>>

(* Mutant of FollowReorg: no continue, so the sibling is skipped.          *)
FollowReorgSkipping ==
    /\ pc = "stale" /\ MayAnswer
    /\ \E h \in HeaderByNumber(hdr.Number) : h # hdr
    /\ pendingBlock' = Without(pendingBlock, {hdr.Number})
    /\ nextBlockNum' = nextBlockNum + 1
    /\ Forget
    /\ UNCHANGED <<net, ctxDone, chans, gapNum, gapTop, base, log, stalled, floop>>

(* checkStale was given another version of the block: process that one     *)
(* instead, also when it is the older of the two.                          *)
FollowReorg ==
    /\ pc = "stale" /\ MayAnswer
    /\ \E h \in HeaderByNumber(hdr.Number) :
          h # hdr /\ pendingBlock' = With(pendingBlock, hdr.Number, h)
    /\ Forget
    /\ UNCHANGED <<net, ctxDone, chans, nextBlockNum, gapNum, gapTop,
                   base, log, stalled, floop>>

(* A non-blocking send: a full channel costs the cleanup of the block.     *)
failedBlock(h) ==
    failedBlockChan' = IF Len(failedBlockChan) < FailedBlockBufferSize
                       THEN Append(failedBlockChan, h) ELSE failedBlockChan

(* checkStale was given the same header, or failed: leave the block to     *)
(* failBlockLoop and go on.                                                *)
GiveUp ==
    /\ pc = "stale" /\ (MayFail \/ (MayAnswer /\ hdr \in HeaderByNumber(hdr.Number)))
    /\ failedBlock(hdr)
    /\ Advance
    /\ UNCHANGED <<net, ctxDone, headerChan, wakeupChan, gapNum, gapTop,
                   base, stalled, floop>>

-----------------------------------------------------------------------------
(* The loop of checkBlockGap, and resync                                   *)

EndBackfill == pc' = "select" /\ gapNum' = 0 /\ gapTop' = 0

Backfill ==
    /\ pc = "backfill" /\ gapNum < gapTop
    /\ \/ /\ gapNum \in DOMAIN pendingBlock
          /\ UNCHANGED pendingBlock
       \/ /\ gapNum \notin DOMAIN pendingBlock /\ MayAnswer
          /\ \E h \in HeaderByNumber(gapNum) : pendingBlock' = With(pendingBlock, gapNum, h)
    /\ gapNum' = gapNum + 1
    /\ UNCHANGED <<net, ctxDone, chans, nextBlockNum, pc, hdr, attempt, gapTop,
                   base, log, stalled, floop>>

BackfillFails ==
    /\ pc = "backfill" /\ gapNum < gapTop /\ gapNum \notin DOMAIN pendingBlock /\ MayFail
    /\ EndBackfill
    /\ stalled' = "call"
    /\ UNCHANGED <<net, ctxDone, chans, nextBlockNum, pendingBlock, hdr, attempt,
                   base, log, floop>>

(* Mutant of wakeup: the signal is forgotten.                              *)
NoWakeup == wakeupChan' = wakeupChan

(* A non-blocking send on a channel of capacity one.                       *)
wakeup == wakeupChan' = TRUE

BackfillDone ==
    /\ pc = "backfill" /\ gapNum >= gapTop
    /\ wakeup
    /\ EndBackfill
    /\ UNCHANGED <<net, ctxDone, headerChan, failedBlockChan, nextBlockNum, pendingBlock,
                   hdr, attempt, base, log, stalled, floop>>

(* Mutant of AfterResync: headers that waited survive the resync.          *)
AfterResyncKeeping(pending) == pending

AfterResync(pending) == EmptyMap

(* The newest block, as its provider sees it, may be behind nextBlockNum.  *)
resync ==
    /\ pc = "newest" /\ MayAnswer /\ hdr \notin EmptyBlocks
    /\ TakeOver
    /\ pendingBlock' = AfterResync(pendingBlock)
    /\ log' = <<>>
    /\ pc' = "select"
    /\ UNCHANGED <<net, ctxDone, chans, attempt, gapNum, gapTop, stalled, floop>>

(* The headers go on waiting.                                              *)
ResyncFails ==
    /\ pc \in {"resync", "newest"}
    /\ \/ MayFail /\ stalled' = "call"
       \/ pc = "newest" /\ NewestUnusable /\ stalled' = "newest"
    /\ pc' = "select" /\ hdr' = NoHeader
    /\ UNCHANGED <<net, ctxDone, chans, nextBlockNum, pendingBlock, attempt,
                   gapNum, gapTop, base, log, floop>>

-----------------------------------------------------------------------------
(* failBlockLoop and handleFailedBlock                                     *)

(* Mutant of FailLoopDone: a break that leaves the select and not the loop. *)
FailLoopBreak == fpc = "select" /\ ctxDone /\ UNCHANGED vars

FailLoopDone ==
    /\ fpc = "select" /\ ctxDone
    /\ fpc' = "stopped"
    /\ UNCHANGED <<net, ctxDone, chans, loop, fhdr>>

TakeFailed ==
    /\ fpc = "select" /\ failedBlockChan # <<>>
    /\ fhdr' = Head(failedBlockChan)
    /\ failedBlockChan' = Tail(failedBlockChan)
    /\ fpc' = "check"
    /\ UNCHANGED <<net, ctxDone, headerChan, wakeupChan, loop>>

(* checkStale replaces the header by the version it is given, or fails.    *)
CheckFailed ==
    /\ fpc = "check"
    /\ \/ MayAnswer /\ fhdr' \in HeaderByNumber(fhdr.Number) /\ fpc' = "cleanup"
       \/ MayFail /\ fpc' = "select" /\ fhdr' = NoHeader
    /\ UNCHANGED <<net, ctxDone, chans, loop>>

(* CleanupFailedBlock; its outcome is only logged.                         *)
Cleanup ==
    /\ fpc = "cleanup"
    /\ fpc' = "select"
    /\ fhdr' = NoHeader
    /\ UNCHANGED <<net, ctxDone, chans, loop>>

-----------------------------------------------------------------------------

(* What blockProcLoop does outside its select, and failBlockLoop.          *)
Working ==
    \/ AskNewest("start", "initialize") \/ Start \/ StartPanics
    \/ TakeNext \/ checkBlockGap
    \/ ProcessBlock \/ ProcessBlockFails \/ RetryDelay \/ FollowReorg \/ GiveUp
    \/ Backfill \/ BackfillFails \/ BackfillDone
    \/ AskNewest("resync", "newest") \/ resync \/ ResyncFails

FailWorking == CheckFailed \/ Cleanup

(* The process has exited, or both goroutines have returned.               *)
Terminated ==
    /\ pc \in {"panicked", "stopped"}
    /\ fpc \in {"off", "stopped"}
    /\ UNCHANGED vars

Next ==
    \/ Mine \/ (\E n \in BlockNum : Reorg(n)) \/ Heal \/ Cancel
    \/ \E n \in BlockNum : push(n)
    \/ Working \/ WokenUp \/ handleHeader \/ ProcLoopDone
    \/ FailWorking \/ TakeFailed \/ FailLoopDone
    \/ Terminated

(* Go's select picks at random among its ready branches, so a branch that  *)
(* is ready again and again is taken; an RPC and a timer come to an end.   *)
Fairness ==
    /\ WF_vars(Working) /\ WF_vars(FailWorking)
    /\ SF_vars(WokenUp) /\ SF_vars(handleHeader) /\ SF_vars(ProcLoopDone)
    /\ SF_vars(TakeFailed) /\ SF_vars(FailLoopDone)

Spec == Init /\ [][Next]_vars
FairSpec == Spec /\ Fairness

-----------------------------------------------------------------------------
(* Properties.                                                             *)

(* The channels stay within their capacity and every variable within its   *)
(* range; a header waits under its own number.                             *)
TypeOK ==
    /\ head \in BlockNum /\ chain \in [BlockNum -> 0 .. MaxVersion]
    /\ healthy \in BOOLEAN /\ ctxDone \in BOOLEAN /\ wakeupChan \in BOOLEAN
    /\ headerChan \in Seq(HeaderType) /\ Len(headerChan) <= HeadBufferSize
    /\ failedBlockChan \in Seq(HeaderType) /\ Len(failedBlockChan) <= FailedBlockBufferSize
    /\ nextBlockNum \in 0 .. MaxBlock + 1
    /\ IsMap(pendingBlock, BlockNum, HeaderType)
    /\ pc \in {"start", "initialize", "select", "available", "attempt", "delay",
               "stale", "backfill", "resync", "newest", "stopped", "panicked"}
    /\ hdr \in HeaderType \cup {NoHeader}
    /\ attempt \in 0 .. RetryCount
    /\ gapNum \in 0 .. MaxBlock + 1 /\ gapTop \in 0 .. MaxBlock
    /\ fpc \in {"off", "select", "check", "cleanup", "stopped"}
    /\ fhdr \in HeaderType \cup {NoHeader}
    /\ base \in 0 .. MaxBlock
    /\ log \in Seq(BlockNum)
    /\ stalled \in {"no", "call", "newest"}

(* Since the last Initialize or resync every block has been done with      *)
(* exactly once and in order, whatever the order, the repetitions and the  *)
(* losses of the headers, the retries and the reorgs.                      *)
ExactlyOnceInOrder ==
    /\ TypeOK
    /\ pc \notin Unstarted =>
          /\ nextBlockNum = base + Len(log) + 1
          /\ \A i \in 1 .. Len(log) : log[i] = base + i

(* No header waits for a turn that is over, and each waits under its own   *)
(* number.                                                                 *)
PendingAhead ==
    \A n \in DOMAIN pendingBlock : n >= nextBlockNum /\ pendingBlock[n].Number = n

(* A waiting block has its turn ahead of it, also after a resync, and      *)
(* blockProcLoop never goes idle over it without a wakeup in the channel,  *)
(* except after a failed call or a resync that could not use the newest    *)
(* block.                                                                  *)
NoLostWakeup ==
    /\ PendingAhead
    /\ pc = "select" /\ DOMAIN pendingBlock # {} => wakeupChan \/ stalled # "no"

(* While no provider lags, a waiting header is only ever replaced by one   *)
(* the chain produced later: a late announcement never undoes a reorg that *)
(* checkStale followed.  (A provider that lags may do that: checkStale     *)
(* follows whichever other version it is given.)                           *)
ReorgsMoveForward ==
    [][healthy => \A n \in DOMAIN pendingBlock \cap DOMAIN pendingBlock' :
          pendingBlock'[n].Hash >= pendingBlock[n].Hash]_vars

(* Once the providers work, a new header takes the pipeline past its block *)
(* whatever gap, reorg or earlier failure it finds, or it waits for the    *)
(* header after it because the resync it asked for could not use the       *)
(* newest block.                                                           *)
NewHeaderAdvances ==
    \A n \in BlockNum :
        (/\ healthy /\ n >= nextBlockNum /\ n \notin DOMAIN pendingBlock
         /\ \E i \in DOMAIN headerChan : headerChan[i].Number = n)
            ~> (\/ nextBlockNum > n \/ ctxDone
                \/ pc = "select" /\ n \in DOMAIN pendingBlock /\ stalled = "newest")

(* After a cancellation both goroutines return, so that stop returns.      *)
StopsOnCancel == ctxDone ~> (pc \in {"stopped", "panicked"} /\ fpc \in {"off", "stopped"})

=============================================================================
