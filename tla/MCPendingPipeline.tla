-------------------------- MODULE MCPendingPipeline --------------------------
(* One session announces three hashes and another repeats one of them,     *)
(* which the cache of two may have forgotten by then.  Two workers with    *)
(* batches of three hashes and chunks of two: a batch is a full and a      *)
(* short chunk.  The channel of one overflows.                             *)
EXTENDS PendingPipeline

CONSTANTS h1, h2, h3, s1, s2, w1, w2

MCAnnounced == [s \in {s1, s2} |-> IF s = s1 THEN {h1, h2, h3} ELSE {h1}]

=============================================================================
