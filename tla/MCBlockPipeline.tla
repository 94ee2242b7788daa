--------------------------- MODULE MCBlockPipeline ---------------------------
(* A chain that grows from one block, so that a gap can be small (backfill) *)
(* or large (resync), with reorgs of several depths.  The last block is     *)
(* empty until a reorg replaces it, the first becomes empty by one.         *)
EXTENDS BlockPipeline

MCEmptyBlocks == {[Number |-> 1, Hash |-> 1], [Number |-> MaxBlock, Hash |-> 0]}

=============================================================================
