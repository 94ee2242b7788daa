----------------------------- MODULE MCFeeUpload -----------------------------
(* A channel of one, so that every newer request replaces the waiting one, *)
(* two attempts, and a clock that outlives the first token.                *)
EXTENDS FeeUpload

=============================================================================
