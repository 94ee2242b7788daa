----------------------------- MODULE MCGasStream -----------------------------
(* Four predictions over four block numbers fill a channel of two and make *)
(* gaps of one and two blocks.                                             *)
EXTENDS GasStream

=============================================================================
