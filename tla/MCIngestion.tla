----------------------------- MODULE MCIngestion -----------------------------
(* The two providers of the configuration, with and without their Urls,    *)
(* one session that still has to end, and one forced change in the         *)
(* channel.                                                                *)
EXTENDS Ingestion

=============================================================================
