----------------------------- MODULE MCProcessor -----------------------------
(* One transaction that is announced and two that only appear in blocks,   *)
(* three blocks, one resync to any of them.                                *)
EXTENDS Processor, TLC

CONSTANTS t1, t2, t3, w1, alice

MCHash == {t1, t2, t3}
MCFrom == [h \in MCHash |-> alice]
MCNonce == [h \in MCHash |-> CASE h = t1 -> 0 [] h = t2 -> 1 [] h = t3 -> 2]
MCCap == [h \in MCHash |-> 1]
MCUnannounced == {t2, t3}

(* The two transactions nobody announces are interchangeable: one order of *)
(* them stands for both.                                                   *)
MCInit ==
    /\ Init
    /\ \A n \in Num : t3 \in content[n] => \E m \in Num : t2 \in content[m] /\ m <= n

MCSpec == MCInit /\ [][Next]_vars
MCFairSpec == MCSpec /\ Fairness

=============================================================================
