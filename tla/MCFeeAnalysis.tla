---------------------------- MODULE MCFeeAnalysis ----------------------------
(* Prices up to 31, so that twice a tip of 16 overflows, and base fees     *)
(* around 4, where an eighth is nothing, around 16, and of 31, from where  *)
(* the next one may no longer fit.  Weights from 1 to 8: an outlier can    *)
(* hold less than a twentieth.                                             *)
EXTENDS FeeAnalysis

MCTx == {"a", "b", "c", "d", "e"}
MCTipCap == [a |-> 1, b |-> 3, c |-> 20, d |-> 0, e |-> 18]
MCFeeCap == [a |-> 31, b |-> 6, c |-> 31, d |-> 16, e |-> 31]
MCGas == [a |-> 16, b |-> 4, c |-> 1, d |-> 16, e |-> 16]
MCRoot == [g \in {1, 4, 16} |-> CASE g = 1 -> 2 [] g = 4 -> 4 [] g = 16 -> 8]
MCDecayTable == <<2, 1>>
MCDefaultFees == [market |-> 3, fast |-> 4, urgent |-> 6]

(* Bucket and wait of the transactions the pool knew.                      *)
Wait == [a |-> <<0, 1>>, b |-> <<0, 0>>, c |-> <<2, 1>>]
MCStatsOf == [content \in SUBSET MCTx |->
    LET known == content \cap DOMAIN Wait
        In(b) == {t \in known : Wait[t][1] = b}
    IN [b \in {Wait[t][1] : t \in known} |->
          [TxCount |-> Cardinality(In(b)), TotalWaitBlocks |-> MapThenSumSet(LAMBDA t : Wait[t][2], In(b)),
           WaitBlockCount |-> [i \in 0 .. 1 |-> Cardinality({t \in In(b) : Wait[t][2] = i})]]]]

Plain(S) == {[Tx |-> t, NonceGap |-> FALSE] : t \in S}
Waiting(S) == {[Tx |-> t, NonceGap |-> TRUE] : t \in S}
MCSnapshots == {{}, Plain({"a", "b", "d"}) \cup Waiting({"c"}), Plain({"a", "c", "e"}),
                Plain({"d"}), Plain({"d", "e"}) \cup Waiting({"a", "b"})}

=============================================================================
