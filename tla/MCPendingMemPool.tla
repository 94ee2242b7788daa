--------------------------- MODULE MCPendingMemPool ---------------------------
(* A small pool: one nonce with three competing transactions, one of which *)
(* raises only the tip, a hole behind that nonce and two nonces behind the *)
(* hole, so that a bucket can hold three transactions, a second sender,    *)
(* one malformed transaction, and blocks that include two siblings at one  *)
(* height with different times.                                            *)
EXTENDS PoolSnapshot

CONSTANTS a1, a2

MCHash == {"t1", "t2", "t3", "t4", "t5", "t6", "bad"}
MCFrom == [h \in MCHash |-> IF h = "t6" THEN a2 ELSE a1]
MCNonce == [h \in MCHash |-> CASE h = "t4" -> 2 [] h = "t5" -> 3 [] OTHER -> 0]
MCTipCap == [t1 |-> 1, t2 |-> 3, t3 |-> 2, t4 |-> 1, t5 |-> 5, t6 |-> 1, bad |-> 4]
MCFeeCap == [t1 |-> 2, t2 |-> 3, t3 |-> 2, t4 |-> 2, t5 |-> 5, t6 |-> 1, bad |-> 4]

Distinct(s) == \A i, j \in DOMAIN s : s[i] = s[j] => i = j
MCBatches == {<<h>> : h \in MCHash} \cup {<<"t1", "t4">>, <<"t4", "t5">>, <<"t1", "t2">>, <<"bad", "t5">>}
MCReceipts == {s \in [1 .. 2 -> MCHash \ {"bad", "t3", "t6"}] : Distinct(s)} \cup {<<"t1">>, <<"t4">>, <<"t5">>, <<"t6">>}
MCBlocks == {[Number |-> 0, Time |-> 0], [Number |-> 1, Time |-> 10],
             [Number |-> 2, Time |-> 20], [Number |-> 2, Time |-> 15]}

=============================================================================
