------------------------------- MODULE PoolSpec -------------------------------
(***************************************************************************)
(* What the pending pool promises its callers, without its indexes: a map  *)
(* from transactions to the block at which each was seen.  At most one     *)
(* transaction lives in a slot, a slot changes hands only for a higher     *)
(* bid, and expiry removes exactly what is TTLBlock blocks old.            *)
(***************************************************************************)
EXTENDS PoolTypes

VARIABLE live

Rivals(lv, h) == {g \in DOMAIN lv : Slot(g) = Slot(h)}

Seen(block) == [SeenBlock |-> block.Number, SeenBlockTime |-> block.Time]

(* The pool after PushBatch offered it h.                                  *)
Offered(lv, h, block) ==
    IF \A g \in Rivals(lv, h) : Outbids(h, g)
    THEN With(Without(lv, Rivals(lv, h)), h, Seen(block))
    ELSE lv

(* The pool after RemoveExpired.                                           *)
Fresh(lv, curBlock) ==
    Without(lv, {h \in DOMAIN lv : lv[h].SeenBlock + TTLBlock <= curBlock})

Init == live = EmptyMap

Offer(h, block) == h \in Hash \ Malformed /\ live' = Offered(live, h, block)

Include(h) == live' = Without(live, {h})

Expire(curBlock) == live' = Fresh(live, curBlock)

Clear == live' = EmptyMap

Next ==
    \/ \E h \in Hash, block \in Blocks : Offer(h, block)
    \/ \E h \in Hash : Include(h)
    \/ \E block \in Blocks : Expire(block.Number)
    \/ Clear

Spec == Init /\ [][Next]_live

=============================================================================
