------------------------------ MODULE PoolTypes ------------------------------
(***************************************************************************)
(* What the abstract and the detailed pool have in common: the             *)
(* transactions with their fields (PendingTx in internal/mempool/types.go),*)
(* and the replacement rule of PushBatch.                                  *)
(***************************************************************************)
EXTENDS Integers, Sequences, Maps

CONSTANTS
    Hash,           \* the transactions, named by their hash
    Addr, Nonces,   \* senders and nonces
    From, Nonce,    \* sender and nonce of each transaction
    TipCap, FeeCap, \* its fee limits
    Malformed,      \* transactions PushBatch rejects: no fee, no gas, fees
                    \* beyond uint64, or a signature without a sender
    TTLBlock,       \* blocks a transaction may stay in the pool
    Blocks          \* the blocks callers pass

(* A block, as far as the pool knows it.                                   *)
BlockType == [Number : Nat, Time : Nat]

ASSUME TxAssumption ==
    /\ From \in [Hash -> Addr]
    /\ Nonce \in [Hash -> Nonces]
    /\ TipCap \in [Hash -> Nat]
    /\ FeeCap \in [Hash -> Nat]
    /\ Malformed \subseteq Hash
    /\ TTLBlock \in Nat
    /\ Blocks \subseteq BlockType

(* A transaction competes with those of its sender for its nonce.          *)
Slot(h) == <<From[h], Nonce[h]>>

(* Mutant of Outbids: the fee cap is not compared.                         *)
OutbidsOnTip(new, old) == TipCap[new] > TipCap[old]

(* A replacement must raise both fee limits.                               *)
Outbids(new, old) == TipCap[new] > TipCap[old] /\ FeeCap[new] > FeeCap[old]

=============================================================================
