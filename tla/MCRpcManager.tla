---------------------------- MODULE MCRpcManager ----------------------------
(* The two providers of rpcPolicies with their bursts, the cost of a full  *)
(* chunk of transactions (like every cost of the program it fits both      *)
(* bursts), and two goroutines; the clock passes two rotations.            *)
EXTENDS RpcManager, TLC

CONSTANTS c1, c2

MCLimitType == 0 :> "CU" @@ 1 :> "RPC"
MCBurst == 0 :> 400 @@ 1 :> 20
MCCosts == {[CU |-> 88, RPC |-> 8]}

=============================================================================
