-------------------------------- MODULE BaseFee --------------------------------
(***************************************************************************)
(* The fee rules of internal/gasanalyzer/fee.go: which tip a transaction   *)
(* pays, and what the next block will charge as its base fee.              *)
(*                                                                         *)
(* Numbers are in some unit of price and of gas.  A header without a base  *)
(* fee, from before the London fork, does not occur on the chains the      *)
(* program follows; half the gas limit is not zero.                        *)
(***************************************************************************)
EXTENDS Integers

CONSTANT MaxUint    \* 2^64 - 1 in the code

ASSUME BaseFeeAssumption == MaxUint \in Nat

NoTip == -1     \* the second result of both functions below is false

(* The tip a pending transaction offers at a base fee.                     *)
EffectiveTip(feeCap, tipCap, baseFee) ==
    IF feeCap <= baseFee THEN NoTip
    ELSE IF feeCap - baseFee > tipCap THEN tipCap ELSE feeCap - baseFee

(* The tip an included transaction has paid.                               *)
EffectiveTipFromReceipt(effectiveGasPrice, baseFee) ==
    IF effectiveGasPrice - baseFee \in 1 .. MaxUint THEN effectiveGasPrice - baseFee ELSE NoTip

(* Mutant of Raised: a small base fee never rises.                         *)
RaisedUnlessSmall(baseFee, diff) == baseFee + diff

(* A block above the target raises the fee by one at least.                *)
Raised(baseFee, diff) == baseFee + (IF diff = 0 THEN 1 ELSE diff)

CalculateNextBaseFee(baseFee, gasUsed, gasLimit) ==
    LET targetGas == gasLimit \div 2
        Diff(gasGap) == ((baseFee * gasGap) \div targetGas) \div 8
        lowered == baseFee - Diff(targetGas - gasUsed)
    IN IF gasUsed = targetGas THEN baseFee
       ELSE IF gasUsed > targetGas THEN Raised(baseFee, Diff(gasUsed - targetGas))
       ELSE IF lowered < 0 THEN 0 ELSE lowered

=============================================================================
