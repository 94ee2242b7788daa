-------------------------------- MODULE Maps --------------------------------
(* Finite maps: functions whose domain grows and shrinks, Go's map type.   *)

With(f, x, v) == [y \in DOMAIN f \cup {x} |-> IF y = x THEN v ELSE f[y]]
Without(f, S) == [y \in DOMAIN f \ S |-> f[y]]
EmptyMap == [x \in {} |-> 0]
IsMap(f, S, T) == DOMAIN f \subseteq S /\ f \in [DOMAIN f -> T]

=============================================================================
