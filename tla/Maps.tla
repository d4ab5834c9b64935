-------------------------------- MODULE Maps --------------------------------
(***************************************************************************)
(* Finite maps (HashMap, BTreeMap, IndexMap seen as a map): insertion and  *)
(* removal of keys; the empty map is <<>>.  And saturating subtraction.    *)
(***************************************************************************)
EXTENDS Integers

With(f, x, v) == [y \in DOMAIN f \cup {x} |-> IF y = x THEN v ELSE f[y]]
Without(f, S) == [x \in DOMAIN f \ S |-> f[x]]
SatSub(a, b) == IF a > b THEN a - b ELSE 0
=============================================================================
