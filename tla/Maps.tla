--------------------------------- MODULE Maps ---------------------------------
(* A JavaScript Map: a function on the set of its keys.                       *)

emptyMap == [x \in {} |-> {}]

put(f, x, v) == [y \in DOMAIN f \cup {x} |-> IF y = x THEN v ELSE f[y]]

restrictTo(f, S) == [x \in S |-> f[x]]
=============================================================================
