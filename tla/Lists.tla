--------------------------------- MODULE Lists ---------------------------------
(* Array.prototype.filter, the spread of objects and sums, in forms that the provers can expand. *)
EXTENDS Sequences, SequencesExt

\* Array.prototype.filter: the elements of s that are in T, in their order.
Selection(s, T) == FoldLeft(LAMBDA kept, e : IF e \in T THEN Append(kept, e) ELSE kept, <<>>, s)

\* {...o, ...p}: the fields of o, where p has none of that name.
Spread(o, p) == [k \in DOMAIN o \cup DOMAIN p |-> IF k \in DOMAIN p THEN p[k] ELSE o[k]]

\* The sum of what f has.
Added(f) == MapThenSumSet(LAMBDA i : f[i], DOMAIN f)
================================================================================
