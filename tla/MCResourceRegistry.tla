-------------------------- MODULE MCResourceRegistry --------------------------
(* Instances of ResourceRegistry: three names in a row, each near the next; *)
(* the first two near enough to be merged.                                  *)
EXTENDS ResourceRegistry

CONSTANTS c1, c2, p1, p2, x, y, z

MCHome == [c \in Clients |-> IF c = c1 THEN p1 ELSE p2]
Same   == {<<n, n>> : n \in Names}
Both(S) == S \cup {<<e[2], e[1]>> : e \in S}
MCMerge == Same \cup Both({<<x, y>>} \cap (Names \X Names))
MCNear  == Same \cup Both({<<x, y>>, <<y, z>>} \cap (Names \X Names))
=============================================================================
