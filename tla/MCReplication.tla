--------------------------- MODULE MCReplication ---------------------------
(* Values for the constants of Replication: two pods, numbered because the *)
(* comparison of origins needs an order.                                   *)
EXTENDS Replication, TLC

CONSTANTS k1, k2, a, b, nan

Pods == {1, 2}
OneEach == [n \in Pods |-> 1]
TwoNone == [n \in Pods |-> IF n = 1 THEN 2 ELSE 0]
OneKey == {k1}
TwoKeys == {k1, k2}
OneValue == {a}
SomeBad == {a, nan}
OnlyNaN == {nan}

\* A grow-only set under union: the join that WithMerger's comment names.
GSets == SUBSET {a, b}
Union(x, y) == x \cup y

\* Without a merger Join is never applied.
Left(x, y) == x
=============================================================================
