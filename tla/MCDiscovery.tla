---------------------------- MODULE MCDiscovery ----------------------------
(* Values for the constants of Discovery: two discoverers of disjoint      *)
(* hosts.                                                                  *)
EXTENDS Discovery, TLC

CONSTANTS a1, a2, a3, d1, d2

Disjoint == d1 :> {a1, a3} @@ d2 :> {a2}
=============================================================================
