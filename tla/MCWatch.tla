------------------------------ MODULE MCWatch ------------------------------
(* Values for the constants of Watch: the watcher is told of one key only. *)
EXTENDS Watch, TLC

CONSTANTS k1, w1

JustOne == w1 :> {k1}
=============================================================================
