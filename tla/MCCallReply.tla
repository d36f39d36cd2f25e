---------------------------- MODULE MCCallReply ----------------------------
(* Values for the constants of CallReply: all calls are made on pod p1.    *)
EXTENDS CallReply, TLC

CONSTANTS p1, c1, c2

One == c1 :> p1
Two == c1 :> p1 @@ c2 :> p1

\* Calls of one pod are interchangeable.
CallSymmetry == Permutations({c1, c2})
=============================================================================
