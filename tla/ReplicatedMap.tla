--------------------------- MODULE ReplicatedMap ---------------------------
(***************************************************************************)
(* What a Store promises its users, without messages, snapshots and loops: *)
(* a map on every pod whose entries were all written by someone, in which  *)
(* a pod sees its own write at once, and every key moves forward in the    *)
(* order of the stamps only, until its tombstone is forgotten or the       *)
(* process is restarted.                                                   *)
(***************************************************************************)
EXTENDS LWW

VARIABLES issued,  \* the writes made so far
          shown    \* the entries that each pod holds

vars == <<issued, shown>>

Init == issued = {} /\ shown = [n \in Node |-> EmptyMap]

OnlyAt(n) == shown' = [shown EXCEPT ![n] = shown'[n]]

\* Set, Delete, SetMany, DeleteMany, Seed: some new writes of n, at most one for
\* a key, with stamps that no other write has.
Write(n) ==
  LET new == issued' \ issued IN
  /\ issued \subseteq issued' /\ OnlyAt(n)
  /\ \A m \in new :
       /\ m.entry.origin = n
       /\ \A o \in issued : o.key = m.key => Newer(o.entry, m.entry) \/ Newer(m.entry, o.entry)
       /\ lwwAccept(shown[n][m.key], m.entry)
       /\ shown'[n][m.key] = m.entry
  /\ \A k \in Key : (\A m \in new : m.key # k) => shown'[n][k] = shown[n][k]

\* Messages and snapshots bring newer writes, of anyone.
Learn(n) ==
  /\ issued' = issued /\ OnlyAt(n)
  /\ \A k \in Key :
       \/ shown'[n][k] = shown[n][k]
       \/ /\ [key |-> k, entry |-> shown'[n][k]] \in issued
          /\ lwwAccept(shown[n][k], shown'[n][k])

\* Collection takes tombstones and nothing else.
Forget(n) ==
  /\ issued' = issued /\ OnlyAt(n)
  /\ \A k \in Key :
       \/ shown'[n][k] = shown[n][k]
       \/ shown[n][k] # NoEntry /\ shown[n][k].tomb /\ shown'[n][k] = NoEntry

Restart(n) == issued' = issued /\ shown' = [shown EXCEPT ![n] = EmptyMap]

Next == \E n \in Node : Write(n) \/ Learn(n) \/ Forget(n) \/ Restart(n)

Spec == Init /\ [][Next]_vars
=============================================================================
