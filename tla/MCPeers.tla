------------------------------ MODULE MCPeers -------------------------------
(* The peers of a P2PTransport: Mesh, and one DNSDiscoverer side by side.   *)
(* A behaviour runs one of them, and the variables of the other keep their  *)
(* initial values.                                                          *)
EXTENDS Mesh

CONSTANTS Discoverer, Host, Self, MaxChanges, DnsEnv

VARIABLES which, records, changes, known, dClosed, run

dVars == <<records, changes, known, dClosed, run>>

D == INSTANCE Discovery WITH Addr <- Host, Hosts <- [d \in Discoverer |-> Host],
       Env <- DnsEnv, peers <- known, closed <- dClosed

AllInit ==
  /\ which \in {"mesh", "discovery"} /\ Init /\ D!Init
  /\ which = "mesh" => known = {} /\ \A d \in Discoverer : records[d] = {}

AllNext ==
  \/ which = "mesh" /\ Next /\ UNCHANGED <<which, dVars>>
  \/ which = "discovery" /\ D!Next /\ UNCHANGED <<which, vars>>

\* The discoverer is fair where it runs.
AllSpec ==
  /\ AllInit /\ [][AllNext]_<<which, vars, dVars>>
  /\ Fairness /\ (which = "discovery" => D!Fairness)

\* SyncPeers never takes a peer away that DNS resolves.
ResolvedStays == D!ResolvedStays

\* The peers become what the host resolves to once the records are stable.
PeersConverge == which = "discovery" => D!PeersConverge
=============================================================================
