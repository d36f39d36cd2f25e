----------------------------- MODULE Discovery -----------------------------
(***************************************************************************)
(* transport.DNSDiscoverer with the SyncPeers callback: every interval the *)
(* discoverer resolves its host and reconciles the transport's peer set    *)
(* with the answer.  The transport appears as peerCancels, whose entries   *)
(* AddPeer and RemovePeer create and delete under peersMu.                 *)
(***************************************************************************)
EXTENDS Naturals, FiniteSets

CONSTANTS Addr,        \* peer addresses
          Discoverer,  \* discoverers wired to one transport
          Self,        \* the address this pod is reached at
          Hosts,       \* Hosts[d]: the addresses that d's host may resolve to
          MaxChanges,  \* bound on the changes of the DNS records
          Env          \* what may happen besides the ticks

VARIABLES
  records,  \* what each discoverer's host resolves to now
  changes,  \* how often the records changed
  peers,    \* peerCancels
  closed,   \* the transport is closed
  run       \* progress of each Run: its step, and what is left to remove and add

vars == <<records, changes, peers, closed, run>>

\* Peers may be configured before discovery starts.
Init ==
  /\ records \in {r \in [Discoverer -> SUBSET Addr] : \A d \in Discoverer : r[d] \subseteq Hosts[d]}
  /\ changes = 0 /\ closed = FALSE
  /\ peers \in SUBSET (Addr \ {Self})
  /\ run = [d \in Discoverer |-> [at |-> "lookup", wanted |-> {}, todo |-> {}, synced |-> FALSE]]

\* Pods come and go.
Scale(d) ==
  /\ changes < MaxChanges /\ changes' = changes + 1
  /\ \E S \in SUBSET Hosts[d] : S # records[d] /\ records' = [records EXCEPT ![d] = S]
  /\ UNCHANGED <<peers, closed, run>>

Close ==
  /\ "close" \in Env /\ ~closed /\ closed' = TRUE
  /\ UNCHANGED <<records, changes, peers, run>>

\* Mutant: a failed lookup counts as an empty answer.
Lookup_FailsEmpty(d) ==
  /\ run[d].at = "lookup"
  /\ \/ run' = [run EXCEPT ![d].at = "list", ![d].wanted = records[d] \ {Self}]
     \/ "lookupFails" \in Env /\ run' = [run EXCEPT ![d].at = "list", ![d].wanted = {}]
  /\ UNCHANGED <<records, changes, peers, closed>>

\* Run resolves the host; a failed lookup leaves the peers as they are.
Lookup(d) ==
  /\ run[d].at = "lookup"
  /\ \/ run' = [run EXCEPT ![d].at = "list", ![d].wanted = records[d] \ {Self}]
     \/ "lookupFails" \in Env /\ run' = [run EXCEPT ![d].at = "wait"]
  /\ UNCHANGED <<records, changes, peers, closed>>

\* SyncPeers lists the transport's peers, ...
List(d) ==
  /\ run[d].at = "list"
  /\ run' = [run EXCEPT ![d].at = "remove", ![d].todo = peers \ run[d].wanted]
  /\ UNCHANGED <<records, changes, peers, closed>>

\* ... removes those that are not wanted, one by one, ...
Remove(d) ==
  /\ run[d].at = "remove"
  /\ \/ \E a \in run[d].todo :
          peers' = peers \ {a} /\ run' = [run EXCEPT ![d].todo = @ \ {a}]
     \/ /\ run[d].todo = {} /\ peers' = peers
        /\ run' = [run EXCEPT ![d].at = "add", ![d].todo = run[d].wanted]
  /\ UNCHANGED <<records, changes, closed>>

\* Mutant: the wanted addresses are taken for peers that were added before.
Add_Nobody(d) ==
  /\ run[d].at = "add"
  /\ peers' = peers
  /\ run' = [run EXCEPT ![d].at = "wait", ![d].todo = {}, ![d].synced = TRUE]
  /\ UNCHANGED <<records, changes, closed>>

\* ... and adds the wanted ones; a closed transport takes none.
Add(d) ==
  /\ run[d].at = "add"
  /\ \/ \E a \in run[d].todo : /\ peers' = IF closed THEN peers ELSE peers \cup {a}
                               /\ run' = [run EXCEPT ![d].todo = @ \ {a}]
     \/ /\ run[d].todo = {} /\ peers' = peers
        /\ run' = [run EXCEPT ![d].at = "wait", ![d].synced = TRUE]
  /\ UNCHANGED <<records, changes, closed>>

Tick(d) ==
  /\ run[d].at = "wait" /\ run' = [run EXCEPT ![d].at = "lookup"]
  /\ UNCHANGED <<records, changes, peers, closed>>

\* The context of Run is cancelled: a lookup under way fails, and Run returns.
Stop(d) ==
  /\ "cancel" \in Env /\ run[d].at = "wait"
  /\ run' = [run EXCEPT ![d].at = "stopped"]
  /\ UNCHANGED <<records, changes, peers, closed>>

Run(d) == Lookup(d) \/ List(d) \/ Remove(d) \/ Add(d) \/ Tick(d)

Next == Close \/ \E d \in Discoverer : Run(d) \/ Stop(d) \/ Scale(d)

Spec == Init /\ [][Next]_vars

\* Run keeps its interval, and a lookup that is tried again and again succeeds.
Fairness ==
  \A d \in Discoverer : WF_vars(Run(d)) /\ SF_vars(Lookup(d) /\ run'[d].at = "list")

----------------------------------------------------------------------------
(* Properties.                                                             *)

\* A discoverer never takes a peer away that DNS resolves: with one discoverer and
\* records that did not change, a peer in the answer stays a peer, also when
\* lookups fail.
ResolvedStays ==
  [][changes' = 0 => \A d \in Discoverer : (records[d] \ {Self}) \cap peers \subseteq peers']_vars

\* Discovery converges: once the records are stable, the peers of an open transport
\* become, and stay, exactly the addresses that the host resolves to, as long as
\* Run is not cancelled.
PeersConverge ==
  \A d \in Discoverer :
    <>[](closed \/ run[d].at = "stopped" \/ peers = records[d] \ {Self})

\* "Safe to wire multiple discoverers into the same transport if they cover
\* disjoint hosts": when all have synced and wait, every resolved peer is known.
DisjointIsSafe ==
  (\A d \in Discoverer : run[d].at = "wait" /\ run[d].synced) /\ changes = 0
    => \A d \in Discoverer : records[d] \ {Self} \subseteq peers
=============================================================================
