---------------------------- MODULE Snapshotter ----------------------------
(***************************************************************************)
(* The background half of one Store: the callers that change the map and   *)
(* wake snapshotLoop through dirtyCh, the debounce, persistSnapshot with   *)
(* its tombstone collection, gcTombstones, the Stats counters, and Close.  *)
(*                                                                         *)
(* Entries are abstracted to what the counters tell apart; "old" is a      *)
(* tombstone past its TTL.  A snapshot holds the whole map, so it is       *)
(* named by the number of changes the map had seen when it was captured.   *)
(***************************************************************************)
EXTENDS Integers, FiniteSets

CONSTANTS Key,
          Caller,        \* goroutines that call Set, Delete, SetMany, ...
          MaxVer,        \* bound on the changes of the map
          Env            \* what may happen besides the calls

ASSUME KeyAssumption == IsFiniteSet(Key)
ASSUME MaxVerAssumption == MaxVer \in Nat
ASSUME EnvAssumption ==
  Env \subseteq {"receive", "publishFails", "encodeFails", "snapshotFails",
                 "close", "closeTimeout"}

VARIABLES
  map,         \* Store.data
  ver,         \* number of critical sections that changed map
  keysLive,    \* stats.keysLive
  tombstones,  \* stats.tombstones
  caller,      \* progress of each caller, and the change it made
  dirty,       \* dirtyCh holds its one token
  closeCh,     \* closed
  receiving,   \* recvLoop has not exited
  loop,        \* where snapshotLoop is
  final,       \* it is in finalFlush
  gced,        \* tombstones collected and not counted yet
  captured,    \* the snapshot handed to transport.Snapshot
  persisted,   \* the last snapshot that the transport accepted
  closer,      \* progress of CloseWithContext
  acked,       \* history: newest change whose call returned nil
  atClose,     \* history: ver when Close was called
  failed       \* history: a snapshot was not taken or not accepted

vars == <<map, ver, keysLive, tombstones, caller, dirty, closeCh, receiving,
          loop, final, gced, captured, persisted, closer, acked, atClose, failed>>

data == <<map, ver, keysLive, tombstones>>
snapshots == <<loop, final, gced, captured, persisted, failed>>
closing == <<closeCh, receiving, closer, atClose>>

LiveKeys == {k \in Key : map[k] = "live"}
Tombs == {k \in Key : map[k] \in {"tomb", "old"}}
Old == {k \in Key : map[k] = "old"}

Progress == [at : {"idle", "entered", "applied", "published"}, ver : 0..MaxVer]

TypeOK ==
  /\ map \in [Key -> {"absent", "live", "tomb", "old"}]
  /\ ver \in 0..MaxVer /\ keysLive \in Int /\ tombstones \in Int
  /\ caller \in [Caller -> Progress]
  /\ dirty \in BOOLEAN /\ closeCh \in BOOLEAN /\ receiving \in BOOLEAN
  /\ loop \in {"select", "gc", "timer", "drain", "persist", "put", "count", "exited"}
  /\ final \in BOOLEAN /\ failed \in BOOLEAN
  /\ gced \in Nat
  /\ captured \in 0..MaxVer /\ persisted \in 0..MaxVer
  /\ closer \in {"none", "waiting", "returned", "timedOut"}
  /\ acked \in 0..MaxVer /\ atClose \in 0..MaxVer

\* New: loadSnapshot has filled the map and counted what it loaded.
Init ==
  /\ map \in [Key -> {"absent", "live", "tomb"}]
  /\ keysLive = Cardinality(LiveKeys) /\ tombstones = Cardinality(Tombs)
  /\ ver = 0
  /\ caller = [c \in Caller |-> [at |-> "idle", ver |-> 0]]
  /\ dirty = FALSE /\ closeCh = FALSE /\ receiving = TRUE
  /\ loop = "select" /\ final = FALSE /\ failed = FALSE
  /\ gced = 0 /\ captured = 0 /\ persisted = 0
  /\ closer = "none" /\ acked = 0 /\ atClose = 0

----------------------------------------------------------------------------
(* Callers and the receive loop.                                           *)

Goto(c, at, v) == caller' = [caller EXCEPT ![c] = [at |-> at, ver |-> v]]

\* Past the isClosed check.
Enter(c) ==
  /\ caller[c].at = "idle" /\ ~closeCh
  /\ Goto(c, "entered", 0)
  /\ UNCHANGED <<data, dirty, closing, snapshots, acked>>

\* Mutant: a tombstone that a Set replaces stays counted.
trackTransition_Sticky(L, D) ==
  /\ keysLive' = keysLive + Cardinality(L \ LiveKeys) - Cardinality(D \cap LiveKeys)
  /\ tombstones' = tombstones + Cardinality(D \ Tombs)

\* The keys of L become live and those of D tombstones.
trackTransition(L, D) ==
  /\ keysLive' = keysLive + Cardinality(L \ LiveKeys) - Cardinality(D \cap LiveKeys)
  /\ tombstones' = tombstones + Cardinality(D \ Tombs) - Cardinality(L \cap Tombs)

\* One critical section of s.mu, over the keys whose write wins LWW.
Write(L, D) ==
  /\ ver < MaxVer /\ L \cap D = {} /\ L \cup D # {}
  /\ map' = [k \in Key |-> IF k \in L THEN "live" ELSE IF k \in D THEN "tomb" ELSE map[k]]
  /\ ver' = ver + 1
  /\ trackTransition(L, D)

\* Set, Delete, SetMany and DeleteMany up to their Publish.
Apply(c) ==
  /\ caller[c].at = "entered"
  /\ \E K \in SUBSET Key : Write(K, {}) \/ Write({}, K)
  /\ Goto(c, "applied", ver + 1)
  /\ UNCHANGED <<dirty, closing, snapshots, acked>>

\* The write of a Set or Delete lost against LWW, or the call failed before it.
Rejected(c) ==
  /\ caller[c].at = "entered"
  /\ Goto(c, "idle", 0)
  /\ UNCHANGED <<data, dirty, closing, snapshots, acked>>

\* A SetMany or DeleteMany all of whose writes lose publishes nothing and goes
\* on to markDirty.
NoneWins(c) ==
  /\ caller[c].at = "entered"
  /\ Goto(c, "published", 0)
  /\ UNCHANGED <<data, dirty, closing, snapshots, acked>>

\* SetMany that meets a value it cannot marshal: it keeps the part it applied.
SetManyFails(c) ==
  /\ "encodeFails" \in Env
  /\ caller[c].at = "entered"
  /\ \E K \in SUBSET Key : Write(K, {})
  /\ Goto(c, "idle", 0)
  /\ UNCHANGED <<dirty, closing, snapshots, acked>>

\* Refresh merges a fetched snapshot; it does not mark the store dirty.
Refresh(c) ==
  /\ "receive" \in Env
  /\ caller[c].at = "entered"
  /\ \E L, D \in SUBSET Key : Write(L, D)
  /\ Goto(c, "idle", 0)
  /\ UNCHANGED <<dirty, closing, snapshots, acked>>

\* Seed fills an empty store and publishes nothing.
Seed(c) ==
  /\ caller[c].at = "entered"
  /\ \A k \in Key : map[k] = "absent"
  /\ \E K \in SUBSET Key : Write(K, {})
  /\ Goto(c, "published", ver + 1)
  /\ UNCHANGED <<dirty, closing, snapshots, acked>>

Publish(c) ==
  /\ caller[c].at = "applied"
  /\ Goto(c, "published", caller[c].ver)
  /\ UNCHANGED <<data, dirty, closing, snapshots, acked>>

\* The call returns ErrBroadcast.
PublishFails(c) ==
  /\ "publishFails" \in Env
  /\ caller[c].at = "applied"
  /\ Goto(c, "idle", 0)
  /\ UNCHANGED <<data, dirty, closing, snapshots, acked>>

\* markDirty, and the call returns nil.
markDirty(c) ==
  /\ caller[c].at = "published"
  /\ dirty' = TRUE
  /\ acked' = IF caller[c].ver > acked THEN caller[c].ver ELSE acked
  /\ Goto(c, "idle", 0)
  /\ UNCHANGED <<data, closing, snapshots>>

\* applyMessage for a peer's message; it does not mark the store dirty.
Receive ==
  /\ "receive" \in Env /\ receiving
  /\ \E k \in Key : Write({k}, {}) \/ Write({}, {k})
  /\ UNCHANGED <<caller, dirty, closing, snapshots, acked>>

\* Time passes: a tombstone outlives tombstoneTTL.
Age(k) ==
  /\ map[k] = "tomb"
  /\ map' = [map EXCEPT ![k] = "old"]
  /\ UNCHANGED <<ver, keysLive, tombstones, caller, dirty, closing, snapshots, acked>>

----------------------------------------------------------------------------
(* snapshotLoop.                                                           *)

Collect(K) == map' = [k \in Key |-> IF k \in K THEN "absent" ELSE map[k]]

Resume == loop' = IF final THEN "exited" ELSE "select"

\* case <-s.dirtyCh, and the debounce timer starts.
LoopDirty ==
  /\ loop = "select" /\ dirty
  /\ dirty' = FALSE /\ loop' = "timer"
  /\ UNCHANGED <<data, caller, closing, acked, final, gced, captured, persisted, failed>>

\* case <-gcTick: gcTombstones' critical section ...
gcTombstones ==
  /\ loop = "select" /\ Old # {}
  /\ Collect(Old) /\ gced' = Cardinality(Old) /\ loop' = "gc"
  /\ UNCHANGED <<ver, keysLive, tombstones, caller, dirty, closing, acked,
                 final, captured, persisted, failed>>

\* ... and what it does after the unlock.
gcCount ==
  /\ loop = "gc"
  /\ tombstones' = tombstones - gced /\ gced' = 0
  /\ dirty' = TRUE /\ loop' = "select"
  /\ UNCHANGED <<map, ver, keysLive, caller, closing, acked, final, captured,
                 persisted, failed>>

\* Mutant: the debounce ends only once nobody marks the store dirty.
Timer_IfQuiet ==
  /\ loop = "timer" /\ ~dirty
  /\ loop' = "drain"
  /\ UNCHANGED <<data, caller, dirty, closing, acked, final, gced, captured,
                 persisted, failed>>

Timer ==
  /\ loop = "timer"
  /\ loop' = "drain"
  /\ UNCHANGED <<data, caller, dirty, closing, acked, final, gced, captured,
                 persisted, failed>>

\* Mutant: Close skips the flush when dirtyCh is empty.
finalFlush_IfDirty ==
  /\ loop \in {"select", "timer"} /\ closeCh
  /\ loop' = (IF dirty THEN "drain" ELSE "exited") /\ final' = TRUE
  /\ UNCHANGED <<data, caller, dirty, closing, acked, gced, captured, persisted, failed>>

\* Mutant: closeCh is looked at only after a wake-up.
finalFlush_AwaitsDirty ==
  /\ loop \in {"select", "timer"} /\ closeCh /\ dirty
  /\ loop' = "drain" /\ final' = TRUE
  /\ UNCHANGED <<data, caller, dirty, closing, acked, gced, captured, persisted, failed>>

\* case <-s.closeCh, before or during the debounce.
finalFlush ==
  /\ loop \in {"select", "timer"} /\ closeCh
  /\ loop' = "drain" /\ final' = TRUE
  /\ UNCHANGED <<data, caller, dirty, closing, acked, gced, captured, persisted, failed>>

Drain ==
  /\ loop = "drain"
  /\ dirty' = FALSE /\ loop' = "persist"
  /\ UNCHANGED <<data, caller, closing, acked, final, gced, captured, persisted, failed>>

\* Mutant: the collected tombstones are miscounted by one.
Capture_OffByOne ==
  /\ loop = "persist"
  /\ Collect(Old) /\ gced' = Cardinality(Old) - 1
  /\ captured' = ver /\ loop' = "put"
  /\ UNCHANGED <<ver, keysLive, tombstones, caller, dirty, closing, acked,
                 final, persisted, failed>>

\* persistSnapshot's critical section.
Capture ==
  /\ loop = "persist"
  /\ Collect(Old) /\ gced' = Cardinality(Old)
  /\ captured' = ver /\ loop' = "put"
  /\ UNCHANGED <<ver, keysLive, tombstones, caller, dirty, closing, acked,
                 final, persisted, failed>>

\* A value does not marshal: the tombstones met before it are gone.
CaptureFails ==
  /\ "encodeFails" \in Env
  /\ loop = "persist" /\ LiveKeys # {}
  /\ \E K \in SUBSET Old : Collect(K)
  /\ failed' = TRUE /\ Resume
  /\ UNCHANGED <<ver, keysLive, tombstones, caller, dirty, closing, acked,
                 final, gced, captured, persisted>>

\* Mutant: dirtyCh is drained after the capture rather than before it.
Put_Drains ==
  /\ loop = "put"
  /\ persisted' = captured /\ loop' = "count" /\ dirty' = FALSE
  /\ UNCHANGED <<data, caller, closing, acked, final, gced, captured, failed>>

\* transport.Snapshot returns nil.
Put ==
  /\ loop = "put"
  /\ persisted' = captured /\ loop' = "count"
  /\ UNCHANGED <<data, caller, dirty, closing, acked, final, gced, captured, failed>>

PutFails ==
  /\ "snapshotFails" \in Env
  /\ loop = "put"
  /\ gced' = 0 /\ failed' = TRUE /\ Resume
  /\ UNCHANGED <<data, caller, dirty, closing, acked, final, captured, persisted>>

\* The counters after a successful Snapshot.
Count ==
  /\ loop = "count"
  /\ tombstones' = tombstones - gced /\ gced' = 0 /\ Resume
  /\ UNCHANGED <<map, ver, keysLive, caller, dirty, closing, acked, final,
                 captured, persisted, failed>>

----------------------------------------------------------------------------
(* CloseWithContext.                                                       *)

Close ==
  /\ "close" \in Env /\ closer = "none"
  /\ closeCh' = TRUE /\ closer' = "waiting" /\ atClose' = ver
  /\ UNCHANGED <<data, caller, dirty, receiving, snapshots, acked>>

RecvExit ==
  /\ closeCh /\ receiving
  /\ receiving' = FALSE
  /\ UNCHANGED <<data, caller, dirty, closeCh, closer, atClose, snapshots, acked>>

\* wg.Wait ends.
CloseReturn ==
  /\ closer = "waiting" /\ ~receiving /\ loop = "exited"
  /\ closer' = "returned"
  /\ UNCHANGED <<data, caller, dirty, closeCh, receiving, atClose, snapshots, acked>>

CloseTimeout ==
  /\ "closeTimeout" \in Env /\ closer = "waiting"
  /\ closer' = "timedOut"
  /\ UNCHANGED <<data, caller, dirty, closeCh, receiving, atClose, snapshots, acked>>

----------------------------------------------------------------------------
\* What a call that passed the isClosed check goes on to do.
Calling(c) ==
  \/ Apply(c) \/ Rejected(c) \/ NoneWins(c) \/ SetManyFails(c) \/ Refresh(c)
  \/ Seed(c) \/ Publish(c) \/ PublishFails(c) \/ markDirty(c)

snapshotLoop ==
  \/ LoopDirty \/ gcTombstones \/ gcCount \/ Timer \/ finalFlush \/ Drain
  \/ Capture \/ CaptureFails \/ Put \/ PutFails \/ Count

Next ==
  \/ \E c \in Caller : Enter(c) \/ Calling(c)
  \/ Receive
  \/ \E k \in Key : Age(k)
  \/ snapshotLoop
  \/ Close \/ RecvExit \/ CloseReturn \/ CloseTimeout

Spec == Init /\ [][Next]_vars

\* The goroutines of the process are scheduled; callers may stay away.
FairSpec ==
  /\ Spec
  /\ \A c \in Caller : WF_vars(Calling(c))
  /\ WF_vars(snapshotLoop) /\ WF_vars(RecvExit) /\ WF_vars(CloseReturn)

----------------------------------------------------------------------------
(* Properties.                                                             *)

\* storeStats: "ground truth is the data map".  At every instant the live
\* count equals the map.  The tombstone count is never below it, and until a
\* snapshot fails exceeds it only by what a collection is about to subtract.
StatsMatchMap ==
  /\ keysLive = Cardinality(LiveKeys)
  /\ tombstones >= Cardinality(Tombs) + gced
  /\ failed \/ tombstones = Cardinality(Tombs) + gced

\* markDirty's coalescing loses no wake-up: while the store is open and no
\* snapshot failed, a change whose call returned nil is in the persisted
\* snapshot, in the one being written, or a capture is still to come.
NoLostWakeup ==
  (acked > persisted /\ ~failed /\ ~closeCh) =>
    \/ dirty \/ loop \in {"timer", "drain", "persist"}
    \/ loop = "put" /\ captured >= acked

\* Close returns only after a snapshot with everything that the map held when
\* Close was called, whatever the loop was doing, unless a snapshot failed.
CloseFlushes ==
  (closer = "returned" /\ ~failed) => persisted >= atClose

\* A write whose call returned nil before Close reaches a persisted snapshot,
\* also when Close overtakes the debounce, unless a snapshot failed.
AckedIsPersisted ==
  \A v \in 1..MaxVer : (acked >= v /\ ~closeCh) ~> (persisted >= v \/ failed)

\* Close ends: no state of the loop or of the callers blocks wg.Wait, which
\* only the context of CloseWithContext may cut short.
CloseTerminates == closeCh ~> (closer \in {"returned", "timedOut"})
=============================================================================
