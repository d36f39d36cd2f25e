------------------------- MODULE SnapshotterProofs -------------------------
(***************************************************************************)
(* Theorems about Snapshotter, for any keys, callers and faults.           *)
(***************************************************************************)
EXTENDS Snapshotter, FiniteSetTheorems, TLAPS

----------------------------------------------------------------------------
(* Type correctness.                                                       *)

LEMMA TypeWrite ==
  ASSUME TypeOK, NEW L \in SUBSET Key, NEW D \in SUBSET Key, Write(L, D)
  PROVE  /\ map' \in [Key -> {"absent", "live", "tomb", "old"}]
         /\ ver' \in 0..MaxVer /\ ver' = ver + 1
         /\ keysLive' \in Int /\ tombstones' \in Int
<1>1. /\ IsFiniteSet(L \ LiveKeys) /\ IsFiniteSet(D \cap LiveKeys)
      /\ IsFiniteSet(D \ Tombs) /\ IsFiniteSet(L \cap Tombs)
  BY Zenon, KeyAssumption, FS_Subset
<1>2. /\ Cardinality(L \ LiveKeys) \in Nat /\ Cardinality(D \cap LiveKeys) \in Nat
      /\ Cardinality(D \ Tombs) \in Nat /\ Cardinality(L \cap Tombs) \in Nat
  BY Zenon, <1>1, FS_CardinalityType
<1>3. keysLive' \in Int /\ tombstones' \in Int
  BY <1>2 DEF TypeOK, Write, trackTransition
<1>4. ver' \in 0..MaxVer /\ ver' = ver + 1
  BY MaxVerAssumption DEF TypeOK, Write
<1>5. map' \in [Key -> {"absent", "live", "tomb", "old"}]
  BY Zenon DEF TypeOK, Write
<1> QED  BY Zenon, <1>3, <1>4, <1>5

LEMMA TypeGoto ==
  ASSUME TypeOK, NEW c \in Caller, NEW v \in 0..MaxVer,
         NEW at \in {"idle", "entered", "applied", "published"}, Goto(c, at, v)
  PROVE  caller' \in [Caller -> Progress]
  BY Zenon DEF TypeOK, Goto, Progress

LEMMA OldCount == TypeOK => Cardinality(Old) \in Nat
<1>1. IsFiniteSet(Old)
  BY Zenon, KeyAssumption, FS_Subset DEF Old
<1> QED  BY Zenon, <1>1, FS_CardinalityType

LEMMA TypeCalling ==
  ASSUME TypeOK, NEW c \in Caller, Enter(c) \/ Calling(c)
  PROVE  TypeOK'
<1>0. 0 \in 0..MaxVer
  BY MaxVerAssumption
<1>1. CASE Enter(c)
  <2>1. caller' \in [Caller -> Progress]
    BY Zenon, <1>0, <1>1, TypeGoto DEF Enter
  <2> QED  BY <2>1, <1>1 DEF Enter, TypeOK, data, closing, snapshots
<1>2. CASE Apply(c)
  <2>1. PICK K \in SUBSET Key : Write(K, {}) \/ Write({}, K)
    BY Zenon, <1>2 DEF Apply
  <2>2. /\ map' \in [Key -> {"absent", "live", "tomb", "old"}]
        /\ ver' \in 0..MaxVer /\ ver' = ver + 1
        /\ keysLive' \in Int /\ tombstones' \in Int
    BY Zenon, <2>1, TypeWrite
  <2>3. caller' \in [Caller -> Progress]
    BY Zenon, <1>2, <2>2, TypeGoto DEF Apply
  <2> QED  BY <2>2, <2>3, <1>2 DEF Apply, TypeOK, closing, snapshots
<1>3. CASE Rejected(c)
  <2>1. caller' \in [Caller -> Progress]
    BY Zenon, <1>0, <1>3, TypeGoto DEF Rejected
  <2> QED  BY <2>1, <1>3 DEF Rejected, TypeOK, data, closing, snapshots
<1>4. CASE SetManyFails(c)
  <2>1. PICK K \in SUBSET Key : Write(K, {})
    BY Zenon, <1>4 DEF SetManyFails
  <2>2. /\ map' \in [Key -> {"absent", "live", "tomb", "old"}]
        /\ ver' \in 0..MaxVer
        /\ keysLive' \in Int /\ tombstones' \in Int
    BY Zenon, <2>1, TypeWrite
  <2>3. caller' \in [Caller -> Progress]
    BY Zenon, <1>0, <1>4, TypeGoto DEF SetManyFails
  <2> QED  BY <2>2, <2>3, <1>4 DEF SetManyFails, TypeOK, closing, snapshots
<1>5. CASE Refresh(c)
  <2>1. PICK L \in SUBSET Key, D \in SUBSET Key : Write(L, D)
    BY Zenon, <1>5 DEF Refresh
  <2>2. /\ map' \in [Key -> {"absent", "live", "tomb", "old"}]
        /\ ver' \in 0..MaxVer
        /\ keysLive' \in Int /\ tombstones' \in Int
    BY Zenon, <2>1, TypeWrite
  <2>3. caller' \in [Caller -> Progress]
    BY Zenon, <1>0, <1>5, TypeGoto DEF Refresh
  <2> QED  BY <2>2, <2>3, <1>5 DEF Refresh, TypeOK, closing, snapshots
<1>6. CASE Seed(c)
  <2>1. PICK K \in SUBSET Key : Write(K, {})
    BY Zenon, <1>6 DEF Seed
  <2>2. /\ map' \in [Key -> {"absent", "live", "tomb", "old"}]
        /\ ver' \in 0..MaxVer /\ ver' = ver + 1
        /\ keysLive' \in Int /\ tombstones' \in Int
    BY Zenon, <2>1, TypeWrite
  <2>3. caller' \in [Caller -> Progress]
    BY Zenon, <1>6, <2>2, TypeGoto DEF Seed
  <2> QED  BY <2>2, <2>3, <1>6 DEF Seed, TypeOK, closing, snapshots
<1>7. CASE Publish(c)
  <2>1. caller[c].ver \in 0..MaxVer
    BY Zenon DEF TypeOK, Progress
  <2>2. caller' \in [Caller -> Progress]
    BY Zenon, <2>1, <1>7, TypeGoto DEF Publish
  <2> QED  BY <2>2, <1>7 DEF Publish, TypeOK, data, closing, snapshots
<1>8. CASE PublishFails(c)
  <2>1. caller' \in [Caller -> Progress]
    BY Zenon, <1>0, <1>8, TypeGoto DEF PublishFails
  <2> QED  BY <2>1, <1>8 DEF PublishFails, TypeOK, data, closing, snapshots
<1>9. CASE markDirty(c)
  <2>1. caller' \in [Caller -> Progress]
    BY Zenon, <1>0, <1>9, TypeGoto DEF markDirty
  <2>2. acked' \in 0..MaxVer
    BY Zenon, <1>9 DEF markDirty, TypeOK, Progress
  <2> QED  BY Zenon, <2>1, <2>2, <1>9 DEF markDirty, TypeOK, data, closing, snapshots
<1>10. CASE NoneWins(c)
  <2>1. caller' \in [Caller -> Progress]
    BY Zenon, <1>0, <1>10, TypeGoto DEF NoneWins
  <2> QED  BY <2>1, <1>10 DEF NoneWins, TypeOK, data, closing, snapshots
<1> QED
  BY Zenon, <1>1, <1>2, <1>3, <1>4, <1>5, <1>6, <1>7, <1>8, <1>9, <1>10 DEF Calling

LEMMA TypeLoop == TypeOK /\ snapshotLoop => TypeOK'
<1> SUFFICES ASSUME TypeOK, snapshotLoop PROVE TypeOK'
  BY Zenon
<1>0. Cardinality(Old) \in Nat
  BY Zenon, OldCount
<1>1. CASE LoopDirty  BY Zenon, <1>1 DEF LoopDirty, TypeOK, data, closing
<1>2. CASE gcTombstones  BY Zenon, <1>0, <1>2 DEF gcTombstones, Collect, TypeOK, closing
<1>3. CASE gcCount  BY <1>3 DEF gcCount, TypeOK, closing
<1>4. CASE Timer  BY Zenon, <1>4 DEF Timer, TypeOK, data, closing
<1>5. CASE finalFlush  BY Zenon, <1>5 DEF finalFlush, TypeOK, data, closing
<1>6. CASE Drain  BY Zenon, <1>6 DEF Drain, TypeOK, data, closing
<1>7. CASE Capture  BY Zenon, <1>0, <1>7 DEF Capture, Collect, TypeOK, closing
<1>8. CASE CaptureFails  BY Zenon, <1>8 DEF CaptureFails, Collect, Resume, TypeOK, closing
<1>9. CASE Put  BY Zenon, <1>9 DEF Put, TypeOK, data, closing
<1>10. CASE PutFails  BY Zenon, <1>10 DEF PutFails, Resume, TypeOK, data, closing
<1>11. CASE Count  BY <1>11 DEF Count, Resume, TypeOK, closing
<1> QED
  BY Zenon, <1>1, <1>2, <1>3, <1>4, <1>5, <1>6, <1>7, <1>8, <1>9, <1>10, <1>11 DEF snapshotLoop

LEMMA TypeNext == TypeOK /\ [Next]_vars => TypeOK'
<1> SUFFICES ASSUME TypeOK, [Next]_vars PROVE TypeOK'
  BY Zenon
<1>1. ASSUME NEW c \in Caller, Enter(c) \/ Calling(c) PROVE TypeOK'
  BY Zenon, <1>1, TypeCalling
<1>2. CASE Receive
  <2>1. PICK k \in Key : Write({k}, {}) \/ Write({}, {k})
    BY Zenon, <1>2 DEF Receive
  <2>2. /\ map' \in [Key -> {"absent", "live", "tomb", "old"}]
        /\ ver' \in 0..MaxVer
        /\ keysLive' \in Int /\ tombstones' \in Int
    BY Zenon, <2>1, TypeWrite
  <2> QED  BY <2>2, <1>2 DEF Receive, TypeOK, closing, snapshots
<1>3. ASSUME NEW k \in Key, Age(k) PROVE TypeOK'
  BY <1>3 DEF Age, TypeOK, closing, snapshots
<1>4. CASE snapshotLoop  BY Zenon, <1>4, TypeLoop
<1>5. CASE Close  BY Zenon, <1>5 DEF Close, TypeOK, data, snapshots
<1>6. CASE RecvExit  BY Zenon, <1>6 DEF RecvExit, TypeOK, data, snapshots
<1>7. CASE CloseReturn  BY Zenon, <1>7 DEF CloseReturn, TypeOK, data, snapshots
<1>8. CASE CloseTimeout  BY Zenon, <1>8 DEF CloseTimeout, TypeOK, data, snapshots
<1>9. CASE UNCHANGED vars  BY <1>9 DEF vars, TypeOK
<1> QED
  BY Zenon, <1>1, <1>2, <1>3, <1>4, <1>5, <1>6, <1>7, <1>8, <1>9 DEF Next

LEMMA TypeInit == Init => TypeOK
<1> SUFFICES ASSUME Init PROVE TypeOK
  BY Zenon
<1>1. IsFiniteSet(LiveKeys) /\ IsFiniteSet(Tombs)
  BY Zenon, KeyAssumption, FS_Subset DEF LiveKeys, Tombs
<1>2. Cardinality(LiveKeys) \in Nat /\ Cardinality(Tombs) \in Nat
  BY Zenon, <1>1, FS_CardinalityType
<1>3. keysLive \in Int /\ tombstones \in Int
  BY <1>2 DEF Init
<1>4. map \in [Key -> {"absent", "live", "tomb", "old"}]
  BY Zenon DEF Init
<1>5. caller \in [Caller -> Progress]
  BY MaxVerAssumption DEF Init, Progress
<1>6. 0 \in 0..MaxVer
  BY MaxVerAssumption
<1>7. /\ ver \in 0..MaxVer /\ captured \in 0..MaxVer /\ persisted \in 0..MaxVer
      /\ acked \in 0..MaxVer /\ atClose \in 0..MaxVer /\ gced \in Nat
  BY Zenon, <1>6 DEF Init
<1>8. /\ dirty \in BOOLEAN /\ closeCh \in BOOLEAN /\ receiving \in BOOLEAN
      /\ final \in BOOLEAN /\ failed \in BOOLEAN
  BY Zenon DEF Init
<1> QED  BY Zenon, <1>3, <1>4, <1>5, <1>7, <1>8 DEF Init, TypeOK

\* Type correctness of the whole background machinery of a Store.
THEOREM TypeCorrect == Spec => []TypeOK
  BY TypeInit, TypeNext, PTL DEF Spec

----------------------------------------------------------------------------
(* Wake-ups and the flush at Close.                                        *)

\* Snapshots only move forward and never ahead of the map; no caller and no
\* history variable is ahead of it either.
Forward ==
  /\ persisted <= captured /\ captured <= ver /\ acked <= ver /\ atClose <= ver
  /\ \A c \in Caller : caller[c].ver <= ver

\* Once Close was called the loop ends with a capture that is late enough.
Flushing ==
  /\ closeCh <=> closer # "none"
  /\ final => closeCh
  /\ loop = "exited" => final
  /\ closer = "returned" => loop = "exited"
  /\ final /\ loop = "put" => captured >= atClose
  /\ final /\ loop \in {"count", "exited"} /\ ~failed => persisted >= atClose
  /\ final => loop \in {"drain", "persist", "put", "count", "exited"}

Inv == Forward /\ Flushing /\ NoLostWakeup

LEMMA InvCalling ==
  ASSUME TypeOK, Inv, NEW c \in Caller, Enter(c) \/ Calling(c)
  PROVE  Inv'
<1> USE DEF Inv, Forward, Flushing, NoLostWakeup, TypeOK, Progress, Goto, data,
            closing, snapshots
<1>1. CASE Enter(c)  BY <1>1, MaxVerAssumption DEF Enter
<1>2. CASE Apply(c)  BY <1>2 DEF Apply, Write
<1>3. CASE Rejected(c)  BY <1>3 DEF Rejected
<1>4. CASE SetManyFails(c)  BY <1>4 DEF SetManyFails, Write
<1>5. CASE Refresh(c)  BY <1>5 DEF Refresh, Write
<1>6. CASE Seed(c)  BY <1>6 DEF Seed, Write
<1>7. CASE Publish(c)  BY Zenon, <1>7 DEF Publish
<1>8. CASE PublishFails(c)  BY <1>8 DEF PublishFails
<1>9. CASE markDirty(c)  BY <1>9 DEF markDirty
<1>10. CASE NoneWins(c)  BY <1>10, MaxVerAssumption DEF NoneWins
<1> QED
  BY Zenon, <1>1, <1>2, <1>3, <1>4, <1>5, <1>6, <1>7, <1>8, <1>9, <1>10 DEF Calling

LEMMA InvLoop == TypeOK /\ Inv /\ snapshotLoop => Inv'
<1> SUFFICES ASSUME TypeOK, Inv, snapshotLoop PROVE Inv'
  BY Zenon
<1> USE DEF Inv, Forward, Flushing, NoLostWakeup, TypeOK, Progress, data, closing
<1>1. CASE LoopDirty  BY Zenon, <1>1 DEF LoopDirty
<1>2. CASE gcTombstones  BY Zenon, <1>2 DEF gcTombstones
<1>3. CASE gcCount  BY Zenon, <1>3 DEF gcCount
<1>4. CASE Timer  BY Zenon, <1>4 DEF Timer
<1>5. CASE finalFlush  BY Zenon, <1>5 DEF finalFlush
<1>6. CASE Drain  BY Zenon, <1>6 DEF Drain
<1>7. CASE Capture  BY <1>7 DEF Capture
<1>8. CASE CaptureFails  BY Zenon, <1>8 DEF CaptureFails, Resume
<1>9. CASE Put  BY <1>9 DEF Put
<1>10. CASE PutFails  BY Zenon, <1>10 DEF PutFails, Resume
<1>11. CASE Count  BY Zenon, <1>11 DEF Count, Resume
<1> QED
  BY Zenon, <1>1, <1>2, <1>3, <1>4, <1>5, <1>6, <1>7, <1>8, <1>9, <1>10, <1>11 DEF snapshotLoop

LEMMA InvNext == TypeOK /\ Inv /\ [Next]_vars => Inv'
<1> SUFFICES ASSUME TypeOK, Inv, [Next]_vars PROVE Inv'
  BY Zenon
<1>1. ASSUME NEW c \in Caller, Enter(c) \/ Calling(c) PROVE Inv'
  BY Zenon, <1>1, InvCalling
<1>2. CASE snapshotLoop  BY Zenon, <1>2, InvLoop
<1> USE DEF Inv, Forward, Flushing, NoLostWakeup, TypeOK, Progress, data, snapshots
<1>3. CASE Receive  BY <1>3 DEF Receive, Write, closing
<1>4. ASSUME NEW k \in Key, Age(k) PROVE Inv'
  BY Zenon, <1>4 DEF Age, closing
<1>5. CASE Close  BY <1>5 DEF Close
<1>6. CASE RecvExit  BY Zenon, <1>6 DEF RecvExit
<1>7. CASE CloseReturn  BY Zenon, <1>7 DEF CloseReturn
<1>8. CASE CloseTimeout  BY Zenon, <1>8 DEF CloseTimeout
<1>9. CASE UNCHANGED vars  BY Zenon, <1>9 DEF vars
<1> QED
  BY Zenon, <1>1, <1>2, <1>3, <1>4, <1>5, <1>6, <1>7, <1>8, <1>9 DEF Next

LEMMA InvHolds == Spec => []Inv
<1>1. Init => Inv
  BY MaxVerAssumption DEF Init, Inv, Forward, Flushing, NoLostWakeup
<1> QED  BY <1>1, InvNext, TypeCorrect, PTL DEF Spec

\* markDirty's one-token channel loses no wake-up, for any number of callers.
THEOREM WakeupsAreKept == Spec => []NoLostWakeup
<1>1. Inv => NoLostWakeup
  BY Zenon DEF Inv
<1> QED  BY <1>1, InvHolds, PTL

\* Close returns nil only after a snapshot of all that was there before it.
THEOREM CloseAlwaysFlushes == Spec => []CloseFlushes
<1>1. Inv => CloseFlushes
  BY Zenon DEF Inv, Flushing, CloseFlushes
<1> QED  BY <1>1, InvHolds, PTL

----------------------------------------------------------------------------
(* The counters of Stats.                                                  *)

LEMMA CountSwap ==
  ASSUME NEW S \in SUBSET Key, NEW A \in SUBSET Key, NEW B \in SUBSET Key, A \cap B = {}
  PROVE  /\ Cardinality(S) \in Nat /\ Cardinality(A \ S) \in Nat
         /\ Cardinality(B \cap S) \in Nat
         /\ Cardinality((S \cup A) \ B) =
              Cardinality(S) + Cardinality(A \ S) - Cardinality(B \cap S)
<1>1. /\ IsFiniteSet(S) /\ IsFiniteSet(A \ S) /\ IsFiniteSet(B \cap S) /\ IsFiniteSet(B)
      /\ IsFiniteSet(S \cup A)
  BY Zenon, KeyAssumption, FS_Subset
<1>2. Cardinality(S) \in Nat /\ Cardinality(A \ S) \in Nat /\ Cardinality(B \cap S) \in Nat
  BY Zenon, <1>1, FS_CardinalityType
<1>3. S \cup A = S \cup (A \ S) /\ S \cap (A \ S) = {} /\ (S \cup A) \cap B = B \cap S
  BY Zenon
<1>4. Cardinality(S \cup A) = Cardinality(S) + Cardinality(A \ S)
  <2>1. Cardinality(S \cup (A \ S)) =
          Cardinality(S) + Cardinality(A \ S) - Cardinality(S \cap (A \ S))
    BY Zenon, <1>1, FS_Union
  <2>2. Cardinality(S \cap (A \ S)) = 0
    BY Zenon, <1>3, FS_EmptySet
  <2>3. Cardinality(S \cup A) = Cardinality(S \cup (A \ S))
    BY Zenon, <1>3
  <2> QED  BY <2>1, <2>2, <2>3, <1>2
<1>5. Cardinality((S \cup A) \ B) = Cardinality(S \cup A) - Cardinality((S \cup A) \cap B)
  BY Zenon, <1>1, FS_Difference
<1>6. Cardinality((S \cup A) \cap B) = Cardinality(B \cap S)
  BY Zenon, <1>3
<1> QED  BY <1>2, <1>4, <1>5, <1>6

Counted == loop \notin {"gc", "put", "count"} => gced = 0

\* The step keeps the live count's error and does not lower the other one's;
\* it keeps that too unless the step is one where a snapshot fails.
KeepsCounts ==
  /\ keysLive' - Cardinality(LiveKeys') = keysLive - Cardinality(LiveKeys)
  /\ tombstones' - Cardinality(Tombs') - gced' >= tombstones - Cardinality(Tombs) - gced
  /\ \/ failed'
     \/ tombstones' - Cardinality(Tombs') - gced' = tombstones - Cardinality(Tombs) - gced

LEMMA CountsAreNat ==
  /\ Cardinality(LiveKeys) \in Nat /\ Cardinality(Tombs) \in Nat
  /\ Cardinality(LiveKeys') \in Nat /\ Cardinality(Tombs') \in Nat
<1>1. /\ IsFiniteSet(LiveKeys) /\ IsFiniteSet(Tombs)
      /\ IsFiniteSet(LiveKeys') /\ IsFiniteSet(Tombs')
  BY Zenon, KeyAssumption, FS_Subset DEF LiveKeys, Tombs
<1> QED  BY Zenon, <1>1, FS_CardinalityType

LEMMA WriteKeepsCounts ==
  ASSUME TypeOK, NEW L \in SUBSET Key, NEW D \in SUBSET Key, Write(L, D), gced' = gced
  PROVE  KeepsCounts
<1>1. L \cap D = {} /\ D \cap L = {}
  BY Zenon DEF Write
<1>2. LiveKeys' = (LiveKeys \cup L) \ D
  BY Zenon, <1>1 DEF Write, LiveKeys, TypeOK
<1>3. Tombs' = (Tombs \cup D) \ L
  BY Zenon, <1>1 DEF Write, Tombs, TypeOK
<1>4. LiveKeys \in SUBSET Key /\ Tombs \in SUBSET Key
  BY Zenon DEF LiveKeys, Tombs
<1>5. /\ Cardinality(LiveKeys) \in Nat /\ Cardinality(L \ LiveKeys) \in Nat
      /\ Cardinality(D \cap LiveKeys) \in Nat
      /\ Cardinality(LiveKeys') = Cardinality(LiveKeys) + Cardinality(L \ LiveKeys)
                                    - Cardinality(D \cap LiveKeys)
  BY Zenon, <1>1, <1>2, <1>4, CountSwap
<1>6. /\ Cardinality(Tombs) \in Nat /\ Cardinality(D \ Tombs) \in Nat
      /\ Cardinality(L \cap Tombs) \in Nat
      /\ Cardinality(Tombs') = Cardinality(Tombs) + Cardinality(D \ Tombs)
                                 - Cardinality(L \cap Tombs)
  BY Zenon, <1>1, <1>3, <1>4, CountSwap
<1>7. keysLive' - Cardinality(LiveKeys') = keysLive - Cardinality(LiveKeys)
  BY <1>5 DEF Write, trackTransition, TypeOK
<1>8. tombstones' - Cardinality(Tombs') - gced' = tombstones - Cardinality(Tombs) - gced
  BY <1>6 DEF Write, trackTransition, TypeOK
<1>9. tombstones - Cardinality(Tombs) - gced \in Int
  BY <1>6 DEF TypeOK
<1> QED  BY <1>7, <1>8, <1>9 DEF KeepsCounts

LEMMA SameKeepsCounts ==
  ASSUME TypeOK, UNCHANGED <<map, keysLive>>, tombstones' = tombstones - (gced - gced'),
         TypeOK'
  PROVE  KeepsCounts
<1>1. LiveKeys' = LiveKeys /\ Tombs' = Tombs
  BY Zenon DEF LiveKeys, Tombs
<1>2. Cardinality(LiveKeys) \in Nat /\ Cardinality(Tombs) \in Nat
  BY Zenon, CountsAreNat
<1>3. Cardinality(LiveKeys') = Cardinality(LiveKeys) /\ Cardinality(Tombs') = Cardinality(Tombs)
  BY Zenon, <1>1
<1>4. tombstones' - Cardinality(Tombs') - gced' = tombstones - Cardinality(Tombs) - gced
  <2>1. tombstones \in Int /\ gced \in Int /\ tombstones' \in Int /\ gced' \in Int
    BY DEF TypeOK
  <2> QED  BY <2>1, <1>2, <1>3
<1>5. tombstones - Cardinality(Tombs) - gced \in Int
  BY <1>2 DEF TypeOK
<1> QED  BY <1>3, <1>4, <1>5 DEF KeepsCounts

LEMMA CollectCounts ==
  ASSUME TypeOK, NEW K \in SUBSET Old, Collect(K)
  PROVE  /\ LiveKeys' = LiveKeys
         /\ Cardinality(K) \in Nat
         /\ Cardinality(Tombs') = Cardinality(Tombs) - Cardinality(K)
<1>1. LiveKeys' = LiveKeys /\ Tombs' = Tombs \ K /\ Tombs \cap K = K
  BY Zenon DEF Collect, LiveKeys, Tombs, Old, TypeOK
<1>2. IsFiniteSet(Tombs) /\ IsFiniteSet(K)
  BY Zenon, KeyAssumption, FS_Subset DEF Tombs, Old
<1>3. Cardinality(Tombs \ K) = Cardinality(Tombs) - Cardinality(Tombs \cap K)
  BY Zenon, <1>2, FS_Difference
<1>4. Cardinality(Tombs') = Cardinality(Tombs \ K) /\ Cardinality(Tombs \cap K) = Cardinality(K)
  BY Zenon, <1>1
<1>5. Cardinality(K) \in Nat
  BY Zenon, <1>2, FS_CardinalityType
<1> QED  BY Zenon, <1>1, <1>3, <1>4, <1>5

LEMMA LoopKeepsCounts == TypeOK /\ TypeOK' /\ Counted /\ snapshotLoop => KeepsCounts /\ Counted'
<1> SUFFICES ASSUME TypeOK, TypeOK', Counted, snapshotLoop PROVE KeepsCounts /\ Counted'
  BY Zenon
<1>0. /\ Cardinality(LiveKeys) \in Nat /\ Cardinality(Tombs) \in Nat
      /\ tombstones \in Int /\ gced \in Int /\ tombstones' \in Int /\ gced' \in Int
  BY CountsAreNat DEF TypeOK
<1>a. ASSUME Collect(Old), gced = 0, gced' = Cardinality(Old),
             UNCHANGED <<keysLive, tombstones>>
      PROVE  KeepsCounts
  <2>1. /\ LiveKeys' = LiveKeys /\ Cardinality(Old) \in Nat
        /\ Cardinality(Tombs') = Cardinality(Tombs) - Cardinality(Old)
    BY Zenon, <1>a, CollectCounts
  <2>2. Cardinality(LiveKeys') = Cardinality(LiveKeys)
    BY Zenon, <2>1
  <2>3. tombstones' - Cardinality(Tombs') - gced' = tombstones - Cardinality(Tombs) - gced
    BY <2>1, <1>0, <1>a
  <2>4. tombstones - Cardinality(Tombs) - gced \in Int
    BY <1>0
  <2> QED  BY <2>2, <2>3, <2>4, <1>a DEF KeepsCounts
<1>b. ASSUME UNCHANGED <<map, keysLive, tombstones, gced>> PROVE KeepsCounts
  <2>1. tombstones' = tombstones - (gced - gced')
    BY <1>0, <1>b
  <2> QED  BY Zenon, <2>1, <1>b, SameKeepsCounts
<1>1. CASE LoopDirty
  BY Zenon, <1>1, <1>b DEF LoopDirty, data, Counted
<1>2. CASE gcTombstones
  BY Zenon, <1>2, <1>a DEF gcTombstones, Counted
<1>3. CASE gcCount
  <2>1. tombstones' = tombstones - (gced - gced')
    BY <1>0, <1>3 DEF gcCount
  <2> QED  BY Zenon, <2>1, <1>3, SameKeepsCounts DEF gcCount, Counted
<1>4. CASE Timer
  BY Zenon, <1>4, <1>b DEF Timer, data, Counted
<1>5. CASE finalFlush
  BY Zenon, <1>5, <1>b DEF finalFlush, data, Counted
<1>6. CASE Drain
  BY Zenon, <1>6, <1>b DEF Drain, data, Counted
<1>7. CASE Capture
  BY Zenon, <1>7, <1>a DEF Capture, Counted
<1>8. CASE CaptureFails
  <2>1. PICK K \in SUBSET Old : Collect(K)
    BY Zenon, <1>8 DEF CaptureFails
  <2>2. /\ LiveKeys' = LiveKeys /\ Cardinality(K) \in Nat
        /\ Cardinality(Tombs') = Cardinality(Tombs) - Cardinality(K)
    BY Zenon, <2>1, CollectCounts
  <2>3. Cardinality(LiveKeys') = Cardinality(LiveKeys)
    BY Zenon, <2>2
  <2>4. tombstones' - Cardinality(Tombs') - gced' >= tombstones - Cardinality(Tombs) - gced
    BY <2>2, <1>0, <1>8 DEF CaptureFails
  <2>5. failed'
    BY Zenon, <1>8 DEF CaptureFails
  <2>6. KeepsCounts
    BY Zenon, <2>3, <2>4, <2>5, <1>8 DEF KeepsCounts, CaptureFails
  <2> QED  BY Zenon, <2>6, <1>8 DEF CaptureFails, Counted
<1>9. CASE Put
  BY Zenon, <1>9, <1>b DEF Put, data, Counted
<1>10. CASE PutFails
  <2>1. LiveKeys' = LiveKeys /\ Tombs' = Tombs
    BY Zenon, <1>10 DEF PutFails, data, LiveKeys, Tombs
  <2>2. Cardinality(LiveKeys') = Cardinality(LiveKeys) /\ Cardinality(Tombs') = Cardinality(Tombs)
    BY Zenon, <2>1
  <2>3. gced >= 0 /\ gced' = 0 /\ UNCHANGED <<keysLive, tombstones>>
    BY <1>10 DEF PutFails, data, TypeOK
  <2>4. tombstones' - Cardinality(Tombs') - gced' >= tombstones - Cardinality(Tombs) - gced
    BY <2>2, <2>3, <1>0
  <2>5. failed'
    BY Zenon, <1>10 DEF PutFails
  <2> QED  BY Zenon, <2>2, <2>3, <2>4, <2>5 DEF KeepsCounts, Counted
<1>11. CASE Count
  <2>1. tombstones' = tombstones - (gced - gced')
    BY <1>0, <1>11 DEF Count
  <2> QED  BY Zenon, <2>1, <1>11, SameKeepsCounts DEF Count, Counted
<1> QED
  BY Zenon, <1>1, <1>2, <1>3, <1>4, <1>5, <1>6, <1>7, <1>8, <1>9, <1>10, <1>11 DEF snapshotLoop

LEMMA NextKeepsCounts ==
  TypeOK /\ TypeOK' /\ Counted /\ [Next]_vars => KeepsCounts /\ Counted'
<1> SUFFICES ASSUME TypeOK, TypeOK', Counted, [Next]_vars PROVE KeepsCounts /\ Counted'
  BY Zenon
<1>1. ASSUME UNCHANGED <<map, keysLive, tombstones, loop, gced>>
      PROVE  KeepsCounts /\ Counted'
  <2>1. tombstones' = tombstones - (gced - gced')
    BY <1>1 DEF TypeOK
  <2> QED  BY Zenon, <2>1, <1>1, SameKeepsCounts DEF Counted
<1>2. ASSUME NEW L \in SUBSET Key, NEW D \in SUBSET Key, Write(L, D), UNCHANGED snapshots
      PROVE  KeepsCounts /\ Counted'
  BY Zenon, <1>2, WriteKeepsCounts DEF Counted, snapshots
<1>3. ASSUME NEW c \in Caller, Enter(c) \/ Calling(c) PROVE KeepsCounts /\ Counted'
  <2>1. CASE \/ Enter(c) \/ Rejected(c) \/ NoneWins(c)
             \/ Publish(c) \/ PublishFails(c) \/ markDirty(c)
    BY Zenon, <2>1, <1>1 DEF Enter, Rejected, NoneWins, Publish, PublishFails,
                         markDirty, data, snapshots
  <2>2. CASE Apply(c) \/ SetManyFails(c) \/ Refresh(c) \/ Seed(c)
    <3>1. PICK L \in SUBSET Key, D \in SUBSET Key : Write(L, D)
      BY Zenon, <2>2 DEF Apply, SetManyFails, Refresh, Seed
    <3>2. UNCHANGED snapshots
      BY Zenon, <2>2 DEF Apply, SetManyFails, Refresh, Seed
    <3> QED  BY Zenon, <3>1, <3>2, <1>2
  <2> QED  BY Zenon, <1>3, <2>1, <2>2 DEF Calling
<1>4. CASE Receive
  <2>1. PICK L \in SUBSET Key, D \in SUBSET Key : Write(L, D)
    BY Zenon, <1>4 DEF Receive
  <2> QED  BY Zenon, <2>1, <1>2, <1>4 DEF Receive
<1>5. ASSUME NEW k \in Key, Age(k) PROVE KeepsCounts /\ Counted'
  <2>1. LiveKeys' = LiveKeys /\ Tombs' = Tombs
    BY Zenon, <1>5 DEF Age, LiveKeys, Tombs, TypeOK
  <2>2. UNCHANGED <<keysLive, tombstones, gced, loop>>
    BY Zenon, <1>5 DEF Age, snapshots
  <2>3. tombstones - Cardinality(Tombs) - gced \in Int
    BY CountsAreNat DEF TypeOK
  <2> QED  BY <2>1, <2>2, <2>3 DEF KeepsCounts, Counted
<1>6. CASE snapshotLoop
  BY Zenon, <1>6, LoopKeepsCounts
<1>7. CASE Close \/ RecvExit \/ CloseReturn \/ CloseTimeout \/ UNCHANGED vars
  BY Zenon, <1>7, <1>1 DEF Close, RecvExit, CloseReturn, CloseTimeout, vars, data, snapshots
<1> QED
  BY Zenon, <1>3, <1>4, <1>5, <1>6, <1>7 DEF Next

\* failed is never reset.
LEMMA FailedStays == [Next]_vars /\ failed => failed'
<1> SUFFICES ASSUME [Next]_vars, failed PROVE failed'
  BY Zenon
<1>1. CASE UNCHANGED failed
  BY Zenon, <1>1
<1>2. CASE snapshotLoop
  BY Zenon, <1>2 DEF snapshotLoop, LoopDirty, gcTombstones, gcCount, Timer, finalFlush, Drain,
              Capture, CaptureFails, Put, PutFails, Count
<1>3. ASSUME NEW c \in Caller, Enter(c) \/ Calling(c) PROVE UNCHANGED failed
  BY Zenon, <1>3 DEF Calling, Enter, Apply, Rejected, NoneWins, SetManyFails, Refresh,
              Seed, Publish, PublishFails, markDirty, snapshots
<1>4. CASE Receive \/ (\E k \in Key : Age(k)) \/ Close \/ RecvExit \/ CloseReturn
             \/ CloseTimeout \/ UNCHANGED vars
  BY Zenon, <1>4, <1>1
     DEF Receive, Age, Close, RecvExit, CloseReturn, CloseTimeout, vars, snapshots
<1> QED  BY Zenon, <1>1, <1>2, <1>3, <1>4 DEF Next

\* The live count is exact, the tombstone count is never below the map, and as
\* long as no snapshot failed it exceeds it only by what is about to be
\* subtracted.
THEOREM StatsKeepToMap == Spec => []StatsMatchMap
<1> DEFINE I == Counted /\ StatsMatchMap
<1>1. Init => I
  <2> SUFFICES ASSUME Init PROVE I
    BY Zenon
  <2>1. Cardinality(Tombs) \in Nat
    BY Zenon, TypeInit, CountsAreNat
  <2> QED  BY <2>1 DEF Init, Counted, StatsMatchMap
<1>2. TypeOK /\ TypeOK' /\ I /\ [Next]_vars => I'
  <2> SUFFICES ASSUME TypeOK, TypeOK', I, [Next]_vars PROVE I'
    BY Zenon
  <2>1. /\ Cardinality(LiveKeys) \in Nat /\ Cardinality(Tombs) \in Nat
        /\ Cardinality(LiveKeys') \in Nat /\ Cardinality(Tombs') \in Nat
    BY Zenon, CountsAreNat
  <2>2. KeepsCounts /\ Counted'
    BY Zenon, NextKeepsCounts
  <2>3. keysLive' = Cardinality(LiveKeys')
    <3>1. /\ keysLive' - Cardinality(LiveKeys') = keysLive - Cardinality(LiveKeys)
          /\ keysLive = Cardinality(LiveKeys)
      BY Zenon, <2>2 DEF KeepsCounts, StatsMatchMap
    <3>2. keysLive \in Int /\ keysLive' \in Int
      BY Zenon DEF TypeOK
    <3> QED  BY <2>1, <3>1, <3>2
  <2>4. tombstones' >= Cardinality(Tombs') + gced'
    BY <2>1, <2>2 DEF KeepsCounts, StatsMatchMap, TypeOK
  <2>5. ASSUME ~failed' PROVE tombstones' = Cardinality(Tombs') + gced'
    <3>1. ~failed
      BY Zenon, <2>5, FailedStays
    <3>2. tombstones \in Int /\ gced \in Int /\ tombstones' \in Int /\ gced' \in Int
      BY DEF TypeOK
    <3>3. tombstones = Cardinality(Tombs) + gced
      BY Zenon, <3>1 DEF StatsMatchMap
    <3>4. tombstones' - Cardinality(Tombs') - gced' = tombstones - Cardinality(Tombs) - gced
      BY Zenon, <2>2, <2>5 DEF KeepsCounts
    <3>5. \A t, c, g \in Int : (t - c - g = 0) <=> (t = c + g)
      OBVIOUS
    <3>6. tombstones - Cardinality(Tombs) - gced = 0
      BY <2>1, <3>2, <3>3, <3>5
    <3> QED  BY <2>1, <3>2, <3>4, <3>5, <3>6
  <2> QED  BY Zenon, <2>2, <2>3, <2>4, <2>5 DEF StatsMatchMap
<1> QED  BY <1>1, <1>2, TypeCorrect, PTL DEF Spec
=============================================================================
