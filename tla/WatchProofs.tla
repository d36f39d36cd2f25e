---------------------------- MODULE WatchProofs ----------------------------
(***************************************************************************)
(* The watchers of a Store, proved for every set of keys, writers and      *)
(* watchers, every filter, buffer and number of changes.                   *)
(***************************************************************************)
EXTENDS Watch, TLAPS

Ev == [key : Key, ver : Nat, batch : BOOLEAN]

TypeOK ==
  /\ ver \in Nat
  /\ writer \in [Writer -> [at : {"idle", "entered", "dispatching"}, owes : SUBSET Ev]]
  /\ watchersMu \in Watcher \cup {NoOne} /\ watchers \subseteq Watcher
  /\ watch \in [Watcher -> {"none", "checked", "refused", "inserted", "waiting", "removing",
                            "done"}]
  /\ ctxDone \subseteq Watcher
  /\ got \in [Watcher -> Seq(Ev)] /\ due \in [Watcher -> Seq(Ev)] /\ read \in [Watcher -> Nat]
  /\ chClosed \in [Watcher -> Nat] /\ cancelClosed \in [Watcher -> Nat]
  /\ closeCh \in BOOLEAN /\ loops \in BOOLEAN /\ remaining \subseteq Watcher
  /\ closer \in {"none", "waiting", "locking", "sweeping", "returned"}

\* watchersMu is held by the one Watch call between its check and its insert.
Mutex == \A w \in Watcher : watch[w] = "checked" <=> watchersMu = w

\* The two channels of a watcher: open until it is registered and as long as it is
\* in the map, closed once after that; or closed by the Watch call that is refused.
Channels(w) ==
  /\ w \in watchers => Registered(w)
  /\ watch[w] = "refused" => chClosed[w] = 1 /\ cancelClosed[w] = 0
  /\ watch[w] \in {"none", "checked"} \/ w \in watchers => chClosed[w] = 0 /\ cancelClosed[w] = 0
  /\ Registered(w) /\ w \notin watchers => chClosed[w] = 1 /\ cancelClosed[w] = 1

\* From the sweep on, the map only holds what the sweep has still to remove, and
\* no Watch call is about to add to it.
Swept ==
  /\ closer # "none" => closeCh
  /\ closer \in {"sweeping", "returned"} =>
       watchers \subseteq remaining /\ \A w \in Watcher : watch[w] # "checked"
  /\ closer = "returned" => remaining = {}

\* What has been dispatched is not younger than the map, and what is still to be
\* dispatched outside s.mu is marked as part of a batch.
Ages ==
  /\ \A c \in Writer : \A ev \in writer[c].owes : ev.batch /\ ev.ver <= ver
  /\ \A w \in Watcher : \A i \in 1..Len(got[w]) : got[w][i].ver <= ver

\* A channel and what is due on it are the same until the watcher is registered.
Prefix(w) ==
  /\ Len(got[w]) <= Len(due[w])
  /\ \A i \in 1..Len(got[w]) : got[w][i] = due[w][i]
  /\ w \in watchers \/ ~Registered(w) => got[w] = due[w]

Inv ==
  /\ TypeOK /\ Mutex /\ Swept
  /\ \A w \in Watcher : Channels(w) /\ Prefix(w)
  /\ Ages /\ AppliedOrder

----------------------------------------------------------------------------
(* What dispatch and removeWatcher do to one watcher.                      *)

\* The event is sent, the watcher is dropped as slow, or neither.
Told(w, ev) ==
  /\ w \in watchers /\ ev.key \in Filter[w] /\ w \in watchers'
  /\ got'[w] = Append(got[w], ev)
  /\ chClosed'[w] = chClosed[w] /\ cancelClosed'[w] = cancelClosed[w]
Dropped(w) ==
  /\ w \in watchers /\ w \notin watchers' /\ got'[w] = got[w]
  /\ chClosed'[w] = chClosed[w] + 1 /\ cancelClosed'[w] = cancelClosed[w] + 1
Same(w) ==
  /\ w \in watchers' <=> w \in watchers
  /\ got'[w] = got[w]
  /\ chClosed'[w] = chClosed[w] /\ cancelClosed'[w] = cancelClosed[w]
Skipped(w, ev) == Same(w) /\ (w \notin watchers \/ ev.key \notin Filter[w])

\* Drop keeps the counters natural numbers.
LEMMA DropType ==
  ASSUME TypeOK, NEW W, Drop(W)
  PROVE  chClosed' \in [Watcher -> Nat] /\ cancelClosed' \in [Watcher -> Nat]
BY DEF Drop, TypeOK

\* Drop, seen from one watcher.
LEMMA Drops ==
  ASSUME TypeOK, NEW W, Drop(W), NEW w \in Watcher
  PROVE  /\ w \in W => /\ w \notin watchers' /\ chClosed'[w] = chClosed[w] + 1
                       /\ cancelClosed'[w] = cancelClosed[w] + 1
         /\ w \notin W => /\ w \in watchers' <=> w \in watchers
                          /\ chClosed'[w] = chClosed[w] /\ cancelClosed'[w] = cancelClosed[w]
<1>1. chClosed[w] \in Nat /\ cancelClosed[w] \in Nat
  BY Zenon DEF TypeOK
<1>2. /\ chClosed'[w] = chClosed[w] + IF w \in W THEN 1 ELSE 0
      /\ cancelClosed'[w] = cancelClosed[w] + IF w \in W THEN 1 ELSE 0
  BY Zenon DEF Drop
<1>3. watchers' = watchers \ W
  BY Zenon DEF Drop
<1>4. CASE w \in W
  BY Zenon, <1>2, <1>3, <1>4
<1>5. CASE w \notin W
  BY <1>1, <1>2, <1>3, <1>5
<1>6. QED
  BY Zenon, <1>4, <1>5

\* dispatch, seen from one watcher.
LEMMA Dispatched ==
  ASSUME TypeOK, NEW ev \in Ev, dispatch(ev), NEW w \in Watcher
  PROVE  /\ Told(w, ev) \/ Dropped(w) \/ Skipped(w, ev)
         /\ due'[w] = IF Registered(w) /\ ev.key \in Filter[w] THEN Append(due[w], ev) ELSE due[w]
         /\ watchersMu = NoOne /\ watchers' \subseteq watchers
<1>1. Drop(Matching(ev) \cap Full) /\ SendTo(Matching(ev) \ Full, ev)
  BY Zenon DEF dispatch
<1>2. due'[w] = IF Registered(w) /\ ev.key \in Filter[w] THEN Append(due[w], ev) ELSE due[w]
  BY Zenon DEF dispatch, Owe
<1>3. ASSUME w \in Matching(ev) \ Full PROVE Told(w, ev)
  <2>1. got'[w] = Append(got[w], ev)
    BY Zenon, <1>1, <1>3 DEF SendTo
  <2>2. w \notin Matching(ev) \cap Full /\ w \in watchers /\ ev.key \in Filter[w]
    BY Zenon, <1>3 DEF Matching
  <2>3. QED
    BY Zenon, <1>1, <2>1, <2>2, Drops DEF Told
<1>4. ASSUME w \in Matching(ev) \cap Full PROVE Dropped(w)
  <2>1. got'[w] = got[w] /\ w \in watchers
    BY Zenon, <1>1, <1>4 DEF SendTo, Matching
  <2>2. QED
    BY Zenon, <1>1, <1>4, <2>1, Drops DEF Dropped
<1>5. ASSUME w \notin Matching(ev) PROVE Skipped(w, ev)
  <2>1. got'[w] = got[w] /\ (w \notin watchers \/ ev.key \notin Filter[w])
    BY Zenon, <1>1, <1>5 DEF SendTo, Matching
  <2>2. w \notin Matching(ev) \cap Full
    BY Zenon, <1>5
  <2>3. QED
    BY Zenon, <1>1, <2>1, <2>2, Drops DEF Same, Skipped
<1>6. watchersMu = NoOne /\ watchers' \subseteq watchers
  BY Zenon DEF dispatch, Drop
<1>7. QED
  BY Zenon, <1>2, <1>3, <1>4, <1>5, <1>6

\* removeWatcher, seen from one watcher.
LEMMA Removed ==
  ASSUME TypeOK, NEW v \in Watcher, removeWatcher(v), NEW w \in Watcher
  PROVE  /\ w = v => w \notin watchers'
         /\ Dropped(w) \/ Same(w)
         /\ watchers' = watchers \ {v} /\ got' = got /\ watchersMu = NoOne
<1>1. Drop(watchers \cap {v})
  BY Zenon DEF removeWatcher
<1>2. ASSUME w \in watchers, w = v PROVE Dropped(w)
  <2>1. w \in watchers \cap {v} /\ got' = got
    BY Zenon, <1>2 DEF removeWatcher
  <2>2. QED
    BY Zenon, <1>1, <1>2, <2>1, Drops DEF Dropped
<1>3. ASSUME ~(w \in watchers /\ w = v) PROVE Same(w)
  <2>1. w \notin watchers \cap {v} /\ got' = got
    BY Zenon, <1>3 DEF removeWatcher
  <2>2. QED
    BY Zenon, <1>1, <2>1, Drops DEF Same
<1>4. QED
  BY Zenon, <1>2, <1>3 DEF removeWatcher, Drop

----------------------------------------------------------------------------
(* Types.                                                                  *)

\* dispatch and removeWatcher keep the types of what they change.
LEMMA DispatchType ==
  ASSUME TypeOK, NEW ev \in Ev, dispatch(ev)
  PROVE  /\ watchers' \subseteq Watcher
         /\ got' \in [Watcher -> Seq(Ev)] /\ due' \in [Watcher -> Seq(Ev)]
         /\ chClosed' \in [Watcher -> Nat] /\ cancelClosed' \in [Watcher -> Nat]
<1>1. \A w \in Watcher : got[w] \in Seq(Ev) /\ due[w] \in Seq(Ev)
  BY Zenon DEF TypeOK
<1>2. \A w \in Watcher : Append(got[w], ev) \in Seq(Ev) /\ Append(due[w], ev) \in Seq(Ev)
  BY <1>1
<1>3. got' \in [Watcher -> Seq(Ev)]
  BY Zenon, <1>1, <1>2 DEF dispatch, SendTo
<1>4. due' \in [Watcher -> Seq(Ev)]
  BY Zenon, <1>1, <1>2 DEF dispatch, Owe
<1>5. Drop(Matching(ev) \cap Full)
  BY Zenon DEF dispatch
<1>6. chClosed' \in [Watcher -> Nat] /\ cancelClosed' \in [Watcher -> Nat]
  BY Zenon, <1>5, DropType
<1>7. QED
  BY Zenon, <1>3, <1>4, <1>5, <1>6 DEF Drop, TypeOK

LEMMA RemoveType ==
  ASSUME TypeOK, NEW w \in Watcher, removeWatcher(w)
  PROVE  /\ watchers' \subseteq Watcher /\ got' = got
         /\ chClosed' \in [Watcher -> Nat] /\ cancelClosed' \in [Watcher -> Nat]
<1>1. Drop(watchers \cap {w}) /\ got' = got
  BY Zenon DEF removeWatcher
<1>2. QED
  BY Zenon, <1>1, DropType DEF Drop, TypeOK

\* The steps of a writer keep the types.
LEMMA TypeWriter ==
  ASSUME TypeOK, NEW c \in Writer, Writing(c) PROVE TypeOK'
<1> DEFINE W == [at : {"idle", "entered", "dispatching"}, owes : SUBSET Ev]
<1>1. writer[c] \in W /\ writer \in [Writer -> W] /\ ver \in Nat /\ Idle \in W
  BY Zenon DEF TypeOK, Idle
<1>2. CASE Enter(c)
  <2>1. writer' \in [Writer -> W]
    BY Zenon, <1>1, <1>2 DEF Enter
  <2>2. QED
    BY Zenon, <2>1, <1>2 DEF Enter, TypeOK, channels, calls, closing
<1>3. CASE applyMessage(c)
  <2>1. PICK k \in Key : dispatch([key |-> k, ver |-> ver + 1, batch |-> FALSE])
    BY Zenon, <1>3 DEF applyMessage
  <2>2. [key |-> k, ver |-> ver + 1, batch |-> FALSE] \in Ev
    BY <1>1 DEF Ev
  <2>3. ver' \in Nat /\ writer' \in [Writer -> W]
    BY <1>1, <1>3 DEF applyMessage
  <2>4. QED
    BY Zenon, <2>1, <2>2, <2>3, <1>3, DispatchType DEF applyMessage, TypeOK, calls, closing
<1>4. CASE Batch(c)
  <2>1. PICK K \in SUBSET Key :
          writer' = [writer EXCEPT ![c] = [at |-> "dispatching",
                       owes |-> {[key |-> k, ver |-> ver + 1, batch |-> TRUE] : k \in K}]]
    BY Zenon, <1>4 DEF Batch
  <2>2. {[key |-> k, ver |-> ver + 1, batch |-> TRUE] : k \in K} \in SUBSET Ev
    <3>1. \A k \in K : [key |-> k, ver |-> ver + 1, batch |-> TRUE] \in Ev
      BY <1>1 DEF Ev
    <3>2. QED
      BY Zenon, <3>1
  <2>3. ver' \in Nat /\ writer' \in [Writer -> W]
    BY <1>1, <1>4, <2>1, <2>2 DEF Batch
  <2>4. QED
    BY Zenon, <2>3, <1>4 DEF Batch, TypeOK, channels, calls, closing
<1>5. CASE DispatchOne(c)
  <2>1. PICK ev \in writer[c].owes :
          /\ dispatch(ev)
          /\ writer' = [writer EXCEPT ![c] =
                          IF writer[c].owes = {ev} THEN Idle
                          ELSE [at |-> "dispatching", owes |-> writer[c].owes \ {ev}]]
    BY Zenon, <1>5 DEF DispatchOne
  <2>2. ev \in Ev /\ [at |-> "dispatching", owes |-> writer[c].owes \ {ev}] \in W
    BY Zenon, <1>1
  <2> DEFINE r == IF writer[c].owes = {ev} THEN Idle
                  ELSE [at |-> "dispatching", owes |-> writer[c].owes \ {ev}]
  <2>3. r \in W /\ writer' = [writer EXCEPT ![c] = r]
    BY Zenon, <1>1, <2>1, <2>2
  <2> HIDE DEF W, r
  <2>4. writer' \in [Writer -> W]
    BY Zenon, <1>1, <2>3
  <2>5. QED
    BY Zenon, <2>1, <2>2, <2>4, <1>5, DispatchType DEF W, DispatchOne, TypeOK, calls, closing
<1>6. QED
  BY Zenon, <1>2, <1>3, <1>4, <1>5 DEF Writing

\* The steps of a Watch call, its goroutine and its consumer keep the types.
LEMMA TypeWatcher ==
  ASSUME TypeOK, NEW w \in Watcher,
         WatchCheck(w) \/ WatchRefused(w) \/ Watching(w) \/ Cancel(w) \/ Consume(w)
  PROVE  TypeOK'
<1>1. CASE WatchCheck(w)
  BY Zenon, <1>1 DEF WatchCheck, TypeOK, channels, closing
<1>2. CASE WatchRefused(w)
  BY <1>2 DEF WatchRefused, TypeOK, closing
<1>3. CASE WatchInsert(w)
  BY Zenon, <1>3 DEF WatchInsert, TypeOK, closing
<1>4. CASE WatchGo(w)
  BY Zenon, <1>4 DEF WatchGo, TypeOK, channels, closing
<1>5. CASE Wake(w)
  BY Zenon, <1>5 DEF Wake, TypeOK, channels, closing
<1>6. CASE Cleanup(w)
  BY Zenon, <1>6, RemoveType DEF Cleanup, TypeOK, closing
<1>7. CASE Cancel(w)
  BY Zenon, <1>7 DEF Cancel, TypeOK, channels, closing
<1>8. CASE Consume(w)
  BY <1>8 DEF Consume, TypeOK, channels, calls, closing
<1>9. QED
  BY Zenon, <1>1, <1>2, <1>3, <1>4, <1>5, <1>6, <1>7, <1>8 DEF Watching

\* The steps of CloseWithContext keep the types.
LEMMA TypeClose ==
  ASSUME TypeOK, Close \/ LoopsExit \/ CloseTimeout \/ Closing PROVE TypeOK'
<1>1. CASE Close \/ LoopsExit \/ CloseTimeout \/ WaitEnds
  BY Zenon, <1>1 DEF Close, LoopsExit, CloseTimeout, WaitEnds, TypeOK, channels, calls
<1>2. CASE SweepStart \/ CloseReturn
  BY Zenon, <1>2 DEF SweepStart, CloseReturn, TypeOK, channels, calls
<1>3. CASE Sweep
  <2>1. PICK w \in remaining : removeWatcher(w) /\ remaining' = remaining \ {w}
    BY Zenon, <1>3 DEF Sweep
  <2>2. w \in Watcher
    BY Zenon DEF TypeOK
  <2>3. QED
    BY Zenon, <2>1, <2>2, <1>3, RemoveType DEF Sweep, TypeOK, calls
<1>4. QED
  BY Zenon, <1>1, <1>2, <1>3 DEF Closing

\* Types hold in every reachable state.
THEOREM TypeCorrect == Spec => []TypeOK
<1>1. Init => TypeOK
  <2> SUFFICES ASSUME Init PROVE TypeOK
    BY Zenon
  <2>1. writer \in [Writer -> [at : {"idle", "entered", "dispatching"}, owes : SUBSET Ev]]
    BY Zenon DEF Init, Idle
  <2>2. got \in [Watcher -> Seq(Ev)] /\ due \in [Watcher -> Seq(Ev)]
    BY DEF Init
  <2>3. QED
    BY Zenon, <2>1, <2>2 DEF Init, TypeOK
<1>2. TypeOK /\ [Next]_vars => TypeOK'
  <2> SUFFICES ASSUME TypeOK, [Next]_vars PROVE TypeOK'
    BY Zenon
  <2>1. CASE UNCHANGED vars
    BY Zenon, <2>1 DEF vars, TypeOK
  <2>2. QED
    BY Zenon, <2>1, TypeWriter, TypeWatcher, TypeClose DEF Next
<1>3. QED
  BY <1>1, <1>2, PTL DEF Spec

----------------------------------------------------------------------------
(* Writers.                                                                *)

\* The parts of the invariant that say where a watcher is.
Placed == Mutex /\ Swept /\ \A w \in Watcher : Channels(w) /\ Prefix(w)

\* The parts that say in which order a channel carries its events.
Ordered == Ages /\ AppliedOrder

\* Placed depends on these variables only.
LEMMA PlacedFrame ==
  ASSUME Placed,
         UNCHANGED <<channels, watchersMu, watch, closeCh, closer, remaining, due>>
  PROVE  Placed'
<1>1. Mutex' /\ Swept'
  BY Zenon DEF Placed, Mutex, Swept, channels
<1>2. ASSUME NEW w \in Watcher PROVE Channels(w)' /\ Prefix(w)'
  BY Zenon, <1>2 DEF Placed, Channels, Prefix, Registered, channels
<1>3. QED
  BY Zenon, <1>1, <1>2 DEF Placed

\* Ordered depends on what was sent, what is owed and the age of the map.
LEMMA OrderedFrame ==
  ASSUME Ordered, UNCHANGED <<ver, got>>, \A c \in Writer : writer'[c].owes \subseteq writer[c].owes
  PROVE  Ordered'
BY Zenon DEF Ordered, Ages, AppliedOrder

\* dispatch keeps the places: it sends to watchers in the map only, and one that it
\* drops has both channels closed.
LEMMA DispatchPlaced ==
  ASSUME Inv, NEW ev \in Ev, dispatch(ev),
         UNCHANGED <<watchersMu, watch, closeCh, closer, remaining>>
  PROVE  Placed'
<1>1. Mutex'
  BY Zenon DEF Inv, Mutex
<1>2. watchers' \subseteq watchers
  BY Zenon DEF dispatch, Drop
<1>3. Swept'
  BY Zenon, <1>2 DEF Inv, Swept
<1>4. ASSUME NEW w \in Watcher PROVE Channels(w)' /\ Prefix(w)'
  <2>1. /\ Told(w, ev) \/ Dropped(w) \/ Skipped(w, ev)
        /\ due'[w] = IF Registered(w) /\ ev.key \in Filter[w] THEN Append(due[w], ev) ELSE due[w]
    BY Zenon, Dispatched DEF Inv
  <2>2. Channels(w) /\ Prefix(w) /\ (Registered(w)' <=> Registered(w)) /\ watch'[w] = watch[w]
    BY Zenon DEF Inv, Registered
  <2>3. chClosed[w] \in Nat /\ cancelClosed[w] \in Nat /\ got[w] \in Seq(Ev) /\ due[w] \in Seq(Ev)
    BY Zenon DEF Inv, TypeOK
  <2>4. Channels(w)'
    <3>1. CASE Told(w, ev)
      BY Zenon, <2>2, <3>1 DEF Channels, Told
    <3>2. CASE Dropped(w)
      BY <2>2, <3>2 DEF Channels, Dropped, Registered
    <3>3. CASE Same(w)
      BY Zenon, <2>2, <3>3 DEF Channels, Same
    <3>4. QED
      BY Zenon, <2>1, <3>1, <3>2, <3>3 DEF Skipped
  <2>5. Prefix(w)'
    <3>1. CASE Told(w, ev)
      BY <2>1, <2>2, <2>3, <3>1 DEF Channels, Prefix, Told
    <3>2. CASE got'[w] = got[w] /\ due'[w] = Append(due[w], ev) /\ Registered(w) /\ w \notin watchers'
      BY <2>2, <2>3, <3>2 DEF Prefix
    <3>3. CASE got'[w] = got[w] /\ due'[w] = due[w] /\ (w \in watchers' => w \in watchers)
      BY Zenon, <2>2, <3>3 DEF Prefix
    <3>4. QED
      BY Zenon, <2>1, <3>1, <3>2, <3>3, <1>2 DEF Dropped, Skipped, Same
  <2>6. QED
    BY Zenon, <2>4, <2>5
<1>5. QED
  BY Zenon, <1>1, <1>3, <1>4 DEF Placed

\* dispatch keeps the order: the event is part of a batch, or younger than all that
\* was sent before.
LEMMA DispatchOrdered ==
  ASSUME Inv, NEW ev \in Ev, dispatch(ev), ver' \in Nat, ver <= ver', ev.ver <= ver',
         ev.batch \/ ev.ver > ver
  PROVE  /\ \A w \in Watcher : \A i \in 1..Len(got'[w]) : got'[w][i].ver <= ver'
         /\ AppliedOrder'
<1>1. ver \in Nat /\ ev.ver \in Nat
  BY Zenon DEF Inv, TypeOK, Ev
<1>2. ASSUME NEW w \in Watcher
      PROVE  /\ \A i \in 1..Len(got'[w]) : got'[w][i].ver <= ver'
             /\ \A i, j \in 1..Len(got'[w]) :
                  i < j /\ ~got'[w][j].batch => got'[w][i].ver < got'[w][j].ver
  <2>1. got'[w] = got[w] \/ got'[w] = Append(got[w], ev)
    BY Zenon, Dispatched DEF Inv, Told, Dropped, Skipped, Same
  <2>2. got[w] \in Seq(Ev) /\ \A i \in 1..Len(got[w]) : got[w][i].ver \in Nat
    <3>1. got[w] \in Seq(Ev)
      BY Zenon DEF Inv, TypeOK
    <3>2. \A i \in 1..Len(got[w]) : got[w][i] \in Ev
      BY <3>1
    <3>3. QED
      BY Zenon, <3>1, <3>2 DEF Ev
  <2>3. /\ \A i \in 1..Len(got[w]) : got[w][i].ver <= ver
        /\ \A i, j \in 1..Len(got[w]) :
             i < j /\ ~got[w][j].batch => got[w][i].ver < got[w][j].ver
    BY Zenon DEF Inv, Ages, AppliedOrder
  <2>4. CASE got'[w] = got[w]
    <3>1. \A i \in 1..Len(got[w]) : got[w][i].ver <= ver'
      BY <1>1, <2>2, <2>3
    <3>2. QED
      BY <2>3, <2>4, <3>1, Zenon
  <2>5. CASE got'[w] = Append(got[w], ev)
    <3>1. /\ Len(got'[w]) = Len(got[w]) + 1 /\ got'[w][Len(got[w]) + 1] = ev
          /\ \A i \in 1..Len(got[w]) : got'[w][i] = got[w][i]
      BY <2>2, <2>5
    <3>2. ASSUME NEW i \in 1..Len(got'[w]) PROVE got'[w][i].ver <= ver'
      <4>1. CASE i = Len(got[w]) + 1
        BY Zenon, <3>1, <4>1
      <4>2. CASE i # Len(got[w]) + 1
        <5>1. i \in 1..Len(got[w])
          BY <2>2, <3>1, <4>2
        <5>2. QED
          BY <1>1, <2>2, <2>3, <3>1, <5>1
      <4>3. QED
        BY Zenon, <4>1, <4>2
    <3>3. ASSUME NEW i \in 1..Len(got'[w]), NEW j \in 1..Len(got'[w]), i < j, ~got'[w][j].batch
          PROVE  got'[w][i].ver < got'[w][j].ver
      <4>1. i \in 1..Len(got[w])
        BY <3>1, <3>3, <2>2
      <4>2. CASE j \in 1..Len(got[w])
        BY Zenon, <2>3, <3>1, <3>3, <4>1, <4>2
      <4>3. CASE j = Len(got[w]) + 1
        <5>1. got'[w][j] = ev /\ got'[w][i] = got[w][i]
          BY Zenon, <3>1, <4>1, <4>3
        <5>2. got[w][i].ver <= ver /\ got[w][i].ver \in Nat
          BY Zenon, <2>2, <2>3, <4>1
        <5>3. ev.ver > ver
          BY Zenon, <3>3, <5>1
        <5>4. QED
          BY <1>1, <5>1, <5>2, <5>3
      <4>4. QED
        BY <3>1, <3>3, <2>2, <4>2, <4>3
    <3>4. QED
      BY Zenon, <3>2, <3>3
  <2>6. QED
    BY Zenon, <2>1, <2>4, <2>5
<1>3. QED
  BY Zenon, <1>2 DEF AppliedOrder

\* The steps of a writer keep the invariant.
LEMMA InvWriter ==
  ASSUME Inv, NEW c \in Writer, Writing(c) PROVE Placed' /\ Ordered'
<1>1. /\ DOMAIN writer = Writer /\ writer[c] \in [at : {"idle", "entered", "dispatching"}, owes : SUBSET Ev]
      /\ ver \in Nat /\ Placed /\ Ordered
  BY Zenon DEF Inv, TypeOK, Placed, Ordered
<1>2. CASE Enter(c)
  <2>1. \A b \in Writer : writer'[b].owes \subseteq writer[b].owes
    BY Zenon, <1>1, <1>2 DEF Enter
  <2>2. QED
    BY Zenon, <1>1, <1>2, <2>1, PlacedFrame, OrderedFrame DEF Enter, channels, calls, closing
<1>3. CASE applyMessage(c)
  <2>1. PICK k \in Key : dispatch([key |-> k, ver |-> ver + 1, batch |-> FALSE])
    BY Zenon, <1>3 DEF applyMessage
  <2> DEFINE ev == [key |-> k, ver |-> ver + 1, batch |-> FALSE]
  <2>2. ev \in Ev /\ ev.ver = ver + 1 /\ ver' = ver + 1
    BY <1>1, <1>3 DEF Ev, applyMessage
  <2>3. UNCHANGED <<watchersMu, watch, closeCh, closer, remaining>>
    BY Zenon, <1>3 DEF applyMessage, calls, closing
  <2>4. \A b \in Writer : writer'[b].owes \subseteq writer[b].owes
    BY Zenon, <1>1, <1>3 DEF applyMessage, Idle
  <2>5. \A b \in Writer : \A e \in writer'[b].owes : e.batch /\ e.ver <= ver'
    <3>1. ASSUME NEW b \in Writer, NEW e \in writer'[b].owes PROVE e.batch /\ e.ver <= ver'
      <4>1. e \in writer[b].owes /\ e \in Ev
        BY Zenon, <2>4 DEF Inv, TypeOK
      <4>2. QED
        BY <4>1, <2>2, <1>1 DEF Ordered, Ages, Ev
    <3>2. QED
      BY Zenon, <3>1
  <2> HIDE DEF ev
  <2>6. dispatch(ev)
    BY Zenon, <2>1 DEF ev
  <2>7. ver' \in Nat /\ ver <= ver' /\ ev.ver <= ver' /\ ev.ver > ver
    BY <1>1, <2>2
  <2>8. QED
    BY Zenon, <2>2, <2>3, <2>5, <2>6, <2>7, DispatchPlaced, DispatchOrdered DEF Ordered, Ages
<1>4. CASE Batch(c)
  <2>1. PICK K \in SUBSET Key :
          writer' = [writer EXCEPT ![c] = [at |-> "dispatching",
                       owes |-> {[key |-> k, ver |-> ver + 1, batch |-> TRUE] : k \in K}]]
    BY Zenon, <1>4 DEF Batch
  <2>2. ver' = ver + 1 /\ UNCHANGED got
    BY Zenon, <1>4 DEF Batch, channels
  <2>3. ASSUME NEW b \in Writer, NEW e \in writer'[b].owes PROVE e.batch /\ e.ver <= ver'
    <3>1. CASE b = c
      BY <1>1, <2>1, <2>2, <2>3, <3>1
    <3>2. CASE b # c
      <4>1. e \in writer[b].owes /\ e \in Ev
        BY Zenon, <1>1, <2>1, <2>3, <3>2 DEF Inv, TypeOK
      <4>2. QED
        BY <4>1, <2>2, <1>1 DEF Ordered, Ages, Ev
    <3>3. QED
      BY Zenon, <3>1, <3>2
  <2>4. ASSUME NEW w \in Watcher, NEW i \in 1..Len(got[w]) PROVE got[w][i].ver <= ver'
    <3>1. got[w][i] \in Ev
      BY DEF Inv, TypeOK
    <3>2. QED
      BY <3>1, <1>1, <2>2 DEF Ordered, Ages, Ev
  <2>5. Ordered'
    BY Zenon, <1>1, <2>2, <2>3, <2>4 DEF Ordered, Ages, AppliedOrder
  <2>6. QED
    BY Zenon, <1>1, <1>4, <2>5, PlacedFrame DEF Batch, channels, calls, closing
<1>5. CASE DispatchOne(c)
  <2>1. PICK ev \in writer[c].owes :
          /\ dispatch(ev)
          /\ writer' = [writer EXCEPT ![c] =
                          IF writer[c].owes = {ev} THEN Idle
                          ELSE [at |-> "dispatching", owes |-> writer[c].owes \ {ev}]]
    BY Zenon, <1>5 DEF DispatchOne
  <2>2. ev \in Ev /\ ev.batch /\ ev.ver <= ver
    BY Zenon, <1>1 DEF Ordered, Ages
  <2>3. \A b \in Writer : writer'[b].owes \subseteq writer[b].owes
    <3>1. ASSUME NEW b \in Writer PROVE writer'[b].owes \subseteq writer[b].owes
      <4>1. CASE b # c
        BY Zenon, <1>1, <2>1, <4>1
      <4>2. CASE b = c
        BY Zenon, <1>1, <2>1, <4>2 DEF Idle
      <4>3. QED
        BY Zenon, <4>1, <4>2
    <3>2. QED
      BY Zenon, <3>1
  <2>4. UNCHANGED <<ver, watchersMu, watch, closeCh, closer, remaining>>
    BY Zenon, <1>5 DEF DispatchOne, calls, closing
  <2>5. \A b \in Writer : \A e \in writer'[b].owes : e.batch /\ e.ver <= ver'
    BY Zenon, <1>1, <2>3, <2>4 DEF Ordered, Ages
  <2>6. QED
    BY <1>1, <2>1, <2>2, <2>4, <2>5, DispatchPlaced, DispatchOrdered DEF Ordered, Ages
<1>6. QED
  BY Zenon, <1>2, <1>3, <1>4, <1>5 DEF Writing

----------------------------------------------------------------------------
(* Watch and Close.                                                        *)

\* A removed watcher keeps its place: out of the map with both channels closed.
LEMMA RemovePlaced ==
  ASSUME Inv, NEW v \in Watcher, removeWatcher(v), UNCHANGED <<watchersMu, due>>, NEW w \in Watcher,
         watch'[w] = watch[w] \/ (Registered(w) /\ Registered(w)')
  PROVE  Channels(w)' /\ Prefix(w)'
<1>1. Dropped(w) \/ Same(w)
  BY Zenon, Removed DEF Inv
<1>2. got' = got /\ watchers' \subseteq watchers
  BY Zenon DEF removeWatcher, Drop
<1>3. Channels(w) /\ Prefix(w)
  BY Zenon DEF Inv
<1>4. Registered(w)' <=> Registered(w)
  BY Zenon DEF Registered
<1>5. watch'[w] \in {"none", "checked", "refused"} => watch'[w] = watch[w]
  BY Zenon DEF Registered
<1>6. Channels(w)'
  <2>1. CASE Dropped(w)
    BY <1>3, <1>4, <1>5, <2>1 DEF Channels, Dropped, Registered
  <2>2. CASE Same(w)
    BY Zenon, <1>3, <1>4, <1>5, <2>2 DEF Channels, Same
  <2>3. QED
    BY Zenon, <1>1, <2>1, <2>2
<1>7. Prefix(w)'
  BY Zenon, <1>2, <1>3, <1>4 DEF Prefix
<1>8. QED
  BY Zenon, <1>6, <1>7

\* The steps of a Watch call and of its goroutine keep the places.
LEMMA PlacedWatcher ==
  ASSUME Inv, NEW v \in Watcher,
         WatchCheck(v) \/ WatchRefused(v) \/ Watching(v) \/ Cancel(v) \/ Consume(v)
  PROVE  Placed'
<1> USE NoOneAssumption
<1>1. /\ DOMAIN watch = Watcher /\ DOMAIN chClosed = Watcher /\ watchersMu \in Watcher \cup {NoOne}
      /\ Placed
  BY Zenon DEF Inv, TypeOK, Placed
<1>2. CASE WatchCheck(v)
  <2>1. Mutex' /\ Swept'
    BY Zenon, <1>1, <1>2 DEF WatchCheck, Placed, Mutex, Swept, channels, closing
  <2>2. ASSUME NEW w \in Watcher PROVE Channels(w)' /\ Prefix(w)'
    BY Zenon, <1>1, <1>2, <2>2 DEF WatchCheck, Placed, Channels, Prefix, Registered, channels
  <2>3. QED
    BY Zenon, <2>1, <2>2 DEF Placed
<1>3. CASE WatchRefused(v)
  <2>1. Mutex' /\ Swept'
    BY Zenon, <1>1, <1>3 DEF WatchRefused, Placed, Mutex, Swept, closing
  <2>2. ASSUME NEW w \in Watcher PROVE Channels(w)' /\ Prefix(w)'
    BY <1>1, <1>3, <2>2 DEF WatchRefused, Placed, Channels, Prefix, Registered
  <2>3. QED
    BY Zenon, <2>1, <2>2 DEF Placed
<1>4. CASE WatchInsert(v)
  <2>1. Mutex' /\ Swept'
    BY Zenon, <1>1, <1>4 DEF WatchInsert, Placed, Mutex, Swept, closing
  <2>2. ASSUME NEW w \in Watcher PROVE Channels(w)' /\ Prefix(w)'
    BY Zenon, <1>1, <1>4, <2>2 DEF WatchInsert, Placed, Channels, Prefix, Registered
  <2>3. QED
    BY Zenon, <2>1, <2>2 DEF Placed
<1>5. CASE WatchGo(v) \/ Wake(v)
  <2>1. Mutex' /\ Swept'
    BY Zenon, <1>1, <1>5 DEF WatchGo, Wake, Placed, Mutex, Swept, channels, closing
  <2>2. ASSUME NEW w \in Watcher PROVE Channels(w)' /\ Prefix(w)'
    BY <1>1, <1>5, <2>2 DEF WatchGo, Wake, Placed, Channels, Prefix, Registered, channels
  <2>3. QED
    BY Zenon, <2>1, <2>2 DEF Placed
<1>6. CASE Cleanup(v)
  <2>1. watchers' \subseteq watchers
    BY Zenon, <1>6 DEF Cleanup, removeWatcher, Drop
  <2>2. Mutex' /\ Swept'
    BY Zenon, <1>1, <1>6, <2>1 DEF Cleanup, Placed, Mutex, Swept, closing
  <2>3. ASSUME NEW w \in Watcher PROVE Channels(w)' /\ Prefix(w)'
    <3>1. watch'[w] = watch[w] \/ (Registered(w) /\ Registered(w)')
      BY Zenon, <1>1, <1>6 DEF Cleanup, Registered
    <3>2. QED
      BY Zenon, <1>6, <3>1, RemovePlaced DEF Cleanup
  <2>4. QED
    BY Zenon, <2>2, <2>3 DEF Placed
<1>7. CASE Cancel(v) \/ Consume(v)
  BY Zenon, <1>1, <1>7, PlacedFrame DEF Cancel, Consume, calls, closing
<1>8. QED
  BY Zenon, <1>2, <1>3, <1>4, <1>5, <1>6, <1>7 DEF Watching

\* The steps of CloseWithContext keep the places; the sweep starts when no Watch
\* call holds watchersMu.
LEMMA PlacedClose ==
  ASSUME Inv, Close \/ LoopsExit \/ CloseTimeout \/ Closing PROVE Placed'
<1>1. Placed /\ remaining \subseteq Watcher
  BY Zenon DEF Inv, TypeOK, Placed
<1>2. ASSUME UNCHANGED <<channels, watchersMu, watch, due>>, Swept' PROVE Placed'
  BY Zenon, <1>1, <1>2 DEF Placed, Mutex, Channels, Prefix, Registered, channels
<1>3. CASE Close \/ LoopsExit \/ CloseTimeout \/ WaitEnds
  <2>1. Swept'
    BY Zenon, <1>1, <1>3
       DEF Close, LoopsExit, CloseTimeout, WaitEnds, Placed, Swept, channels, calls
  <2>2. QED
    BY Zenon, <1>2, <1>3, <2>1 DEF Close, LoopsExit, CloseTimeout, WaitEnds, calls
<1>4. CASE SweepStart
  <2>1. Swept'
    BY Zenon, <1>1, <1>4, NoOneAssumption DEF SweepStart, Placed, Mutex, Swept, channels, calls
  <2>2. QED
    BY Zenon, <1>2, <1>4, <2>1 DEF SweepStart, calls
<1>5. CASE CloseReturn
  <2>1. Swept'
    BY Zenon, <1>1, <1>5 DEF CloseReturn, Placed, Swept, channels, calls
  <2>2. QED
    BY Zenon, <1>2, <1>5, <2>1 DEF CloseReturn, calls
<1>6. CASE Sweep
  <2>1. PICK v \in remaining : removeWatcher(v) /\ remaining' = remaining \ {v}
    BY Zenon, <1>6 DEF Sweep
  <2>2. v \in Watcher /\ watchers' = watchers \ {v}
    BY Zenon, <1>1, <2>1 DEF removeWatcher, Drop
  <2>3. UNCHANGED <<watchersMu, watch, due, closeCh, closer>>
    BY Zenon, <1>6 DEF Sweep, calls
  <2>4. Mutex' /\ Swept'
    BY <1>1, <1>6, <2>1, <2>2, <2>3 DEF Sweep, Placed, Mutex, Swept
  <2>5. ASSUME NEW w \in Watcher PROVE Channels(w)' /\ Prefix(w)'
    BY Zenon, <2>1, <2>2, <2>3, RemovePlaced
  <2>6. QED
    BY Zenon, <2>4, <2>5 DEF Placed
<1>7. QED
  BY Zenon, <1>3, <1>4, <1>5, <1>6 DEF Closing

\* Neither sends an event.
LEMMA OrderedOthers ==
  ASSUME Inv,
         \/ \E w \in Watcher :
              WatchCheck(w) \/ WatchRefused(w) \/ Watching(w) \/ Cancel(w) \/ Consume(w)
         \/ Close \/ LoopsExit \/ CloseTimeout \/ Closing
  PROVE  Ordered'
<1>1. UNCHANGED <<ver, got, writer>>
  BY Zenon
     DEF WatchCheck, WatchRefused, Watching, WatchInsert, WatchGo, Wake, Cleanup, removeWatcher,
         Cancel, Consume, Close, LoopsExit, CloseTimeout, Closing, WaitEnds, SweepStart, Sweep,
         CloseReturn, channels
<1>2. QED
  BY Zenon, <1>1, OrderedFrame DEF Inv, Ordered

----------------------------------------------------------------------------
(* The invariant and what it says.                                         *)

\* Inv holds in every reachable state.
THEOREM InvHolds == Spec => []Inv
<1>1. Init => Placed /\ Ordered
  <2> SUFFICES ASSUME Init PROVE Placed /\ Ordered
    BY Zenon
  <2>1. Mutex /\ Swept
    BY Zenon, NoOneAssumption DEF Init, Mutex, Swept
  <2>2. ASSUME NEW w \in Watcher PROVE Channels(w) /\ Prefix(w)
    BY <2>2 DEF Init, Channels, Prefix, Registered
  <2>3. Ordered
    BY DEF Init, Ordered, Ages, AppliedOrder, Idle
  <2>4. QED
    BY Zenon, <2>1, <2>2, <2>3 DEF Placed
<1>2. Inv /\ [Next]_vars => Placed' /\ Ordered'
  <2> SUFFICES ASSUME Inv, [Next]_vars PROVE Placed' /\ Ordered'
    BY Zenon
  <2>1. Placed /\ Ordered
    BY Zenon DEF Inv, Placed, Ordered
  <2>2. CASE UNCHANGED vars
    BY Zenon, <2>1, <2>2, PlacedFrame, OrderedFrame DEF vars, channels
  <2>3. QED
    BY Zenon, <2>2, InvWriter, PlacedWatcher, PlacedClose, OrderedOthers DEF Next
<1>3. Inv <=> TypeOK /\ Placed /\ Ordered
  BY Zenon DEF Inv, Placed, Ordered
<1>4. QED
  BY <1>1, <1>2, <1>3, TypeCorrect, PTL DEF Spec

\* A watcher in the map has both channels open, and one that left it had each
\* closed exactly once, whichever of dispatch, the cleanup goroutine and the sweep
\* of CloseWithContext came first: neither a send on a closed channel nor a second
\* close can panic.
THEOREM ChannelsAreDisciplined == Spec => []ChannelDiscipline
<1>1. Inv => ChannelDiscipline
  BY Zenon DEF Inv, Channels, ChannelDiscipline
<1>2. QED
  BY <1>1, InvHolds, PTL

\* When Close has returned, after wg.Wait or on its timeout, the map of watchers
\* is empty and no Watch call is about to register one.
THEOREM CloseLeavesNoWatcher == Spec => []ClosedAfterClose
<1>1. Inv => ClosedAfterClose
  BY Zenon DEF Inv, Swept, ClosedAfterClose
<1>2. QED
  BY <1>1, InvHolds, PTL

\* What a Watch channel carries is a prefix of what its filter let through since
\* it was registered, and all of it while the watcher is in the map: dispatch drops
\* a slow watcher and never an event.
THEOREM NoEventIsSkipped == Spec => []NoSilentGap
<1>1. Inv => NoSilentGap
  BY Zenon DEF Inv, Prefix, NoSilentGap
<1>2. QED
  BY <1>1, InvHolds, PTL

\* An event that applyMessage dispatches under s.mu comes after every older one on
\* every channel, although batches dispatch outside s.mu.
THEOREM AppliedInOrder == Spec => []AppliedOrder
<1>1. Inv => AppliedOrder
  BY Zenon DEF Inv
<1>2. QED
  BY <1>1, InvHolds, PTL
=============================================================================
