---------------------------- MODULE Replication ----------------------------
(***************************************************************************)
(* The Stores of one topic, their callers, and the transport between them. *)
(*                                                                         *)
(* A local write runs in three steps, as in the code: the stamp is taken,  *)
(* the entry is applied under s.mu, the message is published and the       *)
(* snapshotter is woken.  Callers, the receive loop, the snapshot loop,    *)
(* Refresh, crashes and other pods interleave between them.  The transport *)
(* is what transport.go asks of an implementation, plus the ways in which  *)
(* real ones fall short of it (Env).                                       *)
(***************************************************************************)
EXTENDS LWW, Functions

CONSTANTS MaxTime,       \* bound on every clock
          MaxSeq,        \* bound on the writes of one process of each pod
          MaxLate,       \* callers past isClosed when Close is called
          TTL,           \* WithTombstoneTTL
          Client,        \* the calls that the application makes
          Env            \* what the transport and the platform may do

ASSUME BoundAssumption ==
  /\ MaxTime \in Nat /\ MaxLate \in Nat /\ TTL \in Nat \ {0}
  /\ MaxSeq \in [Node -> Nat]
ASSUME ClientAssumption ==
  Client \subseteq {"set", "delete", "many", "seed", "refresh", "close"}
ASSUME EnvAssumption ==
  Env \subseteq {"drop", "dup", "echo", "publishFails", "snapshotFails",
                 "drift", "crash", "mesh"}

VARIABLES
  now,      \* wall clock of each pod
  born,     \* wall clock when the pod's process started
  seq,      \* Store.seq
  life,     \* where the pod is between New and Close
  late,     \* callers that passed isClosed before Close and wrote nothing yet
  data,     \* Store.data
  calls,    \* Set, Delete, SetMany, DeleteMany calls that have not returned
  inbox,    \* messages on the way to the pod or in its subscription channel
  stored,   \* the snapshot of the topic that each pod's transport keeps
  dirty,    \* dirtyCh holds a token
  loop,     \* where snapshotLoop is
  buf,      \* the snapshot that persistSnapshot is handing to the transport
  fetched,  \* the snapshot that Refresh fetched and has not merged
  high,     \* history: the newest entry that each pod has held since New
  issued,   \* history: every write that was applied by its author
  lost      \* history: the writes that no message will bring to a pod

program == <<now, born, seq, life, late, data, calls, inbox, stored, dirty,
             loop, buf, fetched>>
vars == <<program, high, issued, lost>>

Call == [applied : BOOLEAN, msgs : SUBSET Msg]

TypeOK ==
  /\ now \in [Node -> Nat]
  /\ born \in [Node -> Nat]
  /\ seq \in [Node -> Nat]
  /\ life \in [Node -> {"down", "joining", "up", "closing", "closed"}]
  /\ late \in [Node -> Nat]
  /\ data \in [Node -> Map]
  /\ calls \in [Node -> SUBSET Call]
  /\ inbox \in [Node -> SUBSET Msg]
  /\ stored \in [Node -> Map]
  /\ dirty \in [Node -> BOOLEAN]
  /\ loop \in [Node -> {"idle", "debounce", "storing", "flushing"}]
  /\ buf \in [Node -> Map]
  /\ fetched \in [Node -> Map]
  /\ high \in [Node -> Map]
  /\ issued \in SUBSET Msg
  /\ lost \in [Node -> SUBSET Msg]

Init ==
  /\ now = [n \in Node |-> 0]
  /\ born = [n \in Node |-> 0]
  /\ seq = [n \in Node |-> 0]
  /\ life = [n \in Node |-> "down"]
  /\ late = [n \in Node |-> 0]
  /\ data = [n \in Node |-> EmptyMap]
  /\ calls = [n \in Node |-> {}]
  /\ inbox = [n \in Node |-> {}]
  /\ stored = [n \in Node |-> EmptyMap]
  /\ dirty = [n \in Node |-> FALSE]
  /\ loop = [n \in Node |-> "idle"]
  /\ buf = [n \in Node |-> EmptyMap]
  /\ fetched = [n \in Node |-> EmptyMap]
  /\ high = [n \in Node |-> EmptyMap]
  /\ issued = {}
  /\ lost = [n \in Node |-> {}]

----------------------------------------------------------------------------
(* Writes of the application.                                              *)

\* Mutant: New fetches the snapshot before it subscribes.
Subscribed_Late == {o \in Node : life[o] \in {"up", "closing"}}

Subscribed == {o \in Node : life[o] \in {"joining", "up", "closing"}}

\* Mutant: the test of isClosed is missing.
MayWrite_NoTest(n) ==
  /\ life[n] \in {"up", "closing", "closed"}
  /\ late' = IF life[n] = "up" THEN late ELSE [late EXCEPT ![n] = @ - 1]

\* isClosed lets the caller through: the Store is open, or the caller made
\* the test before Close and goes on now.
MayWrite(n) ==
  /\ \/ life[n] = "up"
     \/ life[n] \in {"closing", "closed"} /\ late[n] > 0
  /\ late' = IF life[n] = "up" THEN late ELSE [late EXCEPT ![n] = @ - 1]

\* Mutant: time is counted from the start of the process.
ReadClock_Relative(n) == 0..(now[n] - born[n])

\* The clock is read before the sequence number is drawn and, in a batch,
\* before s.mu is taken, so the timestamp may be older than the clock.
ReadClock(n) == born[n]..now[n]

LoseToOthers(n, M) == [o \in Node |-> IF o = n THEN lost[o] ELSE lost[o] \cup M]

Stamped(n, ts, s, tomb, v) ==
  [ts |-> ts, origin |-> n, seq |-> s, tomb |-> tomb, value |-> v]

\* Set and Delete up to applyMessage: the call owns its stamp.
Begin(n, k, tomb, v) ==
  /\ MayWrite(n)
  /\ seq[n] < MaxSeq[n]
  /\ \E ts \in ReadClock(n) :
       LET m == [key |-> k, entry |-> Stamped(n, ts, seq[n] + 1, tomb, v)]
       IN  calls' = [calls EXCEPT ![n] =
                       @ \cup {[applied |-> FALSE, msgs |-> {m}]}]
  /\ seq' = [seq EXCEPT ![n] = @ + 1]
  /\ UNCHANGED <<now, born, life, data, inbox, stored, dirty, loop, buf,
                 fetched, high, issued, lost>>

\* A value that codec.Marshal refuses is an error before the stamp is taken.
Set(n, k, v) == "set" \in Client /\ v \notin Bad /\ Begin(n, k, FALSE, v)

Delete(n, k) == "delete" \in Client /\ Begin(n, k, TRUE, Zero)

\* The entry e becomes data[n][k].
Put(n, k, e) ==
  /\ data' = [data EXCEPT ![n][k] = e]
  /\ high' = [high EXCEPT ![n][k] = Adopt(@, e)]

\* Mutant: a write of this pod wins without the LWW test.
ApplyLocal_Blind(n, c) ==
  /\ ~c.applied
  /\ \E m \in c.msgs :
       /\ Put(n, m.key, Merged(data[n][m.key], m.entry))
       /\ issued' = issued \cup {m}
       /\ calls' = [calls EXCEPT ![n] = (@ \ {c}) \cup {[c EXCEPT !.applied = TRUE]}]
  /\ UNCHANGED <<now, born, seq, life, late, inbox, stored, dirty, loop, buf,
                 fetched, lost>>

\* applyMessage in Set and Delete; a rejected write returns at once.
ApplyLocal(n, c) ==
  /\ ~c.applied
  /\ \E m \in c.msgs :
       LET cur == data[n][m.key] IN
       IF lwwAccept(cur, m.entry)
       THEN /\ Put(n, m.key, Merged(cur, m.entry))
            /\ issued' = issued \cup {m}
            /\ calls' = [calls EXCEPT ![n] =
                           (@ \ {c}) \cup {[c EXCEPT !.applied = TRUE]}]
       ELSE /\ calls' = [calls EXCEPT ![n] = @ \ {c}]
            /\ UNCHANGED <<data, high, issued>>
  /\ UNCHANGED <<now, born, seq, life, late, inbox, stored, dirty, loop, buf,
                 fetched, lost>>

\* The section of a batch that holds s.mu.  new[k] is the entry of key k, for
\* the keys reached; those that lwwAccept lets in are stored.
Won(n, new) == {k \in DOMAIN new : lwwAccept(data[n][k], new[k])}

PutAll(n, new) ==
  LET val(k) == Merged(data[n][k], new[k]) IN
  /\ data' = [data EXCEPT ![n] =
                [k \in Key |-> IF k \in Won(n, new) THEN val(k) ELSE @[k]]]
  /\ high' = [high EXCEPT ![n] =
                [k \in Key |-> IF k \in Won(n, new) THEN Adopt(@[k], val(k)) ELSE @[k]]]

\* Entries for the keys K: one timestamp, the sequence numbers up to s in the
\* order in which the keys are ranged over.
Batches(n, K, s, tomb, vals) ==
  {[k \in K |-> Stamped(n, ts, f[k], tomb, vals[k])] :
     f \in Bijection(K, (seq[n] + 1)..s), ts \in ReadClock(n)}

MsgsOf(new, K) == {[key |-> k, entry |-> new[k]] : k \in K}

\* SetMany and DeleteMany up to the Unlock.
Many(n, K, tomb, vals) ==
  /\ "many" \in Client
  /\ MayWrite(n)
  /\ \A k \in K : vals[k] \notin Bad
  /\ \E s \in seq[n]..MaxSeq[n] : \E new \in Batches(n, K, s, tomb, vals) :
       LET msgs == MsgsOf(new, Won(n, new)) IN
       /\ seq' = [seq EXCEPT ![n] = s]
       /\ PutAll(n, new)
       /\ issued' = issued \cup msgs
       /\ calls' = [calls EXCEPT ![n] = @ \cup {[applied |-> TRUE, msgs |-> msgs]}]
  /\ UNCHANGED <<now, born, life, inbox, stored, dirty, loop, buf, fetched, lost>>

SetMany(n, K, vals) == Many(n, K, FALSE, vals)

DeleteMany(n, K) == Many(n, K, TRUE, [k \in K |-> Zero])

\* SetMany when Marshal refuses a value: the keys ranged over before it are
\* already stored, and the call returns without publishing them.
ManyFails(n, K, vals) ==
  /\ "many" \in Client
  /\ MayWrite(n)
  /\ \E k \in K : vals[k] \in Bad
  /\ \E done \in SUBSET {k \in K : vals[k] \notin Bad} : \E s \in seq[n]..MaxSeq[n] :
     \E new \in Batches(n, done, s, FALSE, vals) :
       LET msgs == MsgsOf(new, Won(n, new)) IN
       /\ seq' = [seq EXCEPT ![n] = s]
       /\ PutAll(n, new)
       /\ issued' = issued \cup msgs
       /\ lost' = LoseToOthers(n, msgs)
  /\ UNCHANGED <<now, born, life, calls, inbox, stored, dirty, loop, buf, fetched>>

\* Seed on an empty map: nothing is encoded or published.
Seed(n, K, vals) ==
  /\ "seed" \in Client
  /\ MayWrite(n)
  /\ data[n] = EmptyMap
  /\ \E s \in seq[n]..MaxSeq[n] : \E new \in Batches(n, K, s, FALSE, vals) :
       /\ seq' = [seq EXCEPT ![n] = s]
       /\ data' = [data EXCEPT ![n] =
                     [k \in Key |-> IF k \in K THEN new[k] ELSE NoEntry]]
       /\ high' = [high EXCEPT ![n] =
                     [k \in Key |-> IF k \in K THEN Adopt(@[k], new[k]) ELSE @[k]]]
       /\ issued' = issued \cup MsgsOf(new, K)
       /\ lost' = LoseToOthers(n, MsgsOf(new, K))
  /\ dirty' = [dirty EXCEPT ![n] = TRUE]
  /\ UNCHANGED <<now, born, life, calls, inbox, stored, loop, buf, fetched>>

\* transport.Publish of the next message of the call, in sequence order.
Receivers(n) == IF "echo" \in Env THEN Subscribed ELSE Subscribed \ {n}

Sent(n, m) == [o \in Node |-> IF o \in Receivers(n) THEN inbox[o] \cup {m} ELSE inbox[o]]

IsNext(m, c) == m \in c.msgs /\ \A o \in c.msgs : m.entry.seq <= o.entry.seq

Publish(n, c) ==
  /\ c.applied
  /\ \E m \in c.msgs :
       /\ IsNext(m, c)
       /\ inbox' = Sent(n, m)
       /\ calls' = [calls EXCEPT ![n] =
                      (@ \ {c}) \cup {[c EXCEPT !.msgs = @ \ {m}]}]
  /\ UNCHANGED <<now, born, seq, life, late, data, stored, dirty, loop, buf,
                 fetched, high, issued, lost>>

\* Publish returns an error, before or after the message went out; the call
\* returns ErrBroadcast, its other messages are not sent, markDirty is skipped.
PublishFails(n, c) ==
  /\ "publishFails" \in Env
  /\ c.applied
  /\ \E m \in c.msgs :
       /\ IsNext(m, c)
       /\ \/ inbox' = Sent(n, m) /\ lost' = LoseToOthers(n, c.msgs \ {m})
          \/ inbox' = inbox /\ lost' = LoseToOthers(n, c.msgs)
  /\ calls' = [calls EXCEPT ![n] = @ \ {c}]
  /\ UNCHANGED <<now, born, seq, life, late, data, stored, dirty, loop, buf,
                 fetched, high, issued>>

\* All messages are out: markDirty, and the call returns nil.
Return(n, c) ==
  /\ c.applied /\ c.msgs = {}
  /\ dirty' = [dirty EXCEPT ![n] = TRUE]
  /\ calls' = [calls EXCEPT ![n] = @ \ {c}]
  /\ UNCHANGED <<now, born, seq, life, late, data, inbox, stored, loop, buf,
                 fetched, high, issued, lost>>

----------------------------------------------------------------------------
(* Messages, snapshots and collection.                                     *)

\* Mutant: the kind of the message is ignored.
Deliver_Live(n, m) ==
  /\ life[n] \in {"up", "closing"}
  /\ inbox' = [inbox EXCEPT ![n] = @ \ {m}]
  /\ LET cur == data[n][m.key] IN
     IF m.entry.origin # n /\ lwwAccept(cur, m.entry)
     THEN Put(n, m.key, [Merged(cur, m.entry) EXCEPT !.tomb = FALSE])
     ELSE UNCHANGED <<data, high>>
  /\ UNCHANGED <<now, born, seq, life, late, calls, stored, dirty, loop, buf,
                 fetched, issued, lost>>

\* handleRaw on a message of the subscription.  The same message may come
\* again: two pods that dial each other hold two connections.  recvLoop may
\* still pick a message when closeCh is closed too.
Deliver(n, m) ==
  /\ life[n] \in {"up", "closing"}
  /\ \/ inbox' = [inbox EXCEPT ![n] = @ \ {m}]
     \/ "dup" \in Env /\ inbox' = inbox
  /\ LET cur == data[n][m.key] IN
     IF m.entry.origin # n /\ lwwAccept(cur, m.entry)
     THEN Put(n, m.key, Merged(cur, m.entry))
     ELSE UNCHANGED <<data, high>>
  /\ UNCHANGED <<now, born, seq, life, late, calls, stored, dirty, loop, buf,
                 fetched, issued, lost>>

\* The message is lost on the wire or in a full buffer, or handleRaw cannot
\* decode it or refuses its protocol version.
Drop(n, m) ==
  /\ {"drop", "drift"} \cap Env # {}
  /\ inbox' = [inbox EXCEPT ![n] = @ \ {m}]
  /\ lost' = [lost EXCEPT ![n] = @ \cup {m}]
  /\ UNCHANGED <<now, born, seq, life, late, data, calls, stored, dirty, loop,
                 buf, fetched, high, issued>>

\* MemoryTransport and RedisTransport keep one snapshot of the topic for all
\* pods.  In the mesh every process keeps its own in memory.
Mesh == "mesh" \in Env

\* transport.Snapshot: the snapshots that are kept afterwards.
Kept(n, snap) == IF Mesh THEN [stored EXCEPT ![n] = snap] ELSE [o \in Node |-> snap]

\* What FetchSnapshot may return: in the mesh the snapshot of whichever other
\* pod answers first, or nothing when none answers in time.
Answers(n) ==
  IF Mesh THEN {stored[o] : o \in Node \ {n}} \cup {EmptyMap} ELSE {stored[n]}

\* Refresh: FetchSnapshot, then mergeSnapshot.  An entry that cannot be
\* decoded ends the merge after the keys K.
Fetch(n) ==
  /\ "refresh" \in Client
  /\ life[n] = "up"
  /\ \E snap \in Answers(n) : fetched' = [fetched EXCEPT ![n] = snap]
  /\ UNCHANGED <<now, born, seq, life, late, data, calls, inbox, stored, dirty,
                 loop, buf, high, issued, lost>>

\* Mutant: the snapshot replaces what the pod has.
mergeSnapshot_Blind(n, K) ==
  LET got == {k \in K : fetched[n][k] # NoEntry} IN
  /\ fetched[n] # EmptyMap
  /\ data' = [data EXCEPT ![n] =
                [k \in Key |-> IF k \in got THEN fetched[n][k] ELSE @[k]]]
  /\ high' = [high EXCEPT ![n] =
                [k \in Key |-> IF k \in got THEN Adopt(@[k], fetched[n][k]) ELSE @[k]]]
  /\ fetched' = [fetched EXCEPT ![n] = EmptyMap]
  /\ UNCHANGED <<now, born, seq, life, late, calls, inbox, stored, dirty, loop,
                 buf, issued, lost>>

mergeSnapshot(n, K) ==
  LET new == [k \in {j \in K : fetched[n][j] # NoEntry} |-> fetched[n][k]]
      got == Won(n, new)
  IN
  /\ fetched[n] # EmptyMap
  /\ K = Key \/ "drift" \in Env
  /\ data' = [data EXCEPT ![n] =
                [k \in Key |-> IF k \in got THEN new[k] ELSE @[k]]]
  /\ high' = [high EXCEPT ![n] =
                [k \in Key |-> IF k \in got THEN Adopt(@[k], new[k]) ELSE @[k]]]
  /\ fetched' = [fetched EXCEPT ![n] = EmptyMap]
  /\ UNCHANGED <<now, born, seq, life, late, calls, inbox, stored, dirty, loop,
                 buf, issued, lost>>

Collected(map, K) == [k \in Key |-> IF k \in K THEN NoEntry ELSE map[k]]

Due(n) == {k \in Key : Expired(data[n][k], now[n], TTL)}

\* gcTombstones on the gcInterval tick.
gcTombstones(n) ==
  /\ life[n] \in {"up", "closing"}
  /\ loop[n] = "idle"
  /\ Due(n) # {}
  /\ data' = [data EXCEPT ![n] = Collected(@, Due(n))]
  /\ dirty' = [dirty EXCEPT ![n] = TRUE]
  /\ UNCHANGED <<now, born, seq, life, late, calls, inbox, stored, loop, buf,
                 fetched, high, issued, lost>>

\* snapshotLoop receives from dirtyCh and starts the debounce timer.
Wake(n) ==
  /\ life[n] \in {"up", "closing"}
  /\ loop[n] = "idle" /\ dirty[n]
  /\ dirty' = [dirty EXCEPT ![n] = FALSE]
  /\ loop' = [loop EXCEPT ![n] = "debounce"]
  /\ UNCHANGED <<now, born, seq, life, late, data, calls, inbox, stored, buf,
                 fetched, high, issued, lost>>

Encodable(n) == \A k \in Key : Live(data[n][k]) => data[n][k].value \notin Bad

\* The part of persistSnapshot that holds s.mu, when every value encodes.
Capture(n) ==
  /\ Encodable(n)
  /\ data' = [data EXCEPT ![n] = Collected(@, Due(n))]
  /\ buf' = [buf EXCEPT ![n] = Collected(data[n], Due(n))]

\* ... and when Marshal refuses one: the tombstones met before it are gone.
CaptureFails(n) ==
  /\ ~Encodable(n)
  /\ \E K \in SUBSET Due(n) : data' = [data EXCEPT ![n] = Collected(@, K)]
  /\ buf' = buf

\* The timer fires: dirtyCh is drained, the state captured.
Debounced(n) ==
  /\ life[n] \in {"up", "closing"}
  /\ loop[n] = "debounce"
  /\ dirty' = [dirty EXCEPT ![n] = FALSE]
  /\ \/ Capture(n) /\ loop' = [loop EXCEPT ![n] = "storing"]
     \/ CaptureFails(n) /\ loop' = [loop EXCEPT ![n] = "idle"]
  /\ UNCHANGED <<now, born, seq, life, late, calls, inbox, stored, fetched,
                 high, issued, lost>>

\* finalFlush: snapshotLoop saw closeCh.
finalFlush(n) ==
  /\ life[n] = "closing"
  /\ loop[n] \in {"idle", "debounce"}
  /\ dirty' = [dirty EXCEPT ![n] = FALSE]
  /\ \/ /\ Capture(n)
        /\ loop' = [loop EXCEPT ![n] = "flushing"]
        /\ life' = life
     \/ /\ CaptureFails(n)
        /\ loop' = [loop EXCEPT ![n] = "idle"]
        /\ life' = [life EXCEPT ![n] = "closed"]
  /\ UNCHANGED <<now, born, seq, late, calls, inbox, stored, fetched, high,
                 issued, lost>>

\* transport.Snapshot replaces the snapshot it keeps, or fails.  After the final
\* one the loop exits and Close returns.
Store(n) ==
  /\ loop[n] \in {"storing", "flushing"}
  /\ \/ stored' = Kept(n, buf[n])
     \/ "snapshotFails" \in Env /\ stored' = stored
  /\ buf' = [buf EXCEPT ![n] = EmptyMap]
  /\ loop' = [loop EXCEPT ![n] = "idle"]
  /\ life' = IF loop[n] = "flushing" THEN [life EXCEPT ![n] = "closed"] ELSE life
  /\ UNCHANGED <<now, born, seq, late, data, calls, inbox, dirty, fetched, high,
                 issued, lost>>

----------------------------------------------------------------------------
(* Joining, leaving, time.                                                 *)

\* Applied by its author and not published yet.
InFlight(m) == \E n \in Node : \E c \in calls[n] : c.applied /\ m \in c.msgs

\* New up to Subscribe: messages published from now on reach the pod, those
\* published before do not.
Subscribe(n) ==
  /\ life[n] = "down"
  /\ life' = [life EXCEPT ![n] = "joining"]
  /\ lost' = [lost EXCEPT ![n] = {m \in issued : ~InFlight(m)}]
  /\ UNCHANGED <<now, born, seq, late, data, calls, inbox, stored, dirty, loop,
                 buf, fetched, high, issued>>

\* New from FetchSnapshot on: loadSnapshot, and the loops start.
loadSnapshot(n) ==
  /\ life[n] = "joining"
  /\ \E snap \in Answers(n) : /\ data' = [data EXCEPT ![n] = snap]
                              /\ high' = [high EXCEPT ![n] = snap]
  /\ life' = [life EXCEPT ![n] = "up"]
  /\ UNCHANGED <<now, born, seq, late, calls, inbox, stored, dirty, loop, buf,
                 fetched, issued, lost>>

\* The snapshot cannot be decoded, and New returns the error.
loadFails(n) ==
  /\ "drift" \in Env
  /\ life[n] = "joining"
  /\ life' = [life EXCEPT ![n] = "down"]
  /\ inbox' = [inbox EXCEPT ![n] = {}]
  /\ lost' = [lost EXCEPT ![n] = {}]
  /\ UNCHANGED <<now, born, seq, late, data, calls, stored, dirty, loop, buf,
                 fetched, high, issued>>

\* close(closeCh).
Close(n) ==
  /\ "close" \in Client
  /\ life[n] = "up"
  /\ life' = [life EXCEPT ![n] = "closing"]
  /\ \E callers \in 0..MaxLate : late' = [late EXCEPT ![n] = callers]
  /\ UNCHANGED <<now, born, seq, data, calls, inbox, stored, dirty, loop, buf,
                 fetched, high, issued, lost>>

\* The process dies.  The next one has the same NodeID (WithNodeID), a fresh
\* counter, and a clock that has moved on; a mesh starts with no snapshot.
Crash(n) ==
  /\ "crash" \in Env
  /\ life[n] # "down"
  /\ now[n] < MaxTime
  /\ now' = [now EXCEPT ![n] = @ + 1]
  /\ born' = [born EXCEPT ![n] = now[n] + 1]
  /\ seq' = [seq EXCEPT ![n] = 0]
  /\ life' = [life EXCEPT ![n] = "down"]
  /\ late' = [late EXCEPT ![n] = 0]
  /\ data' = [data EXCEPT ![n] = EmptyMap]
  /\ high' = [high EXCEPT ![n] = EmptyMap]
  /\ calls' = [calls EXCEPT ![n] = {}]
  /\ inbox' = [inbox EXCEPT ![n] = {}]
  /\ dirty' = [dirty EXCEPT ![n] = FALSE]
  /\ loop' = [loop EXCEPT ![n] = "idle"]
  /\ buf' = [buf EXCEPT ![n] = EmptyMap]
  /\ fetched' = [fetched EXCEPT ![n] = EmptyMap]
  /\ lost' = [LoseToOthers(n, UNION {c.msgs : c \in {d \in calls[n] : d.applied}})
                EXCEPT ![n] = {}]
  /\ stored' = IF Mesh THEN [stored EXCEPT ![n] = EmptyMap] ELSE stored
  /\ UNCHANGED issued

\* The clocks of the pods are independent; none runs backwards.
Tick(n) ==
  /\ now[n] < MaxTime
  /\ now' = [now EXCEPT ![n] = @ + 1]
  /\ UNCHANGED <<born, seq, life, late, data, calls, inbox, stored, dirty, loop,
                 buf, fetched, high, issued, lost>>

----------------------------------------------------------------------------

\* Steps that run once the application has made its calls.
Progress(n) ==
  \/ \E c \in calls[n] : ApplyLocal(n, c) \/ Publish(n, c) \/ Return(n, c)
  \/ \E m \in inbox[n] : Deliver(n, m)

Snapshotting(n) == Wake(n) \/ Debounced(n) \/ finalFlush(n) \/ Store(n)

Calling(n) ==
  \/ \E k \in Key : Delete(n, k) \/ \E v \in Value : Set(n, k, v)
  \/ \E K \in SUBSET Key \ {{}} :
       \/ DeleteMany(n, K)
       \/ \E vals \in [K -> Value] :
            \/ SetMany(n, K, vals)
            \/ ManyFails(n, K, vals)
            \/ Seed(n, K, vals)
  \/ Fetch(n)
  \/ \E K \in SUBSET Key : mergeSnapshot(n, K)
  \/ Close(n)

Failing(n) ==
  \/ \E c \in calls[n] : PublishFails(n, c)
  \/ \E m \in inbox[n] : Drop(n, m)
  \/ loadFails(n)
  \/ Crash(n)

Next ==
  \E n \in Node :
    \/ Progress(n)
    \/ Snapshotting(n)
    \/ Calling(n)
    \/ Failing(n)
    \/ gcTombstones(n)
    \/ Subscribe(n)
    \/ loadSnapshot(n)
    \/ Tick(n)

Spec == Init /\ [][Next]_vars

\* The goroutines of a Store and its callers are scheduled by the Go runtime
\* and do not wait for each other: each enabled step is taken in the end.
\* Nothing forces an application to call, a pod to join or a fault to happen.
FairSpec ==
  /\ Spec
  /\ \A n \in Node : WF_vars(Progress(n)) /\ WF_vars(Snapshotting(n))

----------------------------------------------------------------------------
(* Properties.                                                             *)

\* A write is identified by its stamp: two writes to a key with the same
\* (Timestamp, Origin, Seq) are the same write, across restarts of a pod.
\* lwwAccept would otherwise let two replicas keep different values forever.
UniqueStamps ==
  \A m1, m2 \in issued :
    /\ m1.key = m2.key
    /\ ~Newer(m1.entry, m2.entry) /\ ~Newer(m2.entry, m1.entry)
    => m1 = m2

\* Tombstones hold for TombstoneTTL (Delete's comment): a replica's entry is
\* the newest one it ever held, unless that was a tombstone that its own clock
\* has seen expire.  No late, repeated or reordered message, no stale snapshot
\* and no batch takes a key back before that.
TombstonesHold ==
  \A n \in Node, k \in Key :
    \/ data[n][k] = high[n][k]
    \/ Expired(high[n][k], now[n], TTL)

\* Every write reaches every open replica, is on its way there, or was given
\* up by something this model counts as a failure (lost).
Accounted ==
  \A n \in Node : life[n] \in {"joining", "up"} =>
    \A m \in issued :
      Covers(high[n][m.key], m.entry) \/ m \in inbox[n] \/ m \in lost[n] \/ InFlight(m)

View(n) == [k \in Key |-> IF Live(data[n][k]) THEN data[n][k] ELSE NoEntry]

CaughtUp(n) == \A m \in lost[n] : Covers(high[n][m.key], m.entry)

\* No entry older than a collected tombstone came back.
NotResurrected(n) == \A k \in Key : data[n][k] \in {high[n][k], NoEntry}

Settled(n) ==
  /\ life[n] = "up" /\ inbox[n] = {}
  /\ CaughtUp(n) /\ NotResurrected(n)

\* Convergence (doc.go): once nothing is in flight, two replicas that missed
\* nothing show the same live keys and values, in whatever order, how often
\* and over whichever path the writes came, whoever collected which tombstones.
Convergence ==
  (\A m \in issued : ~InFlight(m)) =>
    \A a, b \in Node : Settled(a) /\ Settled(b) => View(a) = View(b)

\* The replicas that missed nothing agree in the end, and stay so.
EventuallyConverged ==
  <>[](\A a, b \in Node :
         /\ life[a] = "up" /\ CaughtUp(a) /\ NotResurrected(a)
         /\ life[b] = "up" /\ CaughtUp(b) /\ NotResurrected(b)
         => View(a) = View(b))

Abstract == INSTANCE ReplicatedMap WITH shown <- data

\* A Store without a merger is a ReplicatedMap: whatever is delivered, stored,
\* fetched, collected or restarted, a pod shows writes that were made, its own at
\* once, and no key of it goes back to an older write while it holds a newer one.
ImplementsMap == Abstract!Spec

\* "For replicas to converge, the merger MUST form a join semilattice" and
\* "Good fits: G-Set unions" (WithMerger's comment): with such a merger, once
\* every write has reached every replica, all hold the same value.
MergerConverges ==
  /\ \A m \in issued : ~InFlight(m)
  /\ \A n \in Node : life[n] = "up" /\ inbox[n] = {} /\ lost[n] = {}
  => \A x, y \in Node, k \in Key :
       Live(data[x][k]) /\ Live(data[y][k]) => data[x][k].value = data[y][k].value
=============================================================================
