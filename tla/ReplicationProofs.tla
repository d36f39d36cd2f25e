-------------------------- MODULE ReplicationProofs -------------------------
(***************************************************************************)
(* Replication, proved for every set of pods, keys and values and every    *)
(* bound: the last-writer-wins order, types, deletes that stay deleted,    *)
(* stamps that stay unique, and what every step does to the maps.          *)
(***************************************************************************)
EXTENDS Replication, TLAPS

(* The last-writer-wins order and the operators built on it.               *)

SameStamp(a, b) == a.ts = b.ts /\ a.origin = b.origin /\ a.seq = b.seq

LEMMA StampFields ==
  \A e \in Entry : e.ts \in Nat /\ e.origin \in Nat /\ e.seq \in Nat
  BY Zenon, NodeAssumption DEF Entry

\* lwwAccept's order is a strict weak order whose ties are equal stamps: any
\* two entries are comparable unless their stamps agree in all three fields.
THEOREM NewerIsTotal ==
  \A a, b \in Entry : ~Newer(a, b) /\ ~Newer(b, a) <=> SameStamp(a, b)
  <1> SUFFICES ASSUME NEW a \in Entry, NEW b \in Entry
               PROVE  ~Newer(a, b) /\ ~Newer(b, a) <=> SameStamp(a, b)
    BY Zenon
  <1> QED BY StampFields DEF Newer, SameStamp

LEMMA NewerAsymmetric ==
  \A a, b \in Entry : Newer(a, b) => ~Newer(b, a)
  BY StampFields DEF Newer

\* "No newer than" is transitive, so replicas may compare through any chain of
\* intermediate entries.
THEOREM NotNewerTransitive ==
  \A a, b, c \in Entry : ~Newer(a, b) /\ ~Newer(b, c) => ~Newer(a, c)
  BY StampFields DEF Newer

\* Only the stamp of an entry matters to the order.
LEMMA NewerOfSameStamp ==
  \A a, b, c \in Entry : SameStamp(a, b) =>
    (Newer(a, c) <=> Newer(b, c)) /\ (Newer(c, a) <=> Newer(c, b))
  BY DEF Newer, SameStamp

----------------------------------------------------------------------------

Slot == Entry \cup {NoEntry}

LEMMA EntryIsSlot == \A e \in Entry : e # NoEntry
  BY Zenon, NoEntryAssumption

\* The merger changes the value of a write and nothing else.
LEMMA MergedEntry ==
  ASSUME NEW cur \in Slot, NEW m \in Entry
  PROVE  /\ Merged(cur, m) \in Entry
         /\ SameStamp(Merged(cur, m), m)
         /\ Merged(cur, m).tomb = m.tomb
         /\ ~UseMerger => Merged(cur, m) = m
  <1>1. CASE UseMerger /\ ~m.tomb /\ Live(cur)
    <2>1. cur \in Entry
      BY Zenon, <1>1 DEF Slot, Live
    <2>2. Join(cur.value, m.value) \in Value
      BY Zenon, <2>1, MergerAssumption DEF Entry
    <2>3. Merged(cur, m) = [m EXCEPT !.value = Join(cur.value, m.value)]
      BY Zenon, <1>1 DEF Merged
    <2> QED BY Zenon, <1>1, <2>2, <2>3 DEF Entry, SameStamp
  <1>2. CASE ~(UseMerger /\ ~m.tomb /\ Live(cur))
    BY Zenon, <1>2 DEF Merged, SameStamp
  <1> QED BY Zenon, <1>1, <1>2

\* Adopting an entry covers it, and keeps covered what was covered before.
LEMMA AdoptCovers ==
  ASSUME NEW h \in Slot, NEW e \in Entry
  PROVE  /\ Adopt(h, e) \in Entry
         /\ Covers(Adopt(h, e), e)
         /\ \A m \in Entry : Covers(h, m) => Covers(Adopt(h, e), m)
  <1>1. CASE lwwAccept(h, e)
    <2>1. Adopt(h, e) = e
      BY Zenon, <1>1 DEF Adopt
    <2>2. Covers(e, e)
      BY Zenon, EntryIsSlot, NewerAsymmetric DEF Covers
    <2>3. ASSUME NEW m \in Entry, Covers(h, m) PROVE Covers(e, m)
      <3>1. h \in Entry /\ ~Newer(m, h) /\ Newer(e, h)
        BY Zenon, <1>1, <2>3 DEF Covers, lwwAccept, Slot
      <3>2. ~Newer(h, e)
        BY Zenon, <3>1, NewerAsymmetric
      <3> QED BY Zenon, <3>1, <3>2, NotNewerTransitive, EntryIsSlot DEF Covers
    <2> QED BY Zenon, <2>1, <2>2, <2>3
  <1>2. CASE ~lwwAccept(h, e)
    BY Zenon, <1>2 DEF Adopt, lwwAccept, Covers, Slot
  <1> QED BY Zenon, <1>1, <1>2

\* Adopting an entry also covers every write with its stamp or an older one.
LEMMA AdoptCoversOlder ==
  ASSUME NEW h \in Slot, NEW e \in Entry, NEW m \in Entry, ~Newer(m, e)
  PROVE  Covers(Adopt(h, e), m)
  <1>1. Adopt(h, e) \in Entry /\ ~Newer(e, Adopt(h, e))
    BY Zenon, AdoptCovers DEF Covers
  <1> QED BY Zenon, <1>1, NotNewerTransitive, EntryIsSlot DEF Covers

----------------------------------------------------------------------------
(* Facts about the operators of Replication.                               *)

LEMMA StampedEntry ==
  ASSUME NEW n \in Node, NEW ts \in Nat, NEW s \in Nat, NEW tomb \in BOOLEAN,
         NEW v \in Value
  PROVE  /\ Stamped(n, ts, s, tomb, v) \in Entry
         /\ Stamped(n, ts, s, tomb, v).ts = ts
         /\ Stamped(n, ts, s, tomb, v).origin = n
         /\ Stamped(n, ts, s, tomb, v).seq = s
  BY Zenon DEF Stamped, Entry

LEMMA ClockType ==
  ASSUME TypeOK, NEW n \in Node, NEW ts \in ReadClock(n)
  PROVE  ts \in Nat /\ born[n] <= ts /\ ts <= now[n]
  BY DEF TypeOK, ReadClock

\* Entries of pod n with stamps that it has not used, up to sequence number s.
Fresh(n, J, s, new) ==
  /\ s \in Nat /\ seq[n] <= s /\ new \in [J -> Entry]
  /\ \A k \in J : /\ new[k].origin = n
                  /\ born[n] <= new[k].ts /\ new[k].ts <= now[n]
                  /\ seq[n] < new[k].seq /\ new[k].seq <= s
  /\ \A j, k \in J : new[j].seq = new[k].seq => j = k

\* The entries of a batch: stamped by n at one time of this process, with
\* distinct sequence numbers that n has not used.
LEMMA BatchEntries ==
  ASSUME TypeOK, NEW n \in Node, NEW K \in SUBSET Key, NEW s \in seq[n]..MaxSeq[n],
         NEW tomb \in BOOLEAN, NEW vals, \A k \in K : vals[k] \in Value,
         NEW new \in Batches(n, K, s, tomb, vals)
  PROVE  Fresh(n, K, s, new)
  <1>1. seq[n] \in Nat /\ MaxSeq[n] \in Nat /\ s \in Nat
    BY BoundAssumption DEF TypeOK
  <1>2. PICK f \in Bijection(K, (seq[n] + 1)..s), ts \in ReadClock(n) :
          new = [k \in K |-> Stamped(n, ts, f[k], tomb, vals[k])]
    BY DEF Batches
  <1>3. f \in [K -> (seq[n] + 1)..s] /\ \A j, k \in K : f[j] = f[k] => j = k
    BY Zenon, <1>2 DEF Bijection, Injection, IsInjective
  <1>4. ts \in Nat /\ born[n] <= ts /\ ts <= now[n]
    BY Zenon, ClockType
  <1>5. \A k \in K : f[k] \in Nat /\ seq[n] < f[k] /\ f[k] <= s
    BY <1>1, <1>3
  <1>6. \A k \in K : new[k] = Stamped(n, ts, f[k], tomb, vals[k]) /\ new[k] \in Entry
    BY Zenon, <1>2, <1>4, <1>5, StampedEntry
  <1>7. \A k \in K : new[k].origin = n /\ new[k].ts = ts /\ new[k].seq = f[k]
    BY <1>4, <1>5, <1>6, StampedEntry
  <1>8. seq[n] <= s
    BY <1>1
  <1>9. \A j, k \in K : new[j].seq = new[k].seq => j = k
    BY <1>3, <1>7
  <1>10. new \in [K -> Entry]
    BY Zenon, <1>2, <1>6
  <1> QED BY Zenon, <1>1, <1>4, <1>5, <1>7, <1>8, <1>9, <1>10 DEF Fresh

LEMMA WonKeys ==
  ASSUME NEW n, NEW K, NEW new, DOMAIN new = K
  PROVE  Won(n, new) = {k \in K : lwwAccept(data[n][k], new[k])}
  BY Zenon DEF Won

LEMMA MsgsOfType ==
  ASSUME NEW K \in SUBSET Key, NEW new, \A k \in K : new[k] \in Entry
  PROVE  MsgsOf(new, K) \in SUBSET Msg
  BY DEF MsgsOf, Msg

LEMMA AdoptSlot ==
  \A h \in Slot, e \in Slot : Adopt(h, e) \in Slot
  BY Zenon DEF Adopt

LEMMA MapIsSlots == Map = [Key -> Slot] /\ EmptyMap \in Map
  BY Zenon DEF Map, Slot, EmptyMap

LEMMA Slots ==
  ASSUME TypeOK, NEW n \in Node, NEW k \in Key
  PROVE  /\ data[n][k] \in Slot /\ high[n][k] \in Slot
         /\ buf[n][k] \in Slot /\ fetched[n][k] \in Slot /\ stored[n][k] \in Slot
  BY DEF TypeOK, Map, Slot

\* FetchSnapshot returns a snapshot that some transport keeps, or nothing.
LEMMA AnswersKept ==
  ASSUME NEW n \in Node, NEW snap \in Answers(n)
  PROVE  snap = EmptyMap \/ \E o \in Node : snap = stored[o]
  BY Zenon DEF Answers

LEMMA AnswersType ==
  ASSUME TypeOK, NEW n \in Node
  PROVE  Answers(n) \subseteq Map
  <1>1. \A o \in Node : stored[o] \in Map
    BY Zenon DEF TypeOK
  <1>2. \A snap \in Answers(n) : snap \in Map
    BY Zenon, <1>1, AnswersKept, MapIsSlots
  <1> QED BY Zenon, <1>2

LEMMA KeptType ==
  ASSUME TypeOK, NEW n \in Node, NEW snap \in Map
  PROVE  Kept(n, snap) \in [Node -> Map]
  <1>1. stored \in [Node -> Map]
    BY Zenon DEF TypeOK
  <1>2. [stored EXCEPT ![n] = snap] \in [Node -> Map]
    BY Zenon, <1>1
  <1>3. [o \in Node |-> snap] \in [Node -> Map]
    BY Zenon
  <1> QED BY Zenon, <1>2, <1>3 DEF Kept

LEMMA PutType ==
  ASSUME TypeOK, NEW n \in Node, NEW k \in Key, NEW e \in Entry, Put(n, k, e)
  PROVE  data' \in [Node -> Map] /\ high' \in [Node -> Map]
  <1>1. Adopt(high[n][k], e) \in Slot
    BY AdoptSlot DEF TypeOK, Map, Slot
  <1> QED BY Zenon, <1>1 DEF Put, TypeOK, Map, Slot

LEMMA PutAllType ==
  ASSUME TypeOK, NEW n \in Node, NEW K \in SUBSET Key, NEW new \in [K -> Entry],
         PutAll(n, new)
  PROVE  data' \in [Node -> Map] /\ high' \in [Node -> Map]
  <1>1. Won(n, new) \subseteq K
    BY Zenon DEF Won
  <1>2. \A k \in Won(n, new) : Merged(data[n][k], new[k]) \in Entry
    BY Zenon, <1>1, MergedEntry, Slots
  <1>3. \A k \in Won(n, new) : Adopt(high[n][k], Merged(data[n][k], new[k])) \in Slot
    BY <1>1, <1>2, AdoptSlot DEF TypeOK, Map, Slot
  <1> DEFINE D == [k \in Key |-> IF k \in Won(n, new)
                                 THEN Merged(data[n][k], new[k]) ELSE data[n][k]]
             H == [k \in Key |-> IF k \in Won(n, new)
                                 THEN Adopt(high[n][k], Merged(data[n][k], new[k]))
                                 ELSE high[n][k]]
  <1>4. D \in Map /\ H \in Map
    BY <1>2, <1>3 DEF TypeOK, Map, Slot
  <1>5. data' = [data EXCEPT ![n] = D] /\ high' = [high EXCEPT ![n] = H]
    BY Zenon DEF PutAll, TypeOK
  <1> QED BY Zenon, <1>4, <1>5 DEF TypeOK

----------------------------------------------------------------------------
(* Type correctness.                                                       *)

LEMMA LateType ==
  ASSUME TypeOK, NEW n \in Node, MayWrite(n)
  PROVE  late' \in [Node -> Nat]
  BY DEF TypeOK, MayWrite

LEMMA LoseType ==
  ASSUME TypeOK, NEW n \in Node, NEW M \in SUBSET Msg
  PROVE  LoseToOthers(n, M) \in [Node -> SUBSET Msg]
  BY Zenon DEF TypeOK, LoseToOthers

LEMMA BeginType ==
  ASSUME TypeOK, NEW n \in Node, NEW k \in Key, NEW tomb \in BOOLEAN,
         NEW v \in Value, Begin(n, k, tomb, v)
  PROVE  TypeOK'
  <1>1. PICK ts \in ReadClock(n) :
          calls' = [calls EXCEPT ![n] = @ \cup
            {[applied |-> FALSE,
              msgs |-> {[key |-> k, entry |-> Stamped(n, ts, seq[n] + 1, tomb, v)]}]}]
    BY Zenon DEF Begin
  <1>2. seq[n] + 1 \in Nat
    BY DEF TypeOK
  <1>3. Stamped(n, ts, seq[n] + 1, tomb, v) \in Entry
    BY Zenon, <1>2, ClockType, StampedEntry
  <1> DEFINE m == [key |-> k, entry |-> Stamped(n, ts, seq[n] + 1, tomb, v)]
             c == [applied |-> FALSE, msgs |-> {m}]
  <1>4. calls' \in [Node -> SUBSET Call]
    <2>1. m \in Msg
      BY Zenon, <1>3 DEF Msg
    <2>2. c \in Call
      BY Zenon, <2>1 DEF Call
    <2>3. calls' = [calls EXCEPT ![n] = @ \cup {c}]
      BY Zenon, <1>1
    <2> HIDE DEF c
    <2> QED BY Zenon, <2>2, <2>3 DEF TypeOK
  <1>5. late' \in [Node -> Nat]
    BY Zenon, LateType DEF Begin
  <1> QED BY Zenon, <1>2, <1>4, <1>5 DEF Begin, TypeOK

LEMMA ApplyLocalType ==
  ASSUME TypeOK, NEW n \in Node, NEW c \in calls[n], ApplyLocal(n, c)
  PROVE  TypeOK'
  <1>1. c \in Call
    BY Zenon DEF TypeOK
  <1>2. PICK m \in c.msgs :
          LET cur == data[n][m.key] IN
          IF lwwAccept(cur, m.entry)
          THEN /\ Put(n, m.key, Merged(cur, m.entry))
               /\ issued' = issued \cup {m}
               /\ calls' = [calls EXCEPT ![n] =
                              (@ \ {c}) \cup {[c EXCEPT !.applied = TRUE]}]
          ELSE /\ calls' = [calls EXCEPT ![n] = @ \ {c}]
               /\ UNCHANGED <<data, high, issued>>
    BY Zenon DEF ApplyLocal
  <1>3. m \in Msg /\ m.key \in Key /\ m.entry \in Entry
    BY Zenon, <1>1 DEF Call, Msg
  <1>4. Merged(data[n][m.key], m.entry) \in Entry
    BY Zenon, <1>3, MergedEntry, Slots
  <1>5. data' \in [Node -> Map] /\ high' \in [Node -> Map]
    BY Zenon, <1>2, <1>3, <1>4, PutType DEF TypeOK
  <1>6. issued' \in SUBSET Msg
    BY <1>2, <1>3 DEF TypeOK
  <1>7. [c EXCEPT !.applied = TRUE] \in Call
    BY Zenon, <1>1 DEF Call
  <1>8. calls' \in [Node -> SUBSET Call]
    <2>1. PICK d \in Call : calls' = [calls EXCEPT ![n] = (@ \ {c}) \cup {d}]
                         \/ calls' = [calls EXCEPT ![n] = @ \ {c}]
      BY Zenon, <1>2, <1>7
    <2> QED BY <2>1 DEF TypeOK
  <1> QED BY Zenon, <1>5, <1>6, <1>8 DEF ApplyLocal, TypeOK

LEMMA ManyType ==
  ASSUME TypeOK, NEW n \in Node, NEW K \in SUBSET Key, NEW tomb \in BOOLEAN,
         NEW vals \in [K -> Value], Many(n, K, tomb, vals)
  PROVE  TypeOK'
  <1>0. PICK s \in seq[n]..MaxSeq[n] : \E new \in Batches(n, K, s, tomb, vals) :
          /\ seq' = [seq EXCEPT ![n] = s]
          /\ PutAll(n, new)
          /\ issued' = issued \cup MsgsOf(new, Won(n, new))
          /\ calls' = [calls EXCEPT ![n] = @ \cup
                         {[applied |-> TRUE, msgs |-> MsgsOf(new, Won(n, new))]}]
    BY Zenon DEF Many
  <1>1. PICK new \in Batches(n, K, s, tomb, vals) :
          /\ seq' = [seq EXCEPT ![n] = s]
          /\ PutAll(n, new)
          /\ issued' = issued \cup MsgsOf(new, Won(n, new))
          /\ calls' = [calls EXCEPT ![n] = @ \cup
                         {[applied |-> TRUE, msgs |-> MsgsOf(new, Won(n, new))]}]
    BY Zenon, <1>0
  <1>2. s \in Nat /\ new \in [K -> Entry]
    BY Zenon, BatchEntries DEF Fresh
  <1>3. MsgsOf(new, Won(n, new)) \in SUBSET Msg
    BY Zenon, <1>2, MsgsOfType DEF Won
  <1>4. data' \in [Node -> Map] /\ high' \in [Node -> Map]
    BY Zenon, <1>1, <1>2, PutAllType
  <1>5. calls' \in [Node -> SUBSET Call]
    <2>1. PICK d \in Call : calls' = [calls EXCEPT ![n] = @ \cup {d}]
      BY Zenon, <1>1, <1>3 DEF Call
    <2> QED BY Zenon, <2>1 DEF TypeOK
  <1>6. late' \in [Node -> Nat]
    BY Zenon, LateType DEF Many
  <1>7. seq' \in [Node -> Nat] /\ issued' \in SUBSET Msg
    BY Zenon, <1>1, <1>2, <1>3 DEF TypeOK
  <1> QED BY Zenon, <1>4, <1>5, <1>6, <1>7 DEF Many, TypeOK

LEMMA ManyFailsType ==
  ASSUME TypeOK, NEW n \in Node, NEW K \in SUBSET Key, NEW vals \in [K -> Value],
         ManyFails(n, K, vals)
  PROVE  TypeOK'
  <1>0. PICK done \in SUBSET {k \in K : vals[k] \notin Bad}, s \in seq[n]..MaxSeq[n] :
        \E new \in Batches(n, done, s, FALSE, vals) :
          /\ seq' = [seq EXCEPT ![n] = s]
          /\ PutAll(n, new)
          /\ issued' = issued \cup MsgsOf(new, Won(n, new))
          /\ lost' = LoseToOthers(n, MsgsOf(new, Won(n, new)))
    BY Zenon DEF ManyFails
  <1>1. PICK new \in Batches(n, done, s, FALSE, vals) :
          /\ seq' = [seq EXCEPT ![n] = s]
          /\ PutAll(n, new)
          /\ issued' = issued \cup MsgsOf(new, Won(n, new))
          /\ lost' = LoseToOthers(n, MsgsOf(new, Won(n, new)))
    BY Zenon, <1>0
  <1>2. done \in SUBSET Key /\ \A k \in done : vals[k] \in Value
    BY Zenon, <1>1
  <1>3. s \in Nat /\ new \in [done -> Entry]
    BY Zenon, <1>2, BatchEntries DEF Fresh
  <1>4. MsgsOf(new, Won(n, new)) \in SUBSET Msg
    BY Zenon, <1>2, <1>3, MsgsOfType DEF Won
  <1>5. data' \in [Node -> Map] /\ high' \in [Node -> Map]
    BY Zenon, <1>1, <1>2, <1>3, PutAllType
  <1>6. late' \in [Node -> Nat]
    BY Zenon, LateType DEF ManyFails
  <1>7. lost' \in [Node -> SUBSET Msg]
    BY Zenon, <1>1, <1>4, LoseType
  <1>8. seq' \in [Node -> Nat] /\ issued' \in SUBSET Msg
    BY Zenon, <1>1, <1>3, <1>4 DEF TypeOK
  <1> QED BY Zenon, <1>5, <1>6, <1>7, <1>8 DEF ManyFails, TypeOK

LEMMA SeedType ==
  ASSUME TypeOK, NEW n \in Node, NEW K \in SUBSET Key, NEW vals \in [K -> Value],
         Seed(n, K, vals)
  PROVE  TypeOK'
  <1>1. PICK s \in seq[n]..MaxSeq[n] : \E new \in Batches(n, K, s, FALSE, vals) :
          /\ seq' = [seq EXCEPT ![n] = s]
          /\ data' = [data EXCEPT ![n] =
                        [k \in Key |-> IF k \in K THEN new[k] ELSE NoEntry]]
          /\ high' = [high EXCEPT ![n] =
                        [k \in Key |-> IF k \in K THEN Adopt(@[k], new[k]) ELSE @[k]]]
          /\ issued' = issued \cup MsgsOf(new, K)
          /\ lost' = LoseToOthers(n, MsgsOf(new, K))
    BY Zenon DEF Seed
  <1>2. PICK new \in Batches(n, K, s, FALSE, vals) :
          /\ seq' = [seq EXCEPT ![n] = s]
          /\ data' = [data EXCEPT ![n] =
                        [k \in Key |-> IF k \in K THEN new[k] ELSE NoEntry]]
          /\ high' = [high EXCEPT ![n] =
                        [k \in Key |-> IF k \in K THEN Adopt(@[k], new[k]) ELSE @[k]]]
          /\ issued' = issued \cup MsgsOf(new, K)
          /\ lost' = LoseToOthers(n, MsgsOf(new, K))
    BY Zenon, <1>1
  <1>3. s \in Nat /\ new \in [K -> Entry]
    BY Zenon, BatchEntries DEF Fresh
  <1>4. MsgsOf(new, K) \in SUBSET Msg
    BY Zenon, <1>3, MsgsOfType
  <1> DEFINE D == [k \in Key |-> IF k \in K THEN new[k] ELSE NoEntry]
             H == [k \in Key |-> IF k \in K THEN Adopt(high[n][k], new[k])
                                            ELSE high[n][k]]
  <1>5. D \in Map
    BY Zenon, <1>3 DEF Map
  <1>6. H \in Map
    <2>1. \A k \in K : Adopt(high[n][k], new[k]) \in Slot
      BY Zenon, <1>3, Slots, AdoptSlot DEF Slot
    <2> QED BY Zenon, <2>1, Slots DEF Map, Slot
  <1>7. data' = [data EXCEPT ![n] = D] /\ high' = [high EXCEPT ![n] = H]
    BY Zenon, <1>2 DEF TypeOK
  <1>8. lost' \in [Node -> SUBSET Msg]
    BY Zenon, <1>2, <1>4, LoseType
  <1>9. late' \in [Node -> Nat]
    BY Zenon, LateType DEF Seed
  <1>10. data' \in [Node -> Map] /\ high' \in [Node -> Map]
    <2> HIDE DEF D, H
    <2> QED BY Zenon, <1>5, <1>6, <1>7 DEF TypeOK
  <1>11. seq' \in [Node -> Nat] /\ issued' \in SUBSET Msg
    BY Zenon, <1>2, <1>3, <1>4 DEF TypeOK
  <1> QED BY Zenon, <1>8, <1>9, <1>10, <1>11 DEF Seed, TypeOK

LEMMA SentType ==
  ASSUME TypeOK, NEW n \in Node, NEW m \in Msg
  PROVE  Sent(n, m) \in [Node -> SUBSET Msg]
  BY Zenon DEF TypeOK, Sent

LEMMA PublishType ==
  ASSUME TypeOK, NEW n \in Node, NEW c \in calls[n],
         Publish(n, c) \/ PublishFails(n, c) \/ Return(n, c)
  PROVE  TypeOK'
  <1>1. c \in Call
    BY Zenon DEF TypeOK
  <1>2. CASE Publish(n, c)
    <2>1. PICK m \in c.msgs : /\ inbox' = Sent(n, m)
                              /\ calls' = [calls EXCEPT ![n] =
                                   (@ \ {c}) \cup {[c EXCEPT !.msgs = @ \ {m}]}]
      BY Zenon, <1>2 DEF Publish
    <2>2. inbox' \in [Node -> SUBSET Msg]
      BY Zenon, <1>1, <2>1, SentType DEF Call
    <2>3. PICK d \in Call : calls' = [calls EXCEPT ![n] = (@ \ {c}) \cup {d}]
      BY Zenon, <1>1, <2>1 DEF Call
    <2>4. calls' \in [Node -> SUBSET Call]
      BY Zenon, <2>3 DEF TypeOK
    <2> QED BY Zenon, <1>2, <2>2, <2>4 DEF Publish, TypeOK
  <1>3. CASE PublishFails(n, c)
    <2>1. PICK m \in c.msgs :
            \/ inbox' = Sent(n, m) /\ lost' = LoseToOthers(n, c.msgs \ {m})
            \/ inbox' = inbox /\ lost' = LoseToOthers(n, c.msgs)
      BY Zenon, <1>3 DEF PublishFails
    <2>2. m \in Msg /\ c.msgs \in SUBSET Msg /\ c.msgs \ {m} \in SUBSET Msg
      BY Zenon, <1>1 DEF Call
    <2>3. inbox' \in [Node -> SUBSET Msg] /\ lost' \in [Node -> SUBSET Msg]
      <3>1. inbox \in [Node -> SUBSET Msg]
        BY Zenon DEF TypeOK
      <3>2. Sent(n, m) \in [Node -> SUBSET Msg]
        BY Zenon, <2>2, SentType
      <3>3. /\ LoseToOthers(n, c.msgs \ {m}) \in [Node -> SUBSET Msg]
            /\ LoseToOthers(n, c.msgs) \in [Node -> SUBSET Msg]
        BY Zenon, <2>2, LoseType
      <3> QED BY <2>1, <3>1, <3>2, <3>3, Zenon
    <2>4. calls' \in [Node -> SUBSET Call]
      BY Zenon, <1>3 DEF PublishFails, TypeOK
    <2> QED BY Zenon, <1>3, <2>3, <2>4 DEF PublishFails, TypeOK
  <1>4. CASE Return(n, c)
    BY Zenon, <1>4 DEF Return, TypeOK
  <1> QED BY Zenon, <1>2, <1>3, <1>4

LEMMA DeliverType ==
  ASSUME TypeOK, NEW n \in Node, NEW m \in inbox[n], Deliver(n, m) \/ Drop(n, m)
  PROVE  TypeOK'
  <1>1. m \in Msg /\ m.key \in Key /\ m.entry \in Entry
    BY DEF TypeOK, Msg
  <1>2. CASE Deliver(n, m)
    <2>1. Merged(data[n][m.key], m.entry) \in Entry
      BY Zenon, <1>1, MergedEntry, Slots
    <2>2. data' \in [Node -> Map] /\ high' \in [Node -> Map]
      BY Zenon, <1>1, <1>2, <2>1, PutType DEF Deliver, TypeOK
    <2>3. inbox' \in [Node -> SUBSET Msg]
      BY <1>2 DEF Deliver, TypeOK
    <2> QED BY Zenon, <1>2, <2>2, <2>3 DEF Deliver, TypeOK
  <1>3. CASE Drop(n, m)
    BY Zenon, <1>1, <1>3 DEF Drop, TypeOK
  <1> QED BY Zenon, <1>2, <1>3

LEMMA MergeSnapshotType ==
  ASSUME TypeOK, NEW n \in Node, NEW K \in SUBSET Key, mergeSnapshot(n, K)
  PROVE  TypeOK'
  <1> DEFINE new == [k \in {j \in K : fetched[n][j] # NoEntry} |-> fetched[n][k]]
             got == Won(n, new)
             D == [k \in Key |-> IF k \in got THEN new[k] ELSE data[n][k]]
             H == [k \in Key |-> IF k \in got THEN Adopt(high[n][k], new[k])
                                              ELSE high[n][k]]
  <1>1. \A k \in got : k \in Key /\ new[k] \in Slot
    BY Zenon, Slots DEF Won
  <1>2. data' = [data EXCEPT ![n] = D] /\ high' = [high EXCEPT ![n] = H]
    BY Zenon DEF mergeSnapshot, TypeOK
  <1> HIDE DEF new, got
  <1>3. D \in Map /\ H \in Map
    BY Zenon, <1>1, Slots, AdoptSlot, MapIsSlots
  <1>4. data' \in [Node -> Map] /\ high' \in [Node -> Map]
    <2> HIDE DEF D, H
    <2> QED BY Zenon, <1>2, <1>3 DEF TypeOK
  <1>5. fetched' \in [Node -> Map]
    BY Zenon, MapIsSlots DEF mergeSnapshot, TypeOK
  <1> QED BY Zenon, <1>4, <1>5 DEF mergeSnapshot, TypeOK

LEMMA CollectedType ==
  ASSUME NEW map \in Map, NEW K
  PROVE  Collected(map, K) \in Map
  BY Zenon DEF Map, Collected

LEMMA CaptureType ==
  ASSUME TypeOK, NEW n \in Node, Capture(n) \/ CaptureFails(n)
  PROVE  data' \in [Node -> Map] /\ buf' \in [Node -> Map]
  <1>1. data[n] \in Map /\ \A K : Collected(data[n], K) \in Map
    BY Zenon, CollectedType DEF TypeOK
  <1> QED BY <1>1 DEF Capture, CaptureFails, TypeOK

LEMMA SnapshottingType ==
  ASSUME TypeOK, NEW n \in Node, Snapshotting(n) \/ gcTombstones(n)
  PROVE  TypeOK'
  <1>1. CASE Wake(n)
    BY Zenon, <1>1 DEF Wake, TypeOK
  <1>2. CASE Debounced(n)
    <2>1. data' \in [Node -> Map] /\ buf' \in [Node -> Map]
      BY Zenon, <1>2, CaptureType DEF Debounced
    <2>2. loop' \in [Node -> {"idle", "debounce", "storing", "flushing"}]
      BY Zenon, <1>2 DEF Debounced, TypeOK
    <2> QED BY Zenon, <1>2, <2>1, <2>2 DEF Debounced, TypeOK
  <1>3. CASE finalFlush(n)
    <2>1. data' \in [Node -> Map] /\ buf' \in [Node -> Map]
      BY Zenon, <1>3, CaptureType DEF finalFlush
    <2>2. /\ loop' \in [Node -> {"idle", "debounce", "storing", "flushing"}]
          /\ life' \in [Node -> {"down", "joining", "up", "closing", "closed"}]
      BY Zenon, <1>3 DEF finalFlush, TypeOK
    <2> QED BY Zenon, <1>3, <2>1, <2>2 DEF finalFlush, TypeOK
  <1>4. CASE Store(n)
    <2>0. buf[n] \in Map
      BY Zenon DEF TypeOK
    <2>1. stored' \in [Node -> Map]
      <3>1. Kept(n, buf[n]) \in [Node -> Map] /\ stored \in [Node -> Map]
        BY Zenon, <2>0, KeptType DEF TypeOK
      <3> QED BY Zenon, <1>4, <3>1 DEF Store
    <2>2. buf' \in [Node -> Map]
      BY Zenon, <1>4, MapIsSlots DEF Store, TypeOK
    <2> QED BY <1>4, <2>1, <2>2 DEF Store, TypeOK
  <1>5. CASE gcTombstones(n)
    <2>1. Collected(data[n], Due(n)) \in Map
      BY Zenon, CollectedType DEF TypeOK
    <2> QED BY Zenon, <1>5, <2>1 DEF gcTombstones, TypeOK
  <1> QED BY Zenon, <1>1, <1>2, <1>3, <1>4, <1>5 DEF Snapshotting

LEMMA LifeType ==
  ASSUME TypeOK, NEW n \in Node,
         \/ Fetch(n) \/ Close(n) \/ Subscribe(n) \/ loadSnapshot(n)
         \/ loadFails(n) \/ Tick(n)
  PROVE  TypeOK'
  <1>1. CASE Fetch(n)
    BY Zenon, <1>1, AnswersType DEF Fetch, TypeOK
  <1>2. CASE Close(n)
    BY <1>2, BoundAssumption DEF Close, TypeOK
  <1>3. CASE Subscribe(n)
    BY Zenon, <1>3 DEF Subscribe, TypeOK
  <1>4. CASE loadSnapshot(n)
    BY Zenon, <1>4, AnswersType DEF loadSnapshot, TypeOK
  <1>5. CASE loadFails(n)
    BY Zenon, <1>5 DEF loadFails, TypeOK
  <1>6. CASE Tick(n)
    BY <1>6 DEF Tick, TypeOK
  <1> QED BY Zenon, <1>1, <1>2, <1>3, <1>4, <1>5, <1>6

LEMMA CrashType ==
  ASSUME TypeOK, NEW n \in Node, Crash(n)
  PROVE  TypeOK'
  <1> DEFINE M == UNION {c.msgs : c \in {d \in calls[n] : d.applied}}
  <1>1. M \in SUBSET Msg
    BY DEF TypeOK, Call
  <1>2. lost' \in [Node -> SUBSET Msg]
    <2>1. lost' = [LoseToOthers(n, M) EXCEPT ![n] = {}]
      BY Zenon DEF Crash
    <2> HIDE DEF M
    <2> QED BY Zenon, <1>1, <2>1, LoseType
  <1>3. /\ data' \in [Node -> Map] /\ high' \in [Node -> Map]
        /\ buf' \in [Node -> Map] /\ fetched' \in [Node -> Map]
        /\ stored' \in [Node -> Map]
    BY Zenon, MapIsSlots DEF Crash, TypeOK
  <1>4. /\ now' \in [Node -> Nat] /\ born' \in [Node -> Nat]
        /\ seq' \in [Node -> Nat] /\ late' \in [Node -> Nat]
    BY DEF Crash, TypeOK
  <1>5. /\ calls' \in [Node -> SUBSET Call] /\ inbox' \in [Node -> SUBSET Msg]
        /\ dirty' \in [Node -> BOOLEAN]
        /\ loop' \in [Node -> {"idle", "debounce", "storing", "flushing"}]
        /\ life' \in [Node -> {"down", "joining", "up", "closing", "closed"}]
    BY Zenon DEF Crash, TypeOK
  <1> QED BY Zenon, <1>2, <1>3, <1>4, <1>5 DEF Crash, TypeOK

\* The steps of a pod, grouped as the proofs below take them.
PodStep(n) ==
  \/ \E k \in Key : Delete(n, k) \/ \E v \in Value : Set(n, k, v)
  \/ \E c \in calls[n] : \/ ApplyLocal(n, c) \/ Publish(n, c)
                         \/ Return(n, c) \/ PublishFails(n, c)
  \/ \E K \in SUBSET Key : \E vals \in [K -> Value] :
       \/ Many(n, K, TRUE, vals) \/ Many(n, K, FALSE, vals)
       \/ ManyFails(n, K, vals) \/ Seed(n, K, vals)
  \/ \E m \in inbox[n] : Deliver(n, m) \/ Drop(n, m)
  \/ \E K \in SUBSET Key : mergeSnapshot(n, K)
  \/ Snapshotting(n) \/ gcTombstones(n)
  \/ Fetch(n) \/ Close(n) \/ Subscribe(n) \/ loadSnapshot(n)
  \/ loadFails(n) \/ Tick(n)
  \/ Crash(n)

LEMMA NextCases ==
  ASSUME Next
  PROVE  \E n \in Node : PodStep(n)
  <1>1. PICK n \in Node : \/ Progress(n) \/ Snapshotting(n) \/ Calling(n)
                          \/ Failing(n) \/ gcTombstones(n) \/ Subscribe(n)
                          \/ loadSnapshot(n) \/ Tick(n)
    BY Zenon DEF Next
  <1>2. CASE Progress(n)
    BY Zenon, <1>2 DEF Progress, PodStep
  <1>3. CASE Calling(n)
    <2>1. ASSUME NEW K \in SUBSET Key, Many(n, K, TRUE, [k \in K |-> Zero])
          PROVE  \E vals \in [K -> Value] : Many(n, K, TRUE, vals)
      <3>1. [k \in K |-> Zero] \in [K -> Value]
        BY Zenon, ValueAssumption
      <3> QED BY Zenon, <2>1, <3>1
    <2> QED BY Zenon, <1>3, <2>1 DEF Calling, SetMany, DeleteMany, PodStep
  <1>4. CASE Failing(n)
    BY Zenon, <1>4 DEF Failing, PodStep
  <1> QED BY Zenon, <1>1, <1>2, <1>3, <1>4 DEF PodStep

LEMMA TypeInit == Init => TypeOK
  BY MapIsSlots DEF Init, TypeOK

LEMMA TypeNext ==
  ASSUME TypeOK, [Next]_vars
  PROVE  TypeOK'
  <1>1. CASE Next
    <2>1. PICK n \in Node : PodStep(n)
      BY Zenon, <1>1, NextCases
    <2>2. ASSUME NEW k \in Key, Delete(n, k) \/ \E v \in Value : Set(n, k, v)
          PROVE  TypeOK'
      BY Zenon, <2>2, BeginType, ValueAssumption DEF Delete, Set
    <2>3. ASSUME NEW c \in calls[n], \/ ApplyLocal(n, c) \/ Publish(n, c)
                                     \/ Return(n, c) \/ PublishFails(n, c)
          PROVE  TypeOK'
      BY Zenon, <2>3, ApplyLocalType, PublishType
    <2>4. ASSUME NEW K \in SUBSET Key, NEW vals \in [K -> Value],
                 \/ Many(n, K, TRUE, vals) \/ Many(n, K, FALSE, vals)
                 \/ ManyFails(n, K, vals) \/ Seed(n, K, vals)
          PROVE  TypeOK'
      BY Zenon, <2>4, ManyType, ManyFailsType, SeedType
    <2> QED BY Zenon, <2>1, <2>2, <2>3, <2>4, DeliverType, MergeSnapshotType,
               SnapshottingType, LifeType, CrashType DEF PodStep
  <1>2. CASE UNCHANGED vars
    BY Zenon, <1>2 DEF vars, program, TypeOK
  <1> QED BY Zenon, <1>1, <1>2

\* Every reachable state of the Stores and the transport is well formed: the
\* maps, messages and snapshots hold entries and nothing else.
THEOREM TypeCorrect == Spec => []TypeOK
  BY TypeInit, TypeNext, PTL DEF Spec

----------------------------------------------------------------------------
(* Tombstones hold for their TTL.                                          *)

LEMMA AcceptMerged ==
  ASSUME NEW x \in Slot, NEW cur \in Slot, NEW m \in Entry
  PROVE  lwwAccept(x, Merged(cur, m)) <=> lwwAccept(x, m)
  BY Zenon, MergedEntry, NewerOfSameStamp DEF lwwAccept, Slot

\* One key of one replica: d is the entry, h the newest one held so far.
Holds(d, h, t) == d = h \/ Expired(h, t, TTL)

LEMMA HoldsAfterPut ==
  ASSUME NEW d, NEW h, NEW t, NEW e, Holds(d, h, t), lwwAccept(d, e)
  PROVE  Holds(e, Adopt(h, e), t)
  BY Zenon DEF Holds, Adopt

LEMMA HoldsAfterCollect ==
  ASSUME NEW d, NEW h, NEW t, Holds(d, h, t), Expired(d, t, TTL)
  PROVE  Holds(NoEntry, h, t)
  BY Zenon DEF Holds

LEMMA HoldsLater ==
  ASSUME NEW d \in Slot, NEW h \in Slot, NEW t \in Nat, Holds(d, h, t)
  PROVE  Holds(d, h, t + 1)
  BY StampFields, BoundAssumption DEF Holds, Expired, Slot

HoldsAll == \A n \in Node, k \in Key : Holds(data[n][k], high[n][k], now[n])

\* Only the step of pod n on its own key k needs an argument.
LEMMA HoldsPut ==
  ASSUME TypeOK, HoldsAll, NEW n \in Node, NEW k \in Key, NEW e \in Entry,
         Put(n, k, e), lwwAccept(data[n][k], e), now' = now
  PROVE  HoldsAll'
  <1>1. Holds(e, Adopt(high[n][k], e), now[n])
    BY Zenon, HoldsAfterPut DEF HoldsAll
  <1>2. \A o \in Node, j \in Key :
          /\ data'[o][j] = IF o = n /\ j = k THEN e ELSE data[o][j]
          /\ high'[o][j] = IF o = n /\ j = k THEN Adopt(high[n][k], e) ELSE high[o][j]
    BY Zenon DEF Put, TypeOK, Map
  <1> QED BY <1>1, <1>2 DEF HoldsAll

\* The same for a step that replaces the whole map of pod n.
LEMMA HoldsMap ==
  ASSUME TypeOK, HoldsAll, NEW n \in Node, NEW D, NEW H,
         data' = [data EXCEPT ![n] = D], high' = [high EXCEPT ![n] = H],
         now' = now, \A k \in Key : Holds(D[k], H[k], now[n])
  PROVE  HoldsAll'
  <1>1. \A o \in Node : /\ data'[o] = IF o = n THEN D ELSE data[o]
                        /\ high'[o] = IF o = n THEN H ELSE high[o]
    BY Zenon DEF TypeOK
  <1> QED BY Zenon, <1>1 DEF HoldsAll

LEMMA HoldsPutAll ==
  ASSUME TypeOK, HoldsAll, NEW n \in Node, NEW K \in SUBSET Key,
         NEW new \in [K -> Entry], PutAll(n, new), now' = now
  PROVE  HoldsAll'
  <1> DEFINE W == Won(n, new)
             val(k) == Merged(data[n][k], new[k])
             D == [k \in Key |-> IF k \in W THEN val(k) ELSE data[n][k]]
             H == [k \in Key |-> IF k \in W THEN Adopt(high[n][k], val(k))
                                            ELSE high[n][k]]
  <1>1. data' = [data EXCEPT ![n] = D] /\ high' = [high EXCEPT ![n] = H]
    BY Zenon DEF PutAll, TypeOK
  <1>2. ASSUME NEW k \in W PROVE Holds(val(k), Adopt(high[n][k], val(k)), now[n])
    <2>1. k \in Key /\ new[k] \in Entry /\ lwwAccept(data[n][k], new[k])
      BY Zenon, <1>2 DEF Won
    <2>2. lwwAccept(data[n][k], val(k))
      BY Zenon, <2>1, AcceptMerged, Slots
    <2> QED BY Zenon, <2>1, <2>2, HoldsAfterPut DEF HoldsAll
  <1>3. \A k \in Key : Holds(D[k], H[k], now[n])
    BY Zenon, <1>2 DEF HoldsAll
  <1> QED
    <2> HIDE DEF D, H
    <2> QED BY Zenon, <1>1, <1>3, HoldsMap

LEMMA HoldsBatch ==
  ASSUME TypeOK, HoldsAll, NEW n \in Node, NEW K \in SUBSET Key,
         NEW vals \in [K -> Value],
         \/ Many(n, K, TRUE, vals) \/ Many(n, K, FALSE, vals)
         \/ ManyFails(n, K, vals) \/ Seed(n, K, vals)
  PROVE  HoldsAll'
  <1>1. ASSUME NEW tomb \in BOOLEAN, Many(n, K, tomb, vals)
        PROVE  HoldsAll'
    <2>1. PICK s \in seq[n]..MaxSeq[n] :
            \E new \in Batches(n, K, s, tomb, vals) : PutAll(n, new)
      BY Zenon, <1>1 DEF Many
    <2>2. PICK new \in Batches(n, K, s, tomb, vals) : PutAll(n, new)
      BY Zenon, <2>1
    <2>3. new \in [K -> Entry]
      BY Zenon, BatchEntries DEF Fresh
    <2> QED BY Zenon, <1>1, <2>2, <2>3, HoldsPutAll DEF Many
  <1>2. CASE ManyFails(n, K, vals)
    <2>1. PICK done \in SUBSET {k \in K : vals[k] \notin Bad}, s \in seq[n]..MaxSeq[n] :
            \E new \in Batches(n, done, s, FALSE, vals) : PutAll(n, new)
      BY Zenon, <1>2 DEF ManyFails
    <2>2. PICK new \in Batches(n, done, s, FALSE, vals) : PutAll(n, new)
      BY Zenon, <2>1
    <2>3. done \in SUBSET Key /\ \A k \in done : vals[k] \in Value
      BY Zenon, <2>1
    <2>4. new \in [done -> Entry]
      BY Zenon, <2>3, BatchEntries DEF Fresh
    <2> QED BY Zenon, <1>2, <2>2, <2>3, <2>4, HoldsPutAll DEF ManyFails
  <1>3. CASE Seed(n, K, vals)
    <2> DEFINE D(new) == [k \in Key |-> IF k \in K THEN new[k] ELSE NoEntry]
               H(new) == [k \in Key |-> IF k \in K THEN Adopt(high[n][k], new[k])
                                                   ELSE high[n][k]]
    <2>1. PICK s, new :
            /\ data' = [data EXCEPT ![n] = D(new)]
            /\ high' = [high EXCEPT ![n] =
                 [k \in Key |-> IF k \in K THEN Adopt(@[k], new[k]) ELSE @[k]]]
      BY Zenon, <1>3 DEF Seed
    <2>2. data' = [data EXCEPT ![n] = D(new)] /\ high' = [high EXCEPT ![n] = H(new)]
      BY Zenon, <2>1 DEF TypeOK
    <2>3. \A k \in Key : data[n][k] = NoEntry
      BY Zenon, <1>3 DEF Seed, EmptyMap
    <2>4. \A k \in Key : Holds(D(new)[k], H(new)[k], now[n])
      <3>1. \A k \in K : Holds(new[k], Adopt(high[n][k], new[k]), now[n])
        BY Zenon, <2>3, HoldsAfterPut DEF HoldsAll, lwwAccept
      <3> QED BY Zenon, <2>3, <3>1 DEF HoldsAll
    <2> HIDE DEF D, H
    <2> QED BY Zenon, <1>3, <2>2, <2>4, HoldsMap DEF Seed
  <1> QED BY Zenon, <1>1, <1>2, <1>3

LEMMA HoldsWrites ==
  ASSUME TypeOK, HoldsAll, NEW n \in Node,
         \/ \E k \in Key : Delete(n, k) \/ \E v \in Value : Set(n, k, v)
         \/ \E c \in calls[n] : \/ ApplyLocal(n, c) \/ Publish(n, c)
                                \/ Return(n, c) \/ PublishFails(n, c)
         \/ \E m \in inbox[n] : Deliver(n, m) \/ Drop(n, m)
  PROVE  HoldsAll'
  <1>1. ASSUME NEW m \in Msg, lwwAccept(data[n][m.key], m.entry), now' = now,
               Put(n, m.key, Merged(data[n][m.key], m.entry))
        PROVE  HoldsAll'
    <2>1. m.key \in Key /\ m.entry \in Entry
      BY Zenon DEF Msg
    <2>2. /\ Merged(data[n][m.key], m.entry) \in Entry
          /\ lwwAccept(data[n][m.key], Merged(data[n][m.key], m.entry))
      BY Zenon, <1>1, <2>1, MergedEntry, AcceptMerged, Slots
    <2> QED BY Zenon, <1>1, <2>1, <2>2, HoldsPut
  <1>2. CASE UNCHANGED <<data, high, now>>
    BY Zenon, <1>2 DEF HoldsAll
  <1>3. ASSUME NEW c \in calls[n], ApplyLocal(n, c) PROVE HoldsAll'
    <2>1. c.msgs \in SUBSET Msg
      BY DEF TypeOK, Call
    <2> QED BY Zenon, <1>1, <1>2, <1>3, <2>1 DEF ApplyLocal
  <1>4. ASSUME NEW m \in inbox[n], Deliver(n, m) PROVE HoldsAll'
    <2>1. m \in Msg
      BY Zenon DEF TypeOK
    <2> QED BY Zenon, <1>1, <1>2, <1>4, <2>1 DEF Deliver
  <1> QED BY Zenon, <1>2, <1>3, <1>4
          DEF Delete, Set, Begin, Publish, Return, PublishFails, Drop

LEMMA HoldsMerge ==
  ASSUME TypeOK, HoldsAll, NEW n \in Node, NEW K \in SUBSET Key, mergeSnapshot(n, K)
  PROVE  HoldsAll'
  <1> DEFINE new == [k \in {j \in K : fetched[n][j] # NoEntry} |-> fetched[n][k]]
             got == Won(n, new)
             D == [k \in Key |-> IF k \in got THEN new[k] ELSE data[n][k]]
             H == [k \in Key |-> IF k \in got THEN Adopt(high[n][k], new[k])
                                              ELSE high[n][k]]
  <1>1. data' = [data EXCEPT ![n] = D] /\ high' = [high EXCEPT ![n] = H]
    BY Zenon DEF mergeSnapshot, TypeOK
  <1>2. \A k \in got : lwwAccept(data[n][k], new[k])
    BY Zenon DEF Won
  <1>3. \A k \in Key : Holds(D[k], H[k], now[n])
    <2> HIDE DEF new, got
    <2> QED BY Zenon, <1>2, HoldsAfterPut DEF HoldsAll
  <1> HIDE DEF D, H
  <1> QED BY Zenon, <1>1, <1>3, HoldsMap DEF mergeSnapshot

LEMMA HoldsCollect ==
  ASSUME TypeOK, HoldsAll, NEW n \in Node, NEW K \in SUBSET Due(n),
         data' = [data EXCEPT ![n] = Collected(@, K)], high' = high, now' = now
  PROVE  HoldsAll'
  <1> DEFINE D == Collected(data[n], K)
  <1>1. \A k \in Key : Holds(D[k], high[n][k], now[n])
    BY Zenon, HoldsAfterCollect DEF Collected, Due, HoldsAll
  <1>2. data' = [data EXCEPT ![n] = D] /\ high' = [high EXCEPT ![n] = high[n]]
    BY Zenon DEF TypeOK
  <1> HIDE DEF D
  <1> QED BY Zenon, <1>1, <1>2, HoldsMap

LEMMA HoldsOther ==
  ASSUME TypeOK, HoldsAll, NEW n \in Node,
         \/ Snapshotting(n) \/ gcTombstones(n)
         \/ Fetch(n) \/ Close(n) \/ Subscribe(n) \/ loadSnapshot(n)
         \/ loadFails(n) \/ Tick(n) \/ Crash(n)
  PROVE  HoldsAll'
  <1>1. CASE UNCHANGED <<data, high, now>>
    BY Zenon, <1>1 DEF HoldsAll
  <1>2. ASSUME Capture(n) \/ CaptureFails(n), high' = high, now' = now
        PROVE  HoldsAll'
    BY Zenon, <1>2, HoldsCollect DEF Capture, CaptureFails
  <1>3. CASE Snapshotting(n)
    BY Zenon, <1>1, <1>2, <1>3 DEF Snapshotting, Wake, Debounced, finalFlush, Store
  <1>4. CASE gcTombstones(n)
    BY Zenon, <1>4, HoldsCollect DEF gcTombstones
  <1>5. CASE Fetch(n) \/ Close(n) \/ Subscribe(n) \/ loadFails(n)
    BY Zenon, <1>1, <1>5 DEF Fetch, Close, Subscribe, loadFails
  <1>6. CASE loadSnapshot(n)
    BY Zenon, <1>6, HoldsMap DEF loadSnapshot, Holds
  <1>7. CASE Tick(n)
    BY Zenon, <1>7, HoldsLater, Slots DEF Tick, HoldsAll, TypeOK
  <1>8. CASE Crash(n)
    BY Zenon, <1>8 DEF Crash, HoldsAll, Holds, TypeOK
  <1> QED BY Zenon, <1>3, <1>4, <1>5, <1>6, <1>7, <1>8

LEMMA HoldsNext ==
  ASSUME TypeOK, HoldsAll, [Next]_vars
  PROVE  HoldsAll'
  <1>1. CASE Next
    <2>1. PICK n \in Node : PodStep(n)
      BY Zenon, <1>1, NextCases
    <2> QED BY Zenon, <2>1, HoldsWrites, HoldsBatch, HoldsMerge, HoldsOther DEF PodStep
  <1>2. CASE UNCHANGED vars
    BY Zenon, <1>2 DEF vars, program, HoldsAll
  <1> QED BY Zenon, <1>1, <1>2

\* A replica never goes back below an entry it held, whatever messages,
\* snapshots, batches, Refreshes and restarts interleave, unless that entry
\* was a tombstone older than TombstoneTTL by the replica's own clock.
THEOREM TombstonesAlwaysHold == Spec => []TombstonesHold
  <1>1. Init => HoldsAll
    BY Zenon DEF Init, HoldsAll, Holds
  <1>2. HoldsAll => TombstonesHold
    BY Zenon DEF HoldsAll, Holds, TombstonesHold
  <1> QED BY <1>1, <1>2, TypeCorrect, HoldsNext, PTL DEF Spec


----------------------------------------------------------------------------
(* Stamps.                                                                 *)

\* A write with a stamp: applied, or of a call that has not returned.
Written(m) == m \in issued \/ \E n \in Node : \E c \in calls[n] : m \in c.msgs

\* The stamp of m was drawn from its author's clock and counter.
Drawn(m) ==
  /\ m.entry.ts <= now[m.entry.origin]
  /\ born[m.entry.origin] <= m.entry.ts => m.entry.seq <= seq[m.entry.origin]

OwnCalls == \A n \in Node : \A c \in calls[n] : \A m \in c.msgs : m.entry.origin = n

StampInv ==
  /\ OwnCalls
  /\ \A m \in Msg : Written(m) => Drawn(m)
  /\ \A m1, m2 \in Msg :
       Written(m1) /\ Written(m2) /\ SameStamp(m1.entry, m2.entry) => m1 = m2

LEMMA MsgFields ==
  \A m \in Msg : /\ m.key \in Key /\ m.entry \in Entry /\ m.entry.origin \in Node
                 /\ m.entry.ts \in Nat /\ m.entry.seq \in Nat
  BY Zenon DEF Msg, Entry

\* Pod n draws the stamps of M and moves its counter to s.
LEMMA StampDraw ==
  ASSUME TypeOK, StampInv, NEW n \in Node, NEW M \in SUBSET Msg, NEW s \in Nat,
         seq[n] <= s, now' = now, born' = born, seq' = [seq EXCEPT ![n] = s],
         \A m \in M : /\ m.entry.origin = n
                      /\ born[n] <= m.entry.ts /\ m.entry.ts <= now[n]
                      /\ seq[n] < m.entry.seq /\ m.entry.seq <= s,
         \A m1, m2 \in M : m1.entry.seq = m2.entry.seq => m1 = m2,
         \A m \in Msg : Written(m)' => Written(m) \/ m \in M,
         OwnCalls'
  PROVE  StampInv'
  <1>1. \A o \in Node : /\ now[o] \in Nat /\ born[o] \in Nat /\ seq[o] \in Nat
                        /\ seq'[o] = IF o = n THEN s ELSE seq[o]
    BY Zenon DEF TypeOK
  <1>2. ASSUME NEW m \in Msg, Written(m)' PROVE Drawn(m)'
    <2>1. CASE Written(m)
      <3>1. Drawn(m)
        BY Zenon, <2>1 DEF StampInv
      <3> QED BY <1>1, <3>1, MsgFields DEF Drawn
    <2>2. CASE m \in M
      BY Zenon, <1>1, <2>2, MsgFields DEF Drawn
    <2> QED BY Zenon, <1>2, <2>1, <2>2
  <1>3. ASSUME NEW m1 \in Msg, NEW m2 \in M, Written(m1), SameStamp(m1.entry, m2.entry)
        PROVE  FALSE
    <2>1. Drawn(m1)
      BY Zenon, <1>3 DEF StampInv
    <2> QED BY <1>1, <1>3, <2>1, MsgFields DEF Drawn, SameStamp
  <1>4. ASSUME NEW m1 \in Msg, NEW m2 \in Msg, Written(m1)', Written(m2)',
               SameStamp(m1.entry, m2.entry)
        PROVE  m1 = m2
    <2>1. SameStamp(m2.entry, m1.entry)
      BY Zenon, <1>4 DEF SameStamp
    <2>2. CASE Written(m1) /\ Written(m2)
      BY Zenon, <1>4, <2>2 DEF StampInv
    <2>3. CASE m1 \in M /\ m2 \in M
      BY Zenon, <1>4, <2>3 DEF SameStamp
    <2> QED BY Zenon, <1>3, <1>4, <2>1, <2>2, <2>3
  <1> QED BY Zenon, <1>2, <1>4 DEF StampInv

\* No stamp is drawn; clocks may move on.
LEMMA StampKept ==
  ASSUME TypeOK, StampInv, \A o \in Node : now'[o] \in Nat /\ now[o] <= now'[o],
         born' = born, seq' = seq,
         \A m \in Msg : Written(m)' => Written(m), OwnCalls'
  PROVE  StampInv'
  <1>1. ASSUME NEW m \in Msg, Written(m)' PROVE Drawn(m)'
    <2>1. Drawn(m)
      BY Zenon, <1>1 DEF StampInv
    <2> QED BY <2>1, MsgFields DEF Drawn, TypeOK
  <1>2. \A m1, m2 \in Msg :
          Written(m1)' /\ Written(m2)' /\ SameStamp(m1.entry, m2.entry) => m1 = m2
    BY Zenon DEF StampInv
  <1> QED BY Zenon, <1>1, <1>2 DEF StampInv

LEMMA StampBegin ==
  ASSUME TypeOK, StampInv, NEW n \in Node, NEW k \in Key, NEW tomb \in BOOLEAN,
         NEW v \in Value, Begin(n, k, tomb, v)
  PROVE  StampInv'
  <1>1. PICK ts \in ReadClock(n) :
          calls' = [calls EXCEPT ![n] = @ \cup
            {[applied |-> FALSE,
              msgs |-> {[key |-> k, entry |-> Stamped(n, ts, seq[n] + 1, tomb, v)]}]}]
    BY Zenon DEF Begin
  <1> DEFINE e == Stamped(n, ts, seq[n] + 1, tomb, v)
             m == [key |-> k, entry |-> e]
             c == [applied |-> FALSE, msgs |-> {m}]
  <1>2. seq[n] \in Nat /\ seq[n] + 1 \in Nat
    BY DEF TypeOK
  <1>3. /\ e \in Entry /\ e.origin = n /\ e.seq = seq[n] + 1
        /\ born[n] <= e.ts /\ e.ts <= now[n]
    BY <1>2, ClockType, StampedEntry
  <1>4. m \in Msg /\ m.entry = e /\ c.msgs = {m}
    BY Zenon, <1>3 DEF Msg
  <1>5. \A o \in Node : calls'[o] = IF o = n THEN calls[o] \cup {c} ELSE calls[o]
    BY Zenon, <1>1 DEF TypeOK
  <1> HIDE DEF e, m, c
  <1>6. OwnCalls'
    <2> SUFFICES ASSUME NEW o \in Node, NEW d \in calls'[o], NEW x \in d.msgs
                 PROVE  x.entry.origin = o
      BY Zenon DEF OwnCalls
    <2>1. CASE d \in calls[o]
      BY Zenon, <2>1 DEF StampInv, OwnCalls
    <2>2. CASE o = n /\ d = c
      BY Zenon, <1>3, <1>4, <2>2
    <2> QED BY Zenon, <1>5, <2>1, <2>2
  <1>7. issued' = issued /\ now' = now /\ born' = born /\ seq' = [seq EXCEPT ![n] = seq[n] + 1]
    BY Zenon DEF Begin
  <1>8. \A x \in Msg : Written(x)' => Written(x) \/ x \in {m}
    BY Zenon, <1>4, <1>5, <1>7 DEF Written
  <1>9. /\ {m} \in SUBSET Msg /\ seq[n] <= seq[n] + 1
        /\ \A x \in {m} : /\ x.entry.origin = n
                         /\ born[n] <= x.entry.ts /\ x.entry.ts <= now[n]
                         /\ seq[n] < x.entry.seq /\ x.entry.seq <= seq[n] + 1
        /\ \A x, y \in {m} : x.entry.seq = y.entry.seq => x = y
    BY <1>2, <1>3, <1>4
  <1> QED BY Zenon, <1>2, <1>6, <1>7, <1>8, <1>9, StampDraw

----------------------------------------------------------------------------
(* What SetMany, DeleteMany and Seed have in common.                       *)

\* The entries of the keys W become those of new at pod n.
Stores(n, W, new) ==
  \A o \in Node, k \in Key :
    IF o = n /\ k \in W
    THEN /\ data'[o][k] = Merged(data[o][k], new[k])
         /\ high'[o][k] = Adopt(high[o][k], Merged(data[o][k], new[k]))
    ELSE data'[o][k] = data[o][k] /\ high'[o][k] = high[o][k]

\* Pod n stores the entries new of the keys J that lwwAccept lets in, and has
\* a call to publish them or gives them up.
BatchStep(n, J, s, new) ==
  /\ Fresh(n, J, s, new)
  /\ seq' = [seq EXCEPT ![n] = s]
  /\ Stores(n, Won(n, new), new)
  /\ issued' = issued \cup MsgsOf(new, Won(n, new))
  /\ \/ /\ lost' = lost
        /\ calls' = [calls EXCEPT ![n] = @ \cup
                       {[applied |-> TRUE, msgs |-> MsgsOf(new, Won(n, new))]}]
     \/ calls' = calls /\ lost' = LoseToOthers(n, MsgsOf(new, Won(n, new)))
  /\ UNCHANGED <<now, born, life, inbox, stored, buf, fetched>>

LEMMA PutAllMaps ==
  ASSUME TypeOK, NEW n \in Node, NEW J \in SUBSET Key, NEW new \in [J -> Entry],
         PutAll(n, new)
  PROVE  Stores(n, Won(n, new), new)
  <1>1. Won(n, new) \subseteq Key
    BY Zenon DEF Won
  <1> QED BY Zenon, <1>1 DEF PutAll, TypeOK, Stores

LEMMA BatchSteps ==
  ASSUME TypeOK, NEW n \in Node, NEW K \in SUBSET Key, NEW vals \in [K -> Value],
         \/ Many(n, K, TRUE, vals) \/ Many(n, K, FALSE, vals)
         \/ ManyFails(n, K, vals) \/ Seed(n, K, vals)
  PROVE  \E J \in SUBSET Key : \E s, new : BatchStep(n, J, s, new)
  <1>1. ASSUME NEW tomb \in BOOLEAN, Many(n, K, tomb, vals)
        PROVE  \E s, new : BatchStep(n, K, s, new)
    <2>1. PICK s \in seq[n]..MaxSeq[n] : \E new \in Batches(n, K, s, tomb, vals) :
            /\ seq' = [seq EXCEPT ![n] = s]
            /\ PutAll(n, new)
            /\ issued' = issued \cup MsgsOf(new, Won(n, new))
            /\ calls' = [calls EXCEPT ![n] = @ \cup
                           {[applied |-> TRUE, msgs |-> MsgsOf(new, Won(n, new))]}]
      BY Zenon, <1>1 DEF Many
    <2>2. PICK new \in Batches(n, K, s, tomb, vals) :
            /\ seq' = [seq EXCEPT ![n] = s]
            /\ PutAll(n, new)
            /\ issued' = issued \cup MsgsOf(new, Won(n, new))
            /\ calls' = [calls EXCEPT ![n] = @ \cup
                           {[applied |-> TRUE, msgs |-> MsgsOf(new, Won(n, new))]}]
      BY Zenon, <2>1
    <2>3. UNCHANGED <<now, born, life, inbox, stored, buf, fetched, lost>>
      BY Zenon, <1>1 DEF Many
    <2>4. Fresh(n, K, s, new)
      BY Zenon, BatchEntries
    <2>5. Stores(n, Won(n, new), new)
      BY Zenon, <2>2, <2>4, PutAllMaps DEF Fresh
    <2>6. BatchStep(n, K, s, new)
      BY Zenon, <2>2, <2>3, <2>4, <2>5 DEF BatchStep
    <2> QED BY Zenon, <2>6
  <1>2. CASE ManyFails(n, K, vals)
    <2>1. PICK done \in SUBSET {k \in K : vals[k] \notin Bad}, s \in seq[n]..MaxSeq[n] :
          \E new \in Batches(n, done, s, FALSE, vals) :
            /\ seq' = [seq EXCEPT ![n] = s]
            /\ PutAll(n, new)
            /\ issued' = issued \cup MsgsOf(new, Won(n, new))
            /\ lost' = LoseToOthers(n, MsgsOf(new, Won(n, new)))
      BY Zenon, <1>2 DEF ManyFails
    <2>2. PICK new \in Batches(n, done, s, FALSE, vals) :
            /\ seq' = [seq EXCEPT ![n] = s]
            /\ PutAll(n, new)
            /\ issued' = issued \cup MsgsOf(new, Won(n, new))
            /\ lost' = LoseToOthers(n, MsgsOf(new, Won(n, new)))
      BY Zenon, <2>1
    <2>3. done \in SUBSET Key /\ \A k \in done : vals[k] \in Value
      BY Zenon, <2>2
    <2>4. UNCHANGED <<now, born, life, inbox, stored, buf, fetched, calls>>
      BY Zenon, <1>2 DEF ManyFails
    <2>5. Fresh(n, done, s, new)
      BY Zenon, <2>3, BatchEntries
    <2>6. Stores(n, Won(n, new), new)
      BY Zenon, <2>2, <2>3, <2>5, PutAllMaps DEF Fresh
    <2>7. BatchStep(n, done, s, new)
      BY Zenon, <2>2, <2>4, <2>5, <2>6 DEF BatchStep
    <2> QED BY Zenon, <2>3, <2>7
  <1>3. CASE Seed(n, K, vals)
    <2>1. PICK s \in seq[n]..MaxSeq[n] : \E new \in Batches(n, K, s, FALSE, vals) :
            /\ seq' = [seq EXCEPT ![n] = s]
            /\ data' = [data EXCEPT ![n] =
                          [k \in Key |-> IF k \in K THEN new[k] ELSE NoEntry]]
            /\ high' = [high EXCEPT ![n] =
                          [k \in Key |-> IF k \in K THEN Adopt(@[k], new[k]) ELSE @[k]]]
            /\ issued' = issued \cup MsgsOf(new, K)
            /\ lost' = LoseToOthers(n, MsgsOf(new, K))
      BY Zenon, <1>3 DEF Seed
    <2>2. PICK new \in Batches(n, K, s, FALSE, vals) :
            /\ seq' = [seq EXCEPT ![n] = s]
            /\ data' = [data EXCEPT ![n] =
                          [k \in Key |-> IF k \in K THEN new[k] ELSE NoEntry]]
            /\ high' = [high EXCEPT ![n] =
                          [k \in Key |-> IF k \in K THEN Adopt(@[k], new[k]) ELSE @[k]]]
            /\ issued' = issued \cup MsgsOf(new, K)
            /\ lost' = LoseToOthers(n, MsgsOf(new, K))
      BY Zenon, <2>1
    <2>3. /\ UNCHANGED <<now, born, life, inbox, stored, buf, fetched, calls>>
          /\ \A k \in Key : data[n][k] = NoEntry
      BY Zenon, <1>3 DEF Seed, EmptyMap
    <2>4. Fresh(n, K, s, new)
      BY Zenon, BatchEntries
    <2>5. /\ Won(n, new) = K
          /\ \A k \in K : Merged(data[n][k], new[k]) = new[k]
      BY Zenon, <2>3, <2>4 DEF lwwAccept, Merged, Live, Won, Fresh
    <2>6. Stores(n, K, new)
      BY Zenon, <2>2, <2>3, <2>5 DEF TypeOK, Stores
    <2>7. BatchStep(n, K, s, new)
      BY Zenon, <2>2, <2>3, <2>4, <2>5, <2>6 DEF BatchStep
    <2> QED BY Zenon, <2>7
  <1> QED BY Zenon, <1>1, <1>2, <1>3

LEMMA WonAre ==
  ASSUME NEW n, NEW J \in SUBSET Key, NEW new \in [J -> Entry]
  PROVE  \A k \in Won(n, new) : k \in J /\ lwwAccept(data[n][k], new[k])
  BY Zenon DEF Won

LEMMA WonMsgs ==
  ASSUME NEW n, NEW J \in SUBSET Key, NEW new \in [J -> Entry]
  PROVE  \A m \in MsgsOf(new, Won(n, new)) :
           m \in Msg /\ m.key \in J /\ m.key \in Won(n, new) /\ m.entry = new[m.key]
  BY WonAre DEF MsgsOf, Msg

LEMMA StampBatch ==
  ASSUME TypeOK, StampInv, NEW n \in Node, NEW J \in SUBSET Key, NEW s, NEW new,
         BatchStep(n, J, s, new)
  PROVE  StampInv'
  <1> DEFINE M == MsgsOf(new, Won(n, new))
  <1>1. Fresh(n, J, s, new)
    BY Zenon DEF BatchStep
  <1>2. \A m \in M : m \in Msg /\ m.key \in J /\ m.entry = new[m.key]
    <2>1. new \in [J -> Entry]
      BY Zenon, <1>1 DEF Fresh
    <2>2. \A m \in MsgsOf(new, Won(n, new)) :
            m \in Msg /\ m.key \in J /\ m.key \in Won(n, new) /\ m.entry = new[m.key]
      BY Zenon, <2>1, WonMsgs
    <2> QED BY Zenon, <2>2
  <1>3. /\ \A o \in Node : calls'[o] \subseteq
             calls[o] \cup (IF o = n THEN {[applied |-> TRUE, msgs |-> M]} ELSE {})
        /\ issued' = issued \cup M
        /\ now' = now /\ born' = born /\ seq' = [seq EXCEPT ![n] = s]
    BY DEF BatchStep, TypeOK
  <1> HIDE DEF M
  <1>4. \A o \in Node : \A c \in calls'[o] : c \in calls[o] \/ (o = n /\ c.msgs = M)
    BY <1>3
  <1>5. \A m \in M : m.entry.origin = n
    BY Zenon, <1>1, <1>2 DEF Fresh
  <1>6. OwnCalls'
    BY <1>4, <1>5 DEF StampInv, OwnCalls
  <1>7. \A m \in Msg : Written(m)' => Written(m) \/ m \in M
    BY Zenon, <1>3, <1>4 DEF Written
  <1>8. \A m1, m2 \in M : m1.entry.seq = m2.entry.seq => m1 = m2
    <2> SUFFICES ASSUME NEW m1 \in M, NEW m2 \in M, m1.entry.seq = m2.entry.seq
                 PROVE  m1 = m2
      BY Zenon
    <2>1. m1.key = m2.key /\ m1.entry = m2.entry
      BY <1>1, <1>2 DEF Fresh
    <2> QED BY <1>2, <2>1 DEF Msg
  <1>9. /\ M \in SUBSET Msg /\ s \in Nat /\ seq[n] <= s
        /\ \A m \in M : /\ m.entry.origin = n
                        /\ born[n] <= m.entry.ts /\ m.entry.ts <= now[n]
                        /\ seq[n] < m.entry.seq /\ m.entry.seq <= s
    BY Zenon, <1>1, <1>2 DEF Fresh
  <1> QED BY Zenon, <1>3, <1>6, <1>7, <1>8, <1>9, StampDraw

\* The steps after the stamp is drawn take messages from a call or end it.
LEMMA StampCall ==
  ASSUME TypeOK, StampInv, NEW n \in Node, NEW c \in calls[n],
         \/ ApplyLocal(n, c) \/ Publish(n, c) \/ Return(n, c) \/ PublishFails(n, c)
  PROVE  StampInv'
  <1>1. c \in Call
    BY Zenon DEF TypeOK
  <1>2. /\ now' = now /\ born' = born /\ seq' = seq
        /\ issued' \subseteq issued \cup c.msgs
    BY Zenon DEF ApplyLocal, Publish, Return, PublishFails
  <1>3. PICK d : /\ d.msgs \subseteq c.msgs
                 /\ calls' = [calls EXCEPT ![n] = (@ \ {c}) \cup {d}]
                    \/ calls' = [calls EXCEPT ![n] = @ \ {c}]
    <2>1. CASE ApplyLocal(n, c)
      <3>1. [c EXCEPT !.applied = TRUE].msgs \subseteq c.msgs
        BY Zenon, <1>1 DEF Call
      <3> QED BY Zenon, <2>1, <3>1 DEF ApplyLocal
    <2>2. CASE Publish(n, c)
      <3>1. PICK m : calls' = [calls EXCEPT ![n] = (@ \ {c}) \cup {[c EXCEPT !.msgs = @ \ {m}]}]
        BY Zenon, <2>2 DEF Publish
      <3>2. [c EXCEPT !.msgs = @ \ {m}].msgs \subseteq c.msgs
        BY Zenon, <1>1 DEF Call
      <3> QED BY Zenon, <3>1, <3>2
    <2>3. CASE Return(n, c) \/ PublishFails(n, c)
      BY Zenon, <2>3 DEF Return, PublishFails
    <2> QED BY Zenon, <2>1, <2>2, <2>3
  <1>4. \A o \in Node : \A x \in calls'[o] : x \in calls[o] \/ (o = n /\ x.msgs \subseteq c.msgs)
    BY <1>3 DEF TypeOK
  <1>5. OwnCalls'
    BY Zenon, <1>4 DEF StampInv, OwnCalls
  <1>6. \A m \in Msg : Written(m)' => Written(m)
    BY Zenon, <1>2, <1>4 DEF Written
  <1>7. \A o \in Node : now'[o] \in Nat /\ now[o] <= now'[o]
    BY <1>2 DEF TypeOK
  <1> QED BY Zenon, <1>2, <1>5, <1>6, <1>7, StampKept

\* A new process starts later than every stamp of the old one.
LEMMA StampCrash ==
  ASSUME TypeOK, StampInv, NEW n \in Node, Crash(n)
  PROVE  StampInv'
  <1>1. \A o \in Node : /\ now'[o] = (IF o = n THEN now[o] + 1 ELSE now[o])
                        /\ born'[o] = (IF o = n THEN now[o] + 1 ELSE born[o])
                        /\ seq'[o] = (IF o = n THEN 0 ELSE seq[o])
                        /\ calls'[o] \subseteq calls[o]
                        /\ now[o] \in Nat
    BY Zenon DEF Crash, TypeOK
  <1>2. OwnCalls'
    BY Zenon, <1>1 DEF StampInv, OwnCalls
  <1>3. \A m \in Msg : Written(m)' => Written(m)
    BY Zenon, <1>1 DEF Written, Crash
  <1>4. ASSUME NEW m \in Msg, Written(m)' PROVE Drawn(m)'
    <2>1. Drawn(m)
      BY Zenon, <1>3, <1>4 DEF StampInv
    <2> QED BY SMTT(30), <1>1, <2>1, MsgFields DEF Drawn
  <1> QED BY Zenon, <1>2, <1>3, <1>4 DEF StampInv

LEMMA StampNext ==
  ASSUME TypeOK, StampInv, [Next]_vars
  PROVE  StampInv'
  <1>1. ASSUME \A o \in Node : now'[o] \in Nat /\ now[o] <= now'[o],
               UNCHANGED <<born, seq, calls, issued>>
        PROVE  StampInv'
    <2>1. OwnCalls' /\ \A m \in Msg : Written(m)' => Written(m)
      BY Zenon, <1>1 DEF StampInv, OwnCalls, Written
    <2> QED BY Zenon, <1>1, <2>1, StampKept
  <1>2. CASE UNCHANGED <<now, born, seq, calls, issued>>
    <2>1. \A o \in Node : now'[o] \in Nat /\ now[o] <= now'[o]
      BY <1>2 DEF TypeOK
    <2> QED BY Zenon, <1>1, <1>2, <2>1
  <1>3. ASSUME NEW n \in Node, PodStep(n) PROVE StampInv'
    <2>1. ASSUME NEW k \in Key, Delete(n, k) \/ \E v \in Value : Set(n, k, v)
          PROVE  StampInv'
      BY Zenon, <2>1, StampBegin, ValueAssumption DEF Delete, Set
    <2>2. ASSUME NEW K \in SUBSET Key, NEW vals \in [K -> Value],
                 \/ Many(n, K, TRUE, vals) \/ Many(n, K, FALSE, vals)
                 \/ ManyFails(n, K, vals) \/ Seed(n, K, vals)
          PROVE  StampInv'
      BY Zenon, <2>2, BatchSteps, StampBatch
    <2>3. CASE Tick(n)
      <3>1. \A o \in Node : now'[o] \in Nat /\ now[o] <= now'[o]
        BY <2>3 DEF Tick, TypeOK
      <3> QED BY Zenon, <1>1, <2>3, <3>1 DEF Tick
    <2>4. CASE \/ \E m \in inbox[n] : Deliver(n, m) \/ Drop(n, m)
               \/ \E K \in SUBSET Key : mergeSnapshot(n, K)
               \/ Snapshotting(n) \/ gcTombstones(n)
               \/ Fetch(n) \/ Close(n) \/ Subscribe(n) \/ loadSnapshot(n)
               \/ loadFails(n)
      <3>1. UNCHANGED <<now, born, seq, calls, issued>>
        BY Zenon, <2>4 DEF Deliver, Drop, mergeSnapshot, Snapshotting, Wake, Debounced,
                    finalFlush, Store, gcTombstones, Fetch, Close, Subscribe,
                    loadSnapshot, loadFails
      <3> QED BY Zenon, <1>2, <3>1
    <2> QED BY Zenon, <1>3, <2>1, <2>2, <2>3, <2>4, StampCall, StampCrash DEF PodStep
  <1>4. CASE UNCHANGED vars
    BY Zenon, <1>2, <1>4 DEF vars, program
  <1> QED BY Zenon, <1>3, <1>4, NextCases

LEMMA StampsAreUnique ==
  ASSUME TypeOK, StampInv, NEW m1 \in issued, NEW m2 \in issued,
         ~Newer(m1.entry, m2.entry), ~Newer(m2.entry, m1.entry)
  PROVE  m1 = m2
  <1>1. m1 \in Msg /\ m2 \in Msg /\ Written(m1) /\ Written(m2)
    BY Zenon DEF TypeOK, Written
  <1>2. SameStamp(m1.entry, m2.entry)
    BY Zenon, <1>1, MsgFields, NewerIsTotal
  <1> QED BY Zenon, <1>1, <1>2 DEF StampInv

LEMMA StampInvariant == Spec => [](TypeOK /\ StampInv)
  <1>1. Init => StampInv
    BY Zenon DEF Init, StampInv, OwnCalls, Written
  <1> QED BY <1>1, TypeCorrect, StampNext, PTL DEF Spec

\* No two writes of a topic carry the same stamp, though every pod draws them
\* from its own clock and counter, calls overlap, and a restarted process
\* counts from zero again: its clock has passed every stamp of the old one.
THEOREM StampsStayUnique == Spec => []UniqueStamps
  <1>1. TypeOK /\ StampInv => UniqueStamps
    BY Zenon, StampsAreUnique DEF UniqueStamps
  <1> QED BY <1>1, StampInvariant, PTL

----------------------------------------------------------------------------
(* What a step does to the maps.                                           *)

\* A pod that has not loaded its snapshot holds nothing and calls nothing.
Blank ==
  \A n \in Node : life[n] \in {"down", "joining"} =>
    calls[n] = {} /\ data[n] = EmptyMap /\ high[n] = EmptyMap /\ fetched[n] = EmptyMap

\* The entry d of a key and the newest one so far, h, become d2 and h2: nothing
\* happens, a newer entry is stored, or a tombstone is collected.
CellStep(d, h, d2, h2) ==
  \/ d2 = d /\ h2 = h
  \/ d2 \in Entry /\ lwwAccept(d, d2) /\ h2 = Adopt(h, d2)
  \/ d # NoEntry /\ d.tomb /\ d2 = NoEntry /\ h2 = h

CellSteps(n) ==
  \A o \in Node, k \in Key :
    IF o = n THEN CellStep(data[o][k], high[o][k], data'[o][k], high'[o][k])
             ELSE data'[o][k] = data[o][k] /\ high'[o][k] = high[o][k]

LEMMA CellSame ==
  ASSUME data' = data, high' = high
  PROVE  \A n : CellSteps(n)
  BY Zenon DEF CellSteps, CellStep

LEMMA CellPut ==
  ASSUME TypeOK, NEW n \in Node, NEW m \in Msg, lwwAccept(data[n][m.key], m.entry),
         Put(n, m.key, Merged(data[n][m.key], m.entry))
  PROVE  CellSteps(n)
  <1> DEFINE e == Merged(data[n][m.key], m.entry)
  <1>1. m.key \in Key /\ m.entry \in Entry
    BY Zenon DEF Msg
  <1>2. e \in Entry /\ lwwAccept(data[n][m.key], e)
    BY Zenon, <1>1, MergedEntry, AcceptMerged, Slots
  <1>3. \A o \in Node, j \in Key :
          /\ data'[o][j] = IF o = n /\ j = m.key THEN e ELSE data[o][j]
          /\ high'[o][j] = IF o = n /\ j = m.key THEN Adopt(high[o][j], e) ELSE high[o][j]
    BY Zenon, <1>1 DEF Put, TypeOK, Map
  <1> HIDE DEF e
  <1> QED BY SMTT(30), <1>2, <1>3 DEF CellSteps, CellStep

LEMMA CellBatch ==
  ASSUME TypeOK, NEW n \in Node, NEW J \in SUBSET Key, NEW s, NEW new,
         BatchStep(n, J, s, new)
  PROVE  CellSteps(n)
  <1>1. new \in [J -> Entry] /\ Stores(n, Won(n, new), new)
    BY Zenon DEF BatchStep, Fresh
  <1>2. ASSUME NEW k \in Won(n, new)
        PROVE  /\ Merged(data[n][k], new[k]) \in Entry
               /\ lwwAccept(data[n][k], Merged(data[n][k], new[k]))
    <2>1. k \in Key /\ new[k] \in Entry /\ lwwAccept(data[n][k], new[k])
      BY Zenon, <1>1, WonAre
    <2> QED BY Zenon, <2>1, MergedEntry, AcceptMerged, Slots
  <1> QED BY SMTT(30), <1>1, <1>2 DEF Stores, CellSteps, CellStep

LEMMA CellMerge ==
  ASSUME TypeOK, NEW n \in Node, NEW K \in SUBSET Key, mergeSnapshot(n, K)
  PROVE  CellSteps(n)
  <1> DEFINE new == [k \in {j \in K : fetched[n][j] # NoEntry} |-> fetched[n][k]]
             got == Won(n, new)
  <1>1. \A k \in got : /\ k \in Key /\ new[k] \in Entry
                       /\ lwwAccept(data[n][k], new[k])
    BY Zenon, Slots DEF Won, Slot
  <1>2. \A o \in Node, k \in Key :
          /\ data'[o][k] = IF o = n /\ k \in got THEN new[k] ELSE data[o][k]
          /\ high'[o][k] = IF o = n /\ k \in got THEN Adopt(high[o][k], new[k])
                                                  ELSE high[o][k]
    BY SMTT(30) DEF mergeSnapshot, TypeOK
  <1> HIDE DEF new, got
  <1> QED BY <1>1, <1>2 DEF CellSteps, CellStep

LEMMA CellCollect ==
  ASSUME TypeOK, NEW n \in Node, NEW K \in SUBSET Due(n),
         data' = [data EXCEPT ![n] = Collected(@, K)], high' = high
  PROVE  CellSteps(n)
  <1>1. \A o \in Node, k \in Key :
          data'[o][k] = IF o = n /\ k \in K THEN NoEntry ELSE data[o][k]
    BY Zenon DEF TypeOK, Collected
  <1>2. \A k \in K : data[n][k] # NoEntry /\ data[n][k].tomb
    BY Zenon DEF Due, Expired
  <1> QED BY SMTT(30), <1>1, <1>2 DEF CellSteps, CellStep

LEMMA CellLoad ==
  ASSUME TypeOK, Blank, NEW n \in Node, loadSnapshot(n)
  PROVE  CellSteps(n)
  <1>0. PICK snap \in Answers(n) : /\ data' = [data EXCEPT ![n] = snap]
                                  /\ high' = [high EXCEPT ![n] = snap]
    BY Zenon DEF loadSnapshot
  <1>1. \A k \in Key : data[n][k] = NoEntry /\ high[n][k] = NoEntry
    BY Zenon DEF Blank, loadSnapshot, EmptyMap
  <1>2. \A o \in Node, k \in Key :
          /\ data'[o][k] = IF o = n THEN snap[k] ELSE data[o][k]
          /\ high'[o][k] = IF o = n THEN snap[k] ELSE high[o][k]
    BY Zenon, <1>0 DEF TypeOK
  <1>3. \A k \in Key : snap[k] \in Entry \/ snap[k] = NoEntry
    BY Zenon, AnswersType, MapIsSlots DEF Slot
  <1> QED BY SMTT(30), <1>1, <1>2, <1>3 DEF CellSteps, CellStep, lwwAccept, Adopt

\* Every step but a crash changes the keys of its own pod in these ways only.
LEMMA StepsAreCellSteps ==
  ASSUME TypeOK, Blank, NEW n \in Node, PodStep(n)
  PROVE  CellSteps(n) \/ Crash(n)
  <1>1. ASSUME NEW c \in calls[n], ApplyLocal(n, c) PROVE CellSteps(n)
    <2>1. c.msgs \in SUBSET Msg
      BY DEF TypeOK, Call
    <2> QED BY Zenon, <1>1, <2>1, CellPut, CellSame DEF ApplyLocal
  <1>2. ASSUME NEW m \in inbox[n], Deliver(n, m) PROVE CellSteps(n)
    <2>1. m \in Msg
      BY Zenon DEF TypeOK
    <2> QED BY Zenon, <1>2, <2>1, CellPut, CellSame DEF Deliver
  <1>3. ASSUME NEW K \in SUBSET Key, NEW vals \in [K -> Value],
               \/ Many(n, K, TRUE, vals) \/ Many(n, K, FALSE, vals)
               \/ ManyFails(n, K, vals) \/ Seed(n, K, vals)
        PROVE  CellSteps(n)
    BY Zenon, <1>3, BatchSteps, CellBatch
  <1>4. ASSUME Capture(n) \/ CaptureFails(n), high' = high PROVE CellSteps(n)
    BY Zenon, <1>4, CellCollect DEF Capture, CaptureFails
  <1>5. CASE Snapshotting(n)
    BY Zenon, <1>4, <1>5, CellSame DEF Snapshotting, Wake, Debounced, finalFlush, Store
  <1>6. CASE gcTombstones(n)
    BY Zenon, <1>6, CellCollect DEF gcTombstones
  <1>7. CASE \/ \E k \in Key : Delete(n, k) \/ \E v \in Value : Set(n, k, v)
             \/ \E c \in calls[n] : Publish(n, c) \/ Return(n, c) \/ PublishFails(n, c)
             \/ \E m \in inbox[n] : Drop(n, m)
             \/ Fetch(n) \/ Close(n) \/ Subscribe(n) \/ loadFails(n) \/ Tick(n)
    <2>1. data' = data /\ high' = high
      BY Zenon, <1>7 DEF Delete, Set, Begin, Publish, Return, PublishFails, Drop, Fetch,
                  Close, Subscribe, loadFails, Tick
    <2> QED BY Zenon, <2>1, CellSame
  <1> QED BY Zenon, <1>1, <1>2, <1>3, <1>5, <1>6, <1>7, CellMerge, CellLoad DEF PodStep
=============================================================================
