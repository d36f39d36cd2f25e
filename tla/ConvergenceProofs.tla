-------------------------- MODULE ConvergenceProofs --------------------------
(***************************************************************************)
(* No write is silently lost, replicas that missed nothing agree, and a    *)
(* Store implements ReplicatedMap: proofs for every set of pods, keys and  *)
(* values and every bound.                                                 *)
(***************************************************************************)
EXTENDS ReplicationProofs

(* No write is silently lost.                                              *)

HighCovers ==
  \A n \in Node, k \in Key : data[n][k] # NoEntry => Covers(high[n][k], data[n][k])

LEMMA CellKeeps ==
  ASSUME NEW d \in Slot, NEW h \in Slot, NEW d2 \in Slot, NEW h2 \in Slot,
         CellStep(d, h, d2, h2), d # NoEntry => Covers(h, d)
  PROVE  /\ d2 # NoEntry => Covers(h2, d2)
         /\ \A e \in Entry : Covers(h, e) => Covers(h2, e)
  <1>1. CASE d2 = d /\ h2 = h
    BY Zenon, <1>1
  <1>2. CASE d2 \in Entry /\ lwwAccept(d, d2) /\ h2 = Adopt(h, d2)
    BY Zenon, <1>2, AdoptCovers
  <1>3. CASE d2 = NoEntry /\ h2 = h
    BY Zenon, <1>3
  <1> QED BY Zenon, <1>1, <1>2, <1>3 DEF CellStep

\* A pod keeps covered what it covered, unless it restarts.
Rises(o) == \A k \in Key, e \in Entry : Covers(high[o][k], e) => Covers(high'[o][k], e)

LEMMA HighRises ==
  ASSUME TypeOK, TypeOK', HighCovers, NEW n \in Node, CellSteps(n)
  PROVE  HighCovers' /\ \A o \in Node : Rises(o)
  <1> SUFFICES ASSUME NEW o \in Node, NEW k \in Key
               PROVE  /\ data'[o][k] # NoEntry => Covers(high'[o][k], data'[o][k])
                      /\ \A e \in Entry : Covers(high[o][k], e) => Covers(high'[o][k], e)
    BY Zenon DEF HighCovers, Rises
  <1>1. /\ data[o][k] \in Slot /\ high[o][k] \in Slot
        /\ data'[o][k] \in Slot /\ high'[o][k] \in Slot
    BY DEF TypeOK, Map, Slot
  <1>2. CellStep(data[o][k], high[o][k], data'[o][k], high'[o][k])
    BY Zenon DEF CellSteps, CellStep
  <1>3. data[o][k] # NoEntry => Covers(high[o][k], data[o][k])
    BY Zenon DEF HighCovers
  <1> QED BY Zenon, <1>1, <1>2, <1>3, CellKeeps

Open(o) == life[o] \in {"joining", "up"}

Has(o, m) == Covers(high[o][m.key], m.entry) \/ m \in lost[o]

\* A pod does not wait for its own writes.
OwnKept ==
  \A n \in Node : Open(n) => \A m \in issued : m.entry.origin = n => Has(n, m)

\* What a step must do with the writes so that each stays accounted for.
HandsOn ==
  \A o \in Node : Open(o)' =>
    /\ Open(o) /\ Rises(o)
    /\ \A m \in issued :
         /\ m \in lost[o] => m \in lost'[o]
         /\ m \in inbox[o] => m \in inbox'[o] \/ Has(o, m)' \/ m.entry.origin = o
         /\ InFlight(m) => InFlight(m)' \/ m \in inbox'[o] \/ Has(o, m)' \/ m.entry.origin = o
    /\ \A m \in issued' :
         \/ m \in issued
         \/ Has(o, m)'
         \/ InFlight(m)' /\ m.entry.origin # o

LEMMA HandedOn ==
  ASSUME TypeOK, OwnKept, Accounted, HandsOn
  PROVE  OwnKept' /\ Accounted'
  <1>1. ASSUME NEW o \in Node, Open(o)', NEW m \in issued, Has(o, m)
        PROVE  Has(o, m)'
    <2>1. m.key \in Key /\ m.entry \in Entry
      BY Zenon, MsgFields DEF TypeOK
    <2>2. Rises(o) /\ (m \in lost[o] => m \in lost'[o])
      BY Zenon, <1>1 DEF HandsOn
    <2> QED BY Zenon, <1>1, <2>1, <2>2 DEF Has, Rises
  <1>2. ASSUME NEW o \in Node, Open(o)', NEW m \in issued', m.entry.origin = o
        PROVE  Has(o, m)'
    <2>1. Open(o) /\ (m \in issued \/ Has(o, m)')
      BY Zenon, <1>2 DEF HandsOn
    <2>2. m \in issued => Has(o, m)
      BY Zenon, <1>2, <2>1 DEF OwnKept
    <2> QED BY Zenon, <1>1, <1>2, <2>1, <2>2
  <1>3. OwnKept'
    BY Zenon, <1>2 DEF OwnKept
  <1>4. ASSUME NEW o \in Node, Open(o)', NEW m \in issued'
        PROVE  Has(o, m)' \/ m \in inbox'[o] \/ InFlight(m)'
    <2>1. CASE m \in issued
      <3>1. Has(o, m) \/ m \in inbox[o] \/ InFlight(m)
        BY Zenon, <1>4, <2>1 DEF HandsOn, Accounted, Open, Has
      <3>2. /\ m \in inbox[o] => m \in inbox'[o] \/ Has(o, m)' \/ m.entry.origin = o
            /\ InFlight(m) => InFlight(m)' \/ m \in inbox'[o] \/ Has(o, m)'
                              \/ m.entry.origin = o
        BY Zenon, <1>4, <2>1 DEF HandsOn
      <3> QED BY Zenon, <1>1, <1>2, <1>4, <2>1, <3>1, <3>2
    <2>2. CASE m \notin issued
      BY Zenon, <1>4, <2>2 DEF HandsOn
    <2> QED BY Zenon, <2>1, <2>2
  <1>5. Accounted'
    BY Zenon, <1>4 DEF Accounted, Open, Has
  <1> QED BY Zenon, <1>3, <1>5

\* Steps that issue nothing, move no message and open no pod.
LEMMA HandsOnQuiet ==
  ASSUME \A o \in Node : Rises(o), \A o \in Node : Open(o)' => Open(o),
         issued' = issued, inbox' = inbox, lost' = lost,
         \A m : InFlight(m) => InFlight(m)'
  PROVE  HandsOn
  BY Zenon DEF HandsOn

LEMMA HandsOnBegin ==
  ASSUME TypeOK, \A o \in Node : Rises(o), NEW n \in Node, NEW k \in Key,
         NEW tomb, NEW v, Begin(n, k, tomb, v)
  PROVE  HandsOn
  <1>1. \A o \in Node : calls[o] \subseteq calls'[o]
    BY SMTT(30) DEF Begin, TypeOK
  <1>2. \A m : InFlight(m) => InFlight(m)'
    BY Zenon, <1>1 DEF InFlight
  <1>3. issued' = issued /\ inbox' = inbox /\ lost' = lost /\ life' = life
    BY Zenon DEF Begin
  <1> QED BY Zenon, <1>2, <1>3, HandsOnQuiet DEF Open

LEMMA HandsOnApply ==
  ASSUME TypeOK, OwnCalls, \A o \in Node : Rises(o), NEW n \in Node,
         NEW c \in calls[n], ApplyLocal(n, c)
  PROVE  HandsOn
  <1>0. c \in Call /\ ~c.applied
    BY Zenon DEF TypeOK, ApplyLocal
  <1>1. \A o \in Node : calls[o] \ {c} \subseteq calls'[o]
    BY DEF ApplyLocal, TypeOK
  <1>2. \A x : InFlight(x) => InFlight(x)'
    BY Zenon, <1>0, <1>1 DEF InFlight
  <1>3. PICK m \in c.msgs :
          LET cur == data[n][m.key] IN
          IF lwwAccept(cur, m.entry)
          THEN /\ Put(n, m.key, Merged(cur, m.entry))
               /\ issued' = issued \cup {m}
               /\ calls' = [calls EXCEPT ![n] =
                              (@ \ {c}) \cup {[c EXCEPT !.applied = TRUE]}]
          ELSE /\ calls' = [calls EXCEPT ![n] = @ \ {c}]
               /\ UNCHANGED <<data, high, issued>>
    BY Zenon DEF ApplyLocal
  <1>4. inbox' = inbox /\ lost' = lost /\ life' = life
    BY Zenon DEF ApplyLocal
  <1>5. CASE issued' = issued
    BY Zenon, <1>2, <1>4, <1>5, HandsOnQuiet DEF Open
  <1>6. CASE lwwAccept(data[n][m.key], m.entry)
    <2>1. m \in Msg /\ m.key \in Key /\ m.entry \in Entry /\ m.entry.origin = n
      BY Zenon, <1>0 DEF Call, Msg, OwnCalls
    <2>2. InFlight(m)'
      <3>1. [c EXCEPT !.applied = TRUE] \in calls'[n]
        BY <1>3, <1>6 DEF TypeOK
      <3>2. [c EXCEPT !.applied = TRUE].applied /\ m \in [c EXCEPT !.applied = TRUE].msgs
        BY Zenon, <1>0 DEF Call
      <3> QED BY Zenon, <3>1, <3>2 DEF InFlight
    <2>3. Covers(high'[n][m.key], m.entry)
      <3> DEFINE e == Merged(data[n][m.key], m.entry)
      <3>1. e \in Entry /\ SameStamp(e, m.entry) /\ high[n][m.key] \in Slot
        BY Zenon, <2>1, MergedEntry, Slots
      <3>2. ~Newer(m.entry, e)
        BY Zenon, <2>1, <3>1, NewerIsTotal
      <3>3. high'[n][m.key] = Adopt(high[n][m.key], e)
        BY <1>3, <1>6, <2>1 DEF Put, TypeOK, Map
      <3> HIDE DEF e
      <3> QED BY Zenon, <2>1, <3>1, <3>2, <3>3, AdoptCoversOlder
    <2>4. issued' = issued \cup {m}
      BY Zenon, <1>3, <1>6
    <2>5. \A o \in Node : Has(o, m)' \/ (InFlight(m)' /\ m.entry.origin # o)
      BY Zenon, <2>1, <2>2, <2>3 DEF Has
    <2> QED BY Zenon, <1>2, <1>4, <2>4, <2>5 DEF HandsOn, Open
  <1> QED BY Zenon, <1>3, <1>5, <1>6

LEMMA HandsOnBatch ==
  ASSUME TypeOK, \A o \in Node : Rises(o), NEW n \in Node, NEW J \in SUBSET Key,
         NEW s, NEW new, BatchStep(n, J, s, new)
  PROVE  HandsOn
  <1> DEFINE M == MsgsOf(new, Won(n, new))
  <1>1. new \in [J -> Entry] /\ Stores(n, Won(n, new), new) /\ Fresh(n, J, s, new)
    BY Zenon DEF BatchStep, Fresh
  <1>2. \A m \in M : /\ m \in Msg /\ m.key \in J /\ m.key \in Won(n, new)
                     /\ m.entry = new[m.key]
    BY Zenon, <1>1, WonMsgs
  <1>3. ASSUME NEW m \in M PROVE Covers(high'[n][m.key], m.entry)
    <2> DEFINE e == Merged(data[n][m.key], m.entry)
    <2>1. m.key \in Key /\ m.entry \in Entry /\ m.key \in Won(n, new)
      BY Zenon, <1>2, MsgFields
    <2>2. e \in Entry /\ SameStamp(e, m.entry) /\ high[n][m.key] \in Slot
      BY Zenon, <2>1, MergedEntry, Slots
    <2>3. ~Newer(m.entry, e)
      BY Zenon, <2>1, <2>2, NewerIsTotal
    <2>4. high'[n][m.key] = Adopt(high[n][m.key], e)
      BY Zenon, <1>1, <1>2, <2>1 DEF Stores
    <2> HIDE DEF e
    <2> QED BY Zenon, <2>1, <2>2, <2>3, <2>4, AdoptCoversOlder
  <1>4. \A m \in M : m.entry.origin = n
    BY SMTT(30), <1>1, <1>2 DEF Fresh
  <1>5. inbox' = inbox /\ life' = life /\ issued' = issued \cup M
    BY Zenon DEF BatchStep
  <1>6. CASE lost' = lost /\ calls' = [calls EXCEPT ![n] = @ \cup {[applied |-> TRUE, msgs |-> M]}]
    <2> HIDE DEF M
    <2>1. \A o \in Node : calls[o] \subseteq calls'[o]
      BY Zenon, <1>6 DEF TypeOK
    <2>2. [applied |-> TRUE, msgs |-> M] \in calls'[n]
      BY Zenon, <1>6 DEF TypeOK
    <2>3. \A m : InFlight(m) \/ m \in M => InFlight(m)'
      BY Zenon, <2>1, <2>2 DEF InFlight
    <2> QED BY Zenon, <1>3, <1>4, <1>5, <1>6, <2>3 DEF HandsOn, Open, Has
  <1>7. CASE calls' = calls /\ lost' = LoseToOthers(n, M)
    <2> HIDE DEF M
    <2>1. \A o \in Node : lost'[o] = IF o = n THEN lost[o] ELSE lost[o] \cup M
      BY Zenon, <1>7 DEF LoseToOthers
    <2>2. \A m : InFlight(m) => InFlight(m)'
      BY Zenon, <1>7 DEF InFlight
    <2> QED BY Zenon, <1>3, <1>4, <1>5, <2>1, <2>2 DEF HandsOn, Open, Has
  <1> QED BY Zenon, <1>6, <1>7 DEF BatchStep

LEMMA HandsOnPublish ==
  ASSUME TypeOK, OwnCalls, \A o \in Node : Rises(o), NEW n \in Node,
         NEW c \in calls[n], Publish(n, c) \/ PublishFails(n, c) \/ Return(n, c)
  PROVE  HandsOn
  <1>0. c \in Call /\ \A x \in c.msgs : x.entry.origin = n
    BY Zenon DEF TypeOK, OwnCalls
  <1>1. \A o \in Node : calls[o] \ {c} \subseteq calls'[o] /\ (o # n => calls'[o] = calls[o])
    BY DEF Publish, PublishFails, Return, TypeOK
  <1>2. \A x : InFlight(x) => InFlight(x)' \/ (c.applied /\ x \in c.msgs)
    BY Zenon, <1>1 DEF InFlight
  <1>3. issued' = issued /\ life' = life
    BY Zenon DEF Publish, PublishFails, Return
  <1>4. ASSUME NEW m, inbox' = Sent(n, m)
        PROVE  \A o \in Node : /\ inbox[o] \subseteq inbox'[o]
                               /\ Open(o) /\ o # n => m \in inbox'[o]
    BY Zenon, <1>4 DEF Sent, Receivers, Subscribed, Open
  <1>5. CASE Publish(n, c)
    <2>1. PICK m \in c.msgs : /\ inbox' = Sent(n, m)
                              /\ calls' = [calls EXCEPT ![n] =
                                   (@ \ {c}) \cup {[c EXCEPT !.msgs = @ \ {m}]}]
      BY Zenon, <1>5 DEF Publish
    <2> DEFINE d == [c EXCEPT !.msgs = @ \ {m}]
    <2>2. d \in calls'[n] /\ d.applied = c.applied /\ d.msgs = c.msgs \ {m}
      BY Zenon, <1>0, <2>1 DEF TypeOK, Call
    <2> HIDE DEF d
    <2>3. \A x : InFlight(x) => InFlight(x)' \/ x = m
      BY Zenon, <1>2, <2>2 DEF InFlight
    <2>4. lost' = lost
      BY Zenon, <1>5 DEF Publish
    <2> QED BY Zenon, <1>0, <1>3, <1>4, <2>1, <2>3, <2>4 DEF HandsOn, Open
  <1>6. CASE PublishFails(n, c)
    <2>1. PICK m \in c.msgs :
            \/ inbox' = Sent(n, m) /\ lost' = LoseToOthers(n, c.msgs \ {m})
            \/ inbox' = inbox /\ lost' = LoseToOthers(n, c.msgs)
      BY Zenon, <1>6 DEF PublishFails
    <2>2. \A o \in Node : inbox[o] \subseteq inbox'[o] /\ lost[o] \subseteq lost'[o]
      BY Zenon, <1>4, <2>1 DEF LoseToOthers
    <2>3. \A o \in Node : Open(o) /\ o # n =>
            \A x \in c.msgs : x \in inbox'[o] \/ x \in lost'[o]
      BY Zenon, <1>4, <2>1 DEF LoseToOthers
    <2> QED BY Zenon, <1>0, <1>2, <1>3, <2>2, <2>3 DEF HandsOn, Open, Has
  <1>7. CASE Return(n, c)
    <2>1. c.msgs = {} /\ inbox' = inbox /\ lost' = lost
      BY Zenon, <1>7 DEF Return
    <2> QED BY Zenon, <1>2, <1>3, <2>1, HandsOnQuiet DEF Open
  <1> QED BY Zenon, <1>5, <1>6, <1>7

LEMMA HandsOnDeliver ==
  ASSUME TypeOK, HighCovers, \A o \in Node : Rises(o), NEW n \in Node,
         NEW m \in inbox[n], Deliver(n, m) \/ Drop(n, m)
  PROVE  HandsOn
  <1>1. m \in Msg /\ m.key \in Key /\ m.entry \in Entry
    BY DEF TypeOK, Msg
  <1>2. /\ issued' = issued /\ life' = life /\ calls' = calls
        /\ \A o \in Node : \/ inbox[o] \subseteq inbox'[o]
                           \/ o = n /\ inbox[n] \ {m} \subseteq inbox'[n]
        /\ \A o \in Node : lost[o] \subseteq lost'[o]
    BY SMTT(30) DEF Deliver, Drop, TypeOK
  <1>3. Has(n, m)' \/ m.entry.origin = n
    <2>1. CASE Drop(n, m)
      BY Zenon, <2>1 DEF Drop, TypeOK, Has
    <2>2. CASE Deliver(n, m) /\ lwwAccept(data[n][m.key], m.entry) /\ m.entry.origin # n
      <3> DEFINE e == Merged(data[n][m.key], m.entry)
      <3>1. e \in Entry /\ SameStamp(e, m.entry) /\ high[n][m.key] \in Slot
        BY Zenon, <1>1, MergedEntry, Slots
      <3>2. ~Newer(m.entry, e)
        BY Zenon, <1>1, <3>1, NewerIsTotal
      <3>3. high'[n][m.key] = Adopt(high[n][m.key], e)
        <4>1. high' = [high EXCEPT ![n][m.key] = Adopt(@, e)]
          BY Zenon, <2>2 DEF Deliver, Put
        <4>2. high[n] \in Map /\ DOMAIN high = Node
          BY Zenon DEF TypeOK
        <4> QED BY Zenon, <1>1, <4>1, <4>2 DEF Map
      <3> HIDE DEF e
      <3> QED BY Zenon, <1>1, <3>1, <3>2, <3>3, AdoptCoversOlder DEF Has
    <2>3. CASE Deliver(n, m) /\ ~lwwAccept(data[n][m.key], m.entry)
      <3>1. /\ data[n][m.key] \in Entry /\ ~Newer(m.entry, data[n][m.key])
            /\ high'[n][m.key] = high[n][m.key]
        BY Zenon, <1>1, <2>3, Slots DEF Deliver, lwwAccept, Slot
      <3>2. high[n][m.key] \in Entry /\ ~Newer(data[n][m.key], high[n][m.key])
        BY <1>1, <3>1, Slots, EntryIsSlot DEF HighCovers, Covers, Slot
      <3> QED BY Zenon, <1>1, <3>1, <3>2, NotNewerTransitive, EntryIsSlot DEF Covers, Has
    <2> QED BY Zenon, <2>1, <2>2, <2>3
  <1>4. \A x : InFlight(x) => InFlight(x)'
    BY Zenon, <1>2 DEF InFlight
  <1> QED BY Zenon, <1>2, <1>3, <1>4 DEF HandsOn, Open

\* The process of pod n is gone.
LEMMA Wiped ==
  ASSUME TypeOK, NEW n \in Node, Crash(n)
  PROVE  /\ life'[n] = "down" /\ calls'[n] = {} /\ data'[n] = EmptyMap
         /\ high'[n] = EmptyMap /\ fetched'[n] = EmptyMap
         /\ \A o \in Node \ {n} :
              /\ life'[o] = life[o] /\ calls'[o] = calls[o] /\ fetched'[o] = fetched[o]
              /\ data'[o] = data[o] /\ high'[o] = high[o]
  <1>1. /\ life' = [life EXCEPT ![n] = "down"] /\ calls' = [calls EXCEPT ![n] = {}]
        /\ data' = [data EXCEPT ![n] = EmptyMap] /\ high' = [high EXCEPT ![n] = EmptyMap]
        /\ fetched' = [fetched EXCEPT ![n] = EmptyMap]
    BY Zenon DEF Crash
  <1>2. /\ DOMAIN life = Node /\ DOMAIN calls = Node /\ DOMAIN data = Node
        /\ DOMAIN high = Node /\ DOMAIN fetched = Node
    BY Zenon DEF TypeOK
  <1> QED BY Zenon, <1>1, <1>2

\* So are its unpublished writes.
LEMMA HandsOnCrash ==
  ASSUME TypeOK, NEW n \in Node, Crash(n)
  PROVE  HandsOn
  <1> DEFINE M == UNION {c.msgs : c \in {d \in calls[n] : d.applied}}
  <1>1. /\ issued' = issued /\ ~Open(n)'
        /\ \A o \in Node \ {n} : /\ Open(o)' <=> Open(o)
                                 /\ high'[o] = high[o] /\ inbox'[o] = inbox[o]
                                 /\ calls'[o] = calls[o]
    BY Zenon DEF Crash, TypeOK, Open
  <1>2. \A o \in Node \ {n} : lost'[o] = lost[o] \cup M
    BY Zenon DEF Crash, LoseToOthers
  <1>3. \A x : InFlight(x) => InFlight(x)' \/ x \in M
    BY Zenon, <1>1 DEF InFlight
  <1> HIDE DEF M
  <1> QED BY Zenon, <1>1, <1>2, <1>3 DEF HandsOn, Rises, Has

\* A pod that subscribes owes itself every write that is out already.
LEMMA SubscribeAccounts ==
  ASSUME TypeOK, OwnCalls, Blank, OwnKept, Accounted, NEW n \in Node, Subscribe(n)
  PROVE  OwnKept' /\ Accounted'
  <1>1. /\ issued' = issued /\ high' = high /\ inbox' = inbox /\ calls' = calls
        /\ calls[n] = {}
        /\ \A o \in Node \ {n} : life'[o] = life[o] /\ lost'[o] = lost[o]
        /\ lost'[n] = {m \in issued : ~InFlight(m)}
    BY Zenon DEF Subscribe, TypeOK, Blank
  <1>2. \A m \in issued : m.entry.origin = n => ~InFlight(m)
    <2>1. ASSUME NEW m \in issued, InFlight(m) PROVE m.entry.origin # n
      <3>1. PICK o \in Node : \E c \in calls[o] : m \in c.msgs
        BY Zenon, <2>1 DEF InFlight
      <3>2. m.entry.origin = o
        BY Zenon, <3>1 DEF OwnCalls
      <3>3. o # n
        BY Zenon, <1>1, <3>1
      <3> QED BY Zenon, <3>2, <3>3
    <2> QED BY Zenon, <2>1
  <1>3. \A m : InFlight(m)' <=> InFlight(m)
    BY Zenon, <1>1 DEF InFlight
  <1>4. OwnKept'
    BY Zenon, <1>1, <1>2 DEF OwnKept, Has, Open
  <1>5. Accounted'
    BY Zenon, <1>1, <1>3 DEF Accounted
  <1> QED BY Zenon, <1>4, <1>5

LEMMA BlankNext ==
  ASSUME TypeOK, Blank, NEW n \in Node, PodStep(n), CellSteps(n) \/ Crash(n), TypeOK'
  PROVE  Blank'
  <1> DEFINE Empty(o) == /\ calls[o] = {} /\ data[o] = EmptyMap
                         /\ high[o] = EmptyMap /\ fetched[o] = EmptyMap
  <1>1. ASSUME \A o \in Node \ {n} : /\ life'[o] = life[o] /\ calls'[o] = calls[o]
                                     /\ fetched'[o] = fetched[o]
                                     /\ data'[o] = data[o] /\ high'[o] = high[o],
               life'[n] \in {"down", "joining"} => Empty(n)'
        PROVE  Blank'
    BY <1>1 DEF Blank
  <1>2. \A o \in Node \ {n} : data'[o] = data[o] /\ high'[o] = high[o]
    <2>1. CASE CellSteps(n)
      <3>1. ASSUME NEW o \in Node \ {n}, NEW k \in Key
            PROVE  data'[o][k] = data[o][k] /\ high'[o][k] = high[o][k]
        BY Zenon, <2>1 DEF CellSteps
      <3> QED BY <3>1 DEF TypeOK, Map
    <2>2. CASE Crash(n)
      BY Zenon, <2>2, Wiped
    <2> QED BY Zenon, <2>1, <2>2
  <1>3. \A o \in Node \ {n} :
          life'[o] = life[o] /\ calls'[o] = calls[o] /\ fetched'[o] = fetched[o]
    <2>0. DOMAIN life = Node /\ DOMAIN calls = Node /\ DOMAIN fetched = Node
      BY Zenon DEF TypeOK
    <2>1. ASSUME NEW K \in SUBSET Key, NEW vals \in [K -> Value],
                 \/ Many(n, K, TRUE, vals) \/ Many(n, K, FALSE, vals)
                 \/ ManyFails(n, K, vals) \/ Seed(n, K, vals)
          PROVE  \A o \in Node \ {n} :
                   life'[o] = life[o] /\ calls'[o] = calls[o] /\ fetched'[o] = fetched[o]
      BY Zenon, <2>0, <2>1 DEF Many, ManyFails, Seed
    <2>2. CASE \E k \in Key : Delete(n, k) \/ \E v \in Value : Set(n, k, v)
      BY Zenon, <2>0, <2>2 DEF Delete, Set, Begin
    <2>3. CASE \E c \in calls[n] : \/ ApplyLocal(n, c) \/ Publish(n, c)
                                   \/ Return(n, c) \/ PublishFails(n, c)
      BY Zenon, <2>0, <2>3 DEF ApplyLocal, Publish, Return, PublishFails
    <2>4. CASE \/ \E m \in inbox[n] : Deliver(n, m) \/ Drop(n, m)
               \/ gcTombstones(n) \/ Tick(n)
      BY Zenon, <2>4 DEF Deliver, Drop, gcTombstones, Tick
    <2>5. CASE (\E K \in SUBSET Key : mergeSnapshot(n, K)) \/ Fetch(n)
      BY Zenon, <2>0, <2>5 DEF mergeSnapshot, Fetch
    <2>6. CASE Close(n) \/ Subscribe(n) \/ loadSnapshot(n) \/ loadFails(n)
      BY Zenon, <2>0, <2>6 DEF Close, Subscribe, loadSnapshot, loadFails
    <2>7. CASE Crash(n)
      BY Zenon, <2>7, Wiped
    <2>8. CASE Snapshotting(n)
      <3>1. calls' = calls /\ fetched' = fetched
        BY Zenon, <2>8 DEF Snapshotting, Wake, Debounced, finalFlush, Store
      <3>2. life' = life \/ life' = [life EXCEPT ![n] = "closed"]
        BY Zenon, <2>8 DEF Snapshotting, Wake, Debounced, finalFlush, Store
      <3> QED BY Zenon, <2>0, <3>1, <3>2
    <2> QED BY Zenon, <2>1, <2>2, <2>4, <2>8, <2>3, <2>5, <2>6, <2>7
            DEF PodStep
  <1>4. life'[n] \in {"down", "joining"} => Empty(n)'
    <2>1. ASSUME life[n] \notin {"down", "joining"}, life' = life
          PROVE  life'[n] \notin {"down", "joining"}
      BY Zenon, <2>1
    <2>2. life[n] \in {"down", "joining"} => Empty(n)
      BY Zenon DEF Blank
    <2>3. ASSUME NEW K \in SUBSET Key, NEW vals \in [K -> Value],
                 \/ Many(n, K, TRUE, vals) \/ Many(n, K, FALSE, vals)
                 \/ ManyFails(n, K, vals) \/ Seed(n, K, vals)
          PROVE  life'[n] \notin {"down", "joining"}
      BY Zenon, <2>1, <2>3 DEF Many, ManyFails, Seed, MayWrite
    <2>4. CASE \E k \in Key : Delete(n, k) \/ \E v \in Value : Set(n, k, v)
      BY Zenon, <2>1, <2>4 DEF Delete, Set, Begin, MayWrite
    <2>5. CASE \E c \in calls[n] : \/ ApplyLocal(n, c) \/ Publish(n, c)
                                   \/ Return(n, c) \/ PublishFails(n, c)
      BY <2>2, <2>5 DEF ApplyLocal, Publish, Return, PublishFails
    <2>6. CASE \/ \E m \in inbox[n] : Deliver(n, m)
               \/ \E K \in SUBSET Key : mergeSnapshot(n, K)
               \/ gcTombstones(n) \/ Fetch(n) \/ Close(n) \/ loadSnapshot(n)
      BY <2>2, <2>6 DEF Deliver, mergeSnapshot, gcTombstones, Fetch, Close,
                        loadSnapshot, TypeOK
    <2>7. CASE \/ \E m \in inbox[n] : Drop(n, m)
               \/ Subscribe(n) \/ loadFails(n) \/ Tick(n)
      BY Zenon, <2>2, <2>7 DEF Drop, Subscribe, loadFails, Tick, TypeOK
    <2>8. CASE Wake(n) \/ Debounced(n) \/ finalFlush(n)
      BY Zenon, <2>8 DEF Wake, Debounced, finalFlush, TypeOK
    <2>9. CASE Store(n)
      BY <2>2, <2>9 DEF Store, TypeOK
    <2>10. CASE Crash(n)
      BY Zenon, <2>10, Wiped
    <2> QED BY Zenon, <2>3, <2>4, <2>5, <2>6, <2>7, <2>8, <2>9, <2>10 DEF PodStep, Snapshotting
  <1> QED BY Zenon, <1>1, <1>2, <1>3, <1>4

AccInv == Blank /\ HighCovers /\ OwnKept /\ Accounted

LEMMA AccNext ==
  ASSUME TypeOK, TypeOK', StampInv, AccInv, [Next]_vars
  PROVE  AccInv'
  <1>0. OwnCalls /\ Blank /\ HighCovers /\ OwnKept /\ Accounted
    BY Zenon DEF StampInv, AccInv
  <1>1. ASSUME NEW n \in Node, PodStep(n) PROVE AccInv'
    <2>1. CellSteps(n) \/ Crash(n)
      BY Zenon, <1>0, <1>1, StepsAreCellSteps
    <2>2. Blank'
      BY Zenon, <1>0, <1>1, <2>1, BlankNext
    <2>3. CASE Crash(n)
      <3>1. HighCovers'
        <4>1. data'[n] = EmptyMap
          BY Zenon, <2>3, Wiped
        <4>2. \A o \in Node \ {n} : data'[o] = data[o] /\ high'[o] = high[o]
          BY Zenon, <2>3, Wiped
        <4>3. \A k \in Key : data'[n][k] = NoEntry
          BY Zenon, <4>1 DEF EmptyMap
        <4> QED BY Zenon, <1>0, <4>2, <4>3 DEF HighCovers
      <3> QED BY Zenon, <1>0, <2>2, <2>3, <3>1, HandsOnCrash, HandedOn DEF AccInv
    <2>4. CASE CellSteps(n) /\ ~Crash(n)
      <3>1. HighCovers' /\ \A o \in Node : Rises(o)
        BY Zenon, <1>0, <2>4, HighRises
      <3>2. CASE Subscribe(n)
        BY Zenon, <1>0, <2>2, <3>1, <3>2, SubscribeAccounts DEF AccInv
      <3>3. ASSUME HandsOn PROVE AccInv'
        BY Zenon, <1>0, <2>2, <3>1, <3>3, HandedOn DEF AccInv
      <3>4. CASE \E k \in Key : Delete(n, k) \/ \E v \in Value : Set(n, k, v)
        BY Zenon, <3>1, <3>3, <3>4, HandsOnBegin DEF Delete, Set
      <3>5. CASE \E c \in calls[n] : \/ ApplyLocal(n, c) \/ Publish(n, c)
                                     \/ Return(n, c) \/ PublishFails(n, c)
        BY Zenon, <1>0, <3>1, <3>3, <3>5, HandsOnApply, HandsOnPublish
      <3>6. ASSUME NEW K \in SUBSET Key, NEW vals \in [K -> Value],
                   \/ Many(n, K, TRUE, vals) \/ Many(n, K, FALSE, vals)
                   \/ ManyFails(n, K, vals) \/ Seed(n, K, vals)
            PROVE  AccInv'
        BY Zenon, <3>1, <3>3, <3>6, BatchSteps, HandsOnBatch
      <3>7. CASE \E m \in inbox[n] : Deliver(n, m) \/ Drop(n, m)
        BY Zenon, <1>0, <3>1, <3>3, <3>7, HandsOnDeliver
      <3>8. CASE \/ \E K \in SUBSET Key : mergeSnapshot(n, K)
                 \/ Snapshotting(n) \/ gcTombstones(n) \/ Fetch(n) \/ Close(n)
                 \/ loadSnapshot(n) \/ Tick(n)
        <4>1. UNCHANGED <<calls, issued, inbox, lost>>
          BY <3>8 DEF mergeSnapshot, Snapshotting, Wake, Debounced, finalFlush, Store,
                      gcTombstones, Fetch, Close, loadSnapshot, Tick
        <4>2. \A o \in Node : Open(o)' => Open(o)
          BY Zenon, <3>8 DEF mergeSnapshot, Snapshotting, Wake, Debounced, finalFlush, Store,
                      gcTombstones, Fetch, Close, loadSnapshot, Tick, TypeOK, Open
        <4>3. \A m : InFlight(m) => InFlight(m)'
          BY Zenon, <4>1 DEF InFlight
        <4> QED BY <3>1, <3>3, <4>1, <4>2, <4>3, HandsOnQuiet
      <3>9. CASE loadFails(n)
        <4>1. /\ calls' = calls /\ issued' = issued /\ ~Open(n)'
              /\ \A o \in Node \ {n} : /\ life'[o] = life[o] /\ inbox'[o] = inbox[o]
                                       /\ lost'[o] = lost[o]
          <5>1. DOMAIN life = Node /\ DOMAIN inbox = Node /\ DOMAIN lost = Node
            BY Zenon DEF TypeOK
          <5> QED BY Zenon, <3>9, <5>1 DEF loadFails, Open
        <4>2. \A m : InFlight(m) => InFlight(m)'
          BY Zenon, <4>1 DEF InFlight
        <4>3. HandsOn
          BY Zenon, <3>1, <4>1, <4>2 DEF HandsOn, Open
        <4> QED BY Zenon, <3>3, <4>3
      <3> QED BY Zenon, <1>1, <2>4, <3>2, <3>4, <3>5, <3>6, <3>7, <3>8, <3>9 DEF PodStep
    <2> QED BY Zenon, <2>1, <2>3, <2>4
  <1>2. CASE UNCHANGED vars
    BY Zenon, <1>0, <1>2 DEF vars, program, AccInv, Blank, HighCovers, OwnKept, Accounted, Open,
                      Has, InFlight
  <1> QED BY Zenon, <1>1, <1>2, NextCases

LEMMA AccInvariant == Spec => [](TypeOK /\ StampInv /\ AccInv)
  <1>1. Init => AccInv
    BY DEF Init, AccInv, Blank, HighCovers, OwnKept, Accounted, Open, EmptyMap
  <1> QED BY <1>1, StampInvariant, AccNext, PTL DEF Spec

\* Every write is at every open pod, on its way there, still to be published, or
\* among those that a failure is known to have cost the pod: no interleaving of
\* writers, loops, joins and restarts loses one silently.
THEOREM WritesAreAccounted == Spec => []Accounted
  <1>1. AccInv => Accounted
    BY Zenon DEF AccInv
  <1> QED BY <1>1, AccInvariant, PTL

----------------------------------------------------------------------------
(* Without a merger, every entry anywhere is a write that was made.        *)

From(map, I) == \A k \in Key : map[k] = NoEntry \/ [key |-> k, entry |-> map[k]] \in I

\* The same for every pod's map.
AllFrom(maps, I) == \A n \in Node : From(maps[n], I)

Messages ==
  \A n \in Node :
    /\ inbox[n] \subseteq issued
    /\ \A c \in calls[n] : IF c.applied THEN c.msgs \subseteq issued
                           ELSE \A x, y \in c.msgs : x = y

Provenance ==
  /\ AllFrom(stored, issued) /\ AllFrom(data, issued) /\ AllFrom(high, issued)
  /\ AllFrom(buf, issued) /\ AllFrom(fetched, issued)
  /\ Messages

LEMMA FromMore ==
  ASSUME NEW I, NEW I2, I \subseteq I2
  PROVE  /\ \A map : From(map, I) => From(map, I2)
         /\ \A maps : AllFrom(maps, I) => AllFrom(maps, I2)
  BY Zenon DEF From, AllFrom

\* The new entries of a step are writes that were made.
LEMMA FromCells ==
  ASSUME TypeOK, AllFrom(data, issued), AllFrom(high, issued), issued \subseteq issued',
         NEW n \in Node, CellSteps(n),
         \A k \in Key : \/ data'[n][k] \in {data[n][k], NoEntry}
                        \/ [key |-> k, entry |-> data'[n][k]] \in issued'
  PROVE  AllFrom(data', issued') /\ AllFrom(high', issued')
  <1> SUFFICES ASSUME NEW o \in Node, NEW k \in Key
               PROVE  /\ data'[o][k] = NoEntry \/ [key |-> k, entry |-> data'[o][k]] \in issued'
                      /\ high'[o][k] = NoEntry \/ [key |-> k, entry |-> high'[o][k]] \in issued'
    BY Zenon DEF AllFrom, From
  <1>1. /\ data[o][k] = NoEntry \/ [key |-> k, entry |-> data[o][k]] \in issued'
        /\ high[o][k] = NoEntry \/ [key |-> k, entry |-> high[o][k]] \in issued'
    BY Zenon DEF AllFrom, From
  <1>2. data'[o][k] = NoEntry \/ [key |-> k, entry |-> data'[o][k]] \in issued'
    BY Zenon, <1>1 DEF CellSteps
  <1>3. high'[o][k] \in {high[o][k], data'[o][k]}
    BY Zenon DEF CellSteps, CellStep, Adopt
  <1> QED BY Zenon, <1>1, <1>2, <1>3

\* What a step may do to the entries of its pod: take over writes that were made
\* before, collect, or make new ones.
Learns(n) ==
  /\ issued' = issued
  /\ \A k \in Key : \/ data'[n][k] = data[n][k]
                    \/ [key |-> k, entry |-> data'[n][k]] \in issued

Forgets(n) == issued' = issued /\ \A k \in Key : data'[n][k] \in {data[n][k], NoEntry}

Makes(n, M) ==
  /\ M \in SUBSET Msg /\ issued' = issued \cup M /\ M \cap issued = {}
  /\ \A m \in M : /\ m.entry.origin = n
                  /\ lwwAccept(data[n][m.key], m.entry)
                  /\ data'[n][m.key] = m.entry
  /\ \A k \in Key : (\A m \in M : m.key # k) => data'[n][k] = data[n][k]

Kind(n) == Learns(n) \/ Forgets(n) \/ (\E M : Makes(n, M)) \/ Crash(n)

LEMMA KindSame ==
  ASSUME issued' = issued, data' = data
  PROVE  \A n : Kind(n)
  BY Zenon DEF Kind, Learns

LEMMA MsgIsPair == \A m \in Msg : m = [key |-> m.key, entry |-> m.entry]
  BY DEF Msg

LEMMA PutCells ==
  ASSUME ~UseMerger, TypeOK, NEW n \in Node, NEW m \in Msg,
         Put(n, m.key, Merged(data[n][m.key], m.entry))
  PROVE  \A k \in Key : data'[n][k] = IF k = m.key THEN m.entry ELSE data[n][k]
  <1>1. m.key \in Key /\ m.entry \in Entry
    BY Zenon, MsgFields
  <1>2. Merged(data[n][m.key], m.entry) = m.entry
    BY Zenon, <1>1, MergedEntry, Slots
  <1> QED BY Zenon, <1>1, <1>2 DEF Put, TypeOK, Map

LEMMA KindApply ==
  ASSUME ~UseMerger, TypeOK, OwnCalls, NEW n \in Node, NEW c \in calls[n],
         ApplyLocal(n, c)
  PROVE  Kind(n)
  <1>0. c \in Call
    BY Zenon DEF TypeOK
  <1>1. CASE UNCHANGED <<data, issued>>
    BY Zenon, <1>1, KindSame
  <1>2. ASSUME NEW m \in c.msgs, lwwAccept(data[n][m.key], m.entry),
               Put(n, m.key, Merged(data[n][m.key], m.entry)),
               issued' = issued \cup {m}
        PROVE  Kind(n)
    <2>1. m \in Msg /\ m.key \in Key /\ m.entry.origin = n
      BY Zenon, <1>0, MsgFields DEF Call, OwnCalls
    <2>2. \A k \in Key : data'[n][k] = IF k = m.key THEN m.entry ELSE data[n][k]
      BY Zenon, <1>2, <2>1, PutCells
    <2>3. CASE m \in issued
      <3>1. issued' = issued
        BY Zenon, <1>2, <2>3
      <3>2. [key |-> m.key, entry |-> m.entry] \in issued
        BY Zenon, <2>1, <2>3, MsgIsPair
      <3> QED BY Zenon, <2>2, <3>1, <3>2 DEF Kind, Learns
    <2>4. CASE m \notin issued
      <3>1. Makes(n, {m})
        BY Zenon, <1>2, <2>1, <2>2, <2>4 DEF Makes
      <3> QED BY Zenon, <3>1 DEF Kind
    <2> QED BY Zenon, <2>3, <2>4
  <1> QED BY Zenon, <1>1, <1>2 DEF ApplyLocal

LEMMA KindBatch ==
  ASSUME ~UseMerger, TypeOK, StampInv, NEW n \in Node, NEW J \in SUBSET Key, NEW s,
         NEW new, BatchStep(n, J, s, new)
  PROVE  Kind(n)
  <1> DEFINE M == MsgsOf(new, Won(n, new))
  <1>1. new \in [J -> Entry] /\ Stores(n, Won(n, new), new) /\ Fresh(n, J, s, new)
    BY Zenon DEF BatchStep, Fresh
  <1>2. \A m \in M : /\ m \in Msg /\ m.key \in J /\ m.key \in Won(n, new)
                     /\ m.entry = new[m.key]
    BY Zenon, <1>1, WonMsgs
  <1>3. \A k \in Won(n, new) : k \in J /\ lwwAccept(data[n][k], new[k])
    BY Zenon, <1>1, WonAre
  <1>4. \A k \in Won(n, new) : \E m \in M : m.key = k
    <2> SUFFICES ASSUME NEW k \in Won(n, new) PROVE \E m \in M : m.key = k
      BY Zenon
    <2>1. [key |-> k, entry |-> new[k]] \in M
      BY Zenon DEF MsgsOf
    <2>2. [key |-> k, entry |-> new[k]].key = k
      BY Zenon
    <2> HIDE DEF M
    <2> QED BY Zenon, <2>1, <2>2
  <1>5. \A k \in Won(n, new) : data'[n][k] = new[k]
    <2> SUFFICES ASSUME NEW k \in Won(n, new) PROVE data'[n][k] = new[k]
      BY Zenon
    <2>1. k \in Key /\ new[k] \in Entry
      BY Zenon, <1>1, <1>3
    <2>2. Merged(data[n][k], new[k]) = new[k]
      BY Zenon, <2>1, MergedEntry, Slots
    <2> QED BY Zenon, <1>1, <2>1, <2>2 DEF Stores
  <1>6. \A k \in Key : k \notin Won(n, new) => data'[n][k] = data[n][k]
    BY Zenon, <1>1 DEF Stores
  <1>7. ASSUME NEW m \in M, m \in issued PROVE FALSE
    <2>1. Drawn(m) /\ m \in Msg
      BY Zenon, <1>2, <1>7 DEF StampInv, Written
    <2>2. /\ m.entry.origin = n /\ born[n] <= m.entry.ts /\ seq[n] < m.entry.seq
      BY <1>1, <1>2 DEF Fresh
    <2> QED BY SMTT(30), <2>1, <2>2, MsgFields DEF Drawn, TypeOK
  <1>8. issued' = issued \cup M
    BY Zenon DEF BatchStep
  <1>9. \A m \in M : m.entry.origin = n
    BY Zenon, <1>1, <1>2 DEF Fresh
  <1> HIDE DEF M
  <1>10. Makes(n, M)
    BY Zenon, <1>2, <1>3, <1>4, <1>5, <1>6, <1>7, <1>8, <1>9 DEF Makes
  <1> QED BY Zenon, <1>10 DEF Kind

LEMMA KindDeliver ==
  ASSUME ~UseMerger, TypeOK, Provenance, NEW n \in Node, NEW m \in inbox[n],
         Deliver(n, m)
  PROVE  Kind(n)
  <1>1. m \in Msg /\ m \in issued
    BY Zenon DEF TypeOK, Provenance, Messages
  <1>2. issued' = issued
    BY Zenon DEF Deliver
  <1>3. CASE data' = data
    BY Zenon, <1>2, <1>3, KindSame
  <1>4. CASE Put(n, m.key, Merged(data[n][m.key], m.entry))
    <2>1. \A k \in Key : data'[n][k] = IF k = m.key THEN m.entry ELSE data[n][k]
      BY Zenon, <1>1, <1>4, PutCells
    <2>2. [key |-> m.key, entry |-> m.entry] \in issued
      BY Zenon, <1>1, MsgIsPair
    <2> QED BY Zenon, <1>2, <2>1, <2>2 DEF Kind, Learns
  <1> QED BY Zenon, <1>3, <1>4 DEF Deliver

LEMMA KindMerge ==
  ASSUME TypeOK, Provenance, NEW n \in Node, NEW K \in SUBSET Key, mergeSnapshot(n, K)
  PROVE  Kind(n)
  <1>1. \A k \in Key : \/ data'[n][k] = data[n][k]
                       \/ data'[n][k] = fetched[n][k] /\ fetched[n][k] # NoEntry
    BY Zenon DEF mergeSnapshot, Won, TypeOK
  <1>2. \A k \in Key : \/ fetched[n][k] = NoEntry
                       \/ [key |-> k, entry |-> fetched[n][k]] \in issued
    BY Zenon DEF Provenance, AllFrom, From
  <1>3. issued' = issued
    BY Zenon DEF mergeSnapshot
  <1> QED BY Zenon, <1>1, <1>2, <1>3 DEF Kind, Learns

LEMMA FromEmpty == \A I : From(EmptyMap, I)
  BY Zenon DEF From, EmptyMap

LEMMA AnswersFrom ==
  ASSUME NEW I, AllFrom(stored, I), NEW n \in Node, NEW snap \in Answers(n)
  PROVE  From(snap, I)
  BY Zenon, AnswersKept, FromEmpty DEF AllFrom

LEMMA KindLoad ==
  ASSUME TypeOK, Blank, Provenance, NEW n \in Node, loadSnapshot(n)
  PROVE  Kind(n)
  <1>0. PICK snap \in Answers(n) : data' = [data EXCEPT ![n] = snap]
    BY Zenon DEF loadSnapshot
  <1>1. /\ \A k \in Key : data[n][k] = NoEntry
        /\ data'[n] = snap
    BY <1>0 DEF Blank, loadSnapshot, EmptyMap, TypeOK
  <1>2. \A k \in Key : snap[k] = NoEntry \/ [key |-> k, entry |-> snap[k]] \in issued
    BY Zenon, AnswersFrom DEF Provenance, From
  <1>3. issued' = issued
    BY Zenon DEF loadSnapshot
  <1> QED BY Zenon, <1>1, <1>2, <1>3 DEF Kind, Learns

LEMMA KindCollect ==
  ASSUME TypeOK, NEW n \in Node, NEW K, issued' = issued,
         data' = [data EXCEPT ![n] = Collected(@, K)]
  PROVE  Kind(n)
  <1>1. \A k \in Key : data'[n][k] \in {data[n][k], NoEntry}
    BY Zenon DEF Collected, TypeOK
  <1> QED BY Zenon, <1>1 DEF Kind, Forgets

LEMMA StepKinds ==
  ASSUME ~UseMerger, TypeOK, StampInv, Blank, Provenance, NEW n \in Node, PodStep(n)
  PROVE  Kind(n)
  <1>0. OwnCalls
    BY Zenon DEF StampInv
  <1>1. ASSUME NEW K \in SUBSET Key, NEW vals \in [K -> Value],
               \/ Many(n, K, TRUE, vals) \/ Many(n, K, FALSE, vals)
               \/ ManyFails(n, K, vals) \/ Seed(n, K, vals)
        PROVE  Kind(n)
    BY Zenon, <1>1, BatchSteps, KindBatch
  <1>2. ASSUME Capture(n) \/ CaptureFails(n), issued' = issued PROVE Kind(n)
    BY Zenon, <1>2, KindCollect DEF Capture, CaptureFails
  <1>3. CASE Snapshotting(n)
    BY Zenon, <1>2, <1>3, KindSame DEF Snapshotting, Wake, Debounced, finalFlush, Store
  <1>4. CASE gcTombstones(n)
    BY Zenon, <1>4, KindCollect DEF gcTombstones
  <1>5. CASE \/ \E k \in Key : Delete(n, k) \/ \E v \in Value : Set(n, k, v)
             \/ \E c \in calls[n] : Publish(n, c) \/ Return(n, c) \/ PublishFails(n, c)
             \/ \E m \in inbox[n] : Drop(n, m)
             \/ Fetch(n) \/ Close(n) \/ Subscribe(n) \/ loadFails(n) \/ Tick(n)
    <2>1. data' = data /\ issued' = issued
      BY Zenon, <1>5 DEF Delete, Set, Begin, Publish, Return, PublishFails, Drop, Fetch,
                  Close, Subscribe, loadFails, Tick
    <2> QED BY Zenon, <2>1, KindSame
  <1>6. CASE Crash(n)
    BY Zenon, <1>6 DEF Kind
  <1> QED BY <1>0, <1>1, <1>3, <1>4, <1>5, <1>6, KindApply, KindDeliver, KindMerge,
             KindLoad DEF PodStep

LEMMA MessagesMore ==
  ASSUME Messages, issued \subseteq issued',
         \A o \in Node : inbox'[o] \subseteq issued',
         \A o \in Node : \A c \in calls'[o] :
           \/ c \in calls[o]
           \/ IF c.applied THEN c.msgs \subseteq issued' ELSE \A x, y \in c.msgs : x = y
  PROVE  Messages'
  BY Zenon DEF Messages

LEMMA MessagesBegin ==
  ASSUME TypeOK, Messages, NEW n \in Node, NEW k \in Key, NEW tomb, NEW v,
         Begin(n, k, tomb, v)
  PROVE  Messages'
  <1>1. PICK m : calls' = [calls EXCEPT ![n] = @ \cup {[applied |-> FALSE, msgs |-> {m}]}]
    BY Zenon DEF Begin
  <1>2. \A o \in Node : \A c \in calls'[o] :
          c \in calls[o] \/ c = [applied |-> FALSE, msgs |-> {m}]
    BY Zenon, <1>1 DEF TypeOK
  <1>3. issued' = issued /\ inbox' = inbox
    BY Zenon DEF Begin
  <1> QED BY SMTT(30), <1>2, <1>3, MessagesMore DEF Messages

LEMMA MessagesApply ==
  ASSUME TypeOK, Messages, NEW n \in Node, NEW c \in calls[n], ApplyLocal(n, c)
  PROVE  Messages'
  <1>0. c \in Call /\ inbox' = inbox /\ issued \subseteq issued'
    BY Zenon DEF TypeOK, ApplyLocal
  <1>1. CASE calls' = [calls EXCEPT ![n] = @ \ {c}]
    <2>1. \A o \in Node : calls'[o] \subseteq calls[o]
      BY Zenon, <1>1 DEF TypeOK
    <2> QED BY Zenon, <1>0, <2>1, MessagesMore DEF Messages
  <1>2. ASSUME NEW m \in c.msgs, issued' = issued \cup {m},
               calls' = [calls EXCEPT ![n] = (@ \ {c}) \cup {[c EXCEPT !.applied = TRUE]}]
        PROVE  Messages'
    <2> DEFINE d == [c EXCEPT !.applied = TRUE]
    <2>1. d.applied /\ d.msgs = c.msgs
      BY Zenon, <1>0 DEF Call
    <2>2. c.msgs \subseteq issued'
      BY Zenon, <1>2 DEF Messages, ApplyLocal
    <2>3. \A o \in Node : \A x \in calls'[o] : x \in calls[o] \/ x = d
      BY Zenon, <1>2 DEF TypeOK
    <2> HIDE DEF d
    <2> QED BY Zenon, <1>0, <2>1, <2>2, <2>3, MessagesMore DEF Messages
  <1> QED BY Zenon, <1>1, <1>2 DEF ApplyLocal

LEMMA MessagesBatch ==
  ASSUME TypeOK, Messages, NEW n \in Node, NEW J \in SUBSET Key, NEW s, NEW new,
         BatchStep(n, J, s, new)
  PROVE  Messages'
  <1> DEFINE M == MsgsOf(new, Won(n, new))
  <1>1. issued' = issued \cup M /\ inbox' = inbox
    BY Zenon DEF BatchStep
  <1>2. \A o \in Node : calls'[o] \subseteq calls[o] \cup {[applied |-> TRUE, msgs |-> M]}
    BY SMTT(30) DEF BatchStep, TypeOK
  <1> HIDE DEF M
  <1>3. \A o \in Node : \A c \in calls'[o] : c \in calls[o] \/ (c.applied /\ c.msgs = M)
    BY SMTT(30), <1>2
  <1> QED BY <1>1, <1>3, MessagesMore DEF Messages

LEMMA MessagesPublish ==
  ASSUME TypeOK, Messages, NEW n \in Node, NEW c \in calls[n],
         Publish(n, c) \/ PublishFails(n, c) \/ Return(n, c)
  PROVE  Messages'
  <1>0. c \in Call /\ c.applied /\ c.msgs \subseteq issued /\ issued' = issued
    BY Zenon DEF TypeOK, Messages, Publish, PublishFails, Return
  <1>1. \A o \in Node : inbox'[o] \subseteq issued
    <2>1. \/ inbox' = inbox
          \/ \E m \in c.msgs : inbox' = Sent(n, m)
      BY Zenon DEF Publish, PublishFails, Return
    <2>2. \A o \in Node : inbox[o] \subseteq issued
      BY Zenon DEF Messages
    <2>3. ASSUME NEW m \in c.msgs, inbox' = Sent(n, m)
          PROVE  \A o \in Node : inbox'[o] \subseteq inbox[o] \cup {m}
      BY Zenon, <2>3 DEF Sent
    <2> QED BY SMTT(30), <1>0, <2>1, <2>2, <2>3
  <1>2. CASE Publish(n, c)
    <2>1. PICK m : calls' = [calls EXCEPT ![n] = (@ \ {c}) \cup {[c EXCEPT !.msgs = @ \ {m}]}]
      BY Zenon, <1>2 DEF Publish
    <2> DEFINE d == [c EXCEPT !.msgs = @ \ {m}]
    <2>2. d.applied /\ d.msgs \subseteq issued
      BY Zenon, <1>0 DEF Call
    <2>3. \A o \in Node : \A x \in calls'[o] : x \in calls[o] \/ x = d
      BY Zenon, <2>1 DEF TypeOK
    <2> HIDE DEF d
    <2> QED BY Zenon, <1>0, <1>1, <2>2, <2>3, MessagesMore
  <1>3. CASE PublishFails(n, c) \/ Return(n, c)
    <2>1. \A o \in Node : calls'[o] \subseteq calls[o]
      <3>1. calls' = [calls EXCEPT ![n] = @ \ {c}]
        BY Zenon, <1>3 DEF PublishFails, Return
      <3>2. DOMAIN calls = Node
        BY Zenon DEF TypeOK
      <3> QED BY Zenon, <3>1, <3>2
    <2> QED BY Zenon, <1>0, <1>1, <2>1, MessagesMore
  <1> QED BY Zenon, <1>2, <1>3

LEMMA MessagesNext ==
  ASSUME TypeOK, Messages, NEW n \in Node, PodStep(n)
  PROVE  Messages'
  <1>1. CASE \E k \in Key : Delete(n, k) \/ \E v \in Value : Set(n, k, v)
    BY Zenon, <1>1, MessagesBegin DEF Delete, Set
  <1>2. ASSUME NEW K \in SUBSET Key, NEW vals \in [K -> Value],
               \/ Many(n, K, TRUE, vals) \/ Many(n, K, FALSE, vals)
               \/ ManyFails(n, K, vals) \/ Seed(n, K, vals)
        PROVE  Messages'
    BY Zenon, <1>2, BatchSteps, MessagesBatch
  <1>3. CASE \/ \E m \in inbox[n] : Deliver(n, m) \/ Drop(n, m)
             \/ \E K \in SUBSET Key : mergeSnapshot(n, K)
             \/ Snapshotting(n) \/ gcTombstones(n) \/ Fetch(n) \/ Close(n)
             \/ Subscribe(n) \/ loadSnapshot(n) \/ loadFails(n) \/ Tick(n) \/ Crash(n)
    <2>1. issued' = issued
      BY Zenon, <1>3 DEF Deliver, Drop, mergeSnapshot, Snapshotting, Wake, Debounced,
                  finalFlush, Store, gcTombstones, Fetch, Close, Subscribe,
                  loadSnapshot, loadFails, Tick, Crash
    <2>2. \A o \in Node : calls'[o] \subseteq calls[o]
      BY Zenon, <1>3 DEF Deliver, Drop, mergeSnapshot, Snapshotting, Wake, Debounced,
                  finalFlush, Store, gcTombstones, Fetch, Close, Subscribe,
                  loadSnapshot, loadFails, Tick, Crash, TypeOK
    <2>3. \A o \in Node : inbox'[o] \subseteq inbox[o]
      <3>1. ASSUME NEW m \in inbox[n], Deliver(n, m) \/ Drop(n, m)
            PROVE  \A o \in Node : inbox'[o] \subseteq inbox[o]
        <4>1. DOMAIN inbox = Node
          BY Zenon DEF TypeOK
        <4> QED BY Zenon, <3>1, <4>1 DEF Deliver, Drop
      <3>2. CASE loadFails(n) \/ Crash(n)
        BY Zenon, <3>2 DEF loadFails, Crash, TypeOK
      <3>3. CASE \/ \E K \in SUBSET Key : mergeSnapshot(n, K)
                 \/ Snapshotting(n) \/ gcTombstones(n) \/ Fetch(n) \/ Close(n)
                 \/ Subscribe(n) \/ loadSnapshot(n) \/ Tick(n)
        <4>1. inbox' = inbox
          BY Zenon, <3>3 DEF mergeSnapshot, Snapshotting, Wake, Debounced, finalFlush, Store,
                      gcTombstones, Fetch, Close, Subscribe, loadSnapshot, Tick
        <4> QED BY Zenon, <4>1
      <3> QED BY Zenon, <1>3, <3>1, <3>2, <3>3
    <2> QED BY <2>1, <2>2, <2>3, MessagesMore DEF Messages
  <1> QED BY Zenon, <1>1, <1>2, <1>3, MessagesApply, MessagesPublish DEF PodStep

LEMMA KindIssues ==
  ASSUME NEW n, Kind(n)
  PROVE  issued \subseteq issued'
  BY Zenon DEF Kind, Learns, Forgets, Makes, Crash

LEMMA KindCells ==
  ASSUME TypeOK, NEW n \in Node, Kind(n), ~Crash(n)
  PROVE  \A k \in Key : \/ data'[n][k] \in {data[n][k], NoEntry}
                        \/ [key |-> k, entry |-> data'[n][k]] \in issued'
  <1>1. ASSUME NEW M, Makes(n, M), NEW k \in Key
        PROVE  \/ data'[n][k] = data[n][k]
               \/ [key |-> k, entry |-> data'[n][k]] \in issued'
    <2>1. CASE \A m \in M : m.key # k
      BY Zenon, <1>1, <2>1 DEF Makes
    <2>2. ASSUME NEW m \in M, m.key = k
          PROVE  [key |-> k, entry |-> data'[n][k]] \in issued'
      <3>1. m \in Msg /\ m \in issued' /\ data'[n][k] = m.entry
        BY Zenon, <1>1, <2>2 DEF Makes
      <3> QED BY Zenon, <2>2, <3>1, MsgIsPair
    <2> QED BY Zenon, <2>1, <2>2
  <1> QED BY Zenon, <1>1 DEF Kind, Learns, Forgets

LEMMA FromCollected ==
  ASSUME NEW map, NEW K, NEW I, From(map, I)
  PROVE  From(Collected(map, K), I)
  BY Zenon DEF From, Collected

LEMMA FromSnapshots ==
  ASSUME TypeOK, Provenance, NEW n \in Node, PodStep(n)
  PROVE  AllFrom(stored', issued) /\ AllFrom(buf', issued) /\ AllFrom(fetched', issued)
  <1>1. /\ AllFrom(stored, issued) /\ AllFrom(buf, issued) /\ AllFrom(fetched, issued)
        /\ From(buf[n], issued) /\ From(data[n], issued)
    BY Zenon DEF Provenance, AllFrom
  <1>2. CASE UNCHANGED <<stored, buf, fetched>>
    BY Zenon, <1>1, <1>2
  <1>3. ASSUME NEW K \in SUBSET Key, NEW vals \in [K -> Value],
               \/ Many(n, K, TRUE, vals) \/ Many(n, K, FALSE, vals)
               \/ ManyFails(n, K, vals) \/ Seed(n, K, vals)
        PROVE  UNCHANGED <<stored, buf, fetched>>
    BY Zenon, <1>3 DEF Many, ManyFails, Seed
  <1>4. CASE \/ \E k \in Key : Delete(n, k) \/ \E v \in Value : Set(n, k, v)
             \/ \E c \in calls[n] : \/ ApplyLocal(n, c) \/ Publish(n, c)
                                    \/ Return(n, c) \/ PublishFails(n, c)
             \/ \E m \in inbox[n] : Deliver(n, m) \/ Drop(n, m)
             \/ gcTombstones(n) \/ Close(n) \/ Subscribe(n) \/ loadSnapshot(n)
             \/ loadFails(n) \/ Tick(n) \/ Wake(n)
    <2>1. UNCHANGED <<stored, buf, fetched>>
      BY Zenon, <1>4 DEF Delete, Set, Begin, ApplyLocal, Publish, Return, PublishFails,
                  Deliver, Drop, gcTombstones, Close, Subscribe, loadSnapshot,
                  loadFails, Tick, Wake
    <2> QED BY Zenon, <1>2, <2>1
  <1>5. CASE (\E K \in SUBSET Key : mergeSnapshot(n, K)) \/ Fetch(n)
    <2>1. /\ stored' = stored /\ buf' = buf
          /\ \A o \in Node : \/ fetched'[o] \in {fetched[o], EmptyMap}
                              \/ fetched'[o] \in Answers(n)
      BY Zenon, <1>5 DEF mergeSnapshot, Fetch, TypeOK
    <2> QED BY Zenon, <1>1, <2>1, FromEmpty, AnswersFrom DEF AllFrom
  <1>6. CASE Debounced(n) \/ finalFlush(n)
    <2>1. stored' = stored /\ fetched' = fetched
      BY Zenon, <1>6 DEF Debounced, finalFlush
    <2>2. \A o \in Node : buf'[o] \in {buf[o], Collected(data[n], Due(n))} /\
                          (o # n => buf'[o] = buf[o])
      BY <1>6 DEF Debounced, finalFlush, Capture, CaptureFails, TypeOK
    <2>3. From(Collected(data[n], Due(n)), issued)
      BY Zenon, <1>1, FromCollected
    <2> QED BY Zenon, <1>1, <2>1, <2>2, <2>3 DEF AllFrom
  <1>7. CASE Store(n)
    <2>1. /\ \A o \in Node : stored'[o] \in {stored[o], buf[n]}
          /\ fetched' = fetched
          /\ \A o \in Node : buf'[o] \in {buf[o], EmptyMap}
      BY Zenon, <1>7 DEF Store, Kept, TypeOK
    <2> QED BY Zenon, <1>1, <2>1, FromEmpty DEF AllFrom
  <1>8. CASE Crash(n)
    <2>1. \A o \in Node : /\ stored'[o] \in {stored[o], EmptyMap}
                          /\ buf'[o] \in {buf[o], EmptyMap}
                          /\ fetched'[o] \in {fetched[o], EmptyMap}
      BY Zenon, <1>8 DEF Crash, TypeOK
    <2> QED BY Zenon, <1>1, <2>1, FromEmpty DEF AllFrom
  <1> QED BY Zenon, <1>2, <1>3, <1>4, <1>5, <1>6, <1>7, <1>8 DEF PodStep, Snapshotting

LEMMA ProvenanceNext ==
  ASSUME ~UseMerger, TypeOK, StampInv, Blank, Provenance, [Next]_vars
  PROVE  Provenance'
  <1>1. ASSUME NEW n \in Node, PodStep(n) PROVE Provenance'
    <2>1. Kind(n) /\ issued \subseteq issued'
      BY Zenon, <1>1, StepKinds, KindIssues
    <2>2. AllFrom(stored', issued') /\ AllFrom(buf', issued') /\ AllFrom(fetched', issued')
      BY Zenon, <1>1, <2>1, FromSnapshots, FromMore
    <2>3. Messages'
      BY Zenon, <1>1, MessagesNext DEF Provenance
    <2>4. AllFrom(data', issued') /\ AllFrom(high', issued')
      <3>1. CASE Crash(n)
        <4>1. /\ issued' = issued
              /\ \A o \in Node : /\ data'[o] \in {data[o], EmptyMap}
                                 /\ high'[o] \in {high[o], EmptyMap}
          BY Zenon, <3>1 DEF Crash, TypeOK
        <4> QED BY Zenon, <4>1, FromEmpty DEF Provenance, AllFrom
      <3>2. CASE ~Crash(n)
        <4>1. CellSteps(n)
          BY Zenon, <1>1, <3>2, StepsAreCellSteps
        <4>2. \A k \in Key : \/ data'[n][k] \in {data[n][k], NoEntry}
                             \/ [key |-> k, entry |-> data'[n][k]] \in issued'
          BY Zenon, <2>1, <3>2, KindCells
        <4> QED BY Zenon, <2>1, <4>1, <4>2, FromCells DEF Provenance
      <3> QED BY Zenon, <3>1, <3>2
    <2> QED BY Zenon, <2>2, <2>3, <2>4 DEF Provenance
  <1>2. CASE UNCHANGED vars
    BY Zenon, <1>2 DEF vars, program, Provenance, Messages
  <1> QED BY Zenon, <1>1, <1>2, NextCases

----------------------------------------------------------------------------
(* Convergence.                                                            *)

MapInv == TypeOK /\ StampInv /\ AccInv /\ Provenance

LEMMA MapInvariant ==
  ASSUME ~UseMerger
  PROVE  Spec => []MapInv
  <1>1. Init => Provenance
    BY SMTT(30), FromEmpty DEF Init, Provenance, AllFrom, Messages
  <1>2. TypeOK /\ StampInv /\ AccInv /\ Provenance /\ [Next]_vars => Provenance'
    BY Zenon, ProvenanceNext DEF AccInv
  <1>3. MapInv <=> TypeOK /\ StampInv /\ AccInv /\ Provenance
    BY Zenon DEF MapInv
  <1> QED BY <1>1, <1>2, <1>3, AccInvariant, PTL DEF Spec

\* A settled pod covers every write once none is in flight.
LEMMA SettledCovers ==
  ASSUME MapInv, \A m \in issued : ~InFlight(m), NEW a \in Node, Settled(a),
         NEW m \in issued
  PROVE  Covers(high[a][m.key], m.entry)
  BY Zenon DEF MapInv, AccInv, Accounted, Settled, CaughtUp

LEMMA SettledHigh ==
  ASSUME MapInv, \A m \in issued : ~InFlight(m), NEW a \in Node, NEW b \in Node,
         Settled(a), Settled(b), NEW k \in Key
  PROVE  high[a][k] = high[b][k]
  <1>1. ASSUME NEW n \in Node, high[n][k] # NoEntry
        PROVE  [key |-> k, entry |-> high[n][k]] \in issued
    BY Zenon, <1>1 DEF MapInv, Provenance, AllFrom, From
  <1>2. ASSUME NEW x \in Node, NEW y \in Node, Settled(y), high[x][k] # NoEntry
        PROVE  Covers(high[y][k], high[x][k])
    <2> DEFINE m == [key |-> k, entry |-> high[x][k]]
    <2>1. m \in issued /\ m.key = k /\ m.entry = high[x][k]
      BY Zenon, <1>1, <1>2
    <2> HIDE DEF m
    <2>2. Covers(high[y][m.key], m.entry)
      BY Zenon, <1>2, <2>1, SettledCovers
    <2> QED BY Zenon, <2>1, <2>2
  <1>3. CASE high[a][k] = NoEntry /\ high[b][k] = NoEntry
    BY Zenon, <1>3
  <1>4. CASE high[a][k] # NoEntry \/ high[b][k] # NoEntry
    <2>1. /\ high[a][k] # NoEntry /\ high[b][k] # NoEntry
          /\ ~Newer(high[a][k], high[b][k]) /\ ~Newer(high[b][k], high[a][k])
      BY Zenon, <1>2, <1>4 DEF Covers
    <2> DEFINE x == [key |-> k, entry |-> high[a][k]]
               y == [key |-> k, entry |-> high[b][k]]
    <2>2. x \in issued /\ y \in issued /\ x.entry = high[a][k] /\ y.entry = high[b][k]
      BY Zenon, <1>1, <2>1
    <2> HIDE DEF x, y
    <2>3. x = y
      BY Zenon, <2>1, <2>2, StampsAreUnique DEF MapInv
    <2> QED BY Zenon, <2>2, <2>3
  <1> QED BY Zenon, <1>3, <1>4

LEMMA SettledViews ==
  ASSUME MapInv, TombstonesHold
  PROVE  Convergence
  <1> SUFFICES ASSUME \A m \in issued : ~InFlight(m), NEW a \in Node, NEW b \in Node,
                      Settled(a), Settled(b)
               PROVE  View(a) = View(b)
    BY Zenon DEF Convergence
  <1>1. ASSUME NEW n \in Node, Settled(n), NEW k \in Key
        PROVE  (IF Live(data[n][k]) THEN data[n][k] ELSE NoEntry)
                 = (IF Live(high[n][k]) THEN high[n][k] ELSE NoEntry)
    BY Zenon, <1>1 DEF TombstonesHold, Settled, NotResurrected, Live, Expired
  <1>2. \A k \in Key : high[a][k] = high[b][k]
    BY Zenon, SettledHigh
  <1> QED BY Zenon, <1>1, <1>2 DEF View

\* Two open replicas that missed nothing, when nothing is in flight, show the
\* same live keys and values: for any number of pods, keys and values and any
\* order of calls, messages, snapshots, collections, faults and restarts.
THEOREM ReplicasConverge ==
  ASSUME ~UseMerger
  PROVE  Spec => []Convergence
  <1>1. MapInv /\ TombstonesHold => Convergence
    BY Zenon, SettledViews
  <1> QED BY <1>1, MapInvariant, TombstonesAlwaysHold, PTL

----------------------------------------------------------------------------
(* A Store implements ReplicatedMap.                                       *)

LEMMA AbstractOrder ==
  /\ \A x, y : Abstract!Newer(x, y) <=> Newer(x, y)
  /\ \A x, y : Abstract!lwwAccept(x, y) <=> lwwAccept(x, y)
  /\ Abstract!EmptyMap = EmptyMap
  BY Zenon DEF Abstract!Newer, Newer, Abstract!lwwAccept, lwwAccept, Abstract!EmptyMap, EmptyMap

LEMMA OnlyThere ==
  ASSUME TypeOK, TypeOK', NEW n \in Node, CellSteps(n)
  PROVE  Abstract!OnlyAt(n)
  <1>1. ASSUME NEW o \in Node, o # n PROVE data'[o] = data[o]
    <2>1. \A k \in Key : data'[o][k] = data[o][k]
      BY Zenon, <1>1 DEF CellSteps
    <2> QED BY SMTT(30), <2>1 DEF TypeOK, Map
  <1>2. data' = [o \in Node |-> data'[o]] /\ data = [o \in Node |-> data[o]]
    BY Zenon DEF TypeOK
  <1> QED BY <1>1, <1>2 DEF Abstract!OnlyAt, TypeOK

LEMMA MakesIsWrite ==
  ASSUME TypeOK, TypeOK', StampInv', NEW n \in Node, CellSteps(n), NEW M, Makes(n, M)
  PROVE  Abstract!Write(n)
  <1>1. issued' \ issued = M /\ issued \subseteq issued' /\ M \subseteq issued'
    BY Zenon DEF Makes
  <1>2. ASSUME NEW m \in M, NEW o \in issued
        PROVE  Newer(o.entry, m.entry) \/ Newer(m.entry, o.entry)
    <2>1. m \in Msg /\ o \in Msg /\ Written(m)' /\ Written(o)' /\ m # o
      BY <1>1 DEF Makes, TypeOK, Written
    <2>2. ~SameStamp(m.entry, o.entry)
      BY Zenon, <2>1 DEF StampInv
    <2> QED BY <2>1, <2>2, MsgFields, NewerIsTotal
  <1>3. Abstract!OnlyAt(n)
    BY Zenon, OnlyThere
  <1> QED BY Zenon, <1>1, <1>2, <1>3, AbstractOrder DEF Makes, Abstract!Write

LEMMA LearnsIsLearn ==
  ASSUME TypeOK, TypeOK', NEW n \in Node, CellSteps(n), Learns(n)
  PROVE  Abstract!Learn(n)
  <1>1. ASSUME NEW k \in Key, data'[n][k] # data[n][k]
        PROVE  lwwAccept(data[n][k], data'[n][k])
    <2>1. CellStep(data[n][k], high[n][k], data'[n][k], high'[n][k])
      BY Zenon DEF CellSteps
    <2>2. [key |-> k, entry |-> data'[n][k]] \in Msg
      BY Zenon, <1>1 DEF Learns, TypeOK
    <2>3. data'[n][k] # NoEntry
      BY Zenon, <2>2, EntryIsSlot DEF Msg
    <2> QED BY Zenon, <1>1, <2>1, <2>3 DEF CellStep
  <1> QED BY Zenon, <1>1, OnlyThere, AbstractOrder DEF Learns, Abstract!Learn

LEMMA ForgetsIsForget ==
  ASSUME TypeOK, TypeOK', NEW n \in Node, CellSteps(n), Forgets(n)
  PROVE  Abstract!Forget(n)
  <1>1. ASSUME NEW k \in Key, data'[n][k] # data[n][k]
        PROVE  data[n][k] # NoEntry /\ data[n][k].tomb /\ data'[n][k] = NoEntry
    <2>1. CellStep(data[n][k], high[n][k], data'[n][k], high'[n][k])
      BY Zenon DEF CellSteps
    <2>2. data'[n][k] = NoEntry
      BY Zenon, <1>1 DEF Forgets
    <2> QED BY Zenon, <1>1, <2>1, <2>2, EntryIsSlot DEF CellStep
  <1> QED BY Zenon, <1>1, OnlyThere DEF Forgets, Abstract!Forget

LEMMA MapStep ==
  ASSUME ~UseMerger, MapInv, MapInv', [Next]_vars
  PROVE  [Abstract!Next]_(Abstract!vars)
  <1>1. ASSUME NEW n \in Node, PodStep(n) PROVE Abstract!Next
    <2>1. Kind(n) /\ (CellSteps(n) \/ Crash(n))
      BY Zenon, <1>1, StepKinds, StepsAreCellSteps DEF MapInv, AccInv
    <2>2. CASE Crash(n)
      <3>1. Abstract!Restart(n)
        BY Zenon, <2>2, AbstractOrder DEF Crash, Abstract!Restart
      <3> QED BY Zenon, <3>1 DEF Abstract!Next
    <2>3. CASE CellSteps(n) /\ ~Crash(n)
      <3>1. Abstract!Write(n) \/ Abstract!Learn(n) \/ Abstract!Forget(n)
        BY Zenon, <2>1, <2>3, MakesIsWrite, LearnsIsLearn, ForgetsIsForget DEF Kind, MapInv
      <3> QED BY Zenon, <3>1 DEF Abstract!Next
    <2> QED BY Zenon, <2>1, <2>2, <2>3
  <1>2. CASE UNCHANGED vars
    BY Zenon, <1>2 DEF vars, program, Abstract!vars
  <1> QED BY Zenon, <1>1, <1>2, NextCases

\* Every behaviour of the Stores of a topic without a merger is a behaviour of
\* the map of ReplicatedMap, with the entries of the data maps as what is shown.
THEOREM StoreImplementsMap ==
  ASSUME ~UseMerger
  PROVE  Spec => ImplementsMap
  <1>1. Init => Abstract!Init
    BY Zenon, AbstractOrder DEF Init, Abstract!Init
  <1>2. MapInv /\ MapInv' /\ [Next]_vars => [Abstract!Next]_(Abstract!vars)
    BY Zenon, MapStep
  <1> QED BY <1>1, <1>2, MapInvariant, PTL DEF Spec, ImplementsMap, Abstract!Spec

=============================================================================
