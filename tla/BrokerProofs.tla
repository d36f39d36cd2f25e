---------------------------- MODULE BrokerProofs ----------------------------
(***************************************************************************)
(* MemoryTransport and RedisTransport keep the contract of Transport;      *)
(* MemoryTransport drops no message unreported and RedisTransport leaves   *)
(* no forwarder behind.  Proofs for any number of publishers, callers and  *)
(* topics, any capacity and any bound.                                     *)
(***************************************************************************)
EXTENDS MCBrokers, TLAPS

(* Sequences of channels.                                                  *)

Distinct(q) == \A i, j \in 1..Len(q) : q[i] = q[j] => i = j

LEMMA RangeOfSeq ==
  ASSUME NEW S, NEW q \in Seq(S)
  PROVE  Range(q) = {q[i] : i \in 1..Len(q)}
  BY DEF Range

LEMMA RangeOfAppend ==
  ASSUME NEW S, NEW q \in Seq(S), NEW e \in S
  PROVE  Range(Append(q, e)) = Range(q) \cup {e}
  <1> DEFINE r == Append(q, e)
  <1>1. /\ r \in Seq(S) /\ Len(r) = Len(q) + 1 /\ Len(q) \in Nat
        /\ \A i \in 1..Len(q) : r[i] = q[i]
        /\ r[Len(q) + 1] = e
    OBVIOUS
  <1> HIDE DEF r
  <1>2. Range(r) = {r[i] : i \in 1..Len(r)} /\ Range(q) = {q[i] : i \in 1..Len(q)}
    BY Zenon, <1>1, RangeOfSeq
  <1>3. ASSUME NEW x \in Range(r) PROVE x \in Range(q) \cup {e}
    <2>1. PICK i \in 1..Len(r) : x = r[i]
      BY Zenon, <1>2, <1>3
    <2>2. i \in 1..Len(q) \/ i = Len(q) + 1
      BY <1>1
    <2> QED BY Zenon, <1>1, <1>2, <2>1, <2>2
  <1>4. ASSUME NEW x \in Range(q) PROVE x \in Range(r)
    <2>1. PICK i \in 1..Len(q) : x = q[i]
      BY Zenon, <1>2, <1>4
    <2> QED BY <1>1, <1>2, <2>1
  <1>5. e \in Range(r)
    BY <1>1, <1>2
  <1>6. Range(r) = Range(q) \cup {e}
    BY Zenon, <1>3, <1>4, <1>5
  <1> QED BY Zenon, <1>6 DEF r

LEMMA RangeOfTail ==
  ASSUME NEW S, NEW q \in Seq(S), q # <<>>, Distinct(q)
  PROVE  /\ Head(q) \in S /\ Tail(q) \in Seq(S) /\ Distinct(Tail(q))
         /\ Head(q) \notin Range(Tail(q))
         /\ Range(q) = Range(Tail(q)) \cup {Head(q)}
  <1>1. /\ Len(q) \in Nat \ {0} /\ Head(q) = q[1] /\ Tail(q) \in Seq(S)
        /\ Len(Tail(q)) = Len(q) - 1 /\ \A i \in 1..(Len(q) - 1) : Tail(q)[i] = q[i + 1]
        /\ q[1] \in S
    OBVIOUS
  <1>2. Range(Tail(q)) = {q[i] : i \in 2..Len(q)}
    <2> DEFINE t == Tail(q)
    <2>1. /\ Range(t) = {t[i] : i \in 1..(Len(q) - 1)} /\ Len(q) \in Nat
          /\ \A i \in 1..(Len(q) - 1) : t[i] = q[i + 1]
      BY Zenon, <1>1, RangeOfSeq
    <2> HIDE DEF t
    <2>2. ASSUME NEW x \in Range(t) PROVE x \in {q[i] : i \in 2..Len(q)}
      <3>1. PICK i \in 1..(Len(q) - 1) : x = t[i]
        BY Zenon, <2>1, <2>2
      <3>2. x = q[i + 1] /\ i + 1 \in 2..Len(q)
        BY <2>1, <3>1
      <3> QED BY Zenon, <3>2
    <2>3. ASSUME NEW i \in 2..Len(q) PROVE q[i] \in Range(t)
      <3>1. i - 1 \in 1..(Len(q) - 1) /\ (i - 1) + 1 = i
        BY <2>1
      <3>2. t[i - 1] = q[i]
        BY Zenon, <2>1, <3>1
      <3> QED BY Zenon, <2>1, <3>1, <3>2
    <2>4. Range(t) = {q[i] : i \in 2..Len(q)}
      BY Zenon, <2>2, <2>3
    <2> QED BY Zenon, <2>4 DEF t
  <1>3. Range(q) = {q[i] : i \in 1..Len(q)}
    BY Zenon, RangeOfSeq
  <1>4. Head(q) \notin Range(Tail(q))
    BY <1>1, <1>2 DEF Distinct
  <1>5. Distinct(Tail(q))
    BY <1>1 DEF Distinct
  <1>6. 1..Len(q) = {1} \cup 2..Len(q)
    BY <1>1
  <1> QED BY <1>1, <1>2, <1>3, <1>4, <1>5, <1>6

LEMMA AppendDistinct ==
  ASSUME NEW S, NEW q \in Seq(S), NEW e \in S, Distinct(q), e \notin Range(q)
  PROVE  Distinct(Append(q, e))
  BY RangeOfSeq DEF Distinct

LEMMA EmptyRange == Range(<<>>) = {} /\ Distinct(<<>>)
  BY DEF Range, Distinct

----------------------------------------------------------------------------
(* The invariant.                                                          *)

TypeOK ==
  /\ readers \subseteq Pub /\ closed \in BOOLEAN /\ subs \in Seq(Sub)
  /\ at \in [Pub -> {"idle", "locking", "sending"}] /\ left \in [Pub -> Seq(Sub)]
  /\ sent \in [Pub -> Nat] /\ acked \subseteq Pub \X Nat
  /\ feed \in [Sub -> Seq(Pub \X Nat)] /\ ended \subseteq Sub
  /\ since \in [Sub -> [Pub -> Nat]]

\* A channel is added once and is open until Close, which finds no publisher.
Channels ==
  /\ Distinct(subs) /\ \A s \in Sub : writer = s => s \notin Range(subs)
  /\ closed => subs = <<>>
  /\ ~closed => ended = {}
  /\ \A p \in Pub :
       at[p] = "sending" => /\ p \in readers /\ ~closed
                            /\ Distinct(left[p]) /\ Range(left[p]) \subseteq Range(subs)

\* The current message of p has not been put into s.
Awaits(p, s) == at[p] = "locking" \/ (at[p] = "sending" /\ s \in Range(left[p]))

InOrder ==
  /\ \A p \in Pub : at[p] # "idle" => sent[p] > 0
  /\ \A s \in Sub, p \in Pub, i \in Nat :
       <<p, i>> \in Range(feed[s]) => i <= sent[p] /\ (Awaits(p, s) => i < sent[p])

\* Where a message is that p is sending.
Told ==
  \A s \in Sub, p \in Pub :
    at[p] = "sending" /\ s \in Range(subs) /\ sent[p] > since[s][p] =>
      s \in Range(left[p]) \/ Msg(p) \in Range(feed[s]) \/ <<s, Msg(p)>> \in dropped

Inv ==
  /\ TypeOK /\ Channels /\ InOrder /\ Told
  /\ \A m \in acked : m[2] <= sent[m[1]]
  /\ NoSilentDrop

LEMMA InitInv == Init => Inv
  <1> SUFFICES ASSUME Init PROVE Inv
    BY Zenon
  <1>1. TypeOK
    <2>1. sent \in [Pub -> Nat]
      BY Zenon DEF Init
    <2>2. since \in [Sub -> [Pub -> Nat]]
      BY Zenon, <2>1 DEF Init
    <2>3. at \in [Pub -> {"idle", "locking", "sending"}] /\ left \in [Pub -> Seq(Sub)]
      BY DEF Init
    <2>4. closed \in BOOLEAN
      BY Zenon DEF Init
    <2>5. readers \subseteq Pub /\ subs \in Seq(Sub)
      BY DEF Init
    <2>6. acked \subseteq Pub \X Nat /\ feed \in [Sub -> Seq(Pub \X Nat)] /\ ended \subseteq Sub
      BY DEF Init
    <2> QED BY Zenon, <2>1, <2>2, <2>3, <2>4, <2>5, <2>6 DEF TypeOK
  <1>2. Channels
    BY Zenon, EmptyRange DEF Init, Channels
  <1>3. InOrder
    BY Zenon, EmptyRange DEF Init, InOrder
  <1> QED BY Zenon, <1>1, <1>2, <1>3, EmptyRange DEF Init, Inv, Told, NoSilentDrop

LEMMA ChannelsAreSubs ==
  ASSUME TypeOK
  PROVE  \A s \in ended \cup Range(subs) : s \in Sub
  <1>1. subs \in Seq(Sub) /\ ended \subseteq Sub
    BY Zenon DEF TypeOK
  <1>2. Range(subs) = {subs[i] : i \in 1..Len(subs)}
    BY Zenon, <1>1, RangeOfSeq
  <1> QED BY <1>1, <1>2

\* Steps that leave the channels and the messages alone.
Quiet ==
  UNCHANGED <<closed, subs, at, left, sent, acked, feed, ended, dropped, since, readers>>

LEMMA QuietInv ==
  ASSUME Inv, Quiet, \A s \in Sub : writer' = s => s \notin Range(subs)
  PROVE  Inv'
  <1>1. TypeOK'
    BY Zenon DEF Inv, Quiet, TypeOK
  <1>2. Channels'
    BY Zenon DEF Inv, Quiet, Channels
  <1>3. InOrder' /\ Told' /\ NoSilentDrop' /\ \A m \in acked' : m[2] <= sent'[m[1]]
    BY Zenon DEF Inv, Quiet, InOrder, Awaits, Told, Msg, NoSilentDrop
  <1> QED BY Zenon, <1>1, <1>2, <1>3 DEF Inv

LEMMA PublishInv ==
  ASSUME Inv, NEW p \in Pub, Publish(p)
  PROVE  Inv'
  <1>0. /\ UNCHANGED <<readers, writer, closed, subs, left, acked, feed, ended, dropped, since>>
        /\ at[p] = "idle" /\ at' = [at EXCEPT ![p] = "locking"]
        /\ sent' = [sent EXCEPT ![p] = @ + 1]
    BY Zenon DEF Publish
  <1>1. TypeOK'
    <2>1. at' \in [Pub -> {"idle", "locking", "sending"}]
      BY Zenon, <1>0 DEF Inv, TypeOK
    <2>2. sent' \in [Pub -> Nat]
      BY <1>0 DEF Inv, TypeOK
    <2> QED BY Zenon, <1>0, <2>1, <2>2 DEF Inv, TypeOK
  <1>2. /\ \A q \in Pub : sent[q] \in Nat /\ sent'[q] = IF q = p THEN sent[q] + 1 ELSE sent[q]
        /\ \A q \in Pub : at'[q] = IF q = p THEN "locking" ELSE at[q]
    BY Zenon, <1>0 DEF Inv, TypeOK
  <1>3. Channels'
    BY <1>0, <1>2 DEF Inv, Channels
  <1>4. InOrder'
    BY <1>0, <1>2 DEF Inv, InOrder, Awaits
  <1>5. Told'
    BY <1>0, <1>2 DEF Inv, Told, Msg
  <1>6. NoSilentDrop'
    BY Zenon, <1>0 DEF Inv, NoSilentDrop
  <1>7. ASSUME NEW m \in acked' PROVE m[2] <= sent'[m[1]]
    <2>1. m \in acked /\ m[1] \in Pub /\ m[2] \in Nat /\ m[2] <= sent[m[1]]
      BY Zenon, <1>0, <1>7 DEF Inv, TypeOK
    <2> QED BY <1>2, <2>1
  <1> QED BY Zenon, <1>1, <1>3, <1>4, <1>5, <1>6, <1>7 DEF Inv

LEMMA RLockInv ==
  ASSUME Inv, NEW p \in Pub, RLock(p)
  PROVE  Inv'
  <1>0. /\ UNCHANGED <<writer, closed, subs, sent, acked, feed, ended, dropped, since>>
        /\ at[p] = "locking"
    BY Zenon DEF RLock
  <1>1. CASE closed
    <2>0. /\ at' = [at EXCEPT ![p] = "idle"] /\ UNCHANGED <<readers, left>>
      BY Zenon, <1>1 DEF RLock
    <2>1. TypeOK'
      BY Zenon, <1>0, <2>0 DEF Inv, TypeOK
    <2>2. \A q \in Pub : at'[q] = IF q = p THEN "idle" ELSE at[q]
      BY Zenon, <2>0 DEF Inv, TypeOK
    <2>3. Channels'
      BY <1>0, <2>0, <2>2 DEF Inv, Channels
    <2>4. InOrder' /\ Told'
      BY <1>0, <2>0, <2>2 DEF Inv, InOrder, Awaits, Told, Msg
    <2>5. NoSilentDrop' /\ \A m \in acked' : m[2] <= sent'[m[1]]
      BY Zenon, <1>0 DEF Inv, NoSilentDrop
    <2> QED BY Zenon, <2>1, <2>3, <2>4, <2>5 DEF Inv
  <1>2. CASE ~closed
    <2>0. /\ at' = [at EXCEPT ![p] = "sending"] /\ left' = [left EXCEPT ![p] = subs]
          /\ readers' = readers \cup {p}
      BY Zenon, <1>2 DEF RLock
    <2>1. TypeOK'
      BY Zenon, <1>0, <2>0 DEF Inv, TypeOK
    <2>2. \A q \in Pub : at'[q] = (IF q = p THEN "sending" ELSE at[q])
                      /\ left'[q] = (IF q = p THEN subs ELSE left[q])
      BY Zenon, <2>0 DEF Inv, TypeOK
    <2>3. Channels'
      BY Zenon, <1>0, <1>2, <2>0, <2>2 DEF Inv, Channels
    <2>4. InOrder'
      BY Zenon, <1>0, <2>2 DEF Inv, InOrder, Awaits
    <2>5. Told'
      BY Zenon, <1>0, <2>2 DEF Inv, Told, Msg
    <2>6. NoSilentDrop' /\ \A m \in acked' : m[2] <= sent'[m[1]]
      BY Zenon, <1>0 DEF Inv, NoSilentDrop
    <2> QED BY Zenon, <2>1, <2>3, <2>4, <2>5, <2>6 DEF Inv
  <1> QED BY Zenon, <1>1, <1>2

\* What a Send does to a channel, as far as the invariant asks.
LEMMA SendFacts ==
  ASSUME Inv, NEW p \in Pub, Send(p), NEW s, s = Head(left[p])
  PROVE  /\ s \in Range(subs) /\ s \in Sub
         /\ left' \in [Pub -> Seq(Sub)] /\ feed' \in [Sub -> Seq(Pub \X Nat)]
         /\ Distinct(left'[p]) /\ s \notin Range(left'[p])
         /\ Range(left[p]) = Range(left'[p]) \cup {s}
         /\ \A q \in Pub \ {p} : left'[q] = left[q]
         /\ \A x \in Sub \ {s} : feed'[x] = feed[x]
         /\ \/ Range(feed'[s]) = Range(feed[s]) \cup {Msg(p)} /\ dropped' = dropped
            \/ feed'[s] = feed[s] /\ dropped' = dropped \cup {<<s, Msg(p)>>}
  <1>1. left[p] \in Seq(Sub) /\ left[p] # <<>> /\ Distinct(left[p]) /\ left \in [Pub -> Seq(Sub)]
    BY Zenon DEF Send, Inv, TypeOK, Channels
  <1>2. /\ s \in Sub /\ Tail(left[p]) \in Seq(Sub) /\ Distinct(Tail(left[p]))
        /\ s \notin Range(Tail(left[p])) /\ Range(left[p]) = Range(Tail(left[p])) \cup {s}
    BY Zenon, <1>1, RangeOfTail
  <1>3. left' = [left EXCEPT ![p] = Tail(left[p])]
    BY Zenon DEF Send
  <1>4. /\ left' \in [Pub -> Seq(Sub)] /\ left'[p] = Tail(left[p])
        /\ \A q \in Pub \ {p} : left'[q] = left[q]
    BY Zenon, <1>1, <1>2, <1>3
  <1>5. s \in Range(subs)
    BY Zenon, <1>2 DEF Send, Inv, Channels
  <1>6. Msg(p) \in Pub \X Nat /\ feed \in [Sub -> Seq(Pub \X Nat)]
    BY Zenon DEF Msg, Inv, TypeOK
  <1>7. CASE feed' = [feed EXCEPT ![s] = Append(@, Msg(p))] /\ dropped' = dropped
    <2>1. /\ feed' \in [Sub -> Seq(Pub \X Nat)] /\ feed'[s] = Append(feed[s], Msg(p))
          /\ \A x \in Sub \ {s} : feed'[x] = feed[x]
      BY <1>2, <1>6, <1>7
    <2> DEFINE P == Pub \X Nat
    <2>2. feed[s] \in Seq(P) /\ Msg(p) \in P
      BY Zenon, <1>2, <1>6
    <2> HIDE DEF P
    <2>3. Range(Append(feed[s], Msg(p))) = Range(feed[s]) \cup {Msg(p)}
      BY <2>2, RangeOfAppend
    <2> QED BY Zenon, <1>2, <1>4, <1>5, <1>7, <2>1, <2>3
  <1>8. CASE dropped' = dropped \cup {<<s, Msg(p)>>} /\ feed' = feed
    BY Zenon, <1>2, <1>4, <1>5, <1>6, <1>8
  <1> QED BY Zenon, <1>7, <1>8 DEF Send

LEMMA SendInv ==
  ASSUME Inv, NEW p \in Pub, Send(p)
  PROVE  Inv'
  <1> DEFINE s == Head(left[p])
  <1>0. /\ UNCHANGED <<readers, writer, closed, subs, at, sent, acked, ended, since>>
        /\ at[p] = "sending"
    BY Zenon DEF Send
  <1>1. /\ s \in Range(subs) /\ s \in Sub
        /\ left' \in [Pub -> Seq(Sub)] /\ feed' \in [Sub -> Seq(Pub \X Nat)]
        /\ Distinct(left'[p]) /\ s \notin Range(left'[p])
        /\ Range(left[p]) = Range(left'[p]) \cup {s}
        /\ \A q \in Pub \ {p} : left'[q] = left[q]
        /\ \A x \in Sub \ {s} : feed'[x] = feed[x]
    BY Zenon, SendFacts
  <1>2. \/ Range(feed'[s]) = Range(feed[s]) \cup {Msg(p)} /\ dropped' = dropped
        \/ feed'[s] = feed[s] /\ dropped' = dropped \cup {<<s, Msg(p)>>}
    BY Zenon, SendFacts
  <1> HIDE DEF s
  <1>3. TypeOK'
    BY Zenon, <1>0, <1>1 DEF Inv, TypeOK
  <1>4. Channels'
    BY Zenon, <1>0, <1>1 DEF Inv, Channels
  <1>5. dropped \subseteq dropped' /\ \A x \in Sub : Range(feed[x]) \subseteq Range(feed'[x])
    BY Zenon, <1>1, <1>2
  <1>6. Told'
    <2> SUFFICES ASSUME NEW x \in Sub, NEW q \in Pub, at'[q] = "sending", x \in Range(subs'),
                        sent'[q] > since'[x][q]
                 PROVE  \/ x \in Range(left'[q]) \/ Msg(q)' \in Range(feed'[x])
                        \/ <<x, Msg(q)'>> \in dropped'
      BY Zenon DEF Told
    <2>1. Msg(q)' = Msg(q)
      BY Zenon, <1>0 DEF Msg
    <2>2. x \in Range(left[q]) \/ Msg(q) \in Range(feed[x]) \/ <<x, Msg(q)>> \in dropped
      BY Zenon, <1>0 DEF Inv, Told
    <2>3. CASE q = p /\ x = s
      BY Zenon, <1>2, <2>1, <2>3
    <2>4. CASE ~(q = p /\ x = s)
      BY Zenon, <1>1, <1>5, <2>1, <2>2, <2>4
    <2> QED BY Zenon, <2>3, <2>4
  <1>7. NoSilentDrop'
    BY Zenon, <1>0, <1>5, ChannelsAreSubs DEF Inv, NoSilentDrop
  <1>8. InOrder'
    <2> SUFFICES ASSUME NEW x \in Sub, NEW q \in Pub, NEW i \in Nat,
                        <<q, i>> \in Range(feed'[x])
                 PROVE  i <= sent'[q] /\ (Awaits(q, x)' => i < sent'[q])
      BY Zenon, <1>0 DEF Inv, InOrder
    <2>1. Awaits(q, x)' => Awaits(q, x) /\ ~(q = p /\ x = s)
      BY Zenon, <1>0, <1>1 DEF Awaits
    <2>2. CASE <<q, i>> \in Range(feed[x])
      BY Zenon, <1>0, <2>1, <2>2 DEF Inv, InOrder
    <2>3. CASE x = s /\ <<q, i>> = Msg(p)
      BY <1>0, <2>1, <2>3 DEF Msg, Inv, TypeOK
    <2> QED BY Zenon, <1>1, <1>2, <2>2, <2>3
  <1> QED BY Zenon, <1>0, <1>3, <1>4, <1>6, <1>7, <1>8 DEF Inv

LEMMA RUnlockInv ==
  ASSUME Inv, NEW p \in Pub, RUnlock(p)
  PROVE  Inv'
  <1>0. /\ UNCHANGED <<writer, closed, subs, left, sent, feed, ended, dropped, since>>
        /\ at[p] = "sending" /\ at' = [at EXCEPT ![p] = "idle"] /\ left[p] = <<>>
        /\ readers' = readers \ {p} /\ acked' = acked \cup {Msg(p)}
    BY Zenon DEF RUnlock
  <1>1. \A q \in Pub : at'[q] = IF q = p THEN "idle" ELSE at[q]
    BY Zenon, <1>0 DEF Inv, TypeOK
  <1>2. TypeOK'
    <2>1. at' \in [Pub -> {"idle", "locking", "sending"}]
      BY Zenon, <1>0 DEF Inv, TypeOK
    <2>2. readers' \subseteq Pub /\ acked' \subseteq Pub \X Nat
      BY <1>0 DEF Inv, TypeOK, Msg
    <2> QED BY Zenon, <1>0, <2>1, <2>2 DEF Inv, TypeOK
  <1>3. Channels'
    BY <1>0, <1>1 DEF Inv, Channels
  <1>4. InOrder'
    BY <1>0, <1>1 DEF Inv, InOrder, Awaits
  <1>5. Told'
    BY Zenon, <1>0, <1>1 DEF Inv, Told, Msg
  <1>6. \A m \in acked' : m[2] <= sent'[m[1]]
    BY <1>0 DEF Inv, TypeOK, Msg
  <1>7. NoSilentDrop'
    <2> SUFFICES ASSUME NEW s \in ended \cup Range(subs), NEW m \in {Msg(p)},
                        m[2] > since[s][m[1]]
                 PROVE  m \in Range(feed[s]) \/ <<s, m>> \in dropped
      BY Zenon, <1>0 DEF Inv, NoSilentDrop
    <2>1. s \in Sub /\ s \in Range(subs)
      BY Zenon, <1>0, ChannelsAreSubs DEF Inv, Channels
    <2>2. sent[p] > since[s][p]
      BY DEF Msg
    <2> QED BY Zenon, <1>0, <2>1, <2>2, EmptyRange DEF Inv, Told
  <1> QED BY Zenon, <1>2, <1>3, <1>4, <1>5, <1>6, <1>7 DEF Inv

LEMMA SubscribeInv ==
  ASSUME Inv, NEW s \in Sub, Subscribe(s)
  PROVE  Inv'
  <1>0. /\ UNCHANGED <<readers, closed, at, left, sent, acked, feed, ended, dropped>>
        /\ writer = s /\ readers = {} /\ writer' = None
    BY Zenon DEF Subscribe, Locked
  <1>1. CASE closed
    <2>1. Quiet
      BY Zenon, <1>0, <1>1 DEF Subscribe, Quiet
    <2> QED BY Zenon, <1>0, <2>1, QuietInv, NoneAssumption
  <1>2. CASE ~closed
    <2>1. /\ subs' = Append(subs, s) /\ since' = [since EXCEPT ![s] = sent]
          /\ s \notin Range(subs) /\ subs \in Seq(Sub) /\ Distinct(subs) /\ ended = {}
      BY Zenon, <1>0, <1>2 DEF Subscribe, Inv, TypeOK, Channels
    <2>2. Range(subs') = Range(subs) \cup {s} /\ Distinct(subs') /\ subs' \in Seq(Sub)
      BY <2>1, RangeOfAppend, AppendDistinct
    <2>3. \A q \in Pub : at[q] # "sending"
      BY Zenon, <1>0 DEF Inv, Channels
    <2>4. /\ since' \in [Sub -> [Pub -> Nat]] /\ since'[s] = sent
          /\ \A x \in Sub \ {s} : since'[x] = since[x]
      BY Zenon, <2>1 DEF Inv, TypeOK
    <2>5. TypeOK'
      BY Zenon, <1>0, <2>2, <2>4 DEF Inv, TypeOK
    <2>6. Channels'
      BY Zenon, <1>0, <1>2, <2>1, <2>2, <2>3, NoneAssumption DEF Inv, Channels
    <2>7. InOrder' /\ Told'
      BY Zenon, <1>0, <2>3 DEF Inv, InOrder, Awaits, Told
    <2>8. NoSilentDrop'
      <3> SUFFICES ASSUME NEW x \in Range(subs) \cup {s}, NEW m \in acked,
                          m[2] > since'[x][m[1]]
                   PROVE  m \in Range(feed[x]) \/ <<x, m>> \in dropped
        BY Zenon, <1>0, <2>1, <2>2 DEF NoSilentDrop
      <3>1. m[1] \in Pub /\ m[2] \in Nat /\ sent[m[1]] \in Nat /\ m[2] <= sent[m[1]]
        BY Zenon DEF Inv, TypeOK
      <3>2. x # s
        BY <2>4, <3>1
      <3>3. x \in Range(subs) /\ since'[x] = since[x]
        BY Zenon, <2>4, <3>2, ChannelsAreSubs DEF Inv
      <3> QED BY Zenon, <3>3 DEF Inv, NoSilentDrop
    <2>9. \A m \in acked' : m[2] <= sent'[m[1]]
      BY Zenon, <1>0 DEF Inv
    <2> QED BY Zenon, <2>5, <2>6, <2>7, <2>8, <2>9 DEF Inv
  <1> QED BY Zenon, <1>1, <1>2

LEMMA CloseInv ==
  ASSUME Inv, Close
  PROVE  Inv'
  <1>0. /\ UNCHANGED <<readers, at, left, sent, acked, feed, dropped, since>>
        /\ readers = {} /\ writer' = None /\ closed' = TRUE /\ subs' = <<>>
        /\ ended' = ended \cup Range(subs)
    BY Zenon DEF Close, Locked
  <1>1. \A q \in Pub : at[q] # "sending"
    BY Zenon, <1>0 DEF Inv, Channels
  <1>2. TypeOK'
    BY <1>0, ChannelsAreSubs DEF Inv, TypeOK
  <1>3. Channels'
    BY Zenon, <1>0, <1>1, EmptyRange DEF Inv, Channels
  <1>4. InOrder' /\ Told'
    BY Zenon, <1>0, <1>1 DEF Inv, InOrder, Awaits, Told
  <1>5. NoSilentDrop' /\ \A m \in acked' : m[2] <= sent'[m[1]]
    BY Zenon, <1>0, EmptyRange DEF Inv, NoSilentDrop
  <1> QED BY Zenon, <1>2, <1>3, <1>4, <1>5 DEF Inv

LEMMA NextInv ==
  ASSUME Inv, [Next]_vars
  PROVE  Inv'
  <1>1. CASE UNCHANGED vars
    <2>1. Quiet /\ writer' = writer
      BY Zenon, <1>1 DEF vars, Quiet
    <2> QED BY Zenon, <2>1, QuietInv DEF Inv, Channels
  <1>2. ASSUME NEW p \in Pub, Publish(p) \/ Publishing(p) PROVE Inv'
    BY Zenon, <1>2, PublishInv, RLockInv, SendInv, RUnlockInv DEF Publishing
  <1>3. ASSUME NEW s \in Sub, Receive(s) PROVE Inv'
    <2>1. Quiet /\ writer' = writer
      BY Zenon, <1>3 DEF Receive, Quiet
    <2> QED BY Zenon, <2>1, QuietInv DEF Inv, Channels
  <1>4. ASSUME NEW op \in Ops, Lock(op) PROVE Inv'
    <2>1. Quiet /\ writer' = op /\ (op \in Sub => op \notin Range(subs))
      BY Zenon, <1>4 DEF Lock, Quiet
    <2> QED BY Zenon, <2>1, QuietInv
  <1>5. CASE Snapshot
    <2>1. Quiet /\ writer' = None
      BY Zenon, <1>5 DEF Snapshot, Quiet
    <2> QED BY Zenon, <2>1, QuietInv, NoneAssumption
  <1> QED BY Zenon, <1>1, <1>2, <1>3, <1>4, <1>5, CloseInv, SubscribeInv DEF Next, Writing

LEMMA Invariance == Spec => []Inv
  BY InitInv, NextInv, PTL DEF Spec

\* No message whose Publish returned nil is lost unreported, whatever the channels'
\* capacity: onError hears of each message that a full channel refused.
THEOREM NothingDroppedSilently == Spec => []NoSilentDrop
  <1>1. Inv => NoSilentDrop
    BY Zenon DEF Inv
  <1> QED BY <1>1, Invariance, PTL

----------------------------------------------------------------------------
(* MemoryTransport implements Subscription.                                *)

LEMMA StepMaps ==
  ASSUME Inv, [Next]_vars
  PROVE  [Contract!Next]_(Contract!vars)
  <1>1. CASE \/ UNCHANGED vars \/ Snapshot \/ \E op \in Ops : Lock(op)
             \/ \E s \in Sub : Receive(s) \/ Subscribe(s)
             \/ \E p \in Pub : RLock(p) \/ RUnlock(p)
    <2>1. UNCHANGED <<sent, feed, ended>>
      BY Zenon, <1>1 DEF vars, Snapshot, Lock, Receive, Subscribe, RLock, RUnlock
    <2> QED BY Zenon, <2>1 DEF Contract!vars
  <1>2. ASSUME NEW p \in Pub, Publish(p) PROVE Contract!Publish(p)
    BY Zenon, <1>2 DEF Publish, Contract!Publish
  <1>3. ASSUME NEW p \in Pub, Send(p)
        PROVE  \/ UNCHANGED <<sent, feed, ended>>
               \/ \E s \in Sub, i \in 1..sent[p] : Contract!Deliver(s, p, i)
    <2> DEFINE s == Head(left[p])
    <2>1. s \in Range(subs) /\ s \in Sub
      BY Zenon, <1>3, SendFacts
    <2>2. /\ at[p] = "sending" /\ left[p] \in Seq(Sub) /\ left[p] # <<>>
          /\ Distinct(left[p]) /\ ended = {}
      BY Zenon, <1>3 DEF Send, Inv, TypeOK, Channels
    <2>3. Awaits(p, s)
      BY <2>2, RangeOfTail DEF Awaits
    <2>4. UNCHANGED <<sent, ended>>
      BY Zenon, <1>3 DEF Send
    <2>5. CASE feed' = [feed EXCEPT ![s] = Append(@, Msg(p))]
      <3> HIDE DEF s
      <3>1. /\ feed[s] \in Seq(Pub \X Nat) /\ sent[p] \in Nat
        BY Zenon, <2>1 DEF Inv, TypeOK
      <3>2. ASSUME NEW j \in 1..Len(feed[s]), feed[s][j][1] = p
            PROVE  feed[s][j][2] < sent[p]
        <4>1. feed[s][j] = <<p, feed[s][j][2]>> /\ feed[s][j][2] \in Nat
          BY <3>1, <3>2
        <4>2. feed[s][j] \in Range(feed[s])
          BY Zenon, <3>1, RangeOfSeq
        <4> QED BY Zenon, <2>1, <2>3, <3>1, <4>1, <4>2 DEF Inv, InOrder
      <3>3. sent[p] \in 1..sent[p]
        BY <2>2, <3>1 DEF Inv, InOrder
      <3> QED BY Zenon, <2>1, <2>2, <2>4, <2>5, <3>2, <3>3 DEF Contract!Deliver, Msg
    <2> QED BY Zenon, <1>3, <2>4, <2>5 DEF Send
  <1>4. CASE Close
    <2>1. ended' = ended \cup Range(subs) /\ UNCHANGED <<sent, feed>>
      BY Zenon, <1>4 DEF Close
    <2>2. Range(subs) = {} \/ Range(subs) \cap ended = {}
      BY Zenon, EmptyRange DEF Inv, Channels
    <2>3. Range(subs) \in SUBSET Sub
      BY Zenon, ChannelsAreSubs DEF Inv
    <2>4. CASE Range(subs) = {}
      BY Zenon, <2>1, <2>4 DEF Contract!vars
    <2>5. CASE Range(subs) # {} /\ Range(subs) \cap ended = {}
      BY Zenon, <2>1, <2>3, <2>5 DEF Contract!Next, Contract!End
    <2> QED BY Zenon, <2>2, <2>4, <2>5
  <1> QED BY Zenon, <1>1, <1>2, <1>3, <1>4
          DEF Next, Publishing, Writing, Contract!Next, Contract!vars

\* MemoryTransport keeps the contract of Transport: a subscription channel carries
\* published messages only, each at most once and in the order of its publisher,
\* and none after Close has closed it.
THEOREM MemoryKeepsContract == Spec => MemoryDelivers
  <1>1. Init => Contract!Init
    BY Zenon DEF Init, Contract!Init
  <1> QED BY <1>1, Invariance, StepMaps, PTL DEF Spec, MemoryDelivers, Contract!Spec


----------------------------------------------------------------------------
(* RedisTransport.                                                         *)

\* The messages that were published.
ROut == {m \in Pod \X Nat : m[2] \in 1..rSent[m[1]]}

RForwarder == {"none", "select", "sending", "leaving", "done"}

RTypeOK ==
  /\ mu \in Caller \cup {None} /\ rClosed \in BOOLEAN
  /\ rSubs \subseteq Topic /\ todo \subseteq Topic /\ caller \in [Caller -> Topic \cup {None}]
  /\ fwd \in [Topic -> RForwarder] /\ DOMAIN held = Topic /\ rSent \in [Pod -> Nat]
  /\ wire \in [Topic -> Seq(Pod \X Nat)]

\* What the library and the forwarders hold was published.
RCarried ==
  /\ wire \in [Topic -> Seq(ROut)]
  /\ \A t \in Topic : fwd[t] = "sending" => held[t] \in ROut

\* A forwarder runs for each topic in r.subs or among those that Close ends, and
\* closes its channel when it leaves.
ROwned ==
  /\ \A t \in Topic : t \in rEnded <=> fwd[t] \in {"leaving", "done"}
  /\ \A t \in Topic : fwd[t] \in {"none", "done"} \/ t \in rSubs \cup todo
  /\ ~rClosed => \A t \in Topic \ rSubs : fwd[t] = "none"
  /\ rEnded \subseteq Topic

\* A Subscribe that waits for the server has the lock, and Close has not.
RLocking ==
  /\ mu # None => ~rClosed /\ caller[mu] \in Topic \ rSubs
  /\ rClosed <=> closer \in {"ending", "returned"}
  /\ rClosed => rSubs = {}
  /\ closer = "returned" => todo = {}

RInv == RTypeOK /\ RCarried /\ ROwned /\ RLocking

LEMMA RInitInv ==
  ASSUME R!Init
  PROVE  RInv
  <1>1. RTypeOK
    <2>1. rClosed \in BOOLEAN
      BY Zenon DEF R!Init
    <2>2. /\ caller \in [Caller -> Topic \cup {None}] /\ fwd \in [Topic -> RForwarder]
          /\ DOMAIN held = Topic
      BY Zenon DEF R!Init, RForwarder
    <2>3. rSent \in [Pod -> Nat] /\ wire \in [Topic -> Seq(Pod \X Nat)]
      BY DEF R!Init
    <2> QED BY Zenon, <2>1, <2>2, <2>3 DEF R!Init, RTypeOK
  <1>2. RCarried
    <2> DEFINE S == ROut
    <2> HIDE DEF S
    <2>1. wire \in [Topic -> Seq(S)]
      BY DEF R!Init
    <2> QED BY Zenon, <2>1 DEF R!Init, RCarried, S
  <1>3. ROwned /\ RLocking
    BY Zenon DEF R!Init, ROwned, RLocking
  <1> QED BY Zenon, <1>1, <1>2, <1>3 DEF RInv

LEMMA RQuietInv ==
  ASSUME RInv, UNCHANGED <<mu, rClosed, rSubs, todo, caller, fwd, held, rSent, wire, rEnded>>,
         closer' = closer \/ (closer # "returned" /\ closer' = "locking" /\ ~rClosed)
                          \/ (closer = "ending" /\ closer' = "returned" /\ todo = {})
  PROVE  RInv'
  <1>1. RTypeOK' /\ RCarried'
    BY Zenon DEF RInv, RTypeOK, RCarried, ROut
  <1>2. ROwned'
    BY Zenon DEF RInv, ROwned
  <1>3. RLocking'
    BY Zenon DEF RInv, RLocking
  <1> QED BY Zenon, <1>1, <1>2, <1>3 DEF RInv

LEMMA RPublishInv ==
  ASSUME RInv, NEW p \in Pod, R!Publish(p)
  PROVE  RInv'
  <1>0. /\ rSent' = [rSent EXCEPT ![p] = @ + 1]
        /\ UNCHANGED <<mu, rClosed, rSubs, todo, caller, fwd, held, wire, rEnded, closer>>
    BY Zenon DEF R!Publish, R!calls, R!conn, R!loop, R!close, R!chan
  <1>1. rSent' \in [Pod -> Nat] /\ \A q \in Pod : rSent[q] \in Nat /\ rSent[q] <= rSent'[q]
    BY <1>0 DEF RInv, RTypeOK
  <1>2. ROut \subseteq ROut'
    BY <1>1 DEF ROut
  <1>3. RCarried'
    <2> DEFINE S == ROut
               S2 == ROut'
    <2> HIDE DEF S, S2
    <2>1. S \subseteq S2 /\ wire \in [Topic -> Seq(S)]
      BY Zenon, <1>2 DEF RInv, RCarried, S, S2
    <2>2. \A t \in Topic : wire[t] \in Seq(S2)
      BY <2>1
    <2>3. wire' \in [Topic -> Seq(S2)]
      BY Zenon, <1>0, <2>1, <2>2
    <2> QED BY Zenon, <1>0, <1>2, <2>3 DEF RInv, RCarried, S2
  <1>4. RTypeOK'
    BY Zenon, <1>0, <1>1 DEF RInv, RTypeOK
  <1>5. ROwned' /\ RLocking'
    BY Zenon, <1>0 DEF RInv, ROwned, RLocking
  <1> QED BY Zenon, <1>3, <1>4, <1>5 DEF RInv

LEMMA RArriveInv ==
  ASSUME RInv, NEW p \in Pod, NEW t \in Topic, NEW i \in 1..rSent[p], R!Arrive(t, p, i)
  PROVE  RInv'
  <1>0. /\ wire' = [wire EXCEPT ![t] = Append(@, <<p, i>>)]
        /\ UNCHANGED <<mu, rClosed, rSubs, todo, caller, fwd, held, rSent, rEnded, closer>>
    BY Zenon DEF R!Arrive, R!calls, R!loop, R!close, R!chan
  <1>1. <<p, i>> \in ROut /\ <<p, i>> \in Pod \X Nat
    BY DEF RInv, RTypeOK, ROut
  <1>2. ROut' = ROut
    BY Zenon, <1>0 DEF ROut
  <1>3. ASSUME NEW S, wire \in [Topic -> Seq(S)], <<p, i>> \in S PROVE wire' \in [Topic -> Seq(S)]
    BY <1>0, <1>3
  <1>4. RTypeOK'
    BY Zenon, <1>0, <1>1, <1>3 DEF RInv, RTypeOK
  <1>5. RCarried'
    BY Zenon, <1>0, <1>1, <1>2, <1>3 DEF RInv, RCarried
  <1>6. ROwned' /\ RLocking'
    BY Zenon, <1>0 DEF RInv, ROwned, RLocking
  <1> QED BY Zenon, <1>4, <1>5, <1>6 DEF RInv

LEMMA RSubscribeInv ==
  ASSUME None \notin Caller, None \notin Topic, RInv, NEW c \in Caller,
         R!Subscribe(c) \/ \E t \in Topic : R!Call(c, t)
  PROVE  RInv'
  <1>0. UNCHANGED <<rClosed, rSubs, todo, fwd, held, rSent, wire, rEnded, closer>>
    BY Zenon DEF R!Subscribe, R!Call, R!conn, R!loop, R!close, R!chan
  <1>1. /\ caller' \in [Caller -> Topic \cup {None}] /\ mu' \in Caller \cup {None}
        /\ mu' # None => ~rClosed /\ caller'[mu'] \in Topic \ rSubs
    <2>1. CASE R!Subscribe(c)
      BY Zenon, <2>1 DEF R!Subscribe, RInv, RTypeOK, RLocking
    <2>2. ASSUME NEW t \in Topic, R!Call(c, t)
          PROVE  /\ caller' = [caller EXCEPT ![c] = t] /\ mu' = mu /\ mu # c
      BY Zenon, <2>2 DEF R!Call, RInv, RLocking
    <2>3. ASSUME NEW t \in Topic, R!Call(c, t)
          PROVE  /\ caller' \in [Caller -> Topic \cup {None}]
                 /\ mu \in Caller => caller'[mu] = caller[mu]
      BY <2>2, <2>3 DEF RInv, RTypeOK
    <2> QED BY Zenon, <2>1, <2>2, <2>3 DEF RInv, RTypeOK, RLocking
  <1>2. RTypeOK' /\ RCarried'
    BY Zenon, <1>0, <1>1 DEF RInv, RTypeOK, RCarried, ROut
  <1>3. ROwned'
    BY Zenon, <1>0 DEF RInv, ROwned
  <1>4. RLocking'
    BY Zenon, <1>0, <1>1 DEF RInv, RLocking
  <1> QED BY Zenon, <1>2, <1>3, <1>4 DEF RInv

LEMMA RReceiveInv ==
  ASSUME None \notin Caller, RInv, NEW c \in Caller, R!Receive(c)
  PROVE  RInv'
  <1> DEFINE t == caller[c]
  <1>0. /\ UNCHANGED <<rClosed, todo, held, rSent, wire, rEnded, closer>>
        /\ mu = c /\ mu' = None /\ caller' = [caller EXCEPT ![c] = None]
    BY Zenon DEF R!Receive, R!close, R!chan
  <1>1. ~rClosed /\ t \in Topic \ rSubs
    BY Zenon, <1>0 DEF RInv, RLocking
  <1>2. fwd[t] = "none"
    BY Zenon, <1>1 DEF RInv, ROwned
  <1>3. caller' \in [Caller -> Topic \cup {None}]
    BY Zenon, <1>0 DEF RInv, RTypeOK
  <1>4. \/ UNCHANGED <<rSubs, fwd>>
        \/ rSubs' = rSubs \cup {t} /\ fwd' = [fwd EXCEPT ![t] = "select"]
    BY Zenon DEF R!Receive
  <1> HIDE DEF t
  <1>5. CASE UNCHANGED <<rSubs, fwd>>
    BY Zenon, <1>0, <1>3, <1>5 DEF RInv, RTypeOK, RCarried, ROut, ROwned, RLocking
  <1>6. CASE rSubs' = rSubs \cup {t} /\ fwd' = [fwd EXCEPT ![t] = "select"]
    <2>1. /\ fwd' \in [Topic -> RForwarder] /\ fwd'[t] = "select"
          /\ \A s \in Topic \ {t} : fwd'[s] = fwd[s]
      BY Zenon, <1>1, <1>6 DEF RInv, RTypeOK, RForwarder
    <2>2. RTypeOK'
      BY Zenon, <1>0, <1>1, <1>3, <1>6, <2>1 DEF RInv, RTypeOK
    <2>3. RCarried'
      BY Zenon, <1>0, <1>1, <2>1 DEF RInv, RCarried, ROut
    <2>4. ROwned'
      BY Zenon, <1>0, <1>1, <1>2, <1>6, <2>1 DEF RInv, ROwned
    <2>5. RLocking'
      BY Zenon, <1>0, <1>1, <1>6 DEF RInv, RLocking
    <2> QED BY Zenon, <2>2, <2>3, <2>4, <2>5 DEF RInv
  <1> QED BY Zenon, <1>4, <1>5, <1>6

LEMMA RTakeInv ==
  ASSUME RInv, NEW t \in Topic, R!Take(t)
  PROVE  RInv'
  <1>0. /\ UNCHANGED <<mu, rClosed, rSubs, todo, caller, rSent, rEnded, closer>>
        /\ fwd[t] = "select" /\ wire[t] # <<>>
        /\ fwd' = [fwd EXCEPT ![t] = "sending"] /\ held' = [held EXCEPT ![t] = Head(wire[t])]
        /\ wire' = [wire EXCEPT ![t] = Tail(@)]
    BY Zenon DEF R!Take, R!calls, R!close, R!chan
  <1>1. /\ fwd' \in [Topic -> RForwarder] /\ fwd'[t] = "sending"
        /\ \A s \in Topic \ {t} : fwd'[s] = fwd[s]
    BY Zenon, <1>0 DEF RInv, RTypeOK, RForwarder
  <1>2. /\ DOMAIN held' = Topic /\ held'[t] = Head(wire[t])
        /\ \A s \in Topic \ {t} : held'[s] = held[s]
    BY Zenon, <1>0 DEF RInv, RTypeOK
  <1>3. ASSUME NEW S, wire \in [Topic -> Seq(S)]
        PROVE  wire' \in [Topic -> Seq(S)] /\ Head(wire[t]) \in S
    BY <1>0, <1>3
  <1>4. ROut' = ROut
    BY Zenon, <1>0 DEF ROut
  <1>5. RTypeOK'
    BY Zenon, <1>0, <1>1, <1>2, <1>3 DEF RInv, RTypeOK
  <1>6. RCarried'
    BY Zenon, <1>1, <1>2, <1>3, <1>4 DEF RInv, RCarried
  <1>7. ROwned'
    BY Zenon, <1>0, <1>1 DEF RInv, ROwned
  <1>8. RLocking'
    BY Zenon, <1>0 DEF RInv, RLocking
  <1> QED BY Zenon, <1>5, <1>6, <1>7, <1>8 DEF RInv

\* Forward, Leave and Done: a step of a forwarder that is not its last, or its last.
LEMMA RForwarderInv ==
  ASSUME RInv, NEW t \in Topic, R!Forward(t) \/ R!Leave(t) \/ R!Done(t)
  PROVE  RInv'
  <1>0. /\ UNCHANGED <<mu, rClosed, rSubs, todo, caller, rSent, wire, closer>>
        /\ held' = held \/ held' = [held EXCEPT ![t] = None]
        /\ \/ fwd[t] = "sending" /\ fwd' = [fwd EXCEPT ![t] = "select"] /\ rEnded' = rEnded
           \/ /\ fwd[t] \in {"select", "sending"} /\ fwd' = [fwd EXCEPT ![t] = "leaving"]
              /\ rEnded' = rEnded \cup {t}
           \/ fwd[t] = "leaving" /\ fwd' = [fwd EXCEPT ![t] = "done"] /\ rEnded' = rEnded
    BY Zenon DEF R!Forward, R!Leave, R!Done, R!calls, R!conn, R!close, R!chan
  <1>1. /\ fwd' \in [Topic -> RForwarder] /\ fwd'[t] \in {"select", "leaving", "done"}
        /\ \A s \in Topic \ {t} : fwd'[s] = fwd[s]
    BY Zenon, <1>0 DEF RInv, RTypeOK, RForwarder
  <1>2. DOMAIN held' = Topic /\ \A s \in Topic \ {t} : held'[s] = held[s]
    BY Zenon, <1>0 DEF RInv, RTypeOK
  <1>3. RTypeOK'
    BY Zenon, <1>0, <1>1, <1>2 DEF RInv, RTypeOK
  <1>4. RCarried'
    BY <1>0, <1>1, <1>2 DEF RInv, RCarried, ROut
  <1>5. ROwned'
    <2>1. /\ fwd[t] \notin {"none", "done"} /\ t \in rSubs \cup todo /\ (~rClosed => t \in rSubs)
      BY Zenon, <1>0 DEF RInv, ROwned
    <2>2. \A s \in Topic : s \in rEnded' <=> fwd'[s] \in {"leaving", "done"}
      <3>1. t \in rEnded' <=> fwd'[t] \in {"leaving", "done"}
        BY Zenon, <1>0 DEF RInv, ROwned, RTypeOK
      <3>2. \A s \in Topic \ {t} : s \in rEnded' <=> s \in rEnded
        BY Zenon, <1>0
      <3> QED BY Zenon, <1>1, <3>1, <3>2 DEF RInv, ROwned
    <2>3. rEnded' \subseteq Topic
      BY Zenon, <1>0 DEF RInv, ROwned
    <2> QED BY Zenon, <1>0, <1>1, <2>1, <2>2, <2>3 DEF RInv, ROwned
  <1>6. RLocking'
    BY Zenon, <1>0 DEF RInv, RLocking
  <1> QED BY Zenon, <1>3, <1>4, <1>5, <1>6 DEF RInv

LEMMA RCloseInv ==
  ASSUME RInv, R!Close
  PROVE  RInv'
  <1>0. /\ UNCHANGED <<mu, caller, fwd, held, rSent, wire, rEnded>> /\ mu = None
        /\ closer = "locking" /\ closer' = "ending" /\ rClosed' = TRUE
        /\ todo' = rSubs /\ rSubs' = {}
    BY Zenon DEF R!Close, R!conn, R!loop, R!chan
  <1>1. ~rClosed
    BY Zenon, <1>0 DEF RInv, RLocking
  <1>2. RTypeOK' /\ RCarried'
    BY Zenon, <1>0 DEF RInv, RTypeOK, RCarried, ROut
  <1>3. ROwned'
    BY Zenon, <1>0, <1>1 DEF RInv, ROwned
  <1>4. RLocking'
    BY Zenon, <1>0 DEF RInv, RLocking
  <1> QED BY Zenon, <1>2, <1>3, <1>4 DEF RInv

LEMMA RAwaitedInv ==
  ASSUME RInv, NEW t \in Topic, R!Awaited(t)
  PROVE  RInv'
  <1>0. /\ UNCHANGED <<mu, rClosed, rSubs, caller, fwd, held, rSent, wire, rEnded, closer>>
        /\ closer = "ending" /\ fwd[t] = "done" /\ todo' = todo \ {t}
    BY Zenon DEF R!Awaited, R!calls, R!conn, R!loop, R!chan
  <1>1. RTypeOK' /\ RCarried'
    BY Zenon, <1>0 DEF RInv, RTypeOK, RCarried, ROut
  <1>2. ROwned'
    BY Zenon, <1>0 DEF RInv, ROwned
  <1>3. RLocking'
    BY Zenon, <1>0 DEF RInv, RLocking
  <1> QED BY Zenon, <1>1, <1>2, <1>3 DEF RInv

LEMMA RNextInv ==
  ASSUME None \notin Caller, None \notin Topic, RInv, [R!Next]_(R!vars)
  PROVE  RInv'
  <1>1. CASE UNCHANGED R!vars
    BY Zenon, <1>1, RQuietInv DEF R!vars, R!calls, R!conn, R!loop, R!close, R!chan
  <1>2. ASSUME NEW p \in Pod, R!Publish(p) PROVE RInv'
    BY Zenon, <1>2, RPublishInv
  <1>3. ASSUME NEW p \in Pod, NEW t \in Topic, NEW i \in 1..rSent[p], R!Arrive(t, p, i) PROVE RInv'
    BY Zenon, <1>3, RArriveInv
  <1>4. CASE R!CloseClient
    BY Zenon, <1>4, RQuietInv DEF R!CloseClient, R!calls, R!loop, R!close, R!chan
  <1>5. ASSUME NEW c \in Caller, R!Subscribe(c) \/ \E t \in Topic : R!Call(c, t) PROVE RInv'
    BY Zenon, <1>5, RSubscribeInv
  <1>6. ASSUME NEW c \in Caller, R!Receive(c) PROVE RInv'
    BY Zenon, <1>6, RReceiveInv
  <1>7. ASSUME NEW t \in Topic, R!Forwarding(t) PROVE RInv'
    BY Zenon, <1>7, RTakeInv, RForwarderInv DEF R!Forwarding
  <1>8. ASSUME NEW t \in Topic, R!Consume(t) PROVE RInv'
    BY Zenon, <1>8, RQuietInv DEF R!Consume, R!calls, R!conn, R!loop, R!close
  <1>9. CASE R!CloseCall
    <2>1. closer = "idle" /\ ~rClosed
      BY Zenon, <1>9 DEF R!CloseCall, RInv, RLocking
    <2> QED BY Zenon, <1>9, <2>1, RQuietInv DEF R!CloseCall, R!calls, R!conn, R!loop, R!chan
  <1>10. CASE R!Close
    BY Zenon, <1>10, RCloseInv
  <1>11. CASE R!Return
    BY Zenon, <1>11, RQuietInv DEF R!Return, R!calls, R!loop, R!chan
  <1>12. ASSUME NEW t \in Topic, R!Cancel(t) \/ R!ClosePubSub(t) PROVE RInv'
    BY Zenon, <1>12, RQuietInv
       DEF R!Cancel, R!ClosePubSub, R!calls, R!conn, R!loop, R!close, R!chan
  <1>13. ASSUME NEW t \in Topic, R!Awaited(t) PROVE RInv'
    BY Zenon, <1>13, RAwaitedInv
  <1> QED BY Zenon, <1>1, <1>2, <1>3, <1>4, <1>5, <1>6, <1>7, <1>8, <1>9, <1>10, <1>11, <1>12,
             <1>13
          DEF R!Next, R!Ending

\* After the Close that found it open has returned, a RedisTransport has no
\* forwarder left and every channel it returned is closed, for any number of
\* topics and of Subscribe calls that race Close.
THEOREM CloseLeavesNothing == R!Spec => []ClosedMeansEnded
  <1>1. R!Init => RInv
    BY Zenon, RInitInv
  <1>2. RInv /\ [R!Next]_(R!vars) => RInv'
    BY Zenon, RNextInv, CallerAssumption
  <1>3. RInv => ClosedMeansEnded
    BY Zenon DEF RInv, ROwned, RLocking, ClosedMeansEnded, R!ClosedMeansEnded
  <1> QED BY <1>1, <1>2, <1>3, PTL DEF R!Spec

\* Every step of RedisTransport is a step of the contract or changes nothing in it.
LEMMA RStepKeepsContract ==
  ASSUME RInv, [R!Next]_(R!vars)
  PROVE  [R!Contract!Next]_(R!Contract!vars)
  <1>1. ASSUME NEW p \in Pod, R!Publish(p) PROVE R!Contract!Publish(p)
    BY Zenon, <1>1 DEF R!Publish, R!chan, R!Contract!Publish
  <1>2. ASSUME NEW t \in Topic, R!Forward(t)
        PROVE  \E p \in Pod : \E i \in 1..rSent[p] : R!Contract!Deliver(t, p, i)
    <2>1. held[t] \in ROut /\ t \notin rEnded
      BY Zenon, <1>2 DEF R!Forward, RInv, RCarried, ROwned
    <2>2. PICK p \in Pod, i \in Nat : held[t] = <<p, i>> /\ i \in 1..rSent[p]
      BY <2>1 DEF ROut
    <2>3. R!Contract!Deliver(t, p, i)
      BY Zenon, <1>2, <2>1, <2>2 DEF R!Forward, R!Contract!Deliver
    <2> QED BY Zenon, <2>2, <2>3
  <1>3. ASSUME NEW t \in Topic, R!Leave(t) PROVE R!Contract!End({t})
    <2>1. t \notin rEnded
      BY Zenon, <1>3 DEF R!Leave, RInv, ROwned
    <2> QED BY Zenon, <1>3, <2>1 DEF R!Leave, R!Contract!End
  <1>4. ASSUME \/ UNCHANGED R!vars \/ R!CloseClient \/ R!CloseCall \/ R!Close \/ R!Return
               \/ \E p \in Pod, t \in Topic : \E i \in 1..rSent[p] : R!Arrive(t, p, i)
               \/ \E c \in Caller : R!Subscribe(c) \/ R!Receive(c) \/ \E t \in Topic : R!Call(c, t)
               \/ \E t \in Topic : \/ R!Take(t) \/ R!Done(t) \/ R!Consume(t)
                                 \/ R!Cancel(t) \/ R!ClosePubSub(t) \/ R!Awaited(t)
        PROVE  UNCHANGED R!Contract!vars
    BY Zenon, <1>4 DEF R!vars, R!chan, R!CloseClient, R!CloseCall, R!Close, R!Return, R!Arrive,
                R!Subscribe, R!Receive, R!Call, R!Take, R!Done, R!Consume, R!Cancel,
                R!ClosePubSub, R!Awaited, R!Contract!vars
  <1> QED BY Zenon, <1>1, <1>2, <1>3, <1>4 DEF R!Next, R!Forwarding, R!Ending, R!Contract!Next

\* RedisTransport implements the unordered contract of Transport: a channel carries
\* published messages only, and none once it is closed.
THEOREM RedisKeepsContract == R!Spec => RedisDelivers
  <1>1. R!Init => RInv /\ R!Contract!Init
    BY Zenon, RInitInv DEF R!Init, R!Contract!Init
  <1>2. RInv /\ [R!Next]_(R!vars) => RInv'
    BY Zenon, RNextInv, CallerAssumption
  <1>3. RInv /\ [R!Next]_(R!vars) => [R!Contract!Next]_(R!Contract!vars)
    BY Zenon, RStepKeepsContract
  <1> QED BY <1>1, <1>2, <1>3, PTL DEF R!Spec, RedisDelivers, R!RedisDelivers, R!Contract!Spec
=============================================================================
