-------------------------- MODULE CallReplyProofs --------------------------
(***************************************************************************)
(* The calls of callreply, proved for every set of pods, targets, methods  *)
(* and calls, every cap and every bound, over a transport that loses,      *)
(* repeats and reorders envelopes.                                         *)
(***************************************************************************)
EXTENDS CallReply, Integers, TLAPS

Result == {"ok", "failed", "noHandler", "busy"}
Outcome == Result \cup {"none", "noRoute", "publishFailed", "timeout", "closed"}
CallState == [at : {"idle", "routed", "local", "pending", "waiting", "returned"},
              target : Target, method : Method, to : Pod \cup {NoPod}, outcome : Outcome]
Goroutine == [id : Call, copy : Nat \ {0}, pod : Pod,
              at : {"start", "acquired", "running", "replied"}]
CallEnvelope == [type : {"call"}, id : Call, to : Pod, result : {"none"}]
ReplyEnvelope == [type : {"reply"}, id : Call, to : Pod, result : Result]

RoutesType ==
  /\ handlers \in [Pod -> [Target -> SUBSET Method]]
  /\ ops \in [Pod -> SUBSET (Target \X {"claim", "release"})]
  /\ writes \in [Target -> Seq([owner : Pod \cup {NoPod}, published : BOOLEAN])]
  /\ rt \in [Pod -> [Target -> Nat]]
  /\ \A p \in Pod, t \in Target : rt[p][t] <= Len(writes[t])

CallingType ==
  /\ call \in [Call -> CallState] /\ pending \subseteq Call
  /\ ch \in [Call -> Result \cup {"none"}] /\ replying \subseteq ReplyEnvelope

HandlingType ==
  /\ serving \subseteq Goroutine
  /\ copies \in [Call -> Nat] /\ executed \in [Call -> Nat] /\ sem \in [Pod -> Int]

WireType == wire \subseteq CallEnvelope \cup ReplyEnvelope
CloserType == closer \in [Pod -> {"open", "closing", "draining", "returned"}]

TypeOK == RoutesType /\ CallingType /\ HandlingType /\ WireType /\ CloserType

----------------------------------------------------------------------------
(* The inductive invariant.                                                *)

\* The envelope of the call may have left: it is for another pod and published.
Sent(c) == call[c].to \in Pod \ {From[c]} /\ call[c].at \in {"waiting", "returned"}

\* Where a call is.
CallOK(c) ==
  /\ call[c].at \in {"routed", "local", "pending", "waiting"} =>
       call[c].to \in Pod /\ call[c].outcome = "none"
  /\ call[c].at = "idle" => call[c].outcome = "none"
  /\ call[c].at = "local" => call[c].to = From[c]
  /\ call[c].at \in {"pending", "waiting"} => call[c].to # From[c]
  /\ c \in pending => call[c].at \in {"pending", "waiting"}
  /\ call[c].outcome = "noRoute" => call[c].to = NoPod
  /\ call[c].outcome \in {"noHandler", "busy"} => copies[c] > 0 \/ call[c].to = From[c]
  /\ copies[c] > 0 => Sent(c)
  /\ executed[c] > 0 => call[c].at \in {"waiting", "returned"}
  /\ executed[c] > 0 /\ call[c].to # From[c] => copies[c] > 0

\* The goroutines of the inbox: one for each delivery, and of a call delivered once
\* and executed none has still to reply.
ServingOK ==
  /\ \A s \in serving : s.copy <= copies[s.id]
  /\ \A s, r \in serving : s.id = r.id /\ s.copy = r.copy => s = r
  /\ \A s \in serving : copies[s.id] <= 1 /\ executed[s.id] > 0 => s.at = "replied"

\* What a result says of its call is the case.
Truth(c, r) ==
  /\ r \in {"ok", "failed"} => executed[c] > 0
  /\ r \in {"noHandler", "busy"} /\ copies[c] <= 1 =>
       executed[c] = 0 /\ \A s \in serving : s.id = c => s.at = "replied"

\* The envelopes on the wire and in the hands of recvLoop.
Mail == wire \cup replying

\* Results on their way, in a reply channel and returned.
ResultsOK ==
  /\ \A m \in Mail : m.type = "call" => Sent(m.id)
  /\ \A m \in Mail : m.type = "reply" => copies[m.id] > 0 /\ Truth(m.id, m.result)
  /\ \A c \in Call : ch[c] # "none" => copies[c] > 0 /\ Truth(c, ch[c])
  /\ \A c \in Call : Truth(c, call[c].outcome)

\* The holders of the tokens of a pod.
Served(p) == {s \in serving : s.pod = p /\ s.at # "start"}
Local(p) == {c \in Call : From[c] = p /\ call[c].at = "local"}

Tokens ==
  \A p \in Pod :
    /\ IsFiniteSet(Served(p)) /\ IsFiniteSet(Local(p))
    /\ sem[p] = Cardinality(Served(p)) + Cardinality(Local(p))

Inv ==
  /\ TypeOK /\ (\A c \in Call : CallOK(c)) /\ ServingOK /\ ResultsOK
  /\ Tokens /\ ClosedIsQuiet

----------------------------------------------------------------------------
(* Types.                                                                  *)

\* A replica of the routing table names a pod or none.
LEMMA OwnerType ==
  ASSUME RoutesType, NEW p \in Pod, NEW t \in Target PROVE Owner(p, t) \in Pod \cup {NoPod}
<1> DEFINE W == [owner : Pod \cup {NoPod}, published : BOOLEAN]
<1>1. rt[p][t] \in Nat /\ rt[p][t] <= Len(writes[t])
  BY Zenon DEF RoutesType
<1>2. writes[t] \in Seq(W)
  BY Zenon DEF RoutesType
<1>3. CASE rt[p][t] # 0
  <2> HIDE DEF W
  <2>1. rt[p][t] \in 1..Len(writes[t])
    BY <1>1, <1>2, <1>3
  <2>2. writes[t][rt[p][t]] \in W
    BY <1>2, <2>1
  <2>3. QED
    BY Zenon, <1>3, <2>2 DEF Owner, W
<1>4. QED
  BY Zenon, <1>3 DEF Owner

\* A routing write is the newest of its target, and the writer's replica holds it.
LEMMA RouteWriteType ==
  ASSUME RoutesType, NEW p \in Pod, NEW t \in Target, NEW o \in Pod \cup {NoPod},
         NEW b \in BOOLEAN, RouteWrite(p, t, o, b)
  PROVE  /\ writes' \in [Target -> Seq([owner : Pod \cup {NoPod}, published : BOOLEAN])]
         /\ rt' \in [Pod -> [Target -> Nat]]
         /\ \A q \in Pod, u \in Target : rt'[q][u] <= Len(writes'[u])
<1> DEFINE W == [owner : Pod \cup {NoPod}, published : BOOLEAN]
           w == [owner |-> o, published |-> b]
<1>1. writes \in [Target -> Seq(W)] /\ w \in W
  BY Zenon DEF RoutesType
<1>2. writes' = [writes EXCEPT ![t] = Append(writes[t], w)]
  BY Zenon DEF RouteWrite
<1> HIDE DEF W, w
<1>3. Append(writes[t], w) \in Seq(W) /\ Len(Append(writes[t], w)) = Len(writes[t]) + 1
      /\ Len(writes[t]) \in Nat
  BY <1>1
<1>4. writes' \in [Target -> Seq(W)]
  BY Zenon, <1>1, <1>2, <1>3
<1>5. rt' \in [Pod -> [Target -> Nat]]
  BY <1>3 DEF RouteWrite, RoutesType
<1>6. ASSUME NEW q \in Pod, NEW u \in Target PROVE rt'[q][u] <= Len(writes'[u])
  <2>1. rt[q][u] \in Nat /\ rt[q][u] <= Len(writes[u]) /\ Len(writes[u]) \in Nat
    BY <1>1 DEF RoutesType
  <2>2. Len(writes'[u]) = IF u = t THEN Len(writes[t]) + 1 ELSE Len(writes[u])
    BY Zenon, <1>1, <1>2, <1>3
  <2>3. rt'[q][u] = IF q = p /\ u = t THEN Len(writes[t]) + 1 ELSE rt[q][u]
    BY Zenon DEF RouteWrite, RoutesType
  <2>4. QED
    BY <2>1, <2>2, <2>3
<1>7. QED
  BY Zenon, <1>4, <1>5, <1>6 DEF W

\* The steps of the routing table keep its type.
LEMMA TypeRoutes ==
  ASSUME RoutesType, NEW p \in Pod, NEW t \in Target,
         \/ LearnRoute(p, t) \/ Claim(p, t) \/ Unregister(p, t) \/ Release(p, t)
         \/ \E m \in Method : Register(p, t, m)
  PROVE  RoutesType' /\ UNCHANGED <<calling, wire, handling, closer>>
<1>1. CASE LearnRoute(p, t)
  <2>1. PICK s \in rt[p][t] + 1 .. Len(writes[t]) : rt' = [rt EXCEPT ![p][t] = s]
    BY Zenon, <1>1 DEF LearnRoute
  <2>2. rt[p][t] \in Nat /\ Len(writes[t]) \in Nat
    BY DEF RoutesType
  <2>3. s \in Nat /\ s <= Len(writes[t])
    BY <2>2
  <2>4. rt' \in [Pod -> [Target -> Nat]]
    BY Zenon, <2>1, <2>3 DEF RoutesType
  <2>5. UNCHANGED <<handlers, ops, writes, calling, wire, handling, closer>>
    BY Zenon, <1>1 DEF LearnRoute
  <2>6. ASSUME NEW q \in Pod, NEW u \in Target PROVE rt'[q][u] <= Len(writes'[u])
    <3>1. rt'[q][u] = IF q = p /\ u = t THEN s ELSE rt[q][u]
      BY Zenon, <2>1 DEF RoutesType
    <3>2. rt[q][u] <= Len(writes[u])
      BY Zenon DEF RoutesType
    <3>3. QED
      BY Zenon, <2>3, <2>5, <3>1, <3>2
  <2>7. handlers' = handlers /\ ops' = ops /\ writes' = writes
    BY Zenon, <2>5
  <2>8. RoutesType'
    <3>1. /\ handlers' \in [Pod -> [Target -> SUBSET Method]]
          /\ ops' \in [Pod -> SUBSET (Target \X {"claim", "release"})]
          /\ writes' \in [Target -> Seq([owner : Pod \cup {NoPod}, published : BOOLEAN])]
      BY Zenon, <2>7 DEF RoutesType
    <3>2. \A q \in Pod, u \in Target : rt'[q][u] <= Len(writes'[u])
      BY Zenon, <2>6
    <3>3. QED
      BY Zenon, <2>4, <3>1, <3>2 DEF RoutesType
  <2>9. QED
    BY Zenon, <2>5, <2>8
<1>2. ASSUME NEW e, ops' = [ops EXCEPT ![p] = @ \ {e}]
      PROVE  ops' \in [Pod -> SUBSET (Target \X {"claim", "release"})]
  <2> DEFINE X == Target \X {"claim", "release"}
  <2>1. ops \in [Pod -> SUBSET X]
    BY Zenon DEF RoutesType
  <2> HIDE DEF X
  <2>2. ops' \in [Pod -> SUBSET X]
    BY Zenon, <1>2, <2>1
  <2>3. QED
    BY Zenon, <2>2 DEF X
<1>3. ASSUME NEW o \in Pod \cup {NoPod}, UNCHANGED handlers,
             ops' \in [Pod -> SUBSET (Target \X {"claim", "release"})],
             RouteWrite(p, t, o, TRUE) \/ RouteWrite(p, t, o, FALSE) \/ UNCHANGED <<writes, rt>>
      PROVE  RoutesType'
  <2>1. CASE UNCHANGED <<writes, rt>>
    BY Zenon, <1>3, <2>1 DEF RoutesType
  <2>2. ASSUME NEW b \in BOOLEAN, RouteWrite(p, t, o, b) PROVE RoutesType'
    BY Zenon, <1>3, <2>2, RouteWriteType DEF RoutesType
  <2>3. QED
    BY Zenon, <1>3, <2>1, <2>2
<1>4. CASE Claim(p, t)
  BY Zenon, <1>2, <1>3, <1>4 DEF Claim
<1>5. CASE Release(p, t)
  BY Zenon, <1>2, <1>3, <1>5 DEF Release
<1>6. CASE Unregister(p, t)
  <2>1. handlers' \in [Pod -> [Target -> SUBSET Method]]
    BY Zenon, <1>6 DEF Unregister, RoutesType
  <2>2. ops' \in [Pod -> SUBSET (Target \X {"claim", "release"})]
    BY <1>6 DEF Unregister, RoutesType
  <2>3. QED
    BY Zenon, <1>6, <2>1, <2>2 DEF Unregister, RoutesType
<1>7. ASSUME NEW m \in Method, Register(p, t, m)
      PROVE  RoutesType' /\ UNCHANGED <<calling, wire, handling, closer>>
  <2>1. handlers' \in [Pod -> [Target -> SUBSET Method]]
    BY <1>7 DEF Register, RoutesType
  <2>2. ops' \in [Pod -> SUBSET (Target \X {"claim", "release"})]
    BY <1>7 DEF Register, RoutesType
  <2>3. QED
    BY Zenon, <1>7, <2>1, <2>2 DEF Register, RoutesType
<1>8. QED
  BY Zenon, <1>1, <1>4, <1>5, <1>6, <1>7

\* Return ends a call with an outcome.
LEMMA ReturnType ==
  ASSUME CallingType, NEW c \in Call, NEW r \in Outcome, Return(c, r), UNCHANGED replying,
         ch' = ch \/ ch' = [ch EXCEPT ![c] = "none"]
  PROVE  CallingType'
<1>1. call[c] \in CallState
  BY Zenon DEF CallingType
<1>2. call' \in [Call -> CallState]
  BY Zenon, <1>1 DEF Return, CallingType, CallState
<1>3. QED
  BY Zenon, <1>2 DEF Return, CallingType

\* The steps of a caller keep the types.
LEMMA TypeCaller ==
  ASSUME TypeOK, (\A c \in Call : CallOK(c)), NEW c \in Call,
         Start(c) \/ Calling(c) \/ Timeout(c)
  PROVE  TypeOK'
<1> USE FromAssumption
<1>1. /\ RoutesType /\ CallingType /\ HandlingType /\ WireType /\ CloserType
      /\ call \in [Call -> CallState] /\ call[c] \in CallState /\ From[c] \in Pod
  BY Zenon DEF TypeOK, CallingType
<1>2. CASE Start(c)
  <2>1. PICK t \in Target, m \in Method :
          LET o == Owner(From[c], t) IN
          call' = [call EXCEPT ![c] =
                     [at |-> IF o = NoPod THEN "returned" ELSE "routed",
                      target |-> t, method |-> m, to |-> o,
                      outcome |-> IF o = NoPod THEN "noRoute" ELSE "none"]]
    BY Zenon, <1>2 DEF Start
  <2>2. PICK o \in Pod \cup {NoPod} :
          call' = [call EXCEPT ![c] =
                     [at |-> IF o = NoPod THEN "returned" ELSE "routed",
                      target |-> t, method |-> m, to |-> o,
                      outcome |-> IF o = NoPod THEN "noRoute" ELSE "none"]]
    BY Zenon, <1>1, <2>1, OwnerType
  <2>3. [at |-> IF o = NoPod THEN "returned" ELSE "routed", target |-> t, method |-> m, to |-> o,
         outcome |-> IF o = NoPod THEN "noRoute" ELSE "none"] \in CallState
    BY Zenon DEF CallState, Outcome
  <2>4. call' \in [Call -> CallState]
    BY Zenon, <1>1, <2>2, <2>3
  <2>5. UNCHANGED <<routes, pending, ch, replying, wire, handling, closer>>
    BY Zenon, <1>2 DEF Start
  <2>6. QED
    BY Zenon, <1>1, <2>4, <2>5
       DEF TypeOK, RoutesType, CallingType, HandlingType, WireType, CloserType,
                            routes, handling
<1>3. CASE callLocal(c)
  <2>1. UNCHANGED <<routes, ch, replying, wire, serving, copies, executed, closer>>
    BY Zenon, <1>3 DEF callLocal
  <2>2. sem' \in [Pod -> Int]
    BY <1>1, <1>3 DEF callLocal, HandlingType
  <2>3. CallingType'
    <3>1. CASE Return(c, "noHandler") \/ Return(c, "busy")
      BY Zenon, <1>1, <2>1, <3>1, ReturnType DEF Outcome, Result
    <3>2. CASE call' = [call EXCEPT ![c].at = "local"] /\ pending' = pending
      <4>1. call' \in [Call -> CallState]
        BY Zenon, <1>1, <3>2 DEF CallState
      <4>2. QED
        BY Zenon, <1>1, <2>1, <3>2, <4>1 DEF CallingType
    <3>3. QED
      BY Zenon, <1>3, <3>1, <3>2 DEF callLocal
  <2>4. QED
    BY Zenon, <1>1, <2>1, <2>2, <2>3
       DEF TypeOK, RoutesType, HandlingType, WireType, CloserType, routes
<1>4. CASE LocalReturn(c)
  <2>1. UNCHANGED <<routes, ch, replying, wire, serving, copies, closer>>
    BY Zenon, <1>4 DEF LocalReturn
  <2>2. sem' \in [Pod -> Int] /\ executed' \in [Call -> Nat]
    BY <1>1, <1>4 DEF LocalReturn, HandlingType
  <2>3. CallingType'
    BY Zenon, <1>1, <1>4, <2>1, ReturnType DEF LocalReturn, Outcome, Result
  <2>4. QED
    BY Zenon, <1>1, <2>1, <2>2, <2>3
       DEF TypeOK, RoutesType, HandlingType, WireType, CloserType, routes
<1>5. CASE Pend(c)
  <2>1. call' \in [Call -> CallState]
    BY Zenon, <1>1, <1>5 DEF Pend, CallState
  <2>2. UNCHANGED <<routes, ch, replying, wire, handling, closer>> /\ pending' \subseteq Call
    BY Zenon, <1>1, <1>5 DEF Pend, CallingType
  <2>3. QED
    BY Zenon, <1>1, <2>1, <2>2
       DEF TypeOK, RoutesType, CallingType, HandlingType, WireType, CloserType,
                            routes, handling
<1>6. CASE Publish(c)
  <2>1. UNCHANGED <<routes, ch, replying, handling, closer>>
    BY Zenon, <1>6 DEF Publish
  <2>2. Envelope("call", c, call[c].to, "none") \in CallEnvelope
    <3>1. call[c].to \in Pod
      BY Zenon, <1>6 DEF Publish, CallOK
    <3>2. QED
      BY Zenon, <3>1 DEF Envelope, CallEnvelope
  <2>3. WireType'
    BY Zenon, <1>1, <1>6, <2>2 DEF Publish, WireType
  <2>4. CallingType'
    <3>1. CASE Return(c, "publishFailed")
      BY Zenon, <1>1, <2>1, <3>1, ReturnType DEF Outcome
    <3>2. CASE call' = [call EXCEPT ![c].at = "waiting"] /\ pending' = pending
      <4>1. call' \in [Call -> CallState]
        BY Zenon, <1>1, <3>2 DEF CallState
      <4>2. QED
        BY Zenon, <1>1, <2>1, <3>2, <4>1 DEF CallingType
    <3>3. QED
      BY Zenon, <1>6, <3>1, <3>2 DEF Publish
  <2>5. QED
    BY Zenon, <1>1, <2>1, <2>3, <2>4
       DEF TypeOK, RoutesType, HandlingType, CloserType, routes, handling
<1>7. CASE Await(c) \/ Timeout(c) \/ CallClosed(c)
  <2>1. /\ UNCHANGED <<routes, replying, wire, handling, closer>>
        /\ ch' = ch \/ ch' = [ch EXCEPT ![c] = "none"]
    BY Zenon, <1>7 DEF Await, Timeout, CallClosed
  <2>2. PICK r \in Outcome : Return(c, r)
    BY Zenon, <1>1, <1>7 DEF Await, Timeout, CallClosed, CallingType, Outcome
  <2>3. CallingType'
    BY Zenon, <1>1, <2>1, <2>2, ReturnType
  <2>4. QED
    BY Zenon, <1>1, <2>1, <2>3
       DEF TypeOK, RoutesType, HandlingType, WireType, CloserType, routes, handling
<1>8. QED
  BY Zenon, <1>2, <1>3, <1>4, <1>5, <1>6, <1>7 DEF Calling

\* Step moves one goroutine, and what it becomes was not there before.
LEMMA Moves ==
  ASSUME HandlingType, ServingOK, NEW s \in serving, NEW at, at # s.at, Step(s, at),
         at \in {"start", "acquired", "running", "replied"}
  PROVE  \E r \in Goroutine :
           /\ r.id = s.id /\ r.copy = s.copy /\ r.pod = s.pod /\ r.at = at
           /\ r \notin serving /\ serving' = (serving \ {s}) \cup {r}
<1> DEFINE r == [s EXCEPT !.at = at]
<1>1. s \in Goroutine
  BY Zenon DEF HandlingType
<1>2. r \in Goroutine /\ r.id = s.id /\ r.copy = s.copy /\ r.pod = s.pod /\ r.at = at
  BY Zenon, <1>1 DEF Goroutine
<1>3. serving' = (serving \ {s}) \cup {r}
  BY Zenon DEF Step
<1> HIDE DEF r
<1>4. r \notin serving
  BY Zenon, <1>2 DEF ServingOK
<1>5. QED
  BY Zenon, <1>2, <1>3, <1>4

\* A reply names a call and a result.
LEMMA ReplyType ==
  ASSUME NEW s \in Goroutine, NEW r \in Result
  PROVE  /\ Envelope("reply", s.id, From[s.id], r) \in ReplyEnvelope
         /\ Envelope("reply", s.id, From[s.id], r).id = s.id
         /\ Envelope("reply", s.id, From[s.id], r).type = "reply"
         /\ Envelope("reply", s.id, From[s.id], r).result = r
BY Zenon, FromAssumption DEF Envelope, ReplyEnvelope, Goroutine

\* The steps of an inbox keep the types.
LEMMA TypeInbox ==
  ASSUME TypeOK, NEW m \in wire, ReceiveCall(m) \/ deliverReply(m)
  PROVE  TypeOK'
<1>1. /\ RoutesType /\ CallingType /\ HandlingType /\ WireType /\ CloserType
      /\ m \in CallEnvelope \cup ReplyEnvelope
  BY Zenon DEF TypeOK, WireType
<1>2. WireType'
  BY Zenon, <1>1 DEF ReceiveCall, deliverReply, Taken, WireType
<1>3. CASE ReceiveCall(m)
  <2>1. m.id \in Call /\ m.to \in Pod /\ copies[m.id] \in Nat
    BY Zenon, <1>1 DEF CallEnvelope, ReplyEnvelope, HandlingType
  <2>2. [id |-> m.id, copy |-> copies[m.id] + 1, pod |-> m.to, at |-> "start"] \in Goroutine
    BY <2>1 DEF Goroutine
  <2>3. serving' \subseteq Goroutine /\ copies' \in [Call -> Nat]
    BY <1>1, <1>3, <2>1, <2>2 DEF ReceiveCall, HandlingType
  <2>4. UNCHANGED <<routes, calling, executed, sem, closer>>
    BY Zenon, <1>3 DEF ReceiveCall
  <2>5. QED
    BY Zenon, <1>1, <1>2, <2>3, <2>4
       DEF TypeOK, RoutesType, CallingType, HandlingType, CloserType,
                                  routes, calling
<1>4. CASE deliverReply(m)
  <2>1. m \in ReplyEnvelope
    BY <1>1, <1>4 DEF deliverReply, CallEnvelope
  <2>2. replying' \subseteq ReplyEnvelope
    BY Zenon, <1>1, <1>4, <2>1 DEF deliverReply, CallingType
  <2>3. UNCHANGED <<routes, call, pending, ch, handling, closer>>
    BY Zenon, <1>4 DEF deliverReply
  <2>4. QED
    BY Zenon, <1>1, <1>2, <2>2, <2>3
       DEF TypeOK, RoutesType, CallingType, HandlingType, CloserType,
                                  routes, handling
<1>5. QED
  BY Zenon, <1>3, <1>4

\* So does the send on a reply channel.
LEMMA TypePass ==
  ASSUME TypeOK, NEW m \in replying, PassReply(m)
  PROVE  TypeOK'
<1>1. m.id \in Call /\ m.result \in Result
  BY Zenon DEF TypeOK, CallingType, ReplyEnvelope
<1>2. CallingType'
  BY Zenon, <1>1 DEF TypeOK, PassReply, CallingType
<1>3. UNCHANGED <<routes, wire, handling, closer>>
  BY Zenon DEF PassReply
<1>4. QED
  BY Zenon, <1>2, <1>3 DEF TypeOK, RoutesType, HandlingType, WireType, CloserType, routes, handling

\* The steps of serveCall keep the types.
LEMMA TypeServing ==
  ASSUME TypeOK, ServingOK, NEW s \in serving, Serving(s) PROVE TypeOK'
<1>1. /\ RoutesType /\ CallingType /\ HandlingType /\ WireType /\ CloserType
      /\ s \in Goroutine /\ s.id \in Call /\ s.pod \in Pod
  BY Zenon DEF TypeOK, HandlingType, Goroutine
<1>2. UNCHANGED <<routes, calling, copies, closer>>
  BY Zenon DEF Serving, Acquire, Lookup, Finish, Exit
<1>3. serving' \subseteq Goroutine
  <2>1. CASE serving' = serving \ {s}
    BY Zenon, <1>1, <2>1 DEF HandlingType
  <2>2. ASSUME NEW at, at # s.at, at \in {"acquired", "running", "replied"}, Step(s, at)
        PROVE  serving' \subseteq Goroutine
    BY <1>1, <2>2, Moves DEF HandlingType
  <2>3. QED
    BY Zenon, <2>1, <2>2 DEF Serving, Acquire, Lookup, Finish, Exit
<1>4. sem' \in [Pod -> Int]
  BY <1>1 DEF Serving, Acquire, Lookup, Finish, Exit, HandlingType
<1>5. executed' \in [Call -> Nat]
  BY <1>1 DEF Serving, Acquire, Lookup, Finish, Exit, HandlingType
<1>6. WireType'
  <2>1. ASSUME NEW r \in Result, sendReply(s, r) PROVE WireType'
    BY <1>1, <2>1, ReplyType DEF sendReply, WireType
  <2>2. CASE wire' = wire
    BY Zenon, <1>1, <2>2 DEF WireType
  <2>3. QED
    BY Zenon, <2>1, <2>2 DEF Serving, Acquire, Lookup, Finish, Exit, Result
<1>7. QED
  BY Zenon, <1>1, <1>2, <1>3, <1>4, <1>5, <1>6 DEF TypeOK, RoutesType, CallingType, HandlingType,
                                            CloserType, routes, calling

----------------------------------------------------------------------------
(* Callers.                                                                *)

\* The parts of the invariant on calls, goroutines and results.
Honest == (\A c \in Call : CallOK(c)) /\ ServingOK /\ ResultsOK /\ ClosedIsQuiet

\* A goroutine serves a call that was delivered, as often as it says.
LEMMA ServedWasSent ==
  ASSUME TypeOK, Honest, NEW s \in serving
  PROVE  /\ s \in Goroutine /\ s.id \in Call /\ s.pod \in Pod /\ copies[s.id] \in Nat
         /\ s.copy \in Nat \ {0} /\ s.copy <= copies[s.id] /\ copies[s.id] > 0 /\ Sent(s.id)
<1>1. s \in Goroutine /\ s.id \in Call /\ s.pod \in Pod /\ s.copy \in Nat \ {0}
  BY Zenon DEF TypeOK, HandlingType, Goroutine
<1>2. copies[s.id] \in Nat /\ s.copy <= copies[s.id]
  BY Zenon, <1>1 DEF TypeOK, HandlingType, Honest, ServingOK
<1>3. copies[s.id] > 0
  BY <1>1, <1>2
<1>4. QED
  BY Zenon, <1>1, <1>2, <1>3 DEF Honest, CallOK

\* An envelope names a call, and recvLoop holds replies only.
LEMMA MailType ==
  ASSUME TypeOK, NEW m \in Mail PROVE m.id \in Call /\ (m \in replying => m.type = "reply")
BY Zenon DEF TypeOK, WireType, CallingType, CallEnvelope, ReplyEnvelope, Mail

\* A step of a caller touches its own call only, and what was sent stays sent.
LEMMA CallerKeeps ==
  ASSUME TypeOK, Honest, NEW c \in Call,
         UNCHANGED <<serving, copies, closer>>,
         \A d \in Call : ch'[d] = ch[d] \/ ch'[d] = "none",
         \A d \in Call \ {c} : /\ call'[d] = call[d] /\ executed'[d] = executed[d]
                               /\ d \in pending' => d \in pending,
         CallOK(c)', Sent(c) => Sent(c)', Truth(c, call[c].outcome)',
         executed'[c] = executed[c] \/ copies[c] = 0,
         \A m \in Mail' : m \in Mail \/ (m.type = "call" /\ m.id = c /\ Sent(c)')
  PROVE  Honest'
<1>1. ASSUME NEW d \in Call PROVE CallOK(d)'
  <2>1. CASE d # c
    BY <1>1, <2>1 DEF Honest, CallOK, Sent
  <2>2. QED
    BY Zenon, <2>1
<1>2. ASSUME NEW s \in serving PROVE s.id \in Call /\ copies[s.id] > 0 /\ executed'[s.id] = executed[s.id]
  <2>1. s.id \in Call /\ copies[s.id] > 0 /\ copies[s.id] \in Nat
    BY Zenon, <1>2, ServedWasSent
  <2>2. QED
    BY <2>1
<1>3. ServingOK'
  BY Zenon, <1>2 DEF Honest, ServingOK
<1>4. ASSUME NEW d \in Call, NEW r, Truth(d, r), executed'[d] = executed[d] PROVE Truth(d, r)'
  BY Zenon, <1>4 DEF Truth
<1>5. ASSUME NEW d \in Call, copies[d] > 0 PROVE executed'[d] = executed[d]
  <2>1. copies[d] \in Nat
    BY Zenon DEF TypeOK, HandlingType
  <2>2. QED
    BY <1>5, <2>1
<1>6. \A d \in Call : Sent(d) => Sent(d)'
  BY Zenon DEF Sent
<1>7. ASSUME NEW m \in Mail' PROVE /\ m.type = "call" => Sent(m.id)'
                                   /\ m.type = "reply" => copies'[m.id] > 0 /\ Truth(m.id, m.result)'
  <2>1. CASE m \in Mail
    <3>1. m.id \in Call
      BY Zenon, <2>1, MailType
    <3>2. m.type = "call" => Sent(m.id)'
      BY Zenon, <1>6, <2>1, <3>1 DEF Honest, ResultsOK
    <3>3. m.type = "reply" => copies[m.id] > 0 /\ Truth(m.id, m.result)
      BY Zenon, <2>1 DEF Honest, ResultsOK
    <3>4. QED
      BY Zenon, <1>4, <1>5, <3>1, <3>2, <3>3
  <2>2. CASE m.type = "call" /\ m.id = c /\ Sent(c)'
    BY Zenon, <2>2
  <2>3. QED
    BY Zenon, <1>7, <2>1, <2>2
<1>8. ASSUME NEW d \in Call PROVE ch'[d] # "none" => copies'[d] > 0 /\ Truth(d, ch[d])'
  BY Zenon, <1>4, <1>5, <1>8 DEF Honest, ResultsOK
<1>9. ASSUME NEW d \in Call PROVE Truth(d, call[d].outcome)'
  <2>1. CASE d # c
    <3>1. Truth(d, call[d].outcome) /\ executed'[d] = executed[d] /\ call'[d] = call[d]
      BY Zenon, <2>1 DEF Honest, ResultsOK
    <3>2. QED
      BY Zenon, <3>1 DEF Truth
  <2>2. QED
    BY Zenon, <2>1
<1>10. ResultsOK'
  BY Zenon, <1>7, <1>8, <1>9 DEF ResultsOK
<1>11. ClosedIsQuiet'
  BY Zenon DEF Honest, ClosedIsQuiet
<1>12. QED
  BY Zenon, <1>1, <1>3, <1>10, <1>11 DEF Honest

\* The steps of a caller keep calls, goroutines and results.
LEMMA HonestCaller ==
  ASSUME TypeOK, Honest, NEW c \in Call, Start(c) \/ Calling(c) \/ Timeout(c) PROVE Honest'
<1> USE FromAssumption, PodAssumption
<1>1. /\ DOMAIN call = Call /\ call[c] \in CallState /\ From[c] \in Pod /\ DOMAIN executed = Call
      /\ copies[c] \in Nat /\ executed[c] \in Nat /\ ch[c] \in Result \cup {"none"}
  BY Zenon DEF TypeOK, CallingType, HandlingType
<1>2. CallOK(c) /\ Truth(c, call[c].outcome) /\ (ch[c] # "none" => copies[c] > 0 /\ Truth(c, ch[c]))
  BY Zenon DEF Honest, ResultsOK
<1>3. copies[c] = 0 => \A s \in serving : s.id # c
  BY <1>1, ServedWasSent
<1>4. ASSUME NEW r, Return(c, r)
      PROVE  /\ call'[c].at = "returned" /\ call'[c].outcome = r /\ call'[c].to = call[c].to
             /\ c \notin pending'
             /\ \A d \in Call \ {c} : call'[d] = call[d] /\ (d \in pending' => d \in pending)
  BY Zenon, <1>1, <1>4 DEF Return, CallState
<1>5. CASE Start(c)
  <2>1. PICK t \in Target, m \in Method :
          LET o == Owner(From[c], t) IN
          call' = [call EXCEPT ![c] =
                     [at |-> IF o = NoPod THEN "returned" ELSE "routed",
                      target |-> t, method |-> m, to |-> o,
                      outcome |-> IF o = NoPod THEN "noRoute" ELSE "none"]]
    BY Zenon, <1>5 DEF Start
  <2>2. PICK o \in Pod \cup {NoPod} :
          /\ call'[c].at = IF o = NoPod THEN "returned" ELSE "routed"
          /\ call'[c].to = o
          /\ call'[c].outcome = IF o = NoPod THEN "noRoute" ELSE "none"
    <3>1. Owner(From[c], t) \in Pod \cup {NoPod}
      BY Zenon, <1>1, OwnerType DEF TypeOK
    <3>2. QED
      BY Zenon, <1>1, <2>1, <3>1
  <2>3. \A d \in Call \ {c} : call'[d] = call[d]
    BY Zenon, <1>1, <2>1
  <2>4. UNCHANGED <<pending, ch, replying, wire, serving, copies, executed, closer>> /\ call[c].at = "idle"
    BY Zenon, <1>5 DEF Start, handling
  <2>5. copies[c] = 0 /\ executed[c] = 0 /\ c \notin pending /\ ~Sent(c)
    BY <1>1, <1>2, <2>4 DEF CallOK, Sent
  <2>6. CallOK(c)'
    BY <2>2, <2>4, <2>5 DEF CallOK, Sent
  <2>7. Truth(c, call[c].outcome)'
    BY Zenon, <2>2 DEF Truth
  <2>8. QED
    BY Zenon, <2>3, <2>4, <2>5, <2>6, <2>7, CallerKeeps DEF Mail
<1>6. CASE callLocal(c)
  <2>1. UNCHANGED <<ch, replying, wire, serving, copies, executed, closer>> /\ call[c].at = "routed"
        /\ call[c].to = From[c]
    BY Zenon, <1>6 DEF callLocal
  <2>2. copies[c] = 0 /\ executed[c] = 0 /\ c \notin pending /\ ~Sent(c) /\ call[c].outcome = "none"
    BY <1>1, <1>2, <2>1 DEF CallOK, Sent
  <2>3. ASSUME NEW r \in {"noHandler", "busy"}, Return(c, r) PROVE Honest'
    <3>1. CallOK(c)'
      BY <1>1, <1>4, <2>1, <2>2, <2>3 DEF CallOK
    <3>2. Truth(c, call[c].outcome)'
      BY Zenon, <1>3, <1>4, <2>1, <2>2, <2>3 DEF Truth
    <3>3. QED
      BY Zenon, <1>4, <2>1, <2>2, <2>3, <3>1, <3>2, CallerKeeps DEF Mail
  <2>4. CASE call' = [call EXCEPT ![c].at = "local"] /\ pending' = pending
    <3>1. call'[c].at = "local" /\ call'[c].to = call[c].to /\ call'[c].outcome = "none"
          /\ \A d \in Call \ {c} : call'[d] = call[d]
      BY Zenon, <1>1, <2>2, <2>4 DEF CallState
    <3>2. CallOK(c)' /\ Truth(c, call[c].outcome)'
      BY <1>1, <2>1, <2>2, <2>4, <3>1 DEF CallOK, Truth
    <3>3. QED
      BY Zenon, <2>1, <2>2, <2>4, <3>1, <3>2, CallerKeeps DEF Mail
  <2>5. QED
    BY Zenon, <1>6, <2>3, <2>4 DEF callLocal
<1>7. CASE LocalReturn(c)
  <2>1. PICK r \in {"ok", "failed"} : Return(c, r)
    BY Zenon, <1>7 DEF LocalReturn
  <2>2. UNCHANGED <<ch, replying, wire, serving, copies, closer>> /\ call[c].at = "local"
    BY Zenon, <1>7 DEF LocalReturn
  <2>3. executed'[c] = executed[c] + 1 /\ \A d \in Call \ {c} : executed'[d] = executed[d]
    BY Zenon, <1>1, <1>7 DEF LocalReturn
  <2>4. copies[c] = 0 /\ ~Sent(c) /\ call[c].to = From[c]
    BY <1>1, <1>2, <2>2 DEF CallOK, Sent
  <2>5. CallOK(c)'
    BY <1>1, <1>4, <2>1, <2>2, <2>4 DEF CallOK
  <2>6. Truth(c, call[c].outcome)'
    BY <1>1, <1>4, <2>1, <2>3 DEF Truth
  <2>7. QED
    BY Zenon, <1>4, <2>1, <2>2, <2>3, <2>4, <2>5, <2>6, CallerKeeps DEF Mail
<1>8. CASE Pend(c)
  <2>1. UNCHANGED <<ch, replying, wire, serving, copies, executed, closer>> /\ call[c].at = "routed"
        /\ call[c].to # From[c]
    BY Zenon, <1>8 DEF Pend, handling
  <2>2. call'[c].at = "pending" /\ call'[c].to = call[c].to /\ call'[c].outcome = call[c].outcome
        /\ \A d \in Call \ {c} : call'[d] = call[d] /\ (d \in pending' => d \in pending)
    BY Zenon, <1>1, <1>8 DEF Pend, CallState
  <2>3. CallOK(c)' /\ ~Sent(c)
    BY Zenon, <1>2, <2>1, <2>2 DEF CallOK, Sent
  <2>4. Truth(c, call[c].outcome)'
    BY Zenon, <1>2, <2>1, <2>2 DEF Truth
  <2>5. QED
    BY Zenon, <2>1, <2>2, <2>3, <2>4, CallerKeeps DEF Mail
<1>9. CASE Publish(c)
  <2>1. UNCHANGED <<ch, replying, serving, copies, executed, closer>> /\ call[c].at = "pending"
    BY Zenon, <1>9 DEF Publish, handling
  <2>2. /\ call[c].to \in Pod \ {From[c]} /\ call[c].outcome = "none" /\ copies[c] = 0
        /\ executed[c] = 0 /\ ~Sent(c)
    BY <1>1, <1>2, <2>1 DEF CallOK, Sent
  <2>3. /\ call'[c].at \in {"waiting", "returned"} /\ call'[c].to = call[c].to
        /\ call'[c].outcome \in {"none", "publishFailed"}
        /\ call'[c].at = "waiting" => call'[c].outcome = "none"
        /\ call'[c].at = "returned" => c \notin pending'
        /\ \A d \in Call \ {c} : call'[d] = call[d] /\ (d \in pending' => d \in pending)
    <3>1. CASE Return(c, "publishFailed")
      BY Zenon, <1>4, <3>1
    <3>2. CASE call' = [call EXCEPT ![c].at = "waiting"] /\ pending' = pending
      BY Zenon, <1>1, <2>2, <3>2 DEF CallState
    <3>3. QED
      BY Zenon, <1>9, <3>1, <3>2 DEF Publish
  <2>4. Sent(c)' /\ CallOK(c)' /\ Truth(c, call[c].outcome)'
    BY Zenon, <2>1, <2>2, <2>3 DEF Sent, CallOK, Truth
  <2>5. \A m \in Mail' : m \in Mail \/ (m.type = "call" /\ m.id = c /\ Sent(c)')
    <3>1. wire' = wire \/ wire' = wire \cup {Envelope("call", c, call[c].to, "none")}
      BY Zenon, <1>9 DEF Publish
    <3>2. QED
      BY <2>1, <2>4, <3>1 DEF Envelope, Mail
  <2>6. QED
    BY Zenon, <2>1, <2>2, <2>3, <2>4, <2>5, CallerKeeps DEF Mail
<1>10. ASSUME NEW r, Return(c, r), UNCHANGED <<replying, wire, serving, copies, executed, closer>>,
              \A d \in Call : ch'[d] = ch[d] \/ ch'[d] = "none",
              call[c].at = "waiting", r \in {"timeout", "closed"} \/ (r \in Result /\ r = ch[c])
       PROVE  Honest'
  <2>1. call[c].to \in Pod \ {From[c]} /\ Sent(c)
    BY Zenon, <1>2, <1>10 DEF CallOK, Sent
  <2>2. r \in Result => copies[c] > 0 /\ Truth(c, r)
    BY Zenon, <1>2, <1>10 DEF Result
  <2>3. CallOK(c)' /\ Sent(c)'
    BY Zenon, <1>1, <1>2, <1>4, <1>10, <2>1, <2>2 DEF CallOK, Sent, Result
  <2>4. Truth(c, call[c].outcome)'
    BY Zenon, <1>4, <1>10, <2>2 DEF Truth
  <2>5. QED
    BY Zenon, <1>4, <1>10, <2>1, <2>3, <2>4, CallerKeeps DEF Mail
<1>11. CASE Await(c) \/ Timeout(c) \/ CallClosed(c)
  <2>1. \A d \in Call : ch'[d] = ch[d] \/ ch'[d] = "none"
    BY Zenon, <1>11 DEF Await, Timeout, CallClosed, TypeOK, CallingType
  <2>2. QED
    BY Zenon, <1>1, <1>10, <1>11, <2>1 DEF Await, Timeout, CallClosed, handling
<1>12. QED
  BY Zenon, <1>5, <1>6, <1>7, <1>8, <1>9, <1>11 DEF Calling

----------------------------------------------------------------------------
(* The inbox.                                                              *)

\* handleInbound keeps calls, goroutines and results: a second delivery of a call
\* makes no result untrue, since "busy" and "no handler" speak of the only one.
LEMMA HonestReceive ==
  ASSUME TypeOK, Honest, NEW m \in wire, ReceiveCall(m) PROVE Honest'
<1> DEFINE c == m.id
           g == [id |-> m.id, copy |-> copies[m.id] + 1, pod |-> m.to, at |-> "start"]
<1>1. c \in Call /\ m.to \in Pod /\ copies[c] \in Nat /\ executed[c] \in Nat /\ DOMAIN copies = Call
  BY Zenon DEF TypeOK, WireType, HandlingType, CallEnvelope, ReplyEnvelope
<1>2. /\ UNCHANGED <<call, pending, ch, executed, closer>> /\ Mail' \subseteq Mail
      /\ Listening(m.to) /\ m.type = "call" /\ serving' = serving \cup {g}
  BY Zenon DEF ReceiveCall, calling, Taken, Mail
<1>3. copies'[c] = copies[c] + 1 /\ \A d \in Call \ {c} : copies'[d] = copies[d]
  BY Zenon, <1>1 DEF ReceiveCall
<1>4. g.id = c /\ g.copy = copies[c] + 1 /\ g.pod = m.to /\ g.at = "start"
  BY Zenon
<1>5. Sent(c) /\ call[c].to # From[c] /\ (copies[c] = 0 => executed[c] = 0)
  <2>1. Sent(c) /\ CallOK(c)
    BY Zenon, <1>1, <1>2 DEF Honest, ResultsOK, Mail
  <2>2. QED
    BY <1>1, <2>1 DEF Sent, CallOK
<1> HIDE DEF c, g
<1>6. ASSUME NEW d \in Call PROVE CallOK(d)'
  <2>1. copies[d] > 0 => copies'[d] > 0
    BY <1>1, <1>3
  <2>2. copies'[d] > 0 => Sent(d)
    BY Zenon, <1>3, <1>5 DEF Honest, CallOK
  <2>3. CallOK(d)
    BY Zenon DEF Honest
  <2>4. QED
    BY Zenon, <1>2, <2>1, <2>2, <2>3 DEF CallOK, Sent
<1>7. ASSUME NEW s \in serving
      PROVE  /\ s.id \in Call /\ s.copy <= copies'[s.id] /\ (s.id = c => s.copy # g.copy)
             /\ (copies'[s.id] <= 1 => s.id # c)
  <2>1. /\ s.id \in Call /\ copies[s.id] \in Nat /\ s.copy \in Nat \ {0} /\ s.copy <= copies[s.id]
        /\ copies[s.id] > 0
    BY Zenon, ServedWasSent
  <2>2. QED
    BY <1>3, <1>4, <2>1
<1>8. ServingOK'
  <2>1. \A s \in serving' : s.copy <= copies'[s.id]
    BY <1>1, <1>2, <1>3, <1>4, <1>7
  <2>2. \A s, r \in serving' : s.id = r.id /\ s.copy = r.copy => s = r
    BY Zenon, <1>2, <1>4, <1>7 DEF Honest, ServingOK
  <2>3. ASSUME NEW s \in serving', copies'[s.id] <= 1, executed'[s.id] > 0 PROVE s.at = "replied"
    <3>1. CASE s = g
      BY <1>1, <1>2, <1>3, <1>4, <1>5, <2>3, <3>1
    <3>2. CASE s \in serving
      <4>1. s.id # c /\ copies'[s.id] = copies[s.id]
        BY Zenon, <1>3, <1>7, <2>3, <3>2
      <4>2. QED
        BY Zenon, <1>2, <2>3, <3>2, <4>1 DEF Honest, ServingOK
    <3>3. QED
      BY Zenon, <1>2, <3>1, <3>2
  <2>4. QED
    BY Zenon, <2>1, <2>2, <2>3 DEF ServingOK
<1>9. ASSUME NEW d \in Call, NEW r, Truth(d, r),
             d = c /\ r \in {"noHandler", "busy"} => copies[c] > 0
      PROVE  Truth(d, r)'
  <2>1. CASE d # c
    <3>1. copies'[d] = copies[d] /\ executed'[d] = executed[d]
      BY Zenon, <1>2, <1>3, <2>1
    <3>2. \A s \in serving' : s.id = d => s \in serving
      BY Zenon, <1>2, <1>4, <2>1
    <3>3. QED
      BY Zenon, <1>9, <3>1, <3>2 DEF Truth
  <2>2. CASE d = c
    <3>1. r \in {"noHandler", "busy"} => ~(copies'[d] <= 1)
      BY <1>1, <1>3, <1>9, <2>2
    <3>2. QED
      BY Zenon, <1>2, <1>9, <3>1 DEF Truth
  <2>3. QED
    BY Zenon, <2>1, <2>2
<1>10. \A d \in Call : copies[d] > 0 => copies'[d] > 0
  BY <1>1, <1>3
<1>11. ASSUME NEW n \in Mail' PROVE /\ n.type = "call" => Sent(n.id)'
                                    /\ n.type = "reply" => copies'[n.id] > 0 /\ Truth(n.id, n.result)'
  <2>1. n \in Mail /\ n.id \in Call
    BY Zenon, <1>2, MailType
  <2>2. n.type = "call" => Sent(n.id)'
    BY Zenon, <1>2, <2>1 DEF Honest, ResultsOK, Sent
  <2>3. n.type = "reply" => copies[n.id] > 0 /\ Truth(n.id, n.result)
    BY Zenon, <2>1 DEF Honest, ResultsOK
  <2>4. QED
    BY Zenon, <1>9, <1>10, <2>1, <2>2, <2>3
<1>12. ASSUME NEW d \in Call PROVE ch'[d] # "none" => copies'[d] > 0 /\ Truth(d, ch[d])'
  <2>1. ch[d] # "none" => copies[d] > 0 /\ Truth(d, ch[d])
    BY Zenon DEF Honest, ResultsOK
  <2>2. QED
    BY Zenon, <1>2, <1>9, <1>10, <2>1 DEF Truth
<1>13. ASSUME NEW d \in Call PROVE Truth(d, call[d].outcome)'
  <2>1. Truth(d, call[d].outcome)
    BY Zenon DEF Honest, ResultsOK
  <2>2. call[d].outcome \in {"noHandler", "busy"} => copies[d] > 0 \/ d # c
    BY Zenon, <1>5 DEF Honest, CallOK
  <2>3. QED
    BY Zenon, <1>2, <1>9, <2>1, <2>2 DEF Truth
<1>14. ResultsOK'
  BY Zenon, <1>11, <1>12, <1>13 DEF ResultsOK
<1>15. ClosedIsQuiet'
  BY Zenon, <1>2, <1>4 DEF Honest, ClosedIsQuiet, Listening
<1>16. QED
  BY Zenon, <1>6, <1>8, <1>14, <1>15 DEF Honest

\* A reply that is handed over, late or repeated, changes no result.
LEMMA HonestReply ==
  ASSUME TypeOK, Honest, NEW m \in Mail,
         (m \in wire /\ deliverReply(m)) \/ (m \in replying /\ PassReply(m))
  PROVE  Honest'
<1>1. m.id \in Call /\ DOMAIN ch = Call /\ m.type = "reply"
  BY Zenon, MailType DEF TypeOK, CallingType, deliverReply
<1>2. UNCHANGED <<call, pending, serving, copies, executed, closer>> /\ Mail' \subseteq Mail
  BY Zenon DEF deliverReply, PassReply, Taken, calling, handling, Mail
<1>3. ASSUME NEW d \in Call PROVE ch'[d] # "none" => copies[d] > 0 /\ Truth(d, ch'[d])
  <2>1. ch'[d] = ch[d] \/ (d = m.id /\ ch'[d] = m.result)
    BY Zenon, <1>1 DEF deliverReply, PassReply
  <2>2. QED
    BY Zenon, <1>1, <2>1 DEF Honest, ResultsOK
<1>4. (\A d \in Call : CallOK(d)') /\ ServingOK' /\ ClosedIsQuiet'
  BY <1>2 DEF Honest, CallOK, Sent, ServingOK, ClosedIsQuiet
<1>5. \A d \in Call : ch'[d] # "none" => copies'[d] > 0 /\ Truth(d, ch[d])'
  BY Zenon, <1>2, <1>3 DEF Truth
<1>6. \A n \in Mail' : /\ n.type = "call" => Sent(n.id)'
                       /\ n.type = "reply" => copies'[n.id] > 0 /\ Truth(n.id, n.result)'
  BY Zenon, <1>2 DEF Honest, ResultsOK, Sent, Truth
<1>7. \A d \in Call : Truth(d, call[d].outcome)'
  BY Zenon, <1>2 DEF Honest, ResultsOK, Truth
<1>8. QED
  BY Zenon, <1>4, <1>5, <1>6, <1>7 DEF Honest, ResultsOK

\* Another goroutine, and what the one that takes a step becomes.
Stays(s, q) == q \in serving /\ q # s
Moved(s, q) ==
  /\ q.id = s.id /\ q.copy = s.copy /\ q.pod = s.pod
  /\ s.at = "replied" \/ executed'[s.id] # executed[s.id] => q.at = "replied"

\* A step of one goroutine: it ends or moves on, and what it replies is true.
LEMMA ServingKeeps ==
  ASSUME TypeOK, Honest, NEW s \in serving, UNCHANGED <<call, pending, ch, copies, closer>>,
         \A q \in serving' : Stays(s, q) \/ Moved(s, q),
         \A q, r \in serving' : Stays(s, q) \/ Stays(s, r) \/ q = r,
         executed'[s.id] # executed[s.id] => executed'[s.id] = executed[s.id] + 1 /\ s.at # "replied",
         \A d \in Call \ {s.id} : executed'[d] = executed[d],
         \A m \in Mail' : m \in Mail \/ (m.type = "reply" /\ m.id = s.id /\ Truth(s.id, m.result)')
  PROVE  Honest'
<1>1. /\ s \in Goroutine /\ s.id \in Call /\ s.pod \in Pod /\ copies[s.id] \in Nat
      /\ s.copy \in Nat \ {0} /\ s.copy <= copies[s.id] /\ copies[s.id] > 0 /\ Sent(s.id)
  BY Zenon, ServedWasSent
<1>2. executed[s.id] \in Nat
  BY Zenon, <1>1 DEF TypeOK, HandlingType
<1>3. ASSUME NEW q \in serving, q.id = s.id, copies[s.id] <= 1 PROVE q = s
  <2>1. q.copy \in Nat \ {0} /\ q.copy <= copies[q.id]
    BY Zenon, ServedWasSent
  <2>2. q.copy = s.copy
    BY <1>1, <1>3, <2>1
  <2>3. QED
    BY Zenon, <1>3, <2>2 DEF Honest, ServingOK
<1>4. ASSUME NEW d \in Call PROVE CallOK(d)'
  <2>1. CallOK(d)
    BY Zenon DEF Honest
  <2>2. CASE d # s.id
    BY Zenon, <2>1, <2>2 DEF CallOK, Sent
  <2>3. CASE d = s.id
    BY Zenon, <1>1, <2>1, <2>3 DEF CallOK, Sent
  <2>4. QED
    BY Zenon, <2>2, <2>3
<1>5. ServingOK'
  <2>1. \A q \in serving' : q.copy <= copies'[q.id]
    BY Zenon, <1>1 DEF Honest, ServingOK, Stays, Moved
  <2>2. \A q, r \in serving' : q.id = r.id /\ q.copy = r.copy => q = r
    BY DEF Honest, ServingOK, Stays, Moved
  <2>3. ASSUME NEW q \in serving', copies'[q.id] <= 1, executed'[q.id] > 0 PROVE q.at = "replied"
    <3>1. CASE q \in serving /\ q.id # s.id
      <4>1. q.id \in Call
        BY Zenon, <3>1, ServedWasSent
      <4>2. executed'[q.id] = executed[q.id]
        BY Zenon, <3>1, <4>1
      <4>3. QED
        BY Zenon, <2>3, <3>1, <4>2 DEF Honest, ServingOK
    <3>2. CASE Moved(s, q)
      <4>1. CASE executed'[s.id] = executed[s.id]
        <5>1. s.at = "replied"
          BY Zenon, <2>3, <3>2, <4>1 DEF Honest, ServingOK, Moved
        <5>2. QED
          BY Zenon, <3>2, <5>1 DEF Moved
      <4>2. CASE executed'[s.id] = executed[s.id] + 1
        BY <1>2, <3>2, <4>2 DEF Moved
      <4>3. QED
        BY Zenon, <4>1, <4>2
    <3>3. QED
      BY Zenon, <1>3, <2>3, <3>1, <3>2 DEF Stays
  <2>4. QED
    BY Zenon, <2>1, <2>2, <2>3 DEF ServingOK
<1>6. ASSUME NEW d \in Call, NEW x, Truth(d, x) PROVE Truth(d, x)'
  <2>1. CASE d # s.id
    <3>1. executed'[d] = executed[d] /\ \A q \in serving' : q.id = d => q \in serving
      BY Zenon, <2>1 DEF Stays, Moved
    <3>2. QED
      BY Zenon, <1>6, <3>1 DEF Truth
  <2>2. CASE d = s.id
    <3>1. executed[d] > 0 => executed'[d] > 0
      BY <1>2, <2>2
    <3>2. ASSUME x \in {"noHandler", "busy"}, copies[d] <= 1
          PROVE  executed'[d] = 0 /\ \A q \in serving' : q.id = d => q.at = "replied"
      <4>1. executed[d] = 0 /\ s.at = "replied" /\ \A q \in serving : q.id = d => q.at = "replied"
        BY Zenon, <1>6, <2>2, <3>2 DEF Truth
      <4>2. QED
        BY Zenon, <2>2, <4>1 DEF Stays, Moved
    <3>3. QED
      BY Zenon, <1>6, <3>1, <3>2 DEF Truth
  <2>3. QED
    BY Zenon, <2>1, <2>2
<1>7. ASSUME NEW m \in Mail' PROVE /\ m.type = "call" => Sent(m.id)'
                                   /\ m.type = "reply" => copies'[m.id] > 0 /\ Truth(m.id, m.result)'
  <2>1. CASE m \in Mail
    <3>1. m.id \in Call
      BY Zenon, <2>1, MailType
    <3>2. m.type = "call" => Sent(m.id)'
      BY Zenon, <2>1 DEF Honest, ResultsOK, Sent
    <3>3. m.type = "reply" => copies[m.id] > 0 /\ Truth(m.id, m.result)
      BY Zenon, <2>1 DEF Honest, ResultsOK
    <3>4. QED
      BY Zenon, <1>6, <3>1, <3>2, <3>3
  <2>2. CASE m.type = "reply" /\ m.id = s.id /\ Truth(s.id, m.result)'
    BY Zenon, <1>1, <2>2
  <2>3. QED
    BY Zenon, <1>7, <2>1, <2>2
<1>8. ASSUME NEW d \in Call PROVE /\ ch'[d] # "none" => copies'[d] > 0 /\ Truth(d, ch[d])'
                                  /\ Truth(d, call[d].outcome)'
  <2>1. /\ ch[d] # "none" => copies[d] > 0 /\ Truth(d, ch[d])
        /\ Truth(d, call[d].outcome)
    BY Zenon DEF Honest, ResultsOK
  <2>2. QED
    BY Zenon, <1>6, <2>1 DEF Truth
<1>9. ResultsOK'
  BY Zenon, <1>7, <1>8 DEF ResultsOK
<1>10. ClosedIsQuiet'
  BY Zenon DEF Honest, ClosedIsQuiet, Stays, Moved
<1>11. QED
  BY Zenon, <1>4, <1>5, <1>9, <1>10 DEF Honest

\* The steps of serveCall keep calls, goroutines and results.
LEMMA HonestServing ==
  ASSUME TypeOK, Honest, NEW s \in serving, Serving(s) PROVE Honest'
<1>1. /\ s \in Goroutine /\ s.id \in Call /\ executed[s.id] \in Nat /\ DOMAIN executed = Call
      /\ HandlingType /\ ServingOK
  BY Zenon, ServedWasSent DEF TypeOK, HandlingType, Honest
<1>2. UNCHANGED <<call, pending, ch, replying, copies, closer>>
  BY Zenon DEF Serving, Acquire, Lookup, Finish, Exit, calling
<1>3. s.at # "replied" /\ copies[s.id] <= 1 =>
        executed[s.id] = 0 /\ \A q \in serving : q.id = s.id => q = s
  <2>1. ASSUME NEW q \in serving, q.id = s.id, copies[s.id] <= 1 PROVE q.copy = s.copy
    <3>1. /\ q.copy \in Nat \ {0} /\ q.copy <= copies[q.id] /\ s.copy \in Nat \ {0}
          /\ s.copy <= copies[s.id] /\ copies[s.id] \in Nat
      BY Zenon, ServedWasSent
    <3>2. QED
      BY <2>1, <3>1
  <2>2. QED
    BY <1>1, <2>1 DEF ServingOK
<1>4. ASSUME NEW x \in Result, sendReply(s, x), Truth(s.id, x)'
      PROVE  \A m \in Mail' : m \in Mail \/ (m.type = "reply" /\ m.id = s.id /\ Truth(s.id, m.result)')
  BY <1>1, <1>2, <1>4, ReplyType DEF sendReply, Mail
<1>5. CASE Acquire(s) /\ sendReply(s, "busy") /\ serving' = serving \ {s}
  <2>1. s.at = "start" /\ executed' = executed
    BY Zenon, <1>5 DEF Acquire
  <2>2. Truth(s.id, "busy")'
    BY Zenon, <1>2, <1>3, <1>5, <2>1 DEF Truth
  <2>3. \A m \in Mail' : m \in Mail \/ (m.type = "reply" /\ m.id = s.id /\ Truth(s.id, m.result)')
    BY Zenon, <1>4, <1>5, <2>2 DEF Result
  <2>4. QED
    BY Zenon, <1>1, <1>2, <1>5, <2>1, <2>3, ServingKeeps DEF Mail, Stays
<1>6. CASE Acquire(s) /\ Step(s, "acquired") /\ wire' = wire
  <2>1. s.at = "start" /\ executed' = executed
    BY Zenon, <1>6 DEF Acquire
  <2>2. PICK r \in Goroutine : /\ r.id = s.id /\ r.copy = s.copy /\ r.pod = s.pod
                               /\ serving' = (serving \ {s}) \cup {r}
    BY Zenon, <1>1, <1>6, <2>1, Moves
  <2>3. QED
    BY Zenon, <1>1, <1>2, <1>6, <2>1, <2>2, ServingKeeps DEF Mail, Stays, Moved
<1>7. CASE Lookup(s)
  <2>1. s.at = "acquired" /\ executed' = executed
    BY Zenon, <1>7 DEF Lookup
  <2>2. CASE Step(s, "running") /\ wire' = wire
    <3>1. PICK r \in Goroutine : /\ r.id = s.id /\ r.copy = s.copy /\ r.pod = s.pod
                                 /\ serving' = (serving \ {s}) \cup {r}
      BY Zenon, <1>1, <2>1, <2>2, Moves
    <3>2. QED
      BY Zenon, <1>1, <1>2, <2>1, <2>2, <3>1, ServingKeeps DEF Mail, Stays, Moved
  <2>3. CASE Step(s, "replied") /\ sendReply(s, "noHandler")
    <3>1. PICK r \in Goroutine : /\ r.id = s.id /\ r.copy = s.copy /\ r.pod = s.pod
                                 /\ r.at = "replied" /\ serving' = (serving \ {s}) \cup {r}
      BY Zenon, <1>1, <2>1, <2>3, Moves
    <3>2. Truth(s.id, "noHandler")'
      BY Zenon, <1>2, <1>3, <2>1, <3>1 DEF Truth
    <3>3. \A m \in Mail' : m \in Mail \/ (m.type = "reply" /\ m.id = s.id /\ Truth(s.id, m.result)')
      BY Zenon, <1>4, <2>3, <3>2 DEF Result
    <3>4. QED
      BY Zenon, <1>1, <1>2, <2>1, <3>1, <3>3, ServingKeeps DEF Mail, Stays, Moved
  <2>4. QED
    BY Zenon, <1>7, <2>2, <2>3 DEF Lookup
<1>8. CASE Finish(s)
  <2>1. PICK x \in {"ok", "failed"} : sendReply(s, x)
    BY Zenon, <1>8 DEF Finish
  <2>2. s.at = "running" /\ Step(s, "replied")
    BY Zenon, <1>8 DEF Finish
  <2>3. executed'[s.id] = executed[s.id] + 1 /\ \A d \in Call \ {s.id} : executed'[d] = executed[d]
    BY Zenon, <1>1, <1>8 DEF Finish
  <2>4. PICK r \in Goroutine : /\ r.id = s.id /\ r.copy = s.copy /\ r.pod = s.pod
                               /\ r.at = "replied" /\ serving' = (serving \ {s}) \cup {r}
    BY <1>1, <2>2, Moves
  <2>5. Truth(s.id, x)'
    BY <1>1, <2>3 DEF Truth
  <2>6. \A m \in Mail' : m \in Mail \/ (m.type = "reply" /\ m.id = s.id /\ Truth(s.id, m.result)')
    BY Zenon, <1>4, <2>1, <2>5 DEF Result
  <2>7. QED
    BY Zenon, <1>1, <1>2, <2>2, <2>3, <2>4, <2>6, ServingKeeps DEF Mail, Stays, Moved
<1>9. CASE Exit(s)
  <2>1. serving' = serving \ {s} /\ executed' = executed /\ wire' = wire
    BY Zenon, <1>9 DEF Exit
  <2>2. QED
    BY Zenon, <1>1, <1>2, <2>1, ServingKeeps DEF Mail, Stays
<1>10. QED
  BY Zenon, <1>5, <1>6, <1>7, <1>8, <1>9 DEF Serving, Acquire

----------------------------------------------------------------------------
(* Tokens.                                                                 *)

INSTANCE FiniteSetTheorems

\* Tokens depends on the goroutines, the calls and the semaphores.
LEMMA TokensFrame ==
  ASSUME Tokens, UNCHANGED <<serving, sem>>,
         \A c \in Call : call'[c].at = "local" <=> call[c].at = "local"
  PROVE  Tokens'
<1>1. ASSUME NEW p \in Pod PROVE Served(p)' = Served(p) /\ Local(p)' = Local(p) /\ sem'[p] = sem[p]
  BY Zenon DEF Served, Local
<1>2. QED
  BY Zenon, <1>1 DEF Tokens

\* A local call takes a token of its pod and returns it.
LEMMA TokensCaller ==
  ASSUME TypeOK, Tokens, NEW c \in Call, Start(c) \/ Calling(c) \/ Timeout(c) PROVE Tokens'
<1>1. /\ DOMAIN call = Call /\ call[c] \in CallState /\ From[c] \in Pod /\ sem \in [Pod -> Int]
  BY Zenon, FromAssumption DEF TypeOK, CallingType, HandlingType
<1>2. serving' = serving /\ \A d \in Call \ {c} : call'[d] = call[d]
  BY Zenon, <1>1
     DEF Start, Calling, callLocal, LocalReturn, Pend, Publish, Await, CallClosed, Timeout,
              Return, handling
<1>3. \A p \in Pod : Served(p)' = Served(p)
  BY Zenon, <1>2 DEF Served
<1>4. CASE sem' = sem /\ call[c].at # "local" /\ call'[c].at # "local"
  BY Zenon, <1>2, <1>4, TokensFrame
<1>5. CASE callLocal(c) /\ sem' = [sem EXCEPT ![From[c]] = @ + 1] /\ call'[c].at = "local"
  <2>1. call[c].at # "local"
    BY Zenon, <1>5 DEF callLocal
  <2>2. ASSUME NEW p \in Pod PROVE Local(p)' = IF p = From[c] THEN Local(p) \cup {c} ELSE Local(p)
    BY Zenon, <1>2, <1>5 DEF Local
  <2>3. c \notin Local(From[c])
    BY Zenon, <2>1 DEF Local
  <2>4. ASSUME NEW p \in Pod
        PROVE  /\ IsFiniteSet(Local(p)') /\ IsFiniteSet(Served(p)')
               /\ sem'[p] = Cardinality(Served(p)') + Cardinality(Local(p)')
    <3>1. /\ IsFiniteSet(Served(p)) /\ IsFiniteSet(Local(p))
          /\ sem[p] = Cardinality(Served(p)) + Cardinality(Local(p))
      BY Zenon DEF Tokens
    <3>2. Cardinality(Served(p)) \in Nat /\ Cardinality(Local(p)) \in Nat
      BY Zenon, <3>1, FS_CardinalityType
    <3>3. CASE p = From[c]
      <4>1. IsFiniteSet(Local(p)') /\ Cardinality(Local(p)') = Cardinality(Local(p)) + 1
        BY <2>2, <2>3, <3>1, <3>3, FS_AddElement
      <4>2. sem'[p] = sem[p] + 1
        BY Zenon, <1>1, <1>5, <3>3
      <4>3. QED
        BY <1>3, <3>1, <3>2, <4>1, <4>2
    <3>4. CASE p # From[c]
      <4>1. sem'[p] = sem[p]
        BY Zenon, <1>1, <1>5, <3>4
      <4>2. QED
        BY Zenon, <1>3, <2>2, <3>1, <3>4, <4>1
    <3>5. QED
      BY Zenon, <3>3, <3>4
  <2>5. QED
    BY Zenon, <2>4 DEF Tokens
<1>6. CASE LocalReturn(c)
  <2>1. call[c].at = "local" /\ call'[c].at # "local" /\ sem' = [sem EXCEPT ![From[c]] = @ - 1]
    BY <1>1, <1>6 DEF LocalReturn, Return, CallState
  <2>2. ASSUME NEW p \in Pod PROVE Local(p)' = IF p = From[c] THEN Local(p) \ {c} ELSE Local(p)
    BY Zenon, <1>2, <2>1 DEF Local
  <2>3. c \in Local(From[c])
    BY Zenon, <2>1 DEF Local
  <2>4. ASSUME NEW p \in Pod
        PROVE  /\ IsFiniteSet(Local(p)') /\ IsFiniteSet(Served(p)')
               /\ sem'[p] = Cardinality(Served(p)') + Cardinality(Local(p)')
    <3>1. /\ IsFiniteSet(Served(p)) /\ IsFiniteSet(Local(p))
          /\ sem[p] = Cardinality(Served(p)) + Cardinality(Local(p))
      BY Zenon DEF Tokens
    <3>2. Cardinality(Served(p)) \in Nat /\ Cardinality(Local(p)) \in Nat
      BY Zenon, <3>1, FS_CardinalityType
    <3>3. CASE p = From[c]
      <4>1. IsFiniteSet(Local(p)') /\ Cardinality(Local(p)') = Cardinality(Local(p)) - 1
        BY <2>2, <2>3, <3>1, <3>3, FS_RemoveElement
      <4>2. sem'[p] = sem[p] - 1
        BY Zenon, <1>1, <2>1, <3>3
      <4>3. QED
        BY <1>3, <3>1, <3>2, <4>1, <4>2
    <3>4. CASE p # From[c]
      <4>1. sem'[p] = sem[p]
        BY Zenon, <1>1, <2>1, <3>4
      <4>2. QED
        BY Zenon, <1>3, <2>2, <3>1, <3>4, <4>1
    <3>5. QED
      BY Zenon, <3>3, <3>4
  <2>5. QED
    BY Zenon, <2>4 DEF Tokens
<1>7. ASSUME NEW r, Return(c, r) PROVE call'[c].at = "returned"
  BY Zenon, <1>1, <1>7 DEF Return, CallState
<1>8. CASE callLocal(c)
  BY Zenon, <1>1, <1>4, <1>5, <1>7, <1>8 DEF callLocal, CallState
<1>9. CASE Start(c) \/ Pend(c)
  BY <1>1, <1>4, <1>9 DEF Start, Pend, handling, CallState
<1>10. CASE Publish(c) \/ Await(c) \/ CallClosed(c) \/ Timeout(c)
  <2>1. sem' = sem /\ call[c].at \in {"pending", "waiting"}
    BY Zenon, <1>10 DEF Publish, Await, CallClosed, Timeout, handling
  <2>2. call'[c].at # "local"
    BY Zenon, <1>1, <1>7, <1>10 DEF Publish, Await, CallClosed, Timeout, CallState
  <2>3. QED
    BY Zenon, <1>4, <2>1, <2>2
<1>11. QED
  BY Zenon, <1>6, <1>8, <1>9, <1>10 DEF Calling

\* A change in the goroutines of one pod that its semaphore follows.
LEMMA TokensShift ==
  ASSUME TypeOK, Tokens, call' = call, NEW p \in Pod, NEW k \in Int,
         \A q \in Pod : q # p => Served(q)' = Served(q) /\ sem'[q] = sem[q],
         IsFiniteSet(Served(p)'), Cardinality(Served(p)') = Cardinality(Served(p)) + k,
         sem'[p] = sem[p] + k
  PROVE  Tokens'
<1>1. ASSUME NEW q \in Pod
      PROVE  /\ IsFiniteSet(Served(q)') /\ IsFiniteSet(Local(q)')
             /\ sem'[q] = Cardinality(Served(q)') + Cardinality(Local(q)')
  <2>1. /\ IsFiniteSet(Served(q)) /\ IsFiniteSet(Local(q))
        /\ sem[q] = Cardinality(Served(q)) + Cardinality(Local(q))
    BY Zenon DEF Tokens
  <2>2. Cardinality(Served(q)) \in Nat /\ Cardinality(Local(q)) \in Nat
    BY Zenon, <2>1, FS_CardinalityType
  <2>3. Local(q)' = Local(q)
    BY Zenon DEF Local
  <2>4. CASE q = p
    BY <2>1, <2>2, <2>3, <2>4
  <2>5. CASE q # p
    BY Zenon, <2>1, <2>3, <2>5
  <2>6. QED
    BY Zenon, <2>4, <2>5
<1>2. QED
  BY Zenon, <1>1 DEF Tokens

\* serveCall takes a token, keeps it while the handler runs and returns it.
LEMMA TokensServing ==
  ASSUME TypeOK, ServingOK, Tokens, NEW s \in serving, Serving(s) PROVE Tokens'
<1> DEFINE p == s.pod
<1>1. HandlingType /\ s \in Goroutine /\ p \in Pod /\ sem \in [Pod -> Int]
  BY Zenon DEF TypeOK, HandlingType, Goroutine
<1>2. call' = call
  BY Zenon DEF Serving, Acquire, Lookup, Finish, Exit, calling
<1>3. IsFiniteSet(Served(p)) /\ Cardinality(Served(p)) \in Nat
  BY Zenon, <1>1, FS_CardinalityType DEF Tokens
<1>4. ASSUME s.at = "start", Step(s, "acquired"), sem' = [sem EXCEPT ![s.pod] = @ + 1]
      PROVE  Tokens'
  <2>1. PICK r \in Goroutine :
          /\ r.pod = s.pod /\ r.at = "acquired"
          /\ r \notin serving /\ serving' = (serving \ {s}) \cup {r}
    BY Zenon, <1>1, <1>4, Moves
  <2>2. \A q \in Pod : q # p => Served(q)' = Served(q)
    BY Zenon, <2>1 DEF Served
  <2>3. Served(p)' = Served(p) \cup {r} /\ r \notin Served(p)
    BY Zenon, <1>4, <2>1 DEF Served
  <2>4. IsFiniteSet(Served(p)') /\ Cardinality(Served(p)') = Cardinality(Served(p)) + 1
    BY <1>3, <2>3, FS_AddElement
  <2>5. sem'[p] = sem[p] + 1 /\ \A q \in Pod : q # p => sem'[q] = sem[q]
    BY Zenon, <1>1, <1>4
  <2>6. QED
    BY <1>1, <1>2, <2>2, <2>4, <2>5, TokensShift
<1>5. ASSUME s.at # "start", NEW at, at # s.at, at \in {"running", "replied"}, Step(s, at),
             sem' = sem
      PROVE  Tokens'
  <2>1. PICK r \in Goroutine :
          /\ r.pod = s.pod /\ r.at = at
          /\ r \notin serving /\ serving' = (serving \ {s}) \cup {r}
    BY <1>1, <1>5, Moves
  <2>2. \A q \in Pod : q # p => Served(q)' = Served(q)
    BY Zenon, <2>1 DEF Served
  <2>3. Served(p)' = (Served(p) \ {s}) \cup {r} /\ r \notin Served(p) \ {s} /\ s \in Served(p)
    BY Zenon, <1>5, <2>1 DEF Served
  <2>4. /\ IsFiniteSet(Served(p) \ {s})
        /\ Cardinality(Served(p) \ {s}) = Cardinality(Served(p)) - 1
    BY Zenon, <1>3, <2>3, FS_RemoveElement
  <2>5. /\ IsFiniteSet(Served(p)')
        /\ Cardinality(Served(p)') = Cardinality(Served(p) \ {s}) + 1
    <3> DEFINE S == Served(p) \ {s}
    <3>1. IsFiniteSet(S) /\ r \notin S /\ Served(p)' = S \cup {r}
      BY Zenon, <2>3, <2>4
    <3> HIDE DEF S
    <3>2. IsFiniteSet(S \cup {r}) /\ Cardinality(S \cup {r}) = Cardinality(S) + 1
      BY Zenon, <3>1, FS_AddElement
    <3>3. QED
      BY Zenon, <3>1, <3>2 DEF S
  <2>6. Cardinality(Served(p)') = Cardinality(Served(p)) + 0 /\ sem'[p] = sem[p] + 0
    BY <1>1, <1>3, <1>5, <2>4, <2>5
  <2>7. QED
    BY <1>1, <1>2, <1>5, <2>2, <2>5, <2>6, TokensShift
<1>6. CASE Exit(s)
  <2>1. s.at = "replied" /\ serving' = serving \ {s} /\ sem' = [sem EXCEPT ![s.pod] = @ - 1]
    BY Zenon, <1>6 DEF Exit
  <2>2. \A q \in Pod : q # p => Served(q)' = Served(q)
    BY Zenon, <2>1 DEF Served
  <2>3. Served(p)' = Served(p) \ {s} /\ s \in Served(p)
    BY Zenon, <2>1 DEF Served
  <2>4. IsFiniteSet(Served(p)') /\ Cardinality(Served(p)') = Cardinality(Served(p)) - 1
    BY <1>3, <2>3, FS_RemoveElement
  <2>5. /\ Cardinality(Served(p)') = Cardinality(Served(p)) + (-1) /\ sem'[p] = sem[p] + (-1)
        /\ \A q \in Pod : q # p => sem'[q] = sem[q]
    BY Zenon, <1>1, <1>3, <2>1, <2>4
  <2>6. QED
    BY <1>1, <1>2, <2>2, <2>4, <2>5, TokensShift
<1>7. ASSUME s.at = "start", serving' = serving \ {s}, sem' = sem PROVE Tokens'
  <2>1. \A q \in Pod : Served(q)' = Served(q) /\ Local(q)' = Local(q)
    BY Zenon, <1>2, <1>7 DEF Served, Local
  <2>2. QED
    BY Zenon, <1>7, <2>1 DEF Tokens
<1>8. CASE Acquire(s)
  BY Zenon, <1>4, <1>7, <1>8 DEF Acquire
<1>9. CASE Lookup(s)
  BY Zenon, <1>5, <1>9 DEF Lookup
<1>10. CASE Finish(s)
  BY Zenon, <1>5, <1>10 DEF Finish
<1>11. QED
  BY Zenon, <1>6, <1>8, <1>9, <1>10 DEF Serving

\* An inbox takes no token: a goroutine that it starts has none yet.
LEMMA TokensInbox ==
  ASSUME Tokens, NEW m, ReceiveCall(m) \/ deliverReply(m) \/ PassReply(m) PROVE Tokens'
<1>1. call' = call /\ sem' = sem
  BY Zenon DEF ReceiveCall, deliverReply, PassReply, calling, handling
<1>2. ASSUME NEW p \in Pod PROVE Served(p)' = Served(p) /\ Local(p)' = Local(p)
  BY <1>1 DEF Served, Local, ReceiveCall, deliverReply, PassReply, handling
<1>3. QED
  BY Zenon, <1>1, <1>2 DEF Tokens

----------------------------------------------------------------------------
(* The invariant.                                                          *)

\* Nothing but the closers moves.
LEMMA CloseKeeps ==
  ASSUME Inv, UNCHANGED <<routes, calling, wire, handling>>, CloserType', ClosedIsQuiet'
  PROVE  Inv'
<1>1. UNCHANGED <<handlers, ops, writes, rt, call, pending, ch, replying, wire, serving, copies, executed, sem>>
  BY Zenon DEF routes, calling, handling
<1>2. TypeOK'
  BY Zenon, <1>1 DEF Inv, TypeOK, RoutesType, CallingType, HandlingType, WireType
<1>3. \A c \in Call : CallOK(c)'
  BY Zenon, <1>1 DEF Inv, CallOK, Sent
<1>4. ServingOK' /\ ResultsOK'
  <2>1. Mail' = Mail
    BY Zenon, <1>1 DEF Mail
  <2>2. QED
    BY Zenon, <1>1, <2>1 DEF Inv, ServingOK, ResultsOK, Truth, Sent
<1>5. Tokens'
  BY Zenon, <1>1, TokensFrame DEF Inv
<1>6. QED
  BY Zenon, <1>2, <1>3, <1>4, <1>5 DEF Inv

\* Nothing but the routing table moves.
LEMMA RoutesKeep ==
  ASSUME Inv, RoutesType', UNCHANGED <<calling, wire, handling, closer>> PROVE Inv'
<1>1. UNCHANGED <<call, pending, ch, replying, wire, serving, copies, executed, sem, closer>>
  BY Zenon DEF calling, handling
<1>2. TypeOK'
  BY Zenon, <1>1 DEF Inv, TypeOK, CallingType, HandlingType, WireType, CloserType
<1>3. \A c \in Call : CallOK(c)'
  BY Zenon, <1>1 DEF Inv, CallOK, Sent
<1>4. ServingOK' /\ ResultsOK' /\ ClosedIsQuiet'
  <2>1. Mail' = Mail
    BY Zenon, <1>1 DEF Mail
  <2>2. QED
    BY Zenon, <1>1, <2>1 DEF Inv, ServingOK, ResultsOK, Truth, Sent, ClosedIsQuiet
<1>5. Tokens'
  BY Zenon, <1>1, TokensFrame DEF Inv
<1>6. QED
  BY Zenon, <1>2, <1>3, <1>4, <1>5 DEF Inv

\* The invariant holds at first.
LEMMA InitInv == Init => Inv
<1> SUFFICES ASSUME Init PROVE Inv
  BY Zenon
<1> DEFINE W == [owner : Pod \cup {NoPod}, published : BOOLEAN]
<1>1. PICK o \in Pod \cup {NoPod} :
        /\ handlers = [p \in Pod |-> [t \in Target |-> IF p = o THEN Method ELSE {}]]
        /\ writes = [t \in Target |-> IF o = NoPod THEN <<>>
                                      ELSE <<[owner |-> o, published |-> TRUE]>>]
  BY Zenon DEF Init
<1>2. writes \in [Target -> Seq(W)] /\ \A t \in Target : Len(writes[t]) \in Nat
  <2>1. ASSUME NEW t \in Target PROVE writes[t] \in Seq(W)
    <3> DEFINE w == [owner |-> o, published |-> TRUE]
    <3>1. w \in W
      BY Zenon
    <3>2. writes[t] = <<>> \/ writes[t] = <<w>>
      BY <1>1, Zenon
    <3> HIDE DEF w, W
    <3>3. <<>> \in Seq(W) /\ <<w>> \in Seq(W)
      BY <3>1
    <3>4. QED
      BY <3>2, <3>3, Zenon
  <2>2. QED
    BY Zenon, <1>1, <2>1
<1>3. RoutesType
  <2>1. rt = [p \in Pod |-> [t \in Target |-> Len(writes[t])]] /\ ops = [p \in Pod |-> {}]
    BY Zenon DEF Init
  <2>2. /\ rt \in [Pod -> [Target -> Nat]]
        /\ \A p \in Pod, t \in Target : rt[p][t] <= Len(writes[t])
    BY <1>2, <2>1
  <2>3. handlers \in [Pod -> [Target -> SUBSET Method]]
    BY Zenon, <1>1
  <2>4. ops \in [Pod -> SUBSET (Target \X {"claim", "release"})]
    BY Zenon, <2>1
  <2>5. QED
    BY Zenon, <1>2, <2>2, <2>3, <2>4 DEF RoutesType
<1>4. /\ pending = {} /\ ch = [c \in Call |-> "none"] /\ replying = {} /\ wire = {}
      /\ serving = {} /\ copies = [c \in Call |-> 0] /\ executed = [c \in Call |-> 0]
      /\ sem = [p \in Pod |-> 0] /\ closer = [p \in Pod |-> "open"]
  BY Zenon DEF Init
<1>5. PICK t \in Target, m \in Method :
        call = [c \in Call |-> [at |-> "idle", target |-> t, method |-> m, to |-> NoPod,
                                outcome |-> "none"]]
  BY Zenon DEF Init
<1>6. CallingType /\ HandlingType /\ WireType /\ CloserType
  BY <1>4, <1>5 DEF CallingType, HandlingType, WireType, CloserType, CallState, Outcome
<1>7. \A c \in Call : CallOK(c)
  BY <1>4, <1>5 DEF CallOK
<1>8. ServingOK /\ ResultsOK /\ ClosedIsQuiet
  BY Zenon, <1>4, <1>5 DEF ServingOK, ResultsOK, Mail, Truth, ClosedIsQuiet
<1>9. Tokens
  <2>1. \A p \in Pod : Served(p) = {} /\ Local(p) = {} /\ sem[p] = 0
    BY Zenon, <1>4, <1>5 DEF Served, Local
  <2>2. QED
    BY <2>1, FS_EmptySet DEF Tokens
<1>10. QED
  BY Zenon, <1>3, <1>6, <1>7, <1>8, <1>9 DEF Inv, TypeOK

\* Every step keeps it.
LEMMA NextInv == Inv /\ [Next]_vars => Inv'
<1> SUFFICES ASSUME Inv, [Next]_vars PROVE Inv'
  BY Zenon
<1>1. TypeOK /\ Honest /\ ServingOK /\ Tokens /\ \A c \in Call : CallOK(c)
  BY Zenon DEF Inv, Honest
<1>2. TypeOK' /\ Honest' /\ Tokens' => Inv'
  BY Zenon DEF Inv, Honest
<1>3. ASSUME NEW p \in Pod, NEW t \in Target,
             \/ LearnRoute(p, t) \/ Claim(p, t) \/ Unregister(p, t) \/ Release(p, t)
             \/ \E m \in Method : Register(p, t, m)
      PROVE  Inv'
  <2>1. RoutesType' /\ UNCHANGED <<calling, wire, handling, closer>>
    BY Zenon, <1>1, <1>3, TypeRoutes DEF TypeOK
  <2>2. QED
    BY Zenon, <2>1, RoutesKeep
<1>4. ASSUME NEW c \in Call, Start(c) \/ Calling(c) \/ Timeout(c) PROVE Inv'
  BY Zenon, <1>1, <1>2, <1>4, TypeCaller, HonestCaller, TokensCaller
<1>5. ASSUME NEW m \in wire, ReceiveCall(m) \/ deliverReply(m) PROVE Inv'
  BY Zenon, <1>1, <1>2, <1>5, TypeInbox, HonestReceive, HonestReply, TokensInbox DEF Mail
<1>6. ASSUME NEW s \in serving, Serving(s) PROVE Inv'
  BY Zenon, <1>1, <1>2, <1>6, TypeServing, HonestServing, TokensServing
<1>7. ASSUME NEW p \in Pod, Close(p) \/ Closing(p) PROVE Inv'
  <2>1. UNCHANGED <<routes, calling, wire, handling>>
    BY Zenon, <1>7 DEF Close, Closing, RecvExit, CloseReturn
  <2>2. CloserType'
    BY Zenon, <1>1, <1>7 DEF Close, Closing, RecvExit, CloseReturn, TypeOK, CloserType
  <2>3. ClosedIsQuiet'
    <3>1. serving' = serving
      BY Zenon, <2>1 DEF handling
    <3>2. ASSUME NEW q \in Pod, closer'[q] = "returned"
          PROVE  closer[q] = "returned" \/ \A s \in serving : s.pod # q
      BY Zenon, <1>1, <1>7, <3>2 DEF Close, Closing, RecvExit, CloseReturn, TypeOK, CloserType
    <3>3. QED
      BY Zenon, <1>1, <3>1, <3>2 DEF Honest, ClosedIsQuiet
  <2>4. QED
    BY Zenon, <2>1, <2>2, <2>3, CloseKeeps
<1>8. CASE UNCHANGED vars
  <2>1. UNCHANGED <<routes, calling, wire, handling>> /\ closer' = closer /\ serving' = serving
    BY Zenon, <1>8 DEF vars, routes, calling, handling
  <2>2. CloserType' /\ ClosedIsQuiet'
    BY Zenon, <1>1, <2>1 DEF Honest, ClosedIsQuiet, TypeOK, CloserType
  <2>3. QED
    BY Zenon, <2>1, <2>2, CloseKeeps
<1>9. ASSUME NEW m \in replying, PassReply(m) PROVE Inv'
  BY Zenon, <1>1, <1>2, <1>9, TypePass, HonestReply, TokensInbox DEF Mail
<1>10. QED
  BY Zenon, <1>3, <1>4, <1>5, <1>6, <1>7, <1>8, <1>9 DEF Next

\* The inductive invariant of the endpoints, whatever the transport loses,
\* repeats or reorders.
THEOREM InvHolds == Spec => []Inv
BY InitInv, NextInv, PTL DEF Spec

\* Call reports what happened: a handler's success or error only after the handler
\* ran to its end, "no route" only when nothing was sent, "no handler" and "busy"
\* never for a call delivered once and executed.
THEOREM OutcomesAreTrue == Spec => []OutcomeIsTrue
<1>1. ASSUME Inv PROVE OutcomeIsTrue
  <2>1. ASSUME NEW c \in Call
        PROVE  /\ call[c].outcome \in {"ok", "failed"} => executed[c] > 0
               /\ call[c].outcome = "noRoute" => copies[c] = 0
               /\ call[c].outcome \in {"noHandler", "busy"} /\ copies[c] <= 1 => executed[c] = 0
    <3>1. Truth(c, call[c].outcome) /\ CallOK(c) /\ copies[c] \in Nat
      BY Zenon, <1>1 DEF Inv, ResultsOK, TypeOK, HandlingType
    <3>2. call[c].outcome = "noRoute" => copies[c] = 0
      BY <3>1, PodAssumption DEF CallOK, Sent
    <3>3. QED
      BY Zenon, <3>1, <3>2 DEF Truth
  <2>2. QED
    BY Zenon, <2>1 DEF OutcomeIsTrue
<1>2. QED
  BY <1>1, InvHolds, PTL

\* The tokens in handlerSem are those of the handlers in progress, local and remote:
\* no path of callLocal or serveCall leaks a token or returns one twice.
THEOREM TokensAreBalanced == Spec => []TokensBalance
<1>1. Inv => TokensBalance
  BY Zenon DEF Inv, Tokens, Served, Local, TokensBalance
<1>2. QED
  BY <1>1, InvHolds, PTL

\* At most MaxConcurrentHandlers handlers of a pod are in progress at a time, counting
\* the local calls and those that the inbox serves.
THEOREM HandlersAreCapped ==
  Spec => [](\A p \in Pod : Cardinality(Served(p)) + Cardinality(Local(p)) <= MaxConcurrentHandlers)
<1> DEFINE Capped == \A p \in Pod : sem[p] <= MaxConcurrentHandlers
<1>1. Init => Capped
  BY BoundAssumption DEF Init
<1>2. ASSUME Inv, Capped, [Next]_vars PROVE Capped'
  <2>1. sem \in [Pod -> Int] /\ From \in [Call -> Pod] /\ serving \subseteq Goroutine
        /\ MaxConcurrentHandlers \in Nat
    BY <1>2, FromAssumption, BoundAssumption DEF Inv, TypeOK, HandlingType
  <2>2. ASSUME NEW p \in Pod, sem[p] < MaxConcurrentHandlers, sem' = [sem EXCEPT ![p] = @ + 1]
        PROVE  Capped'
    BY <1>2, <2>1, <2>2
  <2>3. ASSUME NEW p \in Pod, sem' = [sem EXCEPT ![p] = @ - 1] PROVE Capped'
    BY <1>2, <2>1, <2>3
  <2>4. CASE sem' = sem
    BY Zenon, <1>2, <2>4
  <2>5. ASSUME NEW c \in Call, Start(c) \/ Calling(c) \/ Timeout(c) PROVE Capped'
    <3>1. From[c] \in Pod
      BY Zenon, <2>1
    <3>2. CASE callLocal(c)
      BY Zenon, <2>2, <2>4, <3>1, <3>2 DEF callLocal
    <3>3. CASE LocalReturn(c)
      BY Zenon, <2>3, <3>1, <3>3 DEF LocalReturn
    <3>4. QED
      BY Zenon, <2>4, <2>5, <3>2, <3>3
         DEF Start, Calling, Pend, Publish, Await, CallClosed, Timeout, handling
  <2>6. ASSUME NEW s \in serving, Serving(s) PROVE Capped'
    <3>1. s.pod \in Pod
      BY <2>1 DEF Goroutine
    <3>2. QED
      BY Zenon, <2>2, <2>3, <2>4, <2>6, <3>1 DEF Serving, Acquire, Lookup, Finish, Exit
  <2>7. ASSUME NEW m, ReceiveCall(m) \/ deliverReply(m) \/ PassReply(m) PROVE sem' = sem
    BY Zenon, <2>7 DEF ReceiveCall, deliverReply, PassReply, handling
  <2>8. ASSUME NEW p \in Pod, Close(p) \/ Closing(p) PROVE sem' = sem
    BY Zenon, <2>8 DEF Close, Closing, RecvExit, CloseReturn, handling
  <2>9. ASSUME NEW p \in Pod, NEW t \in Target,
               \/ LearnRoute(p, t) \/ Claim(p, t) \/ Unregister(p, t) \/ Release(p, t)
               \/ \E m \in Method : Register(p, t, m)
        PROVE  sem' = sem
    BY Zenon, <2>9 DEF Register, LearnRoute, Claim, Unregister, Release, handling
  <2>10. QED
    BY Zenon, <1>2, <2>4, <2>5, <2>6, <2>7, <2>8, <2>9 DEF Next, vars
<1>3. Inv /\ Capped =>
        \A p \in Pod : Cardinality(Served(p)) + Cardinality(Local(p)) <= MaxConcurrentHandlers
  BY Zenon DEF Inv, Tokens
<1>4. QED
  BY <1>1, <1>2, <1>3, InvHolds, PTL DEF Spec

\* Once Close has returned no handler that the inbox started is running or still
\* to reply.
THEOREM CloseWaitsForHandlers == Spec => []ClosedIsQuiet
<1>1. Inv => ClosedIsQuiet
  BY Zenon DEF Inv
<1>2. QED
  BY <1>1, InvHolds, PTL
=============================================================================
