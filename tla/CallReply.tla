----------------------------- MODULE CallReply -----------------------------
(***************************************************************************)
(* callreply.Endpoint: the RPC layer over a podshare transport.  Each pod  *)
(* has one Endpoint; a call looks its target up in the pod's replica of    *)
(* the routing Store, and runs in-process or travels as an envelope to the *)
(* owner's inbox and back.                                                 *)
(*                                                                         *)
(* The routing Store is used through what it promises: writes to a target  *)
(* are totally ordered by their stamps, here the order in which they are   *)
(* made, and a replica moves to newer ones only.  Args and results are     *)
(* left out.                                                               *)
(***************************************************************************)
EXTENDS Naturals, Sequences, FiniteSets

CONSTANTS Pod, Target, Method,
          Call,                  \* envelope IDs, each used once
          From,                  \* the pod that makes the call
          NoPod,
          MaxConcurrentHandlers,
          MaxWrites,             \* bound on the routing writes of a target
          MaxCopies,             \* bound on the deliveries of one call envelope
          Env                    \* what may happen besides calls and handlers

ASSUME FromAssumption == From \in [Call -> Pod]
ASSUME PodAssumption == NoPod \notin Pod
ASSUME BoundAssumption ==
  MaxConcurrentHandlers \in Nat \ {0} /\ MaxWrites \in Nat /\ MaxCopies \in Nat
ASSUME EnvAssumption ==
  Env \subseteq {"register", "unregister", "duplicate", "publishFails", "timeout", "close"}

VARIABLES
  handlers,  \* Endpoint.handlers: the methods of each target
  ops,       \* Register and Unregister calls between their two steps
  writes,    \* history: the routing writes of each target, oldest first
  rt,        \* the write that each replica of the routing Store holds
  call,      \* progress of each Call
  pending,   \* Endpoint.pending, over all endpoints: IDs are random
  ch,        \* what the call's reply channel holds
  replying,  \* replies for which recvLoop has found the call's channel
  wire,      \* envelopes on their way to an inbox
  serving,   \* serveCall goroutines
  copies,    \* history: deliveries of each call envelope
  executed,  \* history: the executions of each call's handler that ended
  sem,       \* tokens in handlerSem
  closer     \* progress of Close

vars == <<handlers, ops, writes, rt, call, pending, ch, replying, wire, serving,
          copies, executed, sem, closer>>

routes == <<handlers, ops, writes, rt>>
calling == <<call, pending, ch, replying>>
handling == <<serving, copies, executed, sem>>

\* One pod may already own the targets.
Init ==
  /\ \E o \in Pod \cup {NoPod} :
       /\ handlers = [p \in Pod |-> [t \in Target |-> IF p = o THEN Method ELSE {}]]
       /\ writes = [t \in Target |-> IF o = NoPod THEN <<>>
                                     ELSE <<[owner |-> o, published |-> TRUE]>>]
  /\ ops = [p \in Pod |-> {}]
  /\ rt = [p \in Pod |-> [t \in Target |-> Len(writes[t])]]
  /\ \E t \in Target, m \in Method :
       call = [c \in Call |-> [at |-> "idle", target |-> t, method |-> m, to |-> NoPod,
                               outcome |-> "none"]]
  /\ pending = {} /\ ch = [c \in Call |-> "none"] /\ replying = {} /\ wire = {}
  /\ serving = {} /\ copies = [c \in Call |-> 0] /\ executed = [c \in Call |-> 0]
  /\ sem = [p \in Pod |-> 0] /\ closer = [p \in Pod |-> "open"]

----------------------------------------------------------------------------
(* The routing table.                                                      *)

Owner(p, t) == IF rt[p][t] = 0 THEN NoPod ELSE writes[t][rt[p][t]].owner

\* routing.Set or routing.Delete: applied to the local replica, then broadcast.
\* A closed Store refuses; a failed broadcast leaves the local write in place.
RouteWrite(p, t, owner, published) ==
  /\ closer[p] # "returned"
  /\ writes' = [writes EXCEPT ![t] = Append(@, [owner |-> owner, published |-> published])]
  /\ rt' = [rt EXCEPT ![p][t] = Len(writes[t]) + 1]

\* A replica receives a published write that is newer than its own.
LearnRoute(p, t) ==
  /\ closer[p] # "returned"
  /\ \E s \in rt[p][t] + 1 .. Len(writes[t]) :
       writes[t][s].published /\ rt' = [rt EXCEPT ![p][t] = s]
  /\ UNCHANGED <<handlers, ops, writes, calling, wire, handling, closer>>

\* Bound: the routing writes of a target, made or to come, are MaxWrites at most.
Room(t) ==
  LET coming == {o \in Pod \X {"claim", "release"} : <<t, o[2]>> \in ops[o[1]]} IN
  Len(writes[t]) + Cardinality(coming) < MaxWrites

\* Register's critical section.  Bound: a pod claims a target once at a time.
Register(p, t, m) ==
  /\ "register" \in Env /\ (handlers[p][t] = {} => Room(t) /\ <<t, "claim">> \notin ops[p])
  /\ handlers' = [handlers EXCEPT ![p][t] = @ \cup {m}]
  /\ ops' = IF handlers[p][t] = {} THEN [ops EXCEPT ![p] = @ \cup {<<t, "claim">>}] ELSE ops
  /\ UNCHANGED <<writes, rt, calling, wire, handling, closer>>

\* The first Register of a target claims the route.
Claim(p, t) ==
  /\ <<t, "claim">> \in ops[p]
  /\ ops' = [ops EXCEPT ![p] = @ \ {<<t, "claim">>}]
  /\ \/ RouteWrite(p, t, p, TRUE)
     \/ "publishFails" \in Env /\ RouteWrite(p, t, p, FALSE)
     \/ closer[p] = "returned" /\ UNCHANGED <<writes, rt>>
  /\ UNCHANGED <<handlers, calling, wire, handling, closer>>

\* Nothing keeps a pod from unregistering a target that it does not serve.
Unregister(p, t) ==
  /\ "unregister" \in Env /\ Room(t) /\ <<t, "release">> \notin ops[p]
  /\ handlers' = [handlers EXCEPT ![p][t] = {}]
  /\ ops' = [ops EXCEPT ![p] = @ \cup {<<t, "release">>}]
  /\ UNCHANGED <<writes, rt, calling, wire, handling, closer>>

Release(p, t) ==
  /\ <<t, "release">> \in ops[p]
  /\ ops' = [ops EXCEPT ![p] = @ \ {<<t, "release">>}]
  /\ \/ RouteWrite(p, t, NoPod, TRUE)
     \/ "publishFails" \in Env /\ RouteWrite(p, t, NoPod, FALSE)
     \/ closer[p] = "returned" /\ UNCHANGED <<writes, rt>>
  /\ UNCHANGED <<handlers, calling, wire, handling, closer>>

----------------------------------------------------------------------------
(* The caller.                                                             *)

Return(c, outcome) ==
  /\ call' = [call EXCEPT ![c].at = "returned", ![c].outcome = outcome]
  /\ pending' = pending \ {c}

Start(c) ==
  LET p == From[c] IN
  /\ call[c].at = "idle" /\ closer[p] = "open"
  /\ \E t \in Target, m \in Method :
       LET o == Owner(p, t) IN
       call' = [call EXCEPT ![c] =
                  [at |-> IF o = NoPod THEN "returned" ELSE "routed",
                   target |-> t, method |-> m, to |-> o,
                   outcome |-> IF o = NoPod THEN "noRoute" ELSE "none"]]
  /\ UNCHANGED <<routes, pending, ch, replying, wire, handling, closer>>

HasHandler(p, c) == call[c].method \in handlers[p][call[c].target]

\* callLocal up to the handler.
callLocal(c) ==
  LET p == From[c] IN
  /\ call[c].at = "routed" /\ call[c].to = p
  /\ \/ ~HasHandler(p, c) /\ Return(c, "noHandler") /\ sem' = sem
     \/ HasHandler(p, c) /\ sem[p] = MaxConcurrentHandlers /\ Return(c, "busy") /\ sem' = sem
     \/ /\ HasHandler(p, c) /\ sem[p] < MaxConcurrentHandlers
        /\ sem' = [sem EXCEPT ![p] = @ + 1]
        /\ call' = [call EXCEPT ![c].at = "local"] /\ pending' = pending
  /\ UNCHANGED <<routes, ch, replying, wire, serving, copies, executed, closer>>

LocalReturn(c) ==
  /\ call[c].at = "local"
  /\ \E r \in {"ok", "failed"} : Return(c, r)
  /\ executed' = [executed EXCEPT ![c] = @ + 1]
  /\ sem' = [sem EXCEPT ![From[c]] = @ - 1]
  /\ UNCHANGED <<routes, ch, replying, wire, serving, copies, closer>>

\* The reply channel enters the map before the envelope is published.
Pend(c) ==
  /\ call[c].at = "routed" /\ call[c].to # From[c]
  /\ call' = [call EXCEPT ![c].at = "pending"] /\ pending' = pending \cup {c}
  /\ UNCHANGED <<routes, ch, replying, wire, handling, closer>>

Envelope(type, c, to, result) == [type |-> type, id |-> c, to |-> to, result |-> result]

\* A publish that fails may or may not have sent the envelope.
Publish(c) ==
  LET sent == wire \cup {Envelope("call", c, call[c].to, "none")} IN
  /\ call[c].at = "pending"
  /\ \/ /\ wire' = sent
        /\ call' = [call EXCEPT ![c].at = "waiting"] /\ pending' = pending
     \/ "publishFails" \in Env /\ wire' \in {wire, sent} /\ Return(c, "publishFailed")
  /\ UNCHANGED <<routes, ch, replying, handling, closer>>

\* The select of Call: the reply, ...
Await(c) ==
  /\ call[c].at = "waiting" /\ ch[c] # "none"
  /\ Return(c, ch[c]) /\ ch' = [ch EXCEPT ![c] = "none"]
  /\ UNCHANGED <<routes, replying, wire, handling, closer>>

\* Mutant: no deadline when the caller set none.
Timeout_Never(c) ==
  /\ "timeout" \in Env /\ call[c].at = "waiting" /\ ch[c] # "none"
  /\ Return(c, "timeout")
  /\ UNCHANGED <<routes, ch, replying, wire, handling, closer>>

\* ... the context's deadline, which Call sets when the caller did not, ...
Timeout(c) ==
  /\ "timeout" \in Env /\ call[c].at = "waiting"
  /\ Return(c, "timeout")
  /\ UNCHANGED <<routes, ch, replying, wire, handling, closer>>

\* ... or closeCh.
CallClosed(c) ==
  /\ call[c].at = "waiting" /\ closer[From[c]] # "open"
  /\ Return(c, "closed")
  /\ UNCHANGED <<routes, ch, replying, wire, handling, closer>>

----------------------------------------------------------------------------
(* The inbox.                                                              *)

Listening(p) == closer[p] \in {"open", "closing"}

\* recvLoop handles one envelope at a time.
Idle(p) == \A m \in replying : m.to # p

\* The envelope leaves the wire, unless the transport delivers it again.  One that
\* the transport loses is one that stays there.
Taken(m) ==
  \/ wire' = wire \ {m}
  \/ "duplicate" \in Env /\ wire' = wire

\* handleInbound on a call starts a goroutine.
ReceiveCall(m) ==
  /\ m.type = "call" /\ Listening(m.to) /\ Idle(m.to) /\ copies[m.id] < MaxCopies
  /\ Taken(m)
  /\ copies' = [copies EXCEPT ![m.id] = @ + 1]
  /\ serving' = serving \cup {[id |-> m.id, copy |-> copies[m.id] + 1, pod |-> m.to,
                               at |-> "start"]}
  /\ UNCHANGED <<routes, calling, executed, sem, closer>>

\* deliverReply: the channel of a call that is still pending, ...
deliverReply(m) ==
  /\ m.type = "reply" /\ Listening(m.to) /\ Idle(m.to)
  /\ Taken(m)
  /\ replying' = IF m.id \in pending THEN replying \cup {m} ELSE replying
  /\ UNCHANGED <<routes, call, pending, ch, handling, closer>>

\* Mutant: a reply goes to some pending call, whatever its ID.
PassReply_AnyCall(m) ==
  /\ replying' = replying \ {m}
  /\ \E c \in pending : From[c] = m.to /\ ch[c] = "none" /\ ch' = [ch EXCEPT ![c] = m.result]
  /\ UNCHANGED <<routes, call, pending, wire, handling, closer>>

\* Mutant: the send waits for room in the channel.
PassReply_Blocks(m) ==
  /\ replying' = replying \ {m}
  /\ ch[m.id] = "none" /\ ch' = [ch EXCEPT ![m.id] = m.result]
  /\ UNCHANGED <<routes, call, pending, wire, handling, closer>>

\* ... and a send that drops the reply when the channel holds one, although the call
\* may have returned meanwhile.
PassReply(m) ==
  /\ replying' = replying \ {m}
  /\ ch' = IF ch[m.id] = "none" THEN [ch EXCEPT ![m.id] = m.result] ELSE ch
  /\ UNCHANGED <<routes, call, pending, wire, handling, closer>>

\* sendReply; a publish that fails is reported and the reply is gone.
sendReply(s, result) ==
  \/ wire' = wire \cup {Envelope("reply", s.id, From[s.id], result)}
  \/ "publishFails" \in Env /\ wire' = wire

Step(s, at) == serving' = (serving \ {s}) \cup {[s EXCEPT !.at = at]}

\* Mutant: the deferred release is set up before the cap is tested.
Acquire_Unbalanced(s) ==
  /\ s.at = "start"
  /\ \/ /\ sem[s.pod] < MaxConcurrentHandlers
        /\ sem' = [sem EXCEPT ![s.pod] = @ + 1]
        /\ Step(s, "acquired") /\ wire' = wire
     \/ /\ sem[s.pod] = MaxConcurrentHandlers
        /\ sendReply(s, "busy") /\ Step(s, "replied") /\ sem' = sem
  /\ UNCHANGED <<routes, calling, copies, executed, closer>>

\* serveCall: the concurrency cap, ...
Acquire(s) ==
  /\ s.at = "start"
  /\ \/ /\ sem[s.pod] < MaxConcurrentHandlers
        /\ sem' = [sem EXCEPT ![s.pod] = @ + 1]
        /\ Step(s, "acquired") /\ wire' = wire
     \/ /\ sem[s.pod] = MaxConcurrentHandlers
        /\ sendReply(s, "busy") /\ serving' = serving \ {s} /\ sem' = sem
  /\ UNCHANGED <<routes, calling, copies, executed, closer>>

\* ... the handler, ...
Lookup(s) ==
  /\ s.at = "acquired"
  /\ \/ HasHandler(s.pod, s.id) /\ Step(s, "running") /\ wire' = wire
     \/ ~HasHandler(s.pod, s.id) /\ sendReply(s, "noHandler") /\ Step(s, "replied")
  /\ UNCHANGED <<routes, calling, copies, executed, sem, closer>>

\* ... its result, ...
Finish(s) ==
  /\ s.at = "running"
  /\ \E r \in {"ok", "failed"} : sendReply(s, r)
  /\ executed' = [executed EXCEPT ![s.id] = @ + 1]
  /\ Step(s, "replied")
  /\ UNCHANGED <<routes, calling, copies, sem, closer>>

\* ... and the deferred release of the token, after the reply is out.
Exit(s) ==
  /\ s.at = "replied"
  /\ serving' = serving \ {s}
  /\ sem' = [sem EXCEPT ![s.pod] = @ - 1]
  /\ UNCHANGED <<routes, calling, wire, copies, executed, closer>>

----------------------------------------------------------------------------
(* Close.                                                                  *)

Close(p) ==
  /\ "close" \in Env /\ closer[p] = "open"
  /\ closer' = [closer EXCEPT ![p] = "closing"]
  /\ UNCHANGED <<routes, calling, wire, handling>>

RecvExit(p) ==
  /\ closer[p] = "closing" /\ Idle(p)
  /\ closer' = [closer EXCEPT ![p] = "draining"]
  /\ UNCHANGED <<routes, calling, wire, handling>>

\* Mutant: the serveCall goroutines are not in the WaitGroup.
CloseReturn_NoWait(p) ==
  /\ closer[p] = "draining"
  /\ closer' = [closer EXCEPT ![p] = "returned"]
  /\ UNCHANGED <<routes, calling, wire, handling>>

\* Mutant: Close waits until the inbox is empty, which nobody reads any more.
CloseReturn_Pending(p) ==
  /\ closer[p] = "draining" /\ \A s \in serving : s.pod # p
  /\ \A m \in wire : m.to # p
  /\ closer' = [closer EXCEPT ![p] = "returned"]
  /\ UNCHANGED <<routes, calling, wire, handling>>

\* wg.Wait, then routing.Close.
CloseReturn(p) ==
  /\ closer[p] = "draining" /\ \A s \in serving : s.pod # p
  /\ closer' = [closer EXCEPT ![p] = "returned"]
  /\ UNCHANGED <<routes, calling, wire, handling>>

----------------------------------------------------------------------------
Calling(c) == callLocal(c) \/ LocalReturn(c) \/ Pend(c) \/ Publish(c) \/ Await(c) \/ CallClosed(c)

Serving(s) == Acquire(s) \/ Lookup(s) \/ Finish(s) \/ Exit(s)

Closing(p) == RecvExit(p) \/ CloseReturn(p)

Next ==
  \/ \E p \in Pod, t \in Target :
       \/ LearnRoute(p, t) \/ Claim(p, t) \/ Unregister(p, t) \/ Release(p, t)
       \/ \E m \in Method : Register(p, t, m)
  \/ \E c \in Call : Start(c) \/ Calling(c) \/ Timeout(c)
  \/ \E m \in wire : ReceiveCall(m) \/ deliverReply(m)
  \/ \E m \in replying : PassReply(m)
  \/ \E s \in serving : Serving(s)
  \/ \E p \in Pod : Close(p) \/ Closing(p)

Spec == Init /\ [][Next]_vars

\* Goroutines are scheduled and handlers return; deadlines pass.  Nothing is
\* assumed of the transport.
FairSpec ==
  /\ Spec
  /\ \A c \in Call : WF_vars(Calling(c)) /\ WF_vars(Timeout(c))
  /\ WF_vars(\E s \in serving : Serving(s))
  /\ WF_vars(\E m \in replying : PassReply(m))
  /\ \A p \in Pod : WF_vars(Closing(p))

----------------------------------------------------------------------------
(* Properties.                                                             *)

\* The outcome that Call reports is what happened: success or a handler error
\* only if the handler has run to its end, "no route" only if nothing was sent,
\* and "no handler" and "busy" never for a call that was delivered once and
\* executed.  Late, lost and repeated replies do not change that.
OutcomeIsTrue ==
  \A c \in Call :
    /\ call[c].outcome \in {"ok", "failed"} => executed[c] > 0
    /\ call[c].outcome = "noRoute" => copies[c] = 0
    /\ call[c].outcome \in {"noHandler", "busy"} /\ copies[c] <= 1 => executed[c] = 0

\* handlerSem holds exactly the tokens of the handlers in progress, local and
\* remote, so its cap is a cap on them and no path leaks or returns one twice.
TokensBalance ==
  \A p \in Pod :
    sem[p] = Cardinality({s \in serving : s.pod = p /\ s.at # "start"})
             + Cardinality({c \in Call : From[c] = p /\ call[c].at = "local"})

\* Close waits for every handler that the inbox started: none is running, or
\* still to send its reply, once Close has returned.
ClosedIsQuiet ==
  \A p \in Pod : closer[p] = "returned" => \A s \in serving : s.pod # p

\* recvLoop never stops at a reply, so that a pod goes on to take calls: not at one
\* that comes twice, nor at one whose call gave up between the look into the pending
\* map and the send.
InboxMovesOn == \A p \in Pod : []<>Idle(p)

\* Every Call returns: by its deadline at the latest, whether the envelope, the
\* reply or the owner is lost.
CallsReturn == \A c \in Call : (call[c].at # "idle") ~> (call[c].at = "returned")

\* Close returns although calls keep coming in until the inbox stops.
CloseReturns == \A p \in Pod : (closer[p] # "open") ~> (closer[p] = "returned")
=============================================================================
