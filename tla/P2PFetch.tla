------------------------------ MODULE P2PFetch ------------------------------
(***************************************************************************)
(* transport.P2PTransport: the frames of one topic between this pod and    *)
(* its peers.  FetchSnapshot asks every connected peer and takes the first *)
(* answer; events and answers share the connection's bounded queue, and a  *)
(* full subscription channel stops the reader of a connection.             *)
(***************************************************************************)
EXTENDS Naturals, Sequences

CONSTANTS Peer,
          Fetcher,    \* goroutines that call FetchSnapshot
          None,
          SendDepth,  \* capacity of a connection's sendQ
          Buffer,     \* capacity of the subscription channel
          MaxRounds,  \* bound on the FetchSnapshot calls of a fetcher
          MaxVer,     \* bound on the snapshots that a peer stores
          Env         \* what may happen besides fetches

ASSUME NoneAssumption == None \notin Fetcher
ASSUME BoundAssumption == SendDepth \in Nat /\ Buffer \in Nat /\ MaxRounds \in Nat /\ MaxVer \in Nat
ASSUME EnvAssumption == Env \subseteq {"events", "publish", "connect", "cancel"}

VARIABLES
  up,       \* peers with a connection in t.conns
  out,      \* frames queued to each peer
  in,       \* frames queued by each peer, its sendQ and the wire
  snap,     \* the snapshot each peer stores, 0 for none
  buf,      \* messages in the subscription channel
  pending,  \* pendingSnapReqs[topic]: whose channel it is
  resp,     \* what each fetcher's channel holds
  fetch,    \* progress of FetchSnapshot
  answered, \* history: fetchers that polled when an answer of a peer arrived
  robbed    \* history: fetchers whose entry the return of another call deleted

vars == <<up, out, in, snap, buf, pending, resp, fetch, answered, robbed>>

NoFrame == [type |-> "none", snap |-> 0]
Event == [type |-> "event", snap |-> 0]
Req == [type |-> "req", snap |-> 0]

Init ==
  /\ up \in SUBSET Peer /\ snap \in [Peer -> 0..1]
  /\ out = [p \in Peer |-> <<>>] /\ in = [p \in Peer |-> <<>>] /\ buf = 0
  /\ pending = None /\ resp = [f \in Fetcher |-> NoFrame] /\ answered = {} /\ robbed = {}
  /\ fetch = [f \in Fetcher |-> [at |-> "idle", asked |-> {}, rounds |-> 0, snap |-> 0,
                                 by |-> "none"]]

----------------------------------------------------------------------------
(* Queues.                                                                 *)

\* enqueue: a frame that finds the queue full is dropped.
enqueue(q, f) == IF Len(q) < SendDepth THEN Append(q, f) ELSE q

\* Publish to every connection.
Publish ==
  /\ "publish" \in Env
  /\ out' = [p \in Peer |-> IF p \in up THEN enqueue(out[p], Event) ELSE out[p]]
  /\ UNCHANGED <<up, in, snap, buf, pending, resp, fetch, answered, robbed>>

PeerPublish(p) ==
  /\ "events" \in Env /\ p \in up
  /\ in' = [in EXCEPT ![p] = enqueue(@, Event)]
  /\ UNCHANGED <<up, out, snap, buf, pending, resp, fetch, answered, robbed>>

\* The peer's serveConn: a request is answered with what the peer stores.
PeerServe(p) ==
  /\ p \in up /\ out[p] # <<>>
  /\ out' = [out EXCEPT ![p] = Tail(@)]
  /\ in' = IF Head(out[p]) # Req THEN in
           ELSE [in EXCEPT ![p] = enqueue(@, [type |-> "resp", snap |-> snap[p]])]
  /\ UNCHANGED <<up, snap, buf, pending, resp, fetch, answered, robbed>>

\* Snapshot on a peer.
Snapshot(p) ==
  /\ snap[p] < MaxVer
  /\ snap' = [snap EXCEPT ![p] = @ + 1]
  /\ UNCHANGED <<up, out, in, buf, pending, resp, fetch, answered, robbed>>

\* A connection that goes down loses what it queued; a new one has not been asked.
Reconnect(p) ==
  /\ "connect" \in Env
  /\ up' = (up \ {p}) \cup ({p} \ up)
  /\ out' = [out EXCEPT ![p] = <<>>] /\ in' = [in EXCEPT ![p] = <<>>]
  /\ fetch' = [f \in Fetcher |-> [fetch[f] EXCEPT !.asked = @ \ {p}]]
  /\ UNCHANGED <<snap, buf, pending, resp, answered, robbed>>

\* deliverEvent: the reader waits while the channel is full.
deliverEvent(p) ==
  /\ p \in up /\ in[p] # <<>> /\ Head(in[p]) = Event
  /\ buf < Buffer /\ buf' = buf + 1
  /\ in' = [in EXCEPT ![p] = Tail(@)]
  /\ UNCHANGED <<up, out, snap, pending, resp, fetch, answered, robbed>>

Consume ==
  /\ buf > 0 /\ buf' = buf - 1
  /\ UNCHANGED <<up, out, in, snap, pending, resp, fetch, answered, robbed>>

Polling == {f \in Fetcher : fetch[f].at = "polling"}

\* Mutant: every waiter's entry is dropped with the first answer of any kind, and
\* an empty answer is not passed on.
deliverSnapResp_SkipsEmpty(p) ==
  /\ p \in up /\ in[p] # <<>> /\ Head(in[p]).type = "resp"
  /\ in' = [in EXCEPT ![p] = Tail(@)]
  /\ pending' = None
  /\ resp' = IF pending = None \/ Head(in[p]).snap = 0 THEN resp
             ELSE [resp EXCEPT ![pending] = Head(in[p])]
  /\ answered' = answered \cup Polling
  /\ UNCHANGED <<up, out, snap, buf, fetch, robbed>>

\* deliverSnapResp: the answer goes to whoever is pending, and the entry with it.
deliverSnapResp(p) ==
  /\ p \in up /\ in[p] # <<>> /\ Head(in[p]).type = "resp"
  /\ in' = [in EXCEPT ![p] = Tail(@)]
  /\ pending' = None
  /\ resp' = IF pending = None THEN resp ELSE [resp EXCEPT ![pending] = Head(in[p])]
  /\ answered' = answered \cup Polling
  /\ UNCHANGED <<up, out, snap, buf, fetch, robbed>>

----------------------------------------------------------------------------
(* FetchSnapshot.                                                          *)

\* One request per topic at a time.
FetchStart(f) ==
  /\ fetch[f].at = "idle" /\ fetch[f].rounds < MaxRounds
  /\ \/ /\ pending = None /\ pending' = f
        /\ resp' = [resp EXCEPT ![f] = NoFrame]
        /\ fetch' = [fetch EXCEPT ![f] = [at |-> "polling", asked |-> {}, rounds |-> @.rounds + 1,
                                          snap |-> 0, by |-> "none"]]
     \/ /\ pending # None /\ UNCHANGED <<pending, resp>>
        /\ fetch' = [fetch EXCEPT ![f].rounds = @ + 1, ![f].by = "refused", ![f].snap = 0]
  /\ UNCHANGED <<up, out, in, snap, buf, answered, robbed>>

\* Every connection is asked once; one whose queue is full counts as asked.
Poll(f) ==
  /\ fetch[f].at = "polling" /\ up \ fetch[f].asked # {}
  /\ out' = [p \in Peer |-> IF p \in up \ fetch[f].asked THEN enqueue(out[p], Req) ELSE out[p]]
  /\ fetch' = [fetch EXCEPT ![f].asked = @ \cup up]
  /\ UNCHANGED <<up, in, snap, buf, pending, resp, answered, robbed>>

Ends(f, by, s) ==
  /\ fetch' = [fetch EXCEPT ![f].at = "returning", ![f].by = by, ![f].snap = s]
  /\ UNCHANGED <<up, out, in, snap, buf, pending, resp, answered, robbed>>

Answer(f) ==
  /\ fetch[f].at = "polling" /\ resp[f] # NoFrame
  /\ Ends(f, "answer", resp[f].snap)

\* Mutant: the deadline is tested only after peers were asked.
Deadline_IfAsked(f) == fetch[f].at = "polling" /\ fetch[f].asked # {} /\ Ends(f, "deadline", 0)

\* The deadline may win over an answer that is already in the channel.
Deadline(f) == fetch[f].at = "polling" /\ Ends(f, "deadline", 0)

\* The caller's context or the transport's.
Cancel(f) == "cancel" \in Env /\ fetch[f].at = "polling" /\ Ends(f, "cancel", 0)

\* Mutant: the entry stays when no answer took it.
Return_KeepsEntry(f) ==
  /\ fetch[f].at = "returning"
  /\ fetch' = [fetch EXCEPT ![f].at = "idle"]
  /\ UNCHANGED <<up, out, in, snap, buf, pending, resp, answered, robbed>>

\* The deferred delete, of whatever entry the topic has.
Return(f) ==
  /\ fetch[f].at = "returning"
  /\ pending' = None
  /\ robbed' = (robbed \cup ({pending} \ {None})) \ {f} /\ answered' = answered \ {f}
  /\ fetch' = [fetch EXCEPT ![f].at = "idle"]
  /\ UNCHANGED <<up, out, in, snap, buf, resp>>

----------------------------------------------------------------------------
FetchSnapshot(f) == Answer(f) \/ Deadline(f) \/ Return(f)

Next ==
  \/ \E f \in Fetcher : FetchStart(f) \/ Poll(f) \/ FetchSnapshot(f) \/ Cancel(f)
  \/ \E p \in Peer : \/ PeerPublish(p) \/ PeerServe(p) \/ Snapshot(p) \/ Reconnect(p)
                     \/ deliverEvent(p) \/ deliverSnapResp(p)
  \/ Publish \/ Consume

Spec == Init /\ [][Next]_vars

\* The fetcher is scheduled and its deadline passes; peers and the subscriber may
\* do nothing.
FairSpec == Spec /\ \A f \in Fetcher : WF_vars(FetchSnapshot(f))

----------------------------------------------------------------------------
(* Properties.                                                             *)

\* An answer that arrives while a call polls is in the call's channel, although the
\* topic has one entry for all calls and every answer deletes it; the exception is a
\* call whose entry was deleted by the return of the call before it.  So the "(nil, nil)
\* if no peer responds" of FetchSnapshot says too much in two cases only: that one, and
\* a deadline that is seen before the channel is read.
AnswerReachesCall == \A f \in answered : resp[f] # NoFrame \/ f \in robbed

\* A call is refused as "already in flight" only while another one runs: every
\* way out of FetchSnapshot releases the topic.
TopicIsReleased == pending # None => fetch[pending].at # "idle"

\* FetchSnapshot returns, with peers or without, whatever is queued before the
\* answer and although the subscriber does not read.
FetchReturns == \A f \in Fetcher : (fetch[f].at = "polling") ~> (fetch[f].at = "idle")
=============================================================================
