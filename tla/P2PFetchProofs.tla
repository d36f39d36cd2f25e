--------------------------- MODULE P2PFetchProofs ---------------------------
(***************************************************************************)
(* What FetchSnapshot owes its callers, proved for every set of peers and  *)
(* fetchers and every bound.                                               *)
(***************************************************************************)
EXTENDS P2PFetch, TLAPS

Frame == [type : {"none", "event", "req", "resp"}, snap : Nat]
Progress == [at : {"idle", "polling", "returning"}, asked : SUBSET Peer, rounds : Nat,
             snap : Nat, by : {"none", "refused", "answer", "deadline", "cancel"}]

TypeOK ==
  /\ up \subseteq Peer /\ snap \in [Peer -> Nat] /\ buf \in Nat
  /\ out \in [Peer -> Seq(Frame)] /\ in \in [Peer -> Seq(Frame)]
  /\ pending \in Fetcher \cup {None} /\ resp \in [Fetcher -> Frame]
  /\ fetch \in [Fetcher -> Progress]
  /\ answered \subseteq Fetcher /\ robbed \subseteq Fetcher

Waiting(f) == fetch[f].at = "polling" /\ resp[f] = NoFrame

\* The entry of a topic belongs to a call in progress, and a call that polls
\* and has no answer lost its entry only to the return of another call.
Entry ==
  /\ TopicIsReleased
  /\ \A f \in Fetcher : Waiting(f) /\ pending # f => f \in robbed
  /\ AnswerReachesCall
  /\ \A f \in answered : fetch[f].at # "idle"

Inv == TypeOK /\ Entry

----------------------------------------------------------------------------
(* Types.                                                                  *)

\* The three frames without an answer are frames.
LEMMA Frames == NoFrame \in Frame /\ Event \in Frame /\ Req \in Frame
BY Zenon DEF NoFrame, Event, Req, Frame

\* enqueue keeps a queue a queue of frames, whether it has room or not.
LEMMA EnqueueType ==
  ASSUME NEW q \in Seq(Frame), NEW f \in Frame PROVE enqueue(q, f) \in Seq(Frame)
BY DEF enqueue

\* What a reader takes from a connection is a frame, and a queue is left.
LEMMA TakeType ==
  ASSUME NEW q \in Seq(Frame), q # <<>> PROVE Head(q) \in Frame /\ Tail(q) \in Seq(Frame)
OBVIOUS

\* The steps of FetchSnapshot keep the types.
LEMMA TypeFetcher ==
  ASSUME TypeOK, NEW f \in Fetcher,
         FetchStart(f) \/ Poll(f) \/ FetchSnapshot(f) \/ Cancel(f)
  PROVE  TypeOK'
<1> USE Frames
<1>1. fetch[f] \in Progress /\ resp[f] \in Frame
  BY Zenon DEF TypeOK
<1>2. CASE FetchStart(f)
  <2>1. [at |-> "polling", asked |-> {}, rounds |-> fetch[f].rounds + 1, snap |-> 0,
         by |-> "none"] \in Progress
    BY <1>1 DEF Progress
  <2>2. ASSUME NEW n \in Nat, pending # None,
               fetch' = [fetch EXCEPT ![f].rounds = n, ![f].by = "refused", ![f].snap = 0]
        PROVE  fetch' \in [Fetcher -> Progress]
    BY Zenon, <1>1, <2>2 DEF TypeOK, Progress
  <2>3. CASE pending = None
    BY <2>1, <2>3, <1>2 DEF FetchStart, TypeOK
  <2>4. CASE pending # None
    <3>1. fetch[f].rounds + 1 \in Nat
      BY <1>1 DEF Progress
    <3>2. fetch' \in [Fetcher -> Progress]
      BY Zenon, <2>2, <2>4, <3>1, <1>2 DEF FetchStart
    <3>3. QED
      BY Zenon, <2>4, <3>2, <1>2 DEF FetchStart, TypeOK
  <2>5. QED
    BY Zenon, <2>3, <2>4
<1>3. CASE Poll(f)
  <2>1. fetch' \in [Fetcher -> Progress]
    BY Zenon, <1>1, <1>3 DEF Poll, TypeOK, Progress
  <2>2. out' \in [Peer -> Seq(Frame)]
    BY Zenon, <1>3, EnqueueType DEF Poll, TypeOK
  <2>3. QED
    BY Zenon, <2>1, <2>2, <1>3 DEF Poll, TypeOK
<1>4. ASSUME NEW by \in {"answer", "deadline", "cancel"}, NEW s \in Nat, Ends(f, by, s)
      PROVE  TypeOK'
  <2>1. fetch' \in [Fetcher -> Progress]
    BY Zenon, <1>1, <1>4 DEF Ends, TypeOK, Progress
  <2>2. QED
    BY Zenon, <2>1, <1>4 DEF Ends, TypeOK
<1>5. CASE Answer(f) \/ Deadline(f) \/ Cancel(f)
  BY Zenon, <1>1, <1>4, <1>5 DEF Answer, Deadline, Cancel, Frame
<1>6. CASE Return(f)
  <2>1. fetch' \in [Fetcher -> Progress]
    BY Zenon, <1>1, <1>6 DEF Return, TypeOK, Progress
  <2>2. QED
    BY Zenon, <2>1, <1>6 DEF Return, TypeOK
<1>7. QED
  BY Zenon, <1>2, <1>3, <1>5, <1>6 DEF FetchSnapshot

\* The steps of a connection and of the peer behind it keep the types.
LEMMA TypePeer ==
  ASSUME TypeOK, NEW p \in Peer,
         \/ PeerPublish(p) \/ PeerServe(p) \/ Snapshot(p) \/ Reconnect(p)
         \/ deliverEvent(p) \/ deliverSnapResp(p)
  PROVE  TypeOK'
<1> USE Frames
<1>1. in[p] \in Seq(Frame) /\ out[p] \in Seq(Frame) /\ snap[p] \in Nat
  BY Zenon DEF TypeOK
<1>2. CASE PeerPublish(p)
  BY Zenon, <1>1, <1>2, EnqueueType DEF PeerPublish, TypeOK
<1>3. CASE PeerServe(p)
  <2>1. [type |-> "resp", snap |-> snap[p]] \in Frame
    BY Zenon, <1>1 DEF Frame
  <2>2. in' \in [Peer -> Seq(Frame)] /\ out' \in [Peer -> Seq(Frame)]
    BY Zenon, <1>1, <1>3, <2>1, EnqueueType, TakeType DEF PeerServe, TypeOK
  <2>3. QED
    BY Zenon, <1>3, <2>2 DEF PeerServe, TypeOK
<1>4. CASE Snapshot(p)
  BY <1>1, <1>4 DEF Snapshot, TypeOK
<1>5. CASE Reconnect(p)
  <2>1. ASSUME NEW g \in Fetcher PROVE [fetch[g] EXCEPT !.asked = @ \ {p}] \in Progress
    BY Zenon DEF TypeOK, Progress
  <2>2. fetch' \in [Fetcher -> Progress]
    BY Zenon, <1>5, <2>1 DEF Reconnect
  <2>3. QED
    BY <1>5, <2>2 DEF Reconnect, TypeOK
<1>6. CASE deliverEvent(p)
  BY <1>1, <1>6, TakeType DEF deliverEvent, TypeOK
<1>7. CASE deliverSnapResp(p)
  BY Zenon, <1>1, <1>7, TakeType DEF deliverSnapResp, Polling, TypeOK
<1>8. QED
  BY Zenon, <1>2, <1>3, <1>4, <1>5, <1>6, <1>7

\* Types hold in every reachable state.
THEOREM TypeCorrect == Spec => []TypeOK
<1>1. Init => TypeOK
  BY Frames DEF Init, TypeOK, Progress
<1>2. TypeOK /\ [Next]_vars => TypeOK'
  <2> SUFFICES ASSUME TypeOK, [Next]_vars PROVE TypeOK'
    BY Zenon
  <2>1. CASE Publish
    BY Zenon, <2>1, EnqueueType, Frames DEF Publish, TypeOK
  <2>2. CASE Consume
    BY <2>2 DEF Consume, TypeOK
  <2>3. CASE UNCHANGED vars
    BY Zenon, <2>3 DEF vars, TypeOK
  <2>4. QED
    BY Zenon, <2>1, <2>2, <2>3, TypeFetcher, TypePeer DEF Next
<1>3. QED
  BY <1>1, <1>2, PTL DEF Spec

----------------------------------------------------------------------------
(* The entry.                                                              *)

\* Entry depends on five variables only.
LEMMA EntryFrame ==
  ASSUME Entry, UNCHANGED <<pending, resp, answered, robbed>>, DOMAIN fetch = Fetcher,
         answered \subseteq Fetcher,
         pending \in Fetcher \cup {None},
         \A f \in Fetcher : fetch'[f].at = fetch[f].at \/ fetch'[f].at = "returning"
  PROVE  Entry'
BY DEF Entry, AnswerReachesCall, TopicIsReleased, Waiting

\* The steps of FetchSnapshot keep the entry.
LEMMA EntryFetcher ==
  ASSUME Inv, NEW f \in Fetcher,
         FetchStart(f) \/ Poll(f) \/ FetchSnapshot(f) \/ Cancel(f)
  PROVE  Entry'
<1> USE NoneAssumption
<1>1. /\ DOMAIN fetch = Fetcher /\ fetch[f] \in Progress /\ DOMAIN resp = Fetcher
      /\ pending \in Fetcher \cup {None} /\ answered \subseteq Fetcher
  BY Zenon DEF Inv, TypeOK
<1>2. CASE FetchStart(f)
  <2>1. CASE pending = None
    BY <1>1, <1>2, <2>1 DEF FetchStart, Inv, Entry, AnswerReachesCall, TopicIsReleased, Waiting
  <2>2. CASE pending # None
    <3>1. \A g \in Fetcher : fetch'[g].at = fetch[g].at
      BY <1>1, <1>2, <2>2 DEF FetchStart, Progress
    <3>2. QED
      BY Zenon, <1>1, <1>2, <2>2, <3>1, EntryFrame DEF FetchStart, Inv
  <2>3. QED
    BY Zenon, <2>1, <2>2
<1>3. CASE Poll(f)
  <2>1. \A g \in Fetcher : fetch'[g].at = fetch[g].at
    BY Zenon, <1>1, <1>3 DEF Poll, Progress
  <2>2. QED
    BY Zenon, <1>1, <1>3, <2>1, EntryFrame DEF Poll, Inv
<1>4. ASSUME NEW by, NEW s, Ends(f, by, s) PROVE Entry'
  <2>1. \A g \in Fetcher : fetch'[g].at = fetch[g].at \/ fetch'[g].at = "returning"
    BY Zenon, <1>1, <1>4 DEF Ends, Progress
  <2>2. QED
    BY Zenon, <1>1, <1>4, <2>1, EntryFrame DEF Ends, Inv
<1>5. CASE Answer(f) \/ Deadline(f) \/ Cancel(f)
  BY Zenon, <1>4, <1>5 DEF Answer, Deadline, Cancel
<1>6. CASE Return(f)
  <2>1. /\ \A g \in Fetcher : fetch'[g].at = "polling" => fetch[g].at = "polling" /\ g # f
        /\ \A g \in Fetcher \ {f} : fetch'[g].at = fetch[g].at
    BY Zenon, <1>1, <1>6 DEF Return, Progress
  <2>2. QED
    BY Zenon, <1>1, <1>6, <2>1 DEF Return, Inv, Entry, AnswerReachesCall, TopicIsReleased, Waiting
<1>7. QED
  BY Zenon, <1>2, <1>3, <1>5, <1>6 DEF FetchSnapshot

\* So do those of a connection; a snapshot answer takes the entry with it, and
\* passes by only those calls that had lost theirs.
LEMMA EntryPeer ==
  ASSUME Inv, NEW p \in Peer,
         \/ PeerPublish(p) \/ PeerServe(p) \/ Snapshot(p) \/ Reconnect(p)
         \/ deliverEvent(p) \/ deliverSnapResp(p)
  PROVE  Entry'
<1> USE NoneAssumption
<1>1. /\ DOMAIN fetch = Fetcher /\ DOMAIN resp = Fetcher /\ pending \in Fetcher \cup {None}
      /\ answered \subseteq Fetcher /\ \A f \in Fetcher : fetch[f] \in Progress
  BY Zenon DEF Inv, TypeOK
<1>2. CASE PeerPublish(p) \/ PeerServe(p) \/ Snapshot(p) \/ deliverEvent(p)
  BY Zenon, <1>1, <1>2, EntryFrame DEF PeerPublish, PeerServe, Snapshot, deliverEvent, Inv
<1>3. CASE Reconnect(p)
  <2>1. \A f \in Fetcher : fetch'[f].at = fetch[f].at
    BY Zenon, <1>1, <1>3 DEF Reconnect, Progress
  <2>2. QED
    BY Zenon, <1>1, <1>3, <2>1, EntryFrame DEF Reconnect, Inv
<1>4. CASE deliverSnapResp(p)
  <2>1. Head(in[p]) # NoFrame
    BY <1>4 DEF deliverSnapResp, NoFrame
  <2>2. \A f \in Fetcher : /\ Waiting(f)' => Waiting(f) /\ f # pending
                           /\ resp'[f] = NoFrame => resp[f] = NoFrame /\ f # pending
    BY Zenon, <1>1, <1>4, <2>1 DEF deliverSnapResp, Waiting
  <2>3. AnswerReachesCall'
    BY Zenon, <1>1, <1>4, <2>2
       DEF deliverSnapResp, Polling, Waiting, Inv, Entry, AnswerReachesCall, TypeOK
  <2>4. QED
    BY Zenon, <1>1, <1>4, <2>2, <2>3 DEF deliverSnapResp, Polling, Inv, Entry, TopicIsReleased
<1>5. QED
  BY Zenon, <1>2, <1>3, <1>4

\* Types and the entry hold in every reachable state.
THEOREM InvHolds == Spec => []Inv
<1>1. Init => Entry
  BY NoneAssumption DEF Init, Entry, AnswerReachesCall, TopicIsReleased, Waiting
<1>2. Inv /\ [Next]_vars => Entry'
  <2> SUFFICES ASSUME Inv, [Next]_vars PROVE Entry'
    BY Zenon
  <2>1. DOMAIN fetch = Fetcher /\ pending \in Fetcher \cup {None} /\ answered \subseteq Fetcher
    BY Zenon DEF Inv, TypeOK
  <2>2. CASE Publish \/ Consume \/ UNCHANGED vars
    BY Zenon, <2>1, <2>2, EntryFrame DEF Publish, Consume, vars, Inv
  <2>3. QED
    BY Zenon, <2>2, EntryFetcher, EntryPeer DEF Next
<1>3. QED
  BY <1>1, <1>2, TypeCorrect, PTL DEF Spec, Inv

\* Every answer that arrives while a call polls reaches the call's channel, unless the
\* return of another call had deleted its entry, for any number of peers, callers and
\* retries: what FetchSnapshot's "(nil, nil) if no peer responds" rests on.
THEOREM AnswersReachTheirCall == Spec => []AnswerReachesCall
<1>1. Inv => AnswerReachesCall
  BY Zenon DEF Inv, Entry
<1>2. QED
  BY <1>1, InvHolds, PTL

\* A topic is in flight only while a FetchSnapshot call runs: every way out of
\* the function releases the entry.
THEOREM EntryIsReleased == Spec => []TopicIsReleased
<1>1. Inv => TopicIsReleased
  BY Zenon DEF Inv, Entry
<1>2. QED
  BY <1>1, InvHolds, PTL
=============================================================================
