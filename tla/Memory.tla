------------------------------- MODULE Memory -------------------------------
(***************************************************************************)
(* transport.MemoryTransport: publishers run in parallel under the read    *)
(* lock, everything else takes the write lock of the sync.RWMutex.  A      *)
(* writer that waits for the readers keeps new readers out.                *)
(***************************************************************************)
EXTENDS Naturals, Sequences, Functions, FiniteSetsExt

CONSTANTS Pub,      \* goroutines that call Publish
          Sub,      \* goroutines that call Subscribe, and their channels
          None,
          Buffer,   \* capacity of a channel
          MaxMsgs   \* bound on the Publish calls

ASSUME NoneAssumption == None \notin Sub

VARIABLES
  readers,  \* goroutines that hold mu.RLock
  writer,   \* the call that holds mu.Lock or waits for the readers to leave
  closed,   \* m.closed
  subs,     \* m.subs[topic], in order
  at,       \* progress of each Publish
  left,     \* channels that a Publish has not come to
  sent,     \* history: Publish calls made
  acked,    \* history: messages whose Publish returned nil
  feed,     \* everything put into each channel
  taken,    \* how much of it was received
  ended,    \* closed channels
  dropped,  \* history: what onError was told
  since     \* history: sent when each channel was added

vars == <<readers, writer, closed, subs, at, left, sent, acked, feed, taken,
          ended, dropped, since>>

Ops == {"close", "snapshot"} \cup Sub

Init ==
  /\ readers = {} /\ writer = None /\ closed = FALSE /\ subs = <<>>
  /\ at = [p \in Pub |-> "idle"] /\ left = [p \in Pub |-> <<>>]
  /\ sent = [p \in Pub |-> 0] /\ acked = {}
  /\ feed = [s \in Sub |-> <<>>] /\ taken = [s \in Sub |-> 0] /\ ended = {}
  /\ dropped = {} /\ since = [s \in Sub |-> sent]

----------------------------------------------------------------------------
(* Publish.                                                                *)

Publish(p) ==
  /\ at[p] = "idle" /\ MapThenSumSet(LAMBDA q : sent[q], Pub) < MaxMsgs
  /\ at' = [at EXCEPT ![p] = "locking"] /\ sent' = [sent EXCEPT ![p] = @ + 1]
  /\ UNCHANGED <<readers, writer, closed, subs, left, acked, feed, taken, ended,
                 dropped, since>>

\* Mutant: the read lock is kept on the early return.
RLock_Kept(p) ==
  /\ at[p] = "locking" /\ writer = None
  /\ readers' = readers \cup {p}
  /\ at' = [at EXCEPT ![p] = IF closed THEN "idle" ELSE "sending"]
  /\ left' = [left EXCEPT ![p] = subs]
  /\ UNCHANGED <<writer, closed, subs, sent, acked, feed, taken, ended, dropped, since>>

\* On a closed transport Publish returns an error.
RLock(p) ==
  /\ at[p] = "locking" /\ writer = None
  /\ IF closed
     THEN at' = [at EXCEPT ![p] = "idle"] /\ UNCHANGED <<readers, left>>
     ELSE /\ at' = [at EXCEPT ![p] = "sending"] /\ readers' = readers \cup {p}
          /\ left' = [left EXCEPT ![p] = subs]
  /\ UNCHANGED <<writer, closed, subs, sent, acked, feed, taken, ended, dropped, since>>

Msg(p) == <<p, sent[p]>>

\* Mutant: a full channel ends the loop.
Send_Stops(p) ==
  /\ at[p] = "sending" /\ left[p] # <<>>
  /\ LET s == Head(left[p]) IN
     \/ /\ Len(feed[s]) - taken[s] < Buffer
        /\ feed' = [feed EXCEPT ![s] = Append(@, Msg(p))] /\ dropped' = dropped
        /\ left' = [left EXCEPT ![p] = Tail(@)]
     \/ /\ Len(feed[s]) - taken[s] >= Buffer
        /\ dropped' = dropped \cup {<<s, Msg(p)>>} /\ feed' = feed
        /\ left' = [left EXCEPT ![p] = <<>>]
  /\ UNCHANGED <<readers, writer, closed, subs, at, sent, acked, taken, ended, since>>

\* A message that finds the channel full is dropped, and onError told so.
Send(p) ==
  /\ at[p] = "sending" /\ left[p] # <<>>
  /\ LET s == Head(left[p]) IN
     \/ /\ Len(feed[s]) - taken[s] < Buffer
        /\ feed' = [feed EXCEPT ![s] = Append(@, Msg(p))] /\ dropped' = dropped
     \/ /\ Len(feed[s]) - taken[s] >= Buffer
        /\ dropped' = dropped \cup {<<s, Msg(p)>>} /\ feed' = feed
  /\ left' = [left EXCEPT ![p] = Tail(@)]
  /\ UNCHANGED <<readers, writer, closed, subs, at, sent, acked, taken, ended, since>>

RUnlock(p) ==
  /\ at[p] = "sending" /\ left[p] = <<>>
  /\ at' = [at EXCEPT ![p] = "idle"] /\ readers' = readers \ {p}
  /\ acked' = acked \cup {Msg(p)}
  /\ UNCHANGED <<writer, closed, subs, left, sent, feed, taken, ended, dropped, since>>

\* The owner of a channel reads it.
Receive(s) ==
  /\ taken[s] < Len(feed[s])
  /\ taken' = [taken EXCEPT ![s] = @ + 1]
  /\ UNCHANGED <<readers, writer, closed, subs, at, left, sent, acked, feed, ended,
                 dropped, since>>

----------------------------------------------------------------------------
(* The calls that take the write lock.                                     *)

\* Mutant: the write lock does not wait for readers.
Locked_NoWait(op) == writer = op

Locked(op) == writer = op /\ readers = {}

\* mu.Lock by a call that starts: Subscribe once for each channel.
Lock(op) ==
  /\ writer = None /\ writer' = op
  /\ op \in Sub => op \notin Range(subs)
  /\ UNCHANGED <<readers, closed, subs, at, left, sent, acked, feed, taken, ended,
                 dropped, since>>

Subscribe(s) ==
  /\ Locked(s) /\ writer' = None
  /\ IF closed THEN UNCHANGED <<subs, since>>
     ELSE subs' = Append(subs, s) /\ since' = [since EXCEPT ![s] = sent]
  /\ UNCHANGED <<readers, closed, at, left, sent, acked, feed, taken, ended, dropped>>

\* Snapshot and FetchSnapshot; what they store is the stored of Replication.
Snapshot ==
  /\ Locked("snapshot") /\ writer' = None
  /\ UNCHANGED <<readers, closed, subs, at, left, sent, acked, feed, taken, ended, dropped, since>>

\* Close closes the channels once; a second Close does nothing.
Close ==
  /\ Locked("close") /\ writer' = None
  /\ closed' = TRUE /\ subs' = <<>> /\ ended' = ended \cup Range(subs)
  /\ UNCHANGED <<readers, at, left, sent, acked, feed, taken, dropped, since>>

----------------------------------------------------------------------------
Publishing(p) == RLock(p) \/ Send(p) \/ RUnlock(p)

Writing == Close \/ Snapshot \/ \E s \in Sub : Subscribe(s)

Next ==
  \/ \E p \in Pub : Publish(p) \/ Publishing(p)
  \/ \E s \in Sub : Receive(s)
  \/ \E op \in Ops : Lock(op)
  \/ Writing

Spec == Init /\ [][Next]_vars

\* Calls are scheduled.  Unlock of an RWMutex lets the readers in that wait, before
\* the next writer: strong fairness for RLock.
Fairness ==
  /\ \A p \in Pub : SF_vars(RLock(p)) /\ WF_vars(Send(p) \/ RUnlock(p))
  /\ WF_vars(Writing)

----------------------------------------------------------------------------
(* Properties.                                                             *)

Contract == INSTANCE Subscription WITH Ordered <- TRUE

\* The contract of Transport: a channel carries published messages only, each at
\* most once and in the order of its publisher, and none after Close closed it, though
\* publishers and Close run at once.
MemoryDelivers == Contract!Spec

\* A message whose Publish returned nil is, for every channel that was there when
\* Publish was called, in the channel or reported to onError, though publishers
\* run in parallel with each other, with readers, Subscribe and Close.
NoSilentDrop ==
  \A s \in ended \cup Range(subs), m \in acked :
    m[2] > since[s][m[1]] =>
      m \in Range(feed[s]) \/ <<s, m>> \in dropped

\* Every Publish and every call that waits for the write lock returns, whoever
\* reads.
CallsReturn ==
  /\ \A p \in Pub : at[p] # "idle" ~> at[p] = "idle"
  /\ (writer # None) ~> (writer = None)
=============================================================================
