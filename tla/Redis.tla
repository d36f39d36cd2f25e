-------------------------------- MODULE Redis -------------------------------
(***************************************************************************)
(* transport.RedisTransport: one forwarding goroutine for each topic       *)
(* between the PubSub connection and the channel that Subscribe returned.  *)
(* Subscribe holds mu while it waits for the server.  The server and the   *)
(* client library are external: a message may come late, never, or again   *)
(* when the library repeats a Publish that timed out.                      *)
(***************************************************************************)
EXTENDS Naturals, Sequences, FiniteSetsExt

CONSTANTS Pub,      \* goroutines, of any pod, that call Publish
          Sub,      \* topics, and the channels that Subscribe returns for them
          Caller,   \* goroutines that call Subscribe
          None,
          Buffer,   \* capacity of out
          MaxMsgs,  \* bound on the Publish calls of one goroutine
          MaxIn     \* bound on the messages that come in

VARIABLES
  mu,        \* the Subscribe call that holds r.mu while it waits for the server
  closed,    \* r.closed
  subs,      \* r.subs: topics
  caller,    \* the topic that each Subscribe call is for, None without a call
  own,       \* r.ownClient
  open,      \* the client is not closed
  live,      \* topics whose PubSub is open
  wire,      \* what the PubSub has not handed over
  fwd,       \* the forwarding goroutine of each topic
  held,      \* the message that it is to put into out
  cancelled, \* topics whose subCtx is cancelled
  closer,    \* progress of the first Close to lock mu
  todo,      \* the subscriptions that Close has not ended
  sent,      \* history: Publish calls made
  feed,      \* everything put into out
  taken,     \* how much of it was received
  ended      \* topics whose out is closed

calls == <<closed, subs, caller, own>>
conn == <<open, live, wire>>
loop == <<fwd, held, cancelled>>
close == <<closer, todo>>
chan == <<feed, taken, ended>>
vars == <<mu, calls, conn, loop, close, sent, chan>>

Init ==
  /\ mu = None /\ closed = FALSE /\ subs = {} /\ caller = [c \in Caller |-> None]
  /\ own \in BOOLEAN /\ open = TRUE /\ live = {} /\ wire = [t \in Sub |-> <<>>]
  /\ fwd = [t \in Sub |-> "none"] /\ held = [t \in Sub |-> None] /\ cancelled = {}
  /\ closer = "idle" /\ todo = {}
  /\ sent = [p \in Pub |-> 0] /\ feed = [t \in Sub |-> <<>>]
  /\ taken = [t \in Sub |-> 0] /\ ended = {}

----------------------------------------------------------------------------
(* Publish, the server and the client library.                             *)

Publish(p) ==
  /\ sent[p] < MaxMsgs /\ sent' = [sent EXCEPT ![p] = @ + 1]
  /\ UNCHANGED <<mu, calls, conn, loop, close, chan>>

Arrive(t, p, i) ==
  /\ t \in live /\ MapThenSumSet(LAMBDA s : Len(feed[s]) + Len(wire[s]), Sub) < MaxIn
  /\ wire' = [wire EXCEPT ![t] = Append(@, <<p, i>>)]
  /\ UNCHANGED <<mu, calls, open, live, loop, close, sent, chan>>

\* The application closes the client that it passed in, and every PubSub ends.
CloseClient ==
  /\ ~own /\ open /\ open' = FALSE /\ live' = {}
  /\ UNCHANGED <<mu, calls, wire, loop, close, sent, chan>>

----------------------------------------------------------------------------
(* Subscribe.                                                              *)

Call(c, t) ==
  /\ caller[c] = None /\ caller' = [caller EXCEPT ![c] = t]
  /\ UNCHANGED <<mu, closed, subs, own, conn, loop, close, sent, chan>>

\* Mutant: r.closed is not tested.
Subscribe_NoTest(c) ==
  /\ caller[c] # None /\ mu = None
  /\ \/ caller[c] \in subs /\ caller' = [caller EXCEPT ![c] = None] /\ mu' = mu
     \/ caller[c] \notin subs /\ mu' = c /\ caller' = caller
  /\ UNCHANGED <<closed, subs, own, conn, loop, close, sent, chan>>

\* Subscribe returns an error when closed or when the topic is taken; else it asks
\* the server, with mu locked.
Subscribe(c) ==
  /\ caller[c] # None /\ mu = None
  /\ \/ (closed \/ caller[c] \in subs) /\ caller' = [caller EXCEPT ![c] = None] /\ mu' = mu
     \/ ~closed /\ caller[c] \notin subs /\ mu' = c /\ caller' = caller
  /\ UNCHANGED <<closed, subs, own, conn, loop, close, sent, chan>>

\* pubsub.Receive returns, and with it Subscribe.
Receive(c) ==
  /\ mu = c /\ mu' = None /\ caller' = [caller EXCEPT ![c] = None]
  /\ \/ /\ open
        /\ subs' = subs \cup {caller[c]} /\ live' = live \cup {caller[c]}
        /\ fwd' = [fwd EXCEPT ![caller[c]] = "select"]
     \/ UNCHANGED <<subs, live, fwd>>
  /\ UNCHANGED <<closed, own, open, wire, held, cancelled, close, sent, chan>>

----------------------------------------------------------------------------
(* The forwarding goroutine.                                               *)

\* The outer select takes a message, also when subCtx is cancelled.
Take(t) ==
  /\ fwd[t] = "select" /\ wire[t] # <<>>
  /\ fwd' = [fwd EXCEPT ![t] = "sending"] /\ held' = [held EXCEPT ![t] = Head(wire[t])]
  /\ wire' = [wire EXCEPT ![t] = Tail(@)]
  /\ UNCHANGED <<mu, calls, open, live, cancelled, close, sent, chan>>

\* The inner select puts it into out.
Forward(t) ==
  /\ fwd[t] = "sending" /\ Len(feed[t]) - taken[t] < Buffer
  /\ fwd' = [fwd EXCEPT ![t] = "select"] /\ held' = [held EXCEPT ![t] = None]
  /\ feed' = [feed EXCEPT ![t] = Append(@, held[t])]
  /\ UNCHANGED <<mu, calls, conn, cancelled, close, sent, taken, ended>>

\* Mutant: the inner select does not look at subCtx.
Leave_NotSending(t) ==
  /\ fwd[t] = "select" /\ (t \in cancelled \/ (t \notin live /\ wire[t] = <<>>))
  /\ fwd' = [fwd EXCEPT ![t] = "leaving"] /\ held' = [held EXCEPT ![t] = None]
  /\ ended' = ended \cup {t}
  /\ UNCHANGED <<mu, calls, conn, cancelled, close, sent, feed, taken>>

\* Either select sees subCtx cancelled, or the outer one the PubSub's end: close(out).
Leave(t) ==
  /\ \/ fwd[t] \in {"select", "sending"} /\ t \in cancelled
     \/ fwd[t] = "select" /\ t \notin live /\ wire[t] = <<>>
  /\ fwd' = [fwd EXCEPT ![t] = "leaving"] /\ held' = [held EXCEPT ![t] = None]
  /\ ended' = ended \cup {t}
  /\ UNCHANGED <<mu, calls, conn, cancelled, close, sent, feed, taken>>

\* close(done).
Done(t) ==
  /\ fwd[t] = "leaving" /\ fwd' = [fwd EXCEPT ![t] = "done"]
  /\ UNCHANGED <<mu, calls, conn, held, cancelled, close, sent, chan>>

\* The Store reads its channel.
Consume(t) ==
  /\ taken[t] < Len(feed[t]) /\ taken' = [taken EXCEPT ![t] = @ + 1]
  /\ UNCHANGED <<mu, calls, conn, loop, close, sent, feed, ended>>

----------------------------------------------------------------------------
(* Close.                                                                  *)

CloseCall ==
  /\ closer = "idle" /\ closer' = "locking"
  /\ UNCHANGED <<mu, calls, conn, loop, todo, sent, chan>>

\* A Close that finds r.closed set returns and changes nothing.
Close ==
  /\ closer = "locking" /\ mu = None
  /\ closer' = "ending" /\ closed' = TRUE /\ todo' = subs /\ subs' = {}
  /\ UNCHANGED <<mu, caller, own, conn, loop, sent, chan>>

\* Mutant: Close closes the channel itself.
Cancel_Closes(t) ==
  /\ closer = "ending" /\ t \in todo /\ todo \cap cancelled = {}
  /\ cancelled' = cancelled \cup {t} /\ ended' = ended \cup {t}
  /\ UNCHANGED <<mu, calls, conn, fwd, held, close, sent, feed, taken>>

\* One subscription after the other: sub.cancel, pubsub.Close, <-sub.done.
Cancel(t) ==
  /\ closer = "ending" /\ t \in todo /\ todo \cap cancelled = {}
  /\ cancelled' = cancelled \cup {t}
  /\ UNCHANGED <<mu, calls, conn, fwd, held, close, sent, chan>>

ClosePubSub(t) ==
  /\ closer = "ending" /\ t \in todo \cap cancelled \cap live
  /\ live' = live \ {t}
  /\ UNCHANGED <<mu, calls, open, wire, loop, close, sent, chan>>

Awaited(t) ==
  /\ closer = "ending" /\ t \in (todo \cap cancelled) \ live /\ fwd[t] = "done"
  /\ todo' = todo \ {t}
  /\ UNCHANGED <<mu, calls, conn, loop, closer, sent, chan>>

\* The client is closed if it is the transport's own.
Return ==
  /\ closer = "ending" /\ todo = {}
  /\ closer' = "returned" /\ open' = (open /\ ~own)
  /\ UNCHANGED <<mu, calls, live, wire, loop, todo, sent, chan>>

----------------------------------------------------------------------------
Forwarding(t) == Take(t) \/ Forward(t) \/ Leave(t) \/ Done(t)

Ending == Return \/ \E t \in Sub : Cancel(t) \/ ClosePubSub(t) \/ Awaited(t)

Next ==
  \/ \E p \in Pub : Publish(p) \/ \E t \in Sub, i \in 1..sent[p] : Arrive(t, p, i)
  \/ CloseClient
  \/ \E c \in Caller : Subscribe(c) \/ Receive(c) \/ \E t \in Sub : Call(c, t)
  \/ \E t \in Sub : Forwarding(t) \/ Consume(t)
  \/ CloseCall \/ Close \/ Ending

Spec == Init /\ [][Next]_vars

\* Goroutines are scheduled, a Mutex does not starve a waiter (hence strong fairness
\* for who locks it), and pubsub.Receive returns: the server answers, or the
\* connection or the caller's context ends.  Nobody has to read a channel.
Fairness ==
  /\ \A c \in Caller : SF_vars(Subscribe(c)) /\ WF_vars(Receive(c))
  /\ \A t \in Sub : WF_vars(Forwarding(t))
  /\ SF_vars(Close) /\ WF_vars(Ending)

----------------------------------------------------------------------------
(* Properties.                                                             *)

Contract == INSTANCE Subscription WITH Ordered <- FALSE

\* The contract of Transport, as far as pub/sub gives it: whatever the library
\* repeats, however slow the reader and whenever Close comes, a channel carries
\* published messages only, and nothing once it is closed.
RedisDelivers == Contract!Spec

\* When the Close that found the transport open has returned, no forwarder runs
\* and every channel that Subscribe returned is closed, also that of a Subscribe
\* which was waiting for the server when Close was called.
ClosedMeansEnded == closer = "returned" => mu = None /\ \A t \in Sub : fwd[t] \in {"none", "done"}

\* Close returns, although nobody reads and the forwarders wait to send, and
\* although a Subscribe waits for the server with mu locked.
CloseReturns == (closer = "locking") ~> (closer = "returned")
=============================================================================
