-------------------------------- MODULE Mesh --------------------------------
(***************************************************************************)
(* transport.P2PTransport: the connections of one pod in the TCP mesh and  *)
(* the goroutines that serve them.  A dial loop runs for every known peer; *)
(* the accept loop takes connections from others; every connection has a   *)
(* reader and a sender.  Frames appear here only as the step in which a    *)
(* reader holds a subscription channel.                                    *)
(***************************************************************************)
EXTENDS Naturals, FiniteSets

CONSTANTS Addr,    \* peer addresses
          Loop,    \* dial loops, one for every AddPeer that starts one
          Conn,    \* connections that exist at one time
          NoLoop,
          Buffer,  \* capacity of the subscription channel
          Env      \* what may happen besides AddPeer and its dial loops

ASSUME AddrAssumption == Addr # {}
ASSUME LoopAssumption == NoLoop \notin Loop
ASSUME BufferAssumption == Buffer \in Nat
ASSUME EnvAssumption ==
  Env \subseteq {"remove", "hostnames", "inbound", "frames", "dialFails", "hangup", "close"}

VARIABLES
  closed,    \* t.ctx is cancelled
  adding,    \* addresses whose AddPeer is past its isClosed test
  peers,     \* peerCancels: the dial loop of each known peer
  removing,  \* loops that a RemovePeer took out of peerCancels and is not done with
  loop,      \* the dial loops
  conn,      \* connections, with their reader and sender goroutines
  conns,     \* t.conns
  accepting, \* the accept loop runs
  buf,       \* messages in the subscription channel
  closer,    \* progress of Close
  doomed     \* the connections that Close collected

vars == <<closed, adding, peers, removing, loop, conn, conns, accepting, buf, closer, doomed>>

Init ==
  /\ closed = FALSE /\ accepting = TRUE
  /\ adding = {} /\ removing = {} /\ peers = [a \in Addr |-> NoLoop]
  /\ loop = [l \in Loop |-> [addr |-> CHOOSE a \in Addr : TRUE, cancelled |-> FALSE, at |-> "none"]]
  /\ conn = [c \in Conn |-> [dialer |-> NoLoop, reader |-> "none", sender |-> "none",
                             closed |-> FALSE]]
  /\ conns = {} /\ doomed = {} /\ buf = 0 /\ closer = "open"

----------------------------------------------------------------------------
(* The peer set.                                                           *)

Done(l) == loop[l].cancelled \/ closed

AddPeerCheck(a) ==
  /\ ~closed /\ a \notin adding
  /\ adding' = adding \cup {a}
  /\ UNCHANGED <<closed, peers, removing, loop, conn, conns, accepting, buf, closer, doomed>>

\* The loop that a go statement starts; which one is all the same.
Fresh == {l \in Loop : loop[l].at = "none" /\ l = CHOOSE m \in Loop : loop[m].at = "none"}

\* Mutant: a known address is not looked up.
AddPeer_Twice(a) ==
  /\ a \in adding /\ adding' = adding \ {a}
  /\ \E l \in Fresh :
       /\ peers' = [peers EXCEPT ![a] = l]
       /\ loop' = [loop EXCEPT ![l] = [addr |-> a, cancelled |-> FALSE, at |-> "check"]]
  /\ UNCHANGED <<closed, removing, conn, conns, accepting, buf, closer, doomed>>

\* The critical section of AddPeer, and the start of the loop.
AddPeer(a) ==
  /\ a \in adding /\ adding' = adding \ {a}
  /\ \/ peers[a] # NoLoop /\ UNCHANGED <<peers, loop>>
     \/ /\ peers[a] = NoLoop
        /\ \E l \in Fresh :
             /\ peers' = [peers EXCEPT ![a] = l]
             /\ loop' = [loop EXCEPT ![l] = [addr |-> a, cancelled |-> FALSE, at |-> "check"]]
  /\ UNCHANGED <<closed, removing, conn, conns, accepting, buf, closer, doomed>>

\* The critical section of RemovePeer.  The lock is given back before cancel is
\* called, so that an AddPeer may start the next loop first.
RemovePeer(a) ==
  /\ "remove" \in Env /\ peers[a] # NoLoop
  /\ peers' = [peers EXCEPT ![a] = NoLoop]
  /\ removing' = removing \cup {peers[a]}
  /\ UNCHANGED <<closed, adding, loop, conn, conns, accepting, buf, closer, doomed>>

RemoveCancel(l) ==
  /\ l \in removing /\ ~loop[l].cancelled
  /\ loop' = [loop EXCEPT ![l].cancelled = TRUE]
  /\ UNCHANGED <<closed, adding, peers, removing, conn, conns, accepting, buf, closer, doomed>>

\* p2pConn.close of every connection in C.
Closed(C) == [c \in Conn |-> IF c \in C THEN [conn[c] EXCEPT !.closed = TRUE] ELSE conn[c]]

\* The remote address of an accepted connection is not the one the peer listens on.
To(a) == {c \in Conn : conn[c].dialer # NoLoop /\ loop[conn[c].dialer].addr = a}

\* RemovePeer closes the connections in t.conns whose remote address is that of the
\* peer.  One that was given by its host name matches none.
RemoveClose(l) ==
  /\ l \in removing /\ loop[l].cancelled /\ removing' = removing \ {l}
  /\ \/ conn' = Closed(conns \cap To(loop[l].addr))
     \/ "hostnames" \in Env /\ conn' = conn
  /\ UNCHANGED <<closed, adding, peers, loop, conns, accepting, buf, closer, doomed>>

----------------------------------------------------------------------------
(* Dial and accept loops.                                                  *)

Goto(l, at) == loop' = [loop EXCEPT ![l].at = at]

\* The two selects on ctx.Done: before a dial, and while waiting to redial.
LoopCheck(l) ==
  /\ loop[l].at = "check"
  /\ Goto(l, IF Done(l) THEN "exited" ELSE "dial")
  /\ UNCHANGED <<closed, adding, peers, removing, conn, conns, accepting, buf, closer, doomed>>

Redial(l) ==
  /\ loop[l].at = "sleep"
  /\ \/ Done(l) /\ Goto(l, "exited")
     \/ Goto(l, "check")
  /\ UNCHANGED <<closed, adding, peers, removing, conn, conns, accepting, buf, closer, doomed>>

\* A connection that has ended and that Close does not hold stands for a new one.
Unused == {c \in Conn \ doomed : conn[c].reader \in {"none", "done"} /\ conn[c].sender # "running"}

Connected(c, l) ==
  conn' = [conn EXCEPT ![c] = [dialer |-> l, reader |-> "new", sender |-> "none", closed |-> FALSE]]

\* The connection may be made although the loop was cancelled meanwhile: the dial
\* completed first, or it is a TLS dial, which takes no context.
Dial(l) ==
  /\ loop[l].at = "dial"
  /\ \/ (\E c \in Unused : Connected(c, l)) /\ Goto(l, "serve")
     \/ ("dialFails" \in Env \/ Unused = {}) /\ conn' = conn /\ Goto(l, "sleep")
  /\ UNCHANGED <<closed, adding, peers, removing, conns, accepting, buf, closer, doomed>>

Accept ==
  /\ "inbound" \in Env /\ accepting /\ closer \in {"open", "cancelled"}
  /\ \E c \in Unused : Connected(c, NoLoop)
  /\ UNCHANGED <<closed, adding, peers, removing, loop, conns, accepting, buf, closer, doomed>>

AcceptExit ==
  /\ accepting /\ closer \notin {"open", "cancelled"}
  /\ accepting' = FALSE
  /\ UNCHANGED <<closed, adding, peers, removing, loop, conn, conns, buf, closer, doomed>>

----------------------------------------------------------------------------
(* Serving a connection.                                                   *)

\* serveConn returns; a dial loop goes on to its wait.
Served(c) ==
  loop' = IF conn[c].dialer = NoLoop THEN loop ELSE [loop EXCEPT ![conn[c].dialer].at = "sleep"]

\* The critical section of serveConn.
Serve(c) ==
  /\ conn[c].reader = "new"
  /\ \/ /\ closed /\ conns' = conns
        /\ conn' = [conn EXCEPT ![c].reader = "done", ![c].closed = TRUE] /\ Served(c)
     \/ /\ ~closed /\ conns' = conns \cup {c}
        /\ conn' = [conn EXCEPT ![c].reader = "registered"] /\ loop' = loop
  /\ UNCHANGED <<closed, adding, peers, removing, accepting, buf, closer, doomed>>

StartSender(c) ==
  /\ conn[c].reader = "registered"
  /\ conn' = [conn EXCEPT ![c].reader = IF closed THEN "leaving" ELSE "reading",
                          ![c].sender = "running"]
  /\ UNCHANGED <<closed, adding, peers, removing, loop, conns, accepting, buf, closer, doomed>>

\* An event frame arrives.  deliverEvent finds the channel, unless Close took t.subs;
\* then the frame is dropped, and the reader sees the transport closed.
Frame(c) ==
  /\ "frames" \in Env /\ conn[c].reader = "reading" /\ ~conn[c].closed
  /\ conn' = [conn EXCEPT ![c].reader =
                IF closer \in {"open", "cancelled", "listenerClosed"} THEN "delivering"
                ELSE "leaving"]
  /\ UNCHANGED <<closed, adding, peers, removing, loop, conns, accepting, buf, closer, doomed>>

\* Mutant: the send does not watch the context.
Deliver_Blocks(c) ==
  /\ conn[c].reader = "delivering"
  /\ buf < Buffer /\ buf' = buf + 1
  /\ conn' = [conn EXCEPT ![c].reader = IF closed THEN "leaving" ELSE "reading"]
  /\ UNCHANGED <<closed, adding, peers, removing, loop, conns, accepting, closer, doomed>>

\* The send blocks while the channel is full, and gives up when the transport closes.
Deliver(c) ==
  /\ conn[c].reader = "delivering"
  /\ \/ buf < Buffer /\ buf' = buf + 1
     \/ closed /\ buf' = buf
  /\ conn' = [conn EXCEPT ![c].reader = IF closed THEN "leaving" ELSE "reading"]
  /\ UNCHANGED <<closed, adding, peers, removing, loop, conns, accepting, closer, doomed>>

Consume ==
  /\ buf > 0 /\ buf' = buf - 1
  /\ UNCHANGED <<closed, adding, peers, removing, loop, conn, conns, accepting, closer, doomed>>

\* A read fails once the connection is closed here.
ReadFails(c) ==
  /\ conn[c].reader = "reading" /\ conn[c].closed
  /\ conn' = [conn EXCEPT ![c].reader = "leaving"]
  /\ UNCHANGED <<closed, adding, peers, removing, loop, conns, accepting, buf, closer, doomed>>

\* Mutant: the deferred function leaves the connection open.
Leave_NoClose(c) ==
  /\ conn[c].reader = "leaving"
  /\ conn' = [conn EXCEPT ![c].reader = "done"]
  /\ conns' = conns \ {c} /\ Served(c)
  /\ UNCHANGED <<closed, adding, peers, removing, accepting, buf, closer, doomed>>

\* The deferred function of serveConn.
Leave(c) ==
  /\ conn[c].reader = "leaving"
  /\ conn' = [conn EXCEPT ![c].reader = "done", ![c].closed = TRUE]
  /\ conns' = conns \ {c} /\ Served(c)
  /\ UNCHANGED <<closed, adding, peers, removing, accepting, buf, closer, doomed>>

\* senderLoop sees p2pConn.done closed.
SenderExit(c) ==
  /\ conn[c].sender = "running" /\ conn[c].closed
  /\ conn' = [conn EXCEPT ![c].sender = "done"]
  /\ UNCHANGED <<closed, adding, peers, removing, loop, conns, accepting, buf, closer, doomed>>

\* The peer closes its end: a read fails, or a write of senderLoop does, and that
\* closes the connection.
HangUp(c) ==
  /\ "hangup" \in Env
  /\ \/ /\ conn[c].reader = "reading"
        /\ conn' = [conn EXCEPT ![c].reader = "leaving"]
     \/ /\ conn[c].sender = "running"
        /\ conn' = [conn EXCEPT ![c].sender = "done", ![c].closed = TRUE]
  /\ UNCHANGED <<closed, adding, peers, removing, loop, conns, accepting, buf, closer, doomed>>

----------------------------------------------------------------------------
(* Close.                                                                  *)

Cancel ==
  /\ "close" \in Env /\ closer = "open" /\ closer' = "cancelled"
  /\ closed' = TRUE
  /\ UNCHANGED <<adding, peers, removing, loop, conn, conns, accepting, buf, doomed>>

CloseListener ==
  /\ closer = "cancelled" /\ closer' = "listenerClosed"
  /\ UNCHANGED <<closed, adding, peers, removing, loop, conn, conns, accepting, buf, doomed>>

\* The critical section of Close.
Collect ==
  /\ closer = "listenerClosed" /\ closer' = "collected"
  /\ doomed' = conns
  /\ UNCHANGED <<closed, adding, peers, removing, loop, conn, conns, accepting, buf>>

CloseConns ==
  /\ closer = "collected" /\ closer' = "waiting"
  /\ conn' = Closed(doomed)
  /\ UNCHANGED <<closed, adding, peers, removing, loop, conns, accepting, buf, doomed>>

Running(l) == loop[l].at \notin {"none", "exited"}
Serving(c) == conn[c].reader \notin {"none", "done"} \/ conn[c].sender = "running"

\* Mutant: readers and senders are not in the WaitGroup.
CloseSubs_NoWait ==
  /\ closer = "waiting" /\ closer' = "returned"
  /\ ~accepting /\ \A l \in Loop : ~Running(l)
  /\ UNCHANGED <<closed, adding, peers, removing, loop, conn, conns, accepting, buf, doomed>>

\* wg.Wait returns; the subscription channels are closed.
CloseSubs ==
  /\ closer = "waiting" /\ closer' = "returned"
  /\ ~accepting /\ (\A l \in Loop : ~Running(l)) /\ (\A c \in Conn : ~Serving(c))
  /\ UNCHANGED <<closed, adding, peers, removing, loop, conn, conns, accepting, buf, doomed>>

----------------------------------------------------------------------------
dialLoop(l) == LoopCheck(l) \/ Redial(l) \/ Dial(l)

serveConn(c) == Serve(c) \/ StartSender(c) \/ Deliver(c) \/ ReadFails(c) \/ Leave(c)

Closing == CloseListener \/ Collect \/ CloseConns \/ CloseSubs

Next ==
  \/ \E a \in Addr : AddPeerCheck(a) \/ AddPeer(a) \/ RemovePeer(a)
  \/ \E l \in Loop : RemoveCancel(l) \/ RemoveClose(l) \/ dialLoop(l)
  \/ \E c \in Conn : serveConn(c) \/ Frame(c) \/ SenderExit(c) \/ HangUp(c)
  \/ Accept \/ AcceptExit \/ Consume \/ Cancel \/ Closing

Spec == Init /\ [][Next]_vars

\* Goroutines are scheduled and dials end.  A peer need not hang up, and the
\* subscriber need not read.
Fairness ==
  /\ \A l \in Loop : WF_vars(dialLoop(l))
  /\ \A c \in Conn : WF_vars(serveConn(c)) /\ WF_vars(SenderExit(c))
  /\ WF_vars(AcceptExit) /\ WF_vars(Closing)

----------------------------------------------------------------------------
(* Properties.                                                             *)

\* No reader holds a subscription channel that Close has closed: a send would
\* panic.  An AddPeer that passed its test before Close starts a loop after
\* wg.Wait returned, and even that one never serves a connection.
NoSendOnClosed ==
  closer = "returned" =>
    /\ \A c \in Conn : ~Serving(c)
    /\ \A l \in Loop : loop[l].at \notin {"dial", "serve"}

\* No connection outlives its goroutines: when reader and sender have ended, the
\* connection is closed and t.conns, which Publish fans out to, forgot it.
NoLeakedConn ==
  \A c \in Conn :
    /\ conn[c].reader = "done" => conn[c].closed /\ c \notin conns
    /\ conn[c].sender = "done" => conn[c].closed

\* No dial loop is beyond reach under concurrent AddPeer and RemovePeer: one that is
\* not cancelled is the one of its address in peerCancels, which the next RemovePeer
\* cancels, or it was taken out by a RemovePeer that is about to.  So an address has
\* two such loops only between the Unlock and the cancel of a RemovePeer.
LoopsAreOwned ==
  \A l \in Loop : Running(l) /\ ~loop[l].cancelled => peers[loop[l].addr] = l \/ l \in removing

\* Close returns although no peer hangs up and the subscriber reads nothing.
CloseTerminates == (closer # "open") ~> (closer = "returned")
=============================================================================
