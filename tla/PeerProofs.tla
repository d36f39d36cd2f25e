----------------------------- MODULE PeerProofs -----------------------------
(***************************************************************************)
(* The connections and goroutines of a P2PTransport, for any number of     *)
(* peers, dial loops and connections, and the peers that a DNSDiscoverer   *)
(* keeps, for any host.                                                    *)
(***************************************************************************)
EXTENDS MCPeers, TLAPS

Serves == {"registered", "reading", "delivering", "leaving"}

LoopState == [addr : Addr, cancelled : BOOLEAN,
              at : {"none", "check", "dial", "serve", "sleep", "exited"}]

ConnState == [dialer : Loop \cup {NoLoop}, reader : {"none", "new", "done"} \cup Serves,
              sender : {"none", "running", "done"}, closed : BOOLEAN]

TypeOK ==
  /\ closed \in BOOLEAN
  /\ peers \in [Addr -> Loop \cup {NoLoop}] /\ loop \in [Loop -> LoopState]
  /\ conn \in [Conn -> ConnState] /\ conns \subseteq Conn /\ doomed \subseteq Conn
  /\ removing \subseteq Loop

\* peerCancels holds the cancel function of a loop that was started for this address
\* and that no RemovePeer has taken.
Known ==
  /\ \A a \in Addr : peers[a] # NoLoop =>
       /\ loop[peers[a]].addr = a /\ loop[peers[a]].at # "none" /\ ~loop[peers[a]].cancelled
       /\ peers[a] \notin removing
  /\ \A l \in removing : loop[l].at # "none"

Active(c) == conn[c].reader \notin {"none", "done"}

\* A dial loop serves one connection at a time, and waits until it ends.
OneEach ==
  /\ \A c \in Conn : Active(c) /\ conn[c].dialer # NoLoop => loop[conn[c].dialer].at = "serve"
  /\ \A c, d \in Conn : Active(c) /\ Active(d) /\ conn[c].dialer = conn[d].dialer =>
       c = d \/ conn[c].dialer = NoLoop

Ended ==
  /\ closer # "open" => closed
  /\ closer = "returned" => /\ \A c \in Conn : ~Serving(c)
                            /\ \A l \in Loop : loop[l].at \in {"none", "check", "exited"}

Inv ==
  /\ TypeOK /\ Known /\ LoopsAreOwned /\ NoLeakedConn
  /\ \A c \in conns : conn[c].reader \in Serves
  /\ OneEach /\ Ended

LEMMA InitInv == Init => Inv
  <1> SUFFICES ASSUME Init PROVE Inv
    BY Zenon
  <1>1. (CHOOSE a \in Addr : TRUE) \in Addr
    BY Zenon, AddrAssumption
  <1>2. loop \in [Loop -> LoopState] /\ \A l \in Loop : loop[l].at = "none"
    BY Zenon, <1>1 DEF Init, LoopState
  <1>3. conn \in [Conn -> ConnState]
    BY Zenon DEF Init, ConnState
  <1>4. \A c \in Conn : conn[c].reader = "none" /\ conn[c].sender = "none"
    BY Zenon DEF Init
  <1>5. closed \in BOOLEAN
    BY Zenon DEF Init
  <1>6. TypeOK
    BY Zenon, <1>2, <1>3, <1>5 DEF Init, TypeOK
  <1>7. Known /\ LoopsAreOwned
    BY Zenon, <1>2 DEF Init, Known, LoopsAreOwned, Running
  <1>8. NoLeakedConn /\ OneEach /\ Ended /\ \A c \in conns : conn[c].reader \in Serves
    BY Zenon, <1>4 DEF Init, NoLeakedConn, OneEach, Active, Ended
  <1> QED BY Zenon, <1>6, <1>7, <1>8 DEF Inv

----------------------------------------------------------------------------
(* Steps of a connection's goroutines, of RemovePeer and of Close that     *)
(* leave the connection with its dialer and in t.conns or out of it.       *)

Works ==
  /\ UNCHANGED <<closed, peers, loop, conns>> /\ doomed' \subseteq Conn
  /\ removing' \subseteq removing /\ \A l \in removing \ removing' : loop[l].cancelled
  /\ closer' = closer \/ (closer # "open" /\ closer' # "returned")
  /\ conn' \in [Conn -> ConnState]
  /\ \A c \in Conn :
       /\ conn'[c].dialer = conn[c].dialer
       /\ conn'[c].reader = conn[c].reader \/ {conn[c].reader, conn'[c].reader} \subseteq Serves
       /\ conn[c].closed \/ conn'[c].sender = "done" => conn'[c].closed
       /\ conn'[c].sender = "running" => Serving(c)

LEMMA WorksInv ==
  ASSUME Inv, Works
  PROVE  Inv'
  <1>1. TypeOK'
    BY Zenon DEF Inv, Works, TypeOK
  <1>2. Known' /\ LoopsAreOwned'
    BY Zenon DEF Inv, Works, Known, LoopsAreOwned, Running
  <1>3. \A c \in Conn : /\ Active(c)' <=> Active(c)
                        /\ conn'[c].reader = "done" <=> conn[c].reader = "done"
                        /\ conn[c].reader \in Serves => conn'[c].reader \in Serves
    BY Zenon DEF Works, Active, Serves
  <1>4. NoLeakedConn'
    BY Zenon, <1>3 DEF Inv, Works, NoLeakedConn
  <1>5. \A c \in conns' : conn'[c].reader \in Serves
    BY Zenon, <1>3 DEF Inv, Works, TypeOK
  <1>6. OneEach'
    BY <1>3 DEF Inv, Works, OneEach
  <1>7. Ended'
    BY Zenon, <1>3 DEF Inv, Works, Ended, Serving, Active
  <1> QED BY Zenon, <1>1, <1>2, <1>4, <1>5, <1>6, <1>7 DEF Inv

LEMMA OneWorks ==
  ASSUME Inv, NEW c \in Conn, NEW r \in ConnState, conn' = [conn EXCEPT ![c] = r],
         UNCHANGED <<closed, peers, loop, conns, closer, doomed, removing>>,
         r.dialer = conn[c].dialer,
         r.reader = conn[c].reader \/ {conn[c].reader, r.reader} \subseteq Serves,
         conn[c].closed \/ r.sender = "done" => r.closed,
         r.sender = "running" => Serving(c)
  PROVE  Inv'
  <1>1. \A d \in Conn : conn'[d] = IF d = c THEN r ELSE conn[d]
    BY Zenon DEF Inv, TypeOK
  <1>2. Works
    BY Zenon, <1>1 DEF Inv, TypeOK, Works, NoLeakedConn, Serving
  <1> QED BY Zenon, <1>2, WorksInv

LEMMA ConnInv ==
  ASSUME Inv, NEW c \in Conn,
         StartSender(c) \/ Frame(c) \/ Deliver(c) \/ ReadFails(c) \/ SenderExit(c) \/ HangUp(c)
  PROVE  Inv'
  <1>0. /\ conn[c] \in ConnState /\ conn \in [Conn -> ConnState]
        /\ conn[c].sender = "done" => conn[c].closed
        /\ UNCHANGED <<closed, peers, loop, conns, closer, doomed, removing>>
    BY Zenon
       DEF Inv, TypeOK, NoLeakedConn, StartSender, Frame, Deliver, ReadFails, SenderExit, HangUp
  <1>1. ASSUME NEW x \in Serves, conn[c].reader \in Serves,
               conn' = [conn EXCEPT ![c].reader = x]
        PROVE  Inv'
    <2> DEFINE r == [conn[c] EXCEPT !.reader = x]
    <2>1. /\ r \in ConnState /\ conn' = [conn EXCEPT ![c] = r]
          /\ r.dialer = conn[c].dialer /\ r.closed = conn[c].closed
          /\ r.sender = conn[c].sender /\ r.reader = x
      BY Zenon, <1>0, <1>1 DEF ConnState
    <2> HIDE DEF r
    <2>2. {conn[c].reader, r.reader} \subseteq Serves /\ (r.sender = "running" => Serving(c))
      BY Zenon, <1>1, <2>1 DEF Serving
    <2> QED BY Zenon, <1>0, <2>1, <2>2, OneWorks
  <1>2. CASE conn[c].sender = "running"
             /\ \/ conn' = [conn EXCEPT ![c].sender = "done"] /\ conn[c].closed
                \/ conn' = [conn EXCEPT ![c].sender = "done", ![c].closed = TRUE]
    <2> DEFINE r == [conn[c] EXCEPT !.sender = "done", !.closed = TRUE]
    <2>1. /\ r \in ConnState /\ conn' = [conn EXCEPT ![c] = r]
          /\ r.dialer = conn[c].dialer /\ r.closed
          /\ r.sender = "done" /\ r.reader = conn[c].reader
      BY Zenon, <1>0, <1>2 DEF ConnState
    <2> HIDE DEF r
    <2> QED BY Zenon, <1>0, <2>1, OneWorks
  <1>3. CASE StartSender(c)
    <2> DEFINE x == IF closed THEN "leaving" ELSE "reading"
               r == [conn[c] EXCEPT !.reader = x, !.sender = "running"]
    <2>1. x \in Serves /\ conn[c].reader \in Serves
      BY Zenon, <1>3 DEF StartSender, Serves
    <2>2. conn' = [conn EXCEPT ![c] = r]
      BY Zenon, <1>0, <1>3 DEF StartSender
    <2> HIDE DEF x
    <2>3. /\ r \in ConnState
          /\ r.dialer = conn[c].dialer /\ r.closed = conn[c].closed
          /\ r.sender = "running" /\ r.reader = x
      BY Zenon, <1>0, <2>1 DEF ConnState
    <2> HIDE DEF r
    <2> QED BY Zenon, <1>0, <2>1, <2>2, <2>3, OneWorks DEF Serving, Serves
  <1>4. CASE Frame(c) \/ Deliver(c) \/ ReadFails(c)
    <2>1. PICK x \in Serves : conn' = [conn EXCEPT ![c].reader = x]
      BY Zenon, <1>4 DEF Frame, Deliver, ReadFails, Serves
    <2> QED BY Zenon, <1>1, <1>4, <2>1 DEF Frame, Deliver, ReadFails, Serves
  <1>5. CASE SenderExit(c) \/ HangUp(c)
    BY Zenon, <1>1, <1>2, <1>5 DEF SenderExit, HangUp, Serves
  <1> QED BY Zenon, <1>3, <1>4, <1>5

LEMMA ClosedWorks ==
  ASSUME Inv, NEW C \in SUBSET Conn, conn' = Closed(C),
         UNCHANGED <<closed, peers, loop, conns, doomed>>,
         removing' \subseteq removing, \A l \in removing \ removing' : loop[l].cancelled,
         closer' = closer \/ (closer # "open" /\ closer' # "returned")
  PROVE  Inv'
  <1>1. \A c \in Conn : /\ conn[c] \in ConnState
                        /\ conn'[c] = IF c \in C THEN [conn[c] EXCEPT !.closed = TRUE] ELSE conn[c]
    BY Zenon DEF Inv, TypeOK, Closed
  <1>2. \A c \in Conn :
          /\ conn'[c] \in ConnState /\ conn'[c].dialer = conn[c].dialer
          /\ conn'[c].reader = conn[c].reader /\ conn'[c].sender = conn[c].sender
          /\ conn[c].closed => conn'[c].closed
    <2> TAKE c \in Conn
    <2>1. CASE c \in C
      <3>1. conn[c] \in ConnState /\ conn'[c] = [conn[c] EXCEPT !.closed = TRUE]
        BY Zenon, <1>1, <2>1
      <3> QED BY Zenon, <3>1 DEF ConnState
    <2>2. CASE c \notin C
      BY Zenon, <1>1, <2>2
    <2> QED BY Zenon, <2>1, <2>2
  <1>3. conn' \in [Conn -> ConnState]
    BY Zenon, <1>2 DEF Closed
  <1>4. Works
    BY Zenon, <1>2, <1>3 DEF Works, Inv, TypeOK, NoLeakedConn, Serving
  <1> QED BY Zenon, <1>4, WorksInv

----------------------------------------------------------------------------
(* Steps of a dial loop, of AddPeer and of RemovePeer.                     *)

\* Loop l goes on: it was running, and serves no connection.
LEMMA LoopInv ==
  ASSUME Inv, NEW l \in Loop, NEW x \in {"check", "dial", "sleep", "exited"}, Goto(l, x),
         UNCHANGED <<closed, peers, conn, conns, closer, doomed, removing>>,
         Running(l), loop[l].at # "serve",
         closer = "returned" => x \in {"check", "exited"}
  PROVE  Inv'
  <1>1. /\ loop' \in [Loop -> LoopState] /\ loop'[l].at = x
        /\ loop'[l].addr = loop[l].addr /\ loop'[l].cancelled = loop[l].cancelled
        /\ \A m \in Loop \ {l} : loop'[m] = loop[m]
    BY Zenon DEF Inv, TypeOK, LoopState, Goto
  <1>2. TypeOK'
    BY Zenon, <1>1 DEF Inv, TypeOK
  <1>3. Known' /\ LoopsAreOwned'
    BY <1>1 DEF Inv, TypeOK, Known, LoopsAreOwned, Running
  <1>4. NoLeakedConn' /\ \A c \in conns' : conn'[c].reader \in Serves
    BY Zenon DEF Inv, NoLeakedConn
  <1>5. OneEach'
    BY Zenon, <1>1 DEF Inv, TypeOK, ConnState, OneEach, Active
  <1>6. Ended'
    BY Zenon, <1>1 DEF Inv, Ended, Serving
  <1> QED BY Zenon, <1>2, <1>3, <1>4, <1>5, <1>6 DEF Inv

\* A connection that nobody uses is made new.
LEMMA ConnectedFacts ==
  ASSUME Inv, NEW c \in Unused, NEW l \in Loop \cup {NoLoop}, Connected(c, l)
  PROVE  /\ c \in Conn /\ conn' \in [Conn -> ConnState]
         /\ conn'[c].dialer = l /\ conn'[c].reader = "new" /\ conn'[c].sender = "none"
         /\ \A d \in Conn \ {c} : conn'[d] = conn[d]
         /\ ~Active(c) /\ c \notin conns
  <1>1. c \in Conn /\ conn \in [Conn -> ConnState]
    BY Zenon DEF Inv, TypeOK, Unused
  <1>2. [dialer |-> l, reader |-> "new", sender |-> "none", closed |-> FALSE] \in ConnState
    BY Zenon DEF ConnState
  <1>3. ~Active(c) /\ c \notin conns
    BY Zenon, <1>1 DEF Inv, Unused, Active, Serves
  <1> QED BY Zenon, <1>1, <1>2, <1>3 DEF Connected

LEMMA ServeDialed ==
  ASSUME Inv, NEW l \in Loop, loop[l].at = "dial", NEW c \in Unused, Connected(c, l),
         Goto(l, "serve"), UNCHANGED <<closed, peers, conns, closer, doomed, removing>>
  PROVE  Inv'
  <1>1. /\ loop' \in [Loop -> LoopState] /\ loop'[l].at = "serve"
        /\ loop'[l].addr = loop[l].addr /\ loop'[l].cancelled = loop[l].cancelled
        /\ \A m \in Loop \ {l} : loop'[m] = loop[m]
    BY Zenon DEF Inv, TypeOK, LoopState, Goto
  <1>2. /\ c \in Conn /\ conn' \in [Conn -> ConnState]
        /\ conn'[c].dialer = l /\ conn'[c].reader = "new" /\ conn'[c].sender = "none"
        /\ \A d \in Conn \ {c} : conn'[d] = conn[d]
        /\ ~Active(c) /\ c \notin conns
    BY Zenon, ConnectedFacts
  <1>3. TypeOK'
    BY Zenon, <1>1, <1>2 DEF Inv, TypeOK
  <1>4. Known' /\ LoopsAreOwned'
    BY <1>1 DEF Inv, TypeOK, Known, LoopsAreOwned, Running
  <1>5. NoLeakedConn' /\ \A d \in conns' : conn'[d].reader \in Serves
    BY Zenon, <1>2 DEF Inv, TypeOK, NoLeakedConn
  <1>6. \A d \in Conn : Active(d) => conn[d].dialer # l
    BY Zenon, LoopAssumption DEF Inv, OneEach
  <1>7. OneEach'
    BY <1>1, <1>2, <1>6, LoopAssumption DEF Inv, TypeOK, ConnState, OneEach, Active
  <1>8. Ended'
    BY Zenon DEF Inv, Ended
  <1> QED BY Zenon, <1>3, <1>4, <1>5, <1>7, <1>8 DEF Inv

LEMMA AcceptInv ==
  ASSUME Inv, Accept
  PROVE  Inv'
  <1>0. PICK c \in Unused : Connected(c, NoLoop)
    BY Zenon DEF Accept
  <1>1. UNCHANGED <<closed, peers, loop, conns, closer, doomed, removing>> /\ closer # "returned"
    BY Zenon DEF Accept
  <1>2. /\ c \in Conn /\ conn' \in [Conn -> ConnState]
        /\ conn'[c].dialer = NoLoop /\ conn'[c].reader = "new" /\ conn'[c].sender = "none"
        /\ \A d \in Conn \ {c} : conn'[d] = conn[d]
        /\ ~Active(c) /\ c \notin conns
    BY Zenon, <1>0, ConnectedFacts
  <1>3. TypeOK'
    BY Zenon, <1>1, <1>2 DEF Inv, TypeOK
  <1>4. Known' /\ LoopsAreOwned'
    BY Zenon, <1>1 DEF Inv, Known, LoopsAreOwned, Running
  <1>5. NoLeakedConn' /\ \A d \in conns' : conn'[d].reader \in Serves
    BY Zenon, <1>1, <1>2 DEF Inv, TypeOK, NoLeakedConn
  <1>6. OneEach'
    BY <1>1, <1>2 DEF Inv, OneEach, Active
  <1>7. Ended'
    BY Zenon, <1>1 DEF Inv, Ended
  <1> QED BY Zenon, <1>3, <1>4, <1>5, <1>6, <1>7 DEF Inv

LEMMA AddPeerInv ==
  ASSUME Inv, NEW a \in Addr, AddPeer(a)
  PROVE  Inv'
  <1>0. UNCHANGED <<closed, conn, conns, closer, doomed, removing>>
    BY Zenon DEF AddPeer
  <1>1. CASE UNCHANGED <<peers, loop>>
    BY Zenon, <1>0, <1>1 DEF Inv, TypeOK, Known, LoopsAreOwned, Running, NoLeakedConn, OneEach,
                      Active, Ended, Serving
  <1>2. ASSUME NEW l \in Loop, loop[l].at = "none", peers[a] = NoLoop,
               peers' = [peers EXCEPT ![a] = l],
               loop' = [loop EXCEPT ![l] = [addr |-> a, cancelled |-> FALSE, at |-> "check"]]
        PROVE  Inv'
    <2>1. /\ loop' \in [Loop -> LoopState] /\ loop'[l].addr = a /\ ~loop'[l].cancelled
          /\ loop'[l].at = "check" /\ \A m \in Loop \ {l} : loop'[m] = loop[m]
      <3>1. [addr |-> a, cancelled |-> FALSE, at |-> "check"] \in LoopState
        BY Zenon DEF LoopState
      <3> QED BY Zenon, <1>2, <3>1 DEF Inv, TypeOK
    <2>2. /\ peers' \in [Addr -> Loop \cup {NoLoop}] /\ peers'[a] = l
          /\ \A b \in Addr \ {a} : peers'[b] = peers[b]
      BY Zenon, <1>2 DEF Inv, TypeOK
    <2>3. TypeOK'
      BY Zenon, <1>0, <2>1, <2>2 DEF Inv, TypeOK
    <2>4. Known'
      BY <1>0, <1>2, <2>1, <2>2 DEF Inv, TypeOK, Known
    <2>5. \A m \in Loop : Running(m) /\ ~loop[m].cancelled =>
                            m \in removing \/ (loop[m].addr # a /\ loop[m].addr \in Addr)
      BY Zenon, <1>2, LoopAssumption DEF Inv, TypeOK, LoopState, LoopsAreOwned
    <2>6. LoopsAreOwned'
      BY <1>0, <2>1, <2>2, <2>5 DEF Inv, LoopsAreOwned, Running
    <2>7. NoLeakedConn' /\ \A c \in conns' : conn'[c].reader \in Serves
      BY Zenon, <1>0 DEF Inv, NoLeakedConn
    <2>8. OneEach'
      BY Zenon, <1>0, <1>2, <2>1 DEF Inv, TypeOK, ConnState, OneEach, Active
    <2>9. Ended'
      BY Zenon, <1>0, <2>1 DEF Inv, Ended, Serving
    <2> QED BY Zenon, <2>3, <2>4, <2>6, <2>7, <2>8, <2>9 DEF Inv
  <1> QED BY Zenon, <1>1, <1>2 DEF AddPeer, Fresh

LEMMA RemovePeerInv ==
  ASSUME Inv, NEW a \in Addr, RemovePeer(a)
  PROVE  Inv'
  <1> DEFINE l == peers[a]
  <1>0. /\ UNCHANGED <<closed, loop, conn, conns, closer, doomed>>
        /\ l \in Loop /\ peers' = [peers EXCEPT ![a] = NoLoop] /\ removing' = removing \cup {l}
    BY Zenon DEF RemovePeer, Inv, TypeOK
  <1>1. loop[l].addr = a /\ loop[l].at # "none"
    BY Zenon DEF RemovePeer, Inv, Known
  <1>2. \A m \in Loop \ {l} : Running(m) /\ ~loop[m].cancelled =>
          m \in removing \/ (loop[m].addr \in Addr \ {a} /\ peers[loop[m].addr] = m)
    BY Zenon DEF Inv, TypeOK, LoopState, LoopsAreOwned
  <1> HIDE DEF l
  <1>3. /\ peers' \in [Addr -> Loop \cup {NoLoop}] /\ peers'[a] = NoLoop
        /\ \A b \in Addr \ {a} : peers'[b] = peers[b]
    BY Zenon, <1>0 DEF Inv, TypeOK
  <1>4. TypeOK'
    BY Zenon, <1>0, <1>3 DEF Inv, TypeOK
  <1>5. \A b \in Addr \ {a} : peers[b] # l
    BY Zenon, <1>0, <1>1, LoopAssumption DEF Inv, Known
  <1>6. Known'
    BY <1>0, <1>1, <1>3, <1>5 DEF Inv, TypeOK, Known
  <1>7. LoopsAreOwned'
    BY <1>0, <1>2, <1>3 DEF LoopsAreOwned, Running
  <1>8. NoLeakedConn' /\ \A c \in conns' : conn'[c].reader \in Serves
    BY Zenon, <1>0 DEF Inv, NoLeakedConn
  <1>9. OneEach' /\ Ended'
    BY Zenon, <1>0 DEF Inv, OneEach, Active, Ended, Serving
  <1> QED BY Zenon, <1>4, <1>6, <1>7, <1>8, <1>9 DEF Inv

\* Only a loop that RemovePeer took is cancelled, so those of peerCancels are not.
LEMMA RemoveCancelInv ==
  ASSUME Inv, NEW l \in Loop, RemoveCancel(l)
  PROVE  Inv'
  <1>0. /\ UNCHANGED <<closed, peers, removing, conn, conns, closer, doomed>>
        /\ l \in removing /\ loop' = [loop EXCEPT ![l].cancelled = TRUE]
    BY Zenon DEF RemoveCancel
  <1>1. /\ loop' \in [Loop -> LoopState]
        /\ loop'[l].addr = loop[l].addr /\ loop'[l].at = loop[l].at
        /\ \A m \in Loop \ {l} : loop'[m] = loop[m]
        /\ loop'[l].cancelled
    BY Zenon, <1>0 DEF Inv, TypeOK, LoopState
  <1>2. TypeOK'
    BY Zenon, <1>0, <1>1 DEF Inv, TypeOK
  <1>3. Known' /\ LoopsAreOwned'
    BY <1>0, <1>1 DEF Inv, TypeOK, Known, LoopsAreOwned, Running
  <1>4. NoLeakedConn' /\ \A c \in conns' : conn'[c].reader \in Serves
    BY Zenon, <1>0 DEF Inv, NoLeakedConn
  <1>5. OneEach'
    BY <1>0, <1>1 DEF Inv, TypeOK, ConnState, OneEach, Active
  <1>6. Ended'
    BY Zenon, <1>0, <1>1 DEF Inv, Ended, Serving
  <1> QED BY Zenon, <1>2, <1>3, <1>4, <1>5, <1>6 DEF Inv

----------------------------------------------------------------------------
(* The two ends of serveConn.                                              *)

LEMMA ServedInv ==
  ASSUME Inv, NEW c \in Conn, Active(c), Served(c),
         UNCHANGED <<closed, peers, closer, doomed, removing>>, conns' = conns \ {c},
         conn' = [conn EXCEPT ![c].reader = "done", ![c].closed = TRUE]
  PROVE  Inv'
  <1> DEFINE l == conn[c].dialer
  <1>1. /\ conn' \in [Conn -> ConnState] /\ conn'[c].dialer = l /\ conn'[c].reader = "done"
        /\ conn'[c].closed /\ conn'[c].sender = conn[c].sender
        /\ \A d \in Conn \ {c} : conn'[d] = conn[d]
    BY Zenon DEF Inv, TypeOK, ConnState
  <1>2. closer # "returned"
    BY Zenon DEF Inv, Ended, Active, Serving
  <1>3. NoLeakedConn' /\ \A d \in conns' : conn'[d].reader \in Serves
    BY Zenon, <1>1 DEF Inv, TypeOK, NoLeakedConn
  <1>4. Ended'
    BY Zenon, <1>2 DEF Inv, Ended
  <1>5. CASE l = NoLoop
    <2>1. loop' = loop
      BY Zenon, <1>5 DEF Served
    <2>2. TypeOK'
      BY Zenon, <1>1, <2>1 DEF Inv, TypeOK
    <2>3. Known' /\ LoopsAreOwned'
      BY Zenon, <2>1 DEF Inv, Known, LoopsAreOwned, Running
    <2>4. OneEach'
      BY <1>1, <2>1 DEF Inv, OneEach, Active
    <2> QED BY Zenon, <1>3, <1>4, <2>2, <2>3, <2>4 DEF Inv
  <1>6. CASE l # NoLoop
    <2>1. l \in Loop /\ loop[l].at = "serve" /\ Goto(l, "sleep")
      BY Zenon, <1>6 DEF Inv, TypeOK, ConnState, OneEach, Served, Goto
    <2>2. \A d \in Conn \ {c} : Active(d) => conn[d].dialer # l
      BY Zenon, <1>6 DEF Inv, OneEach
    <2> HIDE DEF l
    <2>3. /\ loop' \in [Loop -> LoopState] /\ loop'[l].at = "sleep"
          /\ loop'[l].addr = loop[l].addr /\ loop'[l].cancelled = loop[l].cancelled
          /\ \A m \in Loop \ {l} : loop'[m] = loop[m]
      BY Zenon, <2>1 DEF Inv, TypeOK, LoopState, Goto
    <2>4. TypeOK'
      BY Zenon, <1>1, <2>3 DEF Inv, TypeOK
    <2>5. Known' /\ LoopsAreOwned'
      BY <2>1, <2>3 DEF Inv, TypeOK, Known, LoopsAreOwned, Running
    <2>6. OneEach'
      BY <1>1, <2>2, <2>3 DEF Inv, TypeOK, ConnState, OneEach, Active
    <2> QED BY Zenon, <1>3, <1>4, <2>4, <2>5, <2>6 DEF Inv
  <1> QED BY Zenon, <1>5, <1>6

LEMMA ServeInv ==
  ASSUME Inv, NEW c \in Conn, Serve(c) \/ Leave(c)
  PROVE  Inv'
  <1>1. CASE Leave(c)
    BY Zenon, <1>1, ServedInv DEF Leave, Active
  <1>2. CASE Serve(c) /\ closed
    <2>1. Active(c) /\ c \notin conns
      BY Zenon, <1>2 DEF Serve, Active, Inv, Serves
    <2>2. conns' = conns \ {c}
      BY Zenon, <1>2, <2>1 DEF Serve
    <2> QED BY Zenon, <1>2, <2>1, <2>2, ServedInv DEF Serve
  <1>3. CASE Serve(c) /\ ~closed
    <2>0. /\ UNCHANGED <<closed, peers, loop, closer, doomed, removing>> /\ conns' = conns \cup {c}
          /\ conn' = [conn EXCEPT ![c].reader = "registered"] /\ conn[c].reader = "new"
      BY Zenon, <1>3 DEF Serve
    <2>1. /\ conn' \in [Conn -> ConnState] /\ conn'[c].dialer = conn[c].dialer
          /\ conn'[c].reader = "registered" /\ conn'[c].sender = conn[c].sender
          /\ conn'[c].closed = conn[c].closed /\ \A d \in Conn \ {c} : conn'[d] = conn[d]
      BY Zenon, <2>0 DEF Inv, TypeOK, ConnState, Serves
    <2>2. TypeOK'
      BY Zenon, <2>0, <2>1 DEF Inv, TypeOK
    <2>3. Known' /\ LoopsAreOwned'
      BY Zenon, <2>0 DEF Inv, Known, LoopsAreOwned, Running
    <2>4. NoLeakedConn' /\ \A d \in conns' : conn'[d].reader \in Serves
      BY <2>0, <2>1 DEF Inv, TypeOK, NoLeakedConn, Serves
    <2>5. OneEach'
      BY <2>0, <2>1 DEF Inv, OneEach, Active
    <2>6. Ended'
      BY Zenon, <1>3, <2>0 DEF Inv, Ended, Serving
    <2> QED BY Zenon, <2>2, <2>3, <2>4, <2>5, <2>6 DEF Inv
  <1> QED BY Zenon, <1>1, <1>2, <1>3

----------------------------------------------------------------------------

LEMMA DialInv ==
  ASSUME Inv, NEW l \in Loop, dialLoop(l)
  PROVE  Inv'
  <1>0. UNCHANGED <<closed, peers, conns, closer, doomed, removing>>
    BY Zenon DEF dialLoop, LoopCheck, Redial, Dial
  <1>1. closer = "returned" => closed /\ loop[l].at \in {"none", "check", "exited"}
    BY Zenon DEF Inv, Ended
  <1>2. CASE LoopCheck(l)
    <2>1. CASE Done(l)
      BY Zenon, <1>0, <1>2, <2>1, LoopInv DEF LoopCheck, Running
    <2>2. CASE ~Done(l)
      BY Zenon, <1>0, <1>1, <1>2, <2>2, LoopInv DEF LoopCheck, Running, Done
    <2> QED BY Zenon, <2>1, <2>2
  <1>3. CASE Redial(l)
    BY Zenon, <1>0, <1>3, LoopInv DEF Redial, Running
  <1>4. CASE Dial(l)
    <2>1. CASE conn' = conn /\ Goto(l, "sleep")
      BY Zenon, <1>0, <1>1, <1>4, <2>1, LoopInv DEF Dial, Running
    <2>2. ASSUME NEW c \in Unused, Connected(c, l), Goto(l, "serve") PROVE Inv'
      BY Zenon, <1>0, <1>4, <2>2, ServeDialed DEF Dial
    <2> QED BY Zenon, <1>4, <2>1, <2>2 DEF Dial
  <1> QED BY Zenon, <1>2, <1>3, <1>4 DEF dialLoop

LEMMA CloseInv ==
  ASSUME Inv, Cancel \/ CloseSubs
  PROVE  Inv'
  <1>0. UNCHANGED <<peers, loop, conn, conns, doomed, removing>>
    BY Zenon DEF Cancel, CloseSubs
  <1>1. TypeOK' /\ closed'
    <2>1. closed' = TRUE
      BY Zenon DEF Cancel, CloseSubs, Inv, Ended, TypeOK
    <2> QED BY Zenon, <1>0, <2>1 DEF Inv, TypeOK
  <1>2. Known' /\ LoopsAreOwned' /\ NoLeakedConn' /\ \A c \in conns' : conn'[c].reader \in Serves
    BY Zenon, <1>0 DEF Inv, Known, LoopsAreOwned, Running, NoLeakedConn
  <1>3. OneEach'
    BY Zenon, <1>0 DEF Inv, OneEach, Active
  <1>4. Ended'
    <2>1. CASE Cancel
      BY Zenon, <1>1, <2>1 DEF Cancel, Ended
    <2>2. CASE CloseSubs
      BY Zenon, <1>0, <1>1, <2>2 DEF CloseSubs, Ended, Running, Serving
    <2> QED BY Zenon, <2>1, <2>2
  <1> QED BY Zenon, <1>1, <1>2, <1>3, <1>4 DEF Inv

LEMMA QuietInv ==
  ASSUME Inv, UNCHANGED <<closed, peers, loop, conn, conns>>, doomed' \subseteq Conn,
         removing' \subseteq removing, \A l \in removing \ removing' : loop[l].cancelled,
         closer' = closer \/ (closer # "open" /\ closer' # "returned")
  PROVE  Inv'
  <1>1. Works
    BY Zenon DEF Inv, TypeOK, Works, NoLeakedConn, Serving
  <1> QED BY Zenon, <1>1, WorksInv

LEMMA NextInv ==
  ASSUME Inv, [Next]_vars
  PROVE  Inv'
  <1>0. doomed \subseteq Conn /\ conns \subseteq Conn
    BY Zenon DEF Inv, TypeOK
  <1>1. CASE UNCHANGED vars \/ AcceptExit \/ Consume \/ \E a \in Addr : AddPeerCheck(a)
    BY Zenon, <1>0, <1>1, QuietInv DEF vars, AcceptExit, Consume, AddPeerCheck
  <1>2. CASE CloseListener \/ Collect
    BY Zenon, <1>0, <1>2, QuietInv DEF CloseListener, Collect
  <1>3. CASE CloseConns
    BY Zenon, <1>0, <1>3, ClosedWorks DEF CloseConns
  <1>4. ASSUME NEW l \in Loop, RemoveClose(l) PROVE Inv'
    <2>1. conns \cap To(loop[l].addr) \in SUBSET Conn
      BY Zenon, <1>0
    <2>2. /\ UNCHANGED <<closed, peers, loop, conns, closer, doomed>>
          /\ removing' \subseteq removing /\ \A m \in removing \ removing' : loop[m].cancelled
      BY Zenon, <1>4 DEF RemoveClose
    <2>3. CASE conn' = conn
      BY Zenon, <1>0, <2>2, <2>3, QuietInv
    <2>4. CASE conn' = Closed(conns \cap To(loop[l].addr))
      BY Zenon, <2>1, <2>2, <2>4, ClosedWorks
    <2> QED BY Zenon, <1>4, <2>3, <2>4 DEF RemoveClose
  <1>5. ASSUME NEW c \in Conn, serveConn(c) \/ Frame(c) \/ SenderExit(c) \/ HangUp(c)
        PROVE  Inv'
    BY Zenon, <1>5, ConnInv, ServeInv DEF serveConn
  <1> QED BY Zenon, <1>1, <1>2, <1>3, <1>4, <1>5, DialInv, AddPeerInv, RemovePeerInv,
             RemoveCancelInv, AcceptInv, CloseInv
          DEF Next, Closing

LEMMA Invariance == Spec => []Inv
  BY InitInv, NextInv, PTL DEF Spec

\* However AddPeer, RemovePeer, SyncPeers and the dial loops interleave, no loop is
\* lost: one that is not cancelled is in peerCancels or a RemovePeer is about to
\* cancel it, although RemovePeer calls cancel only after it released the lock.
THEOREM EveryLoopIsOwned == Spec => []LoopsAreOwned
  <1>1. Inv => LoopsAreOwned
    BY Zenon DEF Inv
  <1> QED BY <1>1, Invariance, PTL

\* serveConn's deferred function leaves no connection open and none in t.conns,
\* whichever of Close, RemovePeer, the sender and the peer ended the connection.
THEOREM ConnsAreReleased == Spec => []NoLeakedConn
  <1>1. Inv => NoLeakedConn
    BY Zenon DEF Inv
  <1> QED BY <1>1, Invariance, PTL

\* After Close has closed the subscription channels no goroutine of the transport
\* can send on one, not even that of an AddPeer which Close overtook.
THEOREM NobodySendsOnClosed == Spec => []NoSendOnClosed
  <1>1. Inv => NoSendOnClosed
    BY Zenon DEF Inv, Ended, NoSendOnClosed
  <1> QED BY <1>1, Invariance, PTL


----------------------------------------------------------------------------
(* DNS discovery.                                                          *)

RunState == [at : {"lookup", "list", "remove", "add", "wait", "stopped"},
             wanted : SUBSET Host, todo : SUBSET Host, synced : BOOLEAN]

DType ==
  /\ DOMAIN records = Discoverer /\ changes \in Nat
  /\ run \in [Discoverer -> RunState]
  /\ known \subseteq Host /\ \A d \in Discoverer : records[d] \subseteq Host

\* What a discoverer works on: the answer of its host, as long as that is the same,
\* and no peer that is wanted is about to be removed.
DInv ==
  /\ DType
  /\ changes = 0 => \A d \in Discoverer : run[d].at \in {"list", "remove", "add"} =>
                                            run[d].wanted = records[d] \ {Self}
  /\ \A d \in Discoverer : run[d].at = "remove" => run[d].todo \cap run[d].wanted = {}

LEMMA DInit == D!Init => DInv
BY DEF D!Init, DInv, DType, RunState

\* The records stay as they are while no change is counted.
LEMMA DNext == DInv /\ [D!Next]_(D!vars) => DInv' /\ (changes' = 0 => changes = 0)
<1> SUFFICES ASSUME DInv, [D!Next]_(D!vars) PROVE DInv' /\ (changes' = 0 => changes = 0)
  OBVIOUS
<1>1. DType
  BY DEF DInv
<1>2. ASSUME NEW d \in Discoverer, D!Scale(d) PROVE DInv' /\ (changes' = 0 => changes = 0)
  <2>1. /\ changes' = changes + 1 /\ known' = known /\ run' = run
        /\ DOMAIN records' = Discoverer /\ \A e \in Discoverer : records'[e] \subseteq Host
    BY <1>1, <1>2 DEF D!Scale, DType, RunState
  <2>2. changes' \in Nat /\ changes' # 0
    BY <1>1, <2>1 DEF DType
  <2>3. QED
    BY <1>1, <2>1, <2>2 DEF DInv, DType
<1>3. ASSUME NEW d \in Discoverer, D!Lookup(d) \/ D!Tick(d) \/ D!Stop(d) PROVE DInv'
  <2>1. UNCHANGED <<records, changes, known>> /\ run' \in [Discoverer -> RunState]
    BY <1>1, <1>3 DEF D!Lookup, D!Tick, D!Stop, DType, RunState
  <2>2. /\ \A e \in Discoverer \ {d} : run'[e] = run[e]
        /\ \/ run'[d].at \in {"wait", "lookup", "stopped"}
           \/ run'[d].at = "list" /\ run'[d].wanted = records[d] \ {Self}
    BY <1>1, <1>3 DEF D!Lookup, D!Tick, D!Stop, DType, RunState
  <2>3. DType'
    BY Zenon, <1>1, <2>1 DEF DType
  <2>4. ASSUME NEW e \in Discoverer
        PROVE  /\ changes = 0 /\ run'[e].at \in {"list", "remove", "add"} =>
                    run'[e].wanted = records[e] \ {Self}
               /\ run'[e].at = "remove" => run'[e].todo \cap run'[e].wanted = {}
    BY <2>2 DEF DInv
  <2>5. QED
    BY Zenon, <2>1, <2>3, <2>4 DEF DInv
<1>4. ASSUME NEW d \in Discoverer, D!List(d) PROVE DInv'
  <2> DEFINE S == known \ run[d].wanted
  <2>0. run[d] \in RunState /\ S \in SUBSET Host
    BY Zenon, <1>1 DEF DType
  <2>1. UNCHANGED <<records, changes, known>> /\ run' \in [Discoverer -> RunState]
    <3>1. UNCHANGED <<records, changes, known>>
      BY Zenon, <1>4 DEF D!List
    <3>2. run' = [run EXCEPT ![d] = [@ EXCEPT !.at = "remove", !.todo = S]]
      BY Zenon, <1>4 DEF D!List
    <3> HIDE DEF S
    <3>3. [run[d] EXCEPT !.at = "remove", !.todo = S] \in RunState
      BY Zenon, <2>0 DEF RunState
    <3>4. QED
      BY Zenon, <1>1, <3>1, <3>2, <3>3 DEF DType
  <2>2. /\ \A e \in Discoverer \ {d} : run'[e] = run[e]
        /\ run[d].at = "list" /\ run'[d].wanted = run[d].wanted
        /\ run'[d].todo = known \ run[d].wanted
    BY <1>1, <1>4 DEF D!List, DType, RunState
  <2>3. QED
    BY <1>1, <2>1, <2>2 DEF DInv, DType
<1>5. ASSUME NEW d \in Discoverer, D!Remove(d) \/ D!Add(d) PROVE DInv'
  <2>1. UNCHANGED <<records, changes>> /\ run' \in [Discoverer -> RunState]
    BY <1>1, <1>5 DEF D!Remove, D!Add, DType, RunState
  <2>2. known' \subseteq Host
    BY <1>1, <1>5 DEF D!Remove, D!Add, DType, RunState
  <2>3. /\ \A e \in Discoverer \ {d} : run'[e] = run[e]
        /\ run[d].at \in {"remove", "add"} /\ run'[d].wanted = run[d].wanted
        /\ run'[d].at = "remove" => run[d].at = "remove" /\ run'[d].todo \subseteq run[d].todo
    BY <1>1, <1>5 DEF D!Remove, D!Add, DType, RunState
  <2>4. QED
    BY <1>1, <2>1, <2>2, <2>3 DEF DInv, DType
<1>6. CASE D!Close \/ UNCHANGED D!vars
  BY Zenon, <1>1, <1>6 DEF D!Close, D!vars, DInv, DType
<1>7. (\E d \in Discoverer : D!Scale(d)) \/ changes' = changes
  BY Zenon DEF D!Next, D!Run, D!Lookup, D!List, D!Remove, D!Add, D!Tick, D!Stop, D!Close, D!vars
<1>8. QED
  BY Zenon, <1>2, <1>3, <1>4, <1>5, <1>6, <1>7 DEF D!Next, D!Run

\* SyncPeers of the only discoverer never takes a peer away that DNS resolves, as long
\* as the answer is the same: a lookup that fails or is slow, Close and a cancelled
\* Run included, for any host, any set of configured peers and any bound.
THEOREM ResolvedPeersStay ==
  ASSUME \A d, e \in Discoverer : d = e
  PROVE  D!Spec => ResolvedStays
<1> DEFINE Stay ==
      changes' = 0 => \A d \in Discoverer : (records[d] \ {Self}) \cap known \subseteq known'
<1>1. ASSUME DInv, [D!Next]_(D!vars) PROVE Stay
  <2> SUFFICES ASSUME changes' = 0, NEW d \in Discoverer
               PROVE  (records[d] \ {Self}) \cap known \subseteq known'
    OBVIOUS
  <2>1. changes = 0
    BY <1>1, DNext
  <2>2. CASE known \subseteq known'
    BY <2>2
  <2>3. ASSUME NEW e \in Discoverer, D!Remove(e)
        PROVE  (records[d] \ {Self}) \cap known \subseteq known'
    <3>1. e = d /\ run[d].at = "remove"
      BY <2>3 DEF D!Remove
    <3>2. run[d].wanted = records[d] \ {Self} /\ run[d].todo \cap run[d].wanted = {}
      BY <1>1, <2>1, <3>1 DEF DInv
    <3>3. QED
      BY <2>3, <3>1, <3>2 DEF D!Remove
  <2>4. QED
    BY Zenon, <1>1, <2>2, <2>3
       DEF D!Next, D!Run, D!Scale, D!Lookup, D!List, D!Add, D!Tick, D!Stop,
                            D!Close, D!vars
<1>2. QED
  BY <1>1, DInit, DNext, PTL DEF D!Spec, ResolvedStays, D!ResolvedStays
=============================================================================
