----------------------------- MODULE MCBrokers ------------------------------
(* MemoryTransport and RedisTransport side by side: a behaviour runs one of *)
(* them, and the variables of the other keep their initial values.          *)
EXTENDS Memory

CONSTANTS Pod, Topic, MaxIn, MaxRedis, Caller

ASSUME CallerAssumption == None \notin Caller \cup Topic

VARIABLES which, mu, rClosed, rSubs, caller, own, open, live, wire, fwd, held, cancelled,
          closer, todo, rSent, rFeed, rTaken, rEnded

rVars == <<mu, rClosed, rSubs, caller, own, open, live, wire, fwd, held, cancelled, closer,
           todo, rSent, rFeed, rTaken, rEnded>>

R == INSTANCE Redis WITH Pub <- Pod, Sub <- Topic, MaxMsgs <- MaxRedis, closed <- rClosed,
       subs <- rSubs, sent <- rSent, feed <- rFeed, taken <- rTaken, ended <- rEnded

AllInit == which \in {"memory", "redis"} /\ Init /\ R!Init /\ (which = "memory" => own)

AllNext ==
  \/ which = "memory" /\ Next /\ UNCHANGED <<which, rVars>>
  \/ which = "redis" /\ R!Next /\ UNCHANGED <<which, vars>>

AllSpec == AllInit /\ [][AllNext]_<<which, vars, rVars>> /\ Fairness /\ R!Fairness

\* RedisTransport keeps the contract of Transport: published messages only, and
\* none into a closed channel.
RedisDelivers == R!RedisDelivers

\* When RedisTransport.Close has returned, no forwarder runs and none will start.
ClosedMeansEnded == R!ClosedMeansEnded

\* RedisTransport.Close returns, whoever does not read.
CloseReturns == R!CloseReturns
=============================================================================
