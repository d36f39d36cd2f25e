---------------------------- MODULE Subscription ----------------------------
(***************************************************************************)
(* What transport.Transport asks of Publish and Subscribe, as far as a     *)
(* Store relies on it: a subscription channel carries messages that were   *)
(* published, and nothing after it was closed.  An ordered one carries     *)
(* each message at most once, and those of one publisher in the order in   *)
(* which it published them.                                                *)
(***************************************************************************)
EXTENDS Naturals, Sequences

CONSTANTS Pub,  \* goroutines that call Publish, one call after the other
          Sub,  \* subscription channels
          Ordered

VARIABLES sent,   \* how many messages each publisher has published
          feed,   \* everything that was put into each channel
          ended   \* closed channels

vars == <<sent, feed, ended>>

Init == sent = [p \in Pub |-> 0] /\ feed = [s \in Sub |-> <<>>] /\ ended = {}

Publish(p) ==
  /\ sent' = [sent EXCEPT ![p] = @ + 1]
  /\ UNCHANGED <<feed, ended>>

\* If ordered, the i-th message of p may follow earlier ones of p only.
Deliver(s, p, i) ==
  /\ s \notin ended
  /\ Ordered => \A j \in 1..Len(feed[s]) : feed[s][j][1] = p => feed[s][j][2] < i
  /\ feed' = [feed EXCEPT ![s] = Append(@, <<p, i>>)]
  /\ UNCHANGED <<sent, ended>>

\* Close of the transport may close several channels at once.
End(S) == S # {} /\ S \cap ended = {} /\ ended' = ended \cup S /\ UNCHANGED <<sent, feed>>

Next ==
  \/ \E p \in Pub : Publish(p) \/ \E s \in Sub, i \in 1..sent[p] : Deliver(s, p, i)
  \/ \E S \in SUBSET Sub : End(S)

Spec == Init /\ [][Next]_vars
=============================================================================
