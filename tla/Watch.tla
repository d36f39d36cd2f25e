------------------------------- MODULE Watch -------------------------------
(***************************************************************************)
(* The watchers of one Store: Watch and its cleanup goroutine, dispatch    *)
(* with its dropping of slow watchers, removeWatcher, and the sweep of     *)
(* CloseWithContext, against writers that dispatch inside the critical     *)
(* section of s.mu (applyMessage) or after it (SetMany, DeleteMany and     *)
(* Refresh).  An event is the key, the number of the change, and which of  *)
(* the two it was.                                                         *)
(***************************************************************************)
EXTENDS Naturals, Sequences, FiniteSets

CONSTANTS Key, Writer, Watcher,
          Filter,      \* the keys each watcher's filter lets through
          watchBuffer, \* capacity of a watcher's channel, which is buffered
          MaxVer,      \* bound on the changes of the map
          Env,         \* what may happen besides applyMessage and Watch
          NoOne        \* watchersMu is free

ASSUME FilterAssumption == Filter \in [Watcher -> SUBSET Key]
ASSUME BoundsAssumption == watchBuffer \in Nat \ {0} /\ MaxVer \in Nat
ASSUME EnvAssumption == Env \subseteq {"batch", "cancel", "close", "closeTimeout"}
ASSUME NoOneAssumption == NoOne \notin Watcher

VARIABLES
  ver,         \* number of critical sections that changed the map
  writer,      \* the writers that passed isClosed, with the events they owe
  watchersMu,  \* the Watch call inside its critical section
  watchers,    \* Store.watchers
  watch,       \* progress of each Watch call and of its goroutine
  ctxDone,     \* watchers whose context is cancelled
  got,         \* events sent on each channel
  read,        \* how many of them were received
  chClosed,    \* how often close(w.ch) ran
  cancelClosed,\* how often close(w.cancel) ran
  closeCh,     \* closed
  loops,       \* recvLoop and snapshotLoop still run
  closer,      \* progress of CloseWithContext
  remaining,   \* its slice of watchers still to remove
  due          \* history: what each watcher is to be told since it was registered

vars == <<ver, writer, watchersMu, watchers, watch, ctxDone, got, read, chClosed,
          cancelClosed, closeCh, loops, closer, remaining, due>>

channels == <<watchers, got, chClosed, cancelClosed>>
closing == <<closeCh, loops, closer, remaining>>
calls == <<watchersMu, watch, ctxDone>>

Idle == [at |-> "idle", owes |-> {}]
Buffered(w) == Len(got[w]) - read[w]

Init ==
  /\ ver = 0 /\ writer = [c \in Writer |-> Idle]
  /\ watchersMu = NoOne /\ watchers = {}
  /\ watch = [w \in Watcher |-> "none"] /\ ctxDone = {}
  /\ got = [w \in Watcher |-> <<>>] /\ read = [w \in Watcher |-> 0]
  /\ chClosed = [w \in Watcher |-> 0] /\ cancelClosed = [w \in Watcher |-> 0]
  /\ closeCh = FALSE /\ loops = TRUE /\ closer = "none" /\ remaining = {}
  /\ due = [w \in Watcher |-> <<>>]

----------------------------------------------------------------------------
(* Channels.                                                               *)

\* delete from the map and close both channels.
Drop(W) ==
  /\ watchers' = watchers \ W
  /\ chClosed' = [w \in Watcher |-> chClosed[w] + IF w \in W THEN 1 ELSE 0]
  /\ cancelClosed' = [w \in Watcher |-> cancelClosed[w] + IF w \in W THEN 1 ELSE 0]

Matching(ev) == {w \in watchers : ev.key \in Filter[w]}
Full == {w \in Watcher : Buffered(w) = watchBuffer}

SendTo(W, ev) == got' = [w \in Watcher |-> IF w \in W THEN Append(got[w], ev) ELSE got[w]]

\* History: the event is due to those whose filter lets it through, also after
\* they left the map.
Registered(w) == watch[w] \in {"inserted", "waiting", "removing", "done"}
Owe(ev) ==
  due' = [w \in Watcher |-> IF Registered(w) /\ ev.key \in Filter[w] THEN Append(due[w], ev)
                                                                     ELSE due[w]]

\* Mutant: an event is skipped for a watcher whose buffer is full.
dispatch_Skips(ev) ==
  /\ watchersMu = NoOne
  /\ SendTo(Matching(ev) \ Full, ev)
  /\ Owe(ev)
  /\ UNCHANGED <<watchers, chClosed, cancelClosed>>

\* Non-blocking sends; a watcher whose buffer is full is dropped.
dispatch(ev) ==
  /\ watchersMu = NoOne
  /\ SendTo(Matching(ev) \ Full, ev)
  /\ Drop(Matching(ev) \cap Full)
  /\ Owe(ev)

\* Mutant: the membership check is missing.
removeWatcher_Unchecked(w) ==
  /\ watchersMu = NoOne
  /\ Drop({w})
  /\ UNCHANGED got

removeWatcher(w) ==
  /\ watchersMu = NoOne
  /\ Drop(watchers \cap {w})
  /\ UNCHANGED got

----------------------------------------------------------------------------
(* Writers.                                                                *)

Enter(c) ==
  /\ writer[c] = Idle /\ ~closeCh
  /\ writer' = [writer EXCEPT ![c].at = "entered"]
  /\ UNCHANGED <<ver, channels, calls, closing, read, due>>

\* Mutant: dispatch after the unlock.
applyMessage_Unlocked(c) ==
  /\ writer[c].at = "entered" /\ ver < MaxVer
  /\ ver' = ver + 1
  /\ \E k \in Key :
       writer' = [writer EXCEPT ![c] = [at |-> "dispatching",
                          owes |-> {[key |-> k, ver |-> ver + 1, batch |-> FALSE]}]]
  /\ UNCHANGED <<channels, calls, closing, read, due>>

\* A write that wins LWW is applied and dispatched under s.mu.
applyMessage(c) ==
  /\ writer[c].at = "entered" /\ ver < MaxVer
  /\ ver' = ver + 1
  /\ \E k \in Key : dispatch([key |-> k, ver |-> ver + 1, batch |-> FALSE])
  /\ writer' = [writer EXCEPT ![c] = Idle]
  /\ UNCHANGED <<calls, closing, read>>

\* The critical section of SetMany, DeleteMany and mergeSnapshot.
Batch(c) ==
  /\ "batch" \in Env
  /\ writer[c].at = "entered" /\ ver < MaxVer
  /\ ver' = ver + 1
  /\ \E K \in SUBSET Key \ {{}} :
       writer' = [writer EXCEPT ![c] = [at |-> "dispatching",
                          owes |-> {[key |-> k, ver |-> ver + 1, batch |-> TRUE] : k \in K}]]
  /\ UNCHANGED <<channels, calls, closing, read, due>>

\* One turn of the loop that fans out a batch's events.
DispatchOne(c) ==
  /\ writer[c].at = "dispatching"
  /\ \E ev \in writer[c].owes :
       /\ dispatch(ev)
       /\ writer' = [writer EXCEPT ![c] =
                       IF writer[c].owes = {ev} THEN Idle
                       ELSE [at |-> "dispatching", owes |-> writer[c].owes \ {ev}]]
  /\ UNCHANGED <<ver, calls, closing, read>>

----------------------------------------------------------------------------
(* Watch, the goroutine it starts and the consumer of its channel.         *)

\* Mutant: isClosed is checked before watchersMu is taken.
WatchCheck_Unlocked(w) ==
  /\ watch[w] = "none" /\ ~closeCh
  /\ watch' = [watch EXCEPT ![w] = "checked"]
  /\ UNCHANGED <<ver, writer, channels, ctxDone, closing, read, due, watchersMu>>

\* Inside watchersMu: the store is not closed.
WatchCheck(w) ==
  /\ watch[w] = "none" /\ watchersMu = NoOne /\ ~closeCh
  /\ watch' = [watch EXCEPT ![w] = "checked"] /\ watchersMu' = w
  /\ UNCHANGED <<ver, writer, channels, ctxDone, closing, read, due>>

\* The store is closed: the caller gets a closed channel.
WatchRefused(w) ==
  /\ watch[w] = "none" /\ watchersMu = NoOne /\ closeCh
  /\ watch' = [watch EXCEPT ![w] = "refused"]
  /\ chClosed' = [chClosed EXCEPT ![w] = @ + 1]
  /\ UNCHANGED <<ver, writer, watchers, got, cancelClosed, watchersMu, ctxDone,
                 closing, read, due>>

\* The watcher is registered and watchersMu released.
WatchInsert(w) ==
  /\ watch[w] = "checked"
  /\ watch' = [watch EXCEPT ![w] = "inserted"]
  /\ watchers' = watchers \cup {w} /\ watchersMu' = NoOne
  /\ UNCHANGED <<ver, writer, got, chClosed, cancelClosed, ctxDone, closing, read, due>>

\* wg.Add(1) and the goroutine starts.
WatchGo(w) ==
  /\ watch[w] = "inserted"
  /\ watch' = [watch EXCEPT ![w] = "waiting"]
  /\ UNCHANGED <<ver, writer, channels, watchersMu, ctxDone, closing, read, due>>

\* Mutant: the select does not include closeCh.
Wake_IgnoresClose(w) ==
  /\ watch[w] = "waiting"
  /\ w \in ctxDone \/ cancelClosed[w] > 0
  /\ watch' = [watch EXCEPT ![w] = "removing"]
  /\ UNCHANGED <<ver, writer, channels, watchersMu, ctxDone, closing, read, due>>

\* Mutant: the select does not include w.cancel.
Wake_IgnoresCancel(w) ==
  /\ watch[w] = "waiting"
  /\ w \in ctxDone \/ closeCh
  /\ watch' = [watch EXCEPT ![w] = "removing"]
  /\ UNCHANGED <<ver, writer, channels, watchersMu, ctxDone, closing, read, due>>

\* One of the three channels of the goroutine's select is closed.
Wake(w) ==
  /\ watch[w] = "waiting"
  /\ w \in ctxDone \/ closeCh \/ cancelClosed[w] > 0
  /\ watch' = [watch EXCEPT ![w] = "removing"]
  /\ UNCHANGED <<ver, writer, channels, watchersMu, ctxDone, closing, read, due>>

Cleanup(w) ==
  /\ watch[w] = "removing"
  /\ removeWatcher(w)
  /\ watch' = [watch EXCEPT ![w] = "done"]
  /\ UNCHANGED <<ver, writer, watchersMu, ctxDone, closing, read, due>>

Cancel(w) ==
  /\ "cancel" \in Env /\ w \notin ctxDone /\ watch[w] # "none"
  /\ ctxDone' = ctxDone \cup {w}
  /\ UNCHANGED <<ver, writer, channels, watchersMu, watch, closing, read, due>>

Consume(w) ==
  /\ Buffered(w) > 0
  /\ read' = [read EXCEPT ![w] = @ + 1]
  /\ UNCHANGED <<ver, writer, channels, calls, closing, due>>

----------------------------------------------------------------------------
(* CloseWithContext.                                                       *)

Close ==
  /\ "close" \in Env /\ closer = "none"
  /\ closeCh' = TRUE /\ closer' = "waiting"
  /\ UNCHANGED <<ver, writer, channels, calls, read, due, loops, remaining>>

LoopsExit ==
  /\ closeCh /\ loops
  /\ loops' = FALSE
  /\ UNCHANGED <<ver, writer, channels, calls, read, due, closeCh, closer, remaining>>

\* wg.Wait ends: every goroutine that was added is done.
WaitEnds ==
  /\ closer = "waiting" /\ ~loops
  /\ \A w \in Watcher : watch[w] \notin {"waiting", "removing"}
  /\ closer' = "locking"
  /\ UNCHANGED <<ver, writer, channels, calls, read, due, closeCh, loops, remaining>>

CloseTimeout ==
  /\ "closeTimeout" \in Env /\ closer = "waiting"
  /\ closer' = "locking"
  /\ UNCHANGED <<ver, writer, channels, calls, read, due, closeCh, loops, remaining>>

\* The slice of remaining watchers, taken under watchersMu.
SweepStart ==
  /\ closer = "locking" /\ watchersMu = NoOne
  /\ closer' = "sweeping" /\ remaining' = watchers
  /\ UNCHANGED <<ver, writer, channels, calls, read, due, closeCh, loops>>

Sweep ==
  /\ closer = "sweeping"
  /\ \E w \in remaining : removeWatcher(w) /\ remaining' = remaining \ {w}
  /\ UNCHANGED <<ver, writer, calls, read, due, closeCh, loops, closer>>

CloseReturn ==
  /\ closer = "sweeping" /\ remaining = {}
  /\ closer' = "returned"
  /\ UNCHANGED <<ver, writer, channels, calls, read, due, closeCh, loops, remaining>>

----------------------------------------------------------------------------
Writing(c) == Enter(c) \/ applyMessage(c) \/ Batch(c) \/ DispatchOne(c)

\* The steps of Watch once it holds watchersMu, and of its goroutine.
Watching(w) == WatchInsert(w) \/ WatchGo(w) \/ Wake(w) \/ Cleanup(w)

Closing == WaitEnds \/ SweepStart \/ Sweep \/ CloseReturn

Next ==
  \/ \E c \in Writer : Writing(c)
  \/ \E w \in Watcher :
       WatchCheck(w) \/ WatchRefused(w) \/ Watching(w) \/ Cancel(w) \/ Consume(w)
  \/ Close \/ LoopsExit \/ CloseTimeout \/ Closing

Spec == Init /\ [][Next]_vars

\* Goroutines are scheduled, and sync.Mutex hands watchersMu on in turn, so a
\* step that waits for it is not overtaken for ever; nobody has to consume.
FairSpec ==
  /\ Spec
  /\ \A w \in Watcher : SF_vars(Watching(w))
  /\ WF_vars(LoopsExit) /\ SF_vars(Closing)

----------------------------------------------------------------------------
(* Properties.                                                             *)

\* No send on a closed channel and no second close, whichever of dispatch,
\* the cleanup goroutine and the sweep of Close gets to a watcher first; and
\* a watcher that left the map had both its channels closed.
ChannelDiscipline ==
  \A w \in Watcher :
    /\ w \in watchers => chClosed[w] = 0 /\ cancelClosed[w] = 0
    /\ Registered(w) /\ w \notin watchers
         => chClosed[w] = 1 /\ cancelClosed[w] = 1

\* "Close stops background work and closes every Watch channel": once Close
\* has returned, timed out or not, no Watch call has or gets an open channel.
ClosedAfterClose ==
  closer = "returned" => watchers = {} /\ \A w \in Watcher : watch[w] # "checked"

\* dispatch never loses an event silently: a channel carries the events its
\* filter lets through since it was registered, in order and with no gap, and
\* as long as it is open it carries all of them.
NoSilentGap ==
  \A w \in Watcher :
    /\ Len(got[w]) <= Len(due[w])
    /\ \A i \in 1..Len(got[w]) : got[w][i] = due[w][i]
    /\ w \in watchers => got[w] = due[w]

\* applyMessage's comment: dispatching under s.mu "guarantees watchers observe
\* events in the same order they were applied to the data map".  No event of
\* applyMessage comes after a younger one, across keys; those of a batch may.
AppliedOrder ==
  \A w \in Watcher : \A i, j \in 1..Len(got[w]) :
    i < j /\ ~got[w][j].batch => got[w][i].ver < got[w][j].ver

\* A watcher that is cancelled, dropped as slow or swept by Close has its
\* channel closed and its goroutine ended: neither leaks.
WatchersEnd ==
  \A w \in Watcher :
    (watch[w] = "waiting" /\ (w \in ctxDone \/ w \notin watchers \/ closeCh))
      ~> (watch[w] = "done" /\ chClosed[w] = 1)

\* Close returns although Watch calls, dispatches and cleanups compete for
\* watchersMu and may still register a watcher after closeCh is closed.
CloseTerminates == closeCh ~> closer = "returned"
=============================================================================
