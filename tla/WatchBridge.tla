----------------------------- MODULE WatchBridge -----------------------------
(***************************************************************************)
(* The web UI's bridge from the daemon's Watch stream to its browsers:     *)
(* ui/src/lib/server/watch-bridge.ts and ui/src/routes/api/watch.          *)
(*                                                                         *)
(* A loop is one run of startWatch.  JavaScript runs a callback to its end *)
(* before the next one starts, so each action is what happens between two  *)
(* awaits.  abortController and reconnectTimeout are single variables that *)
(* every loop overwrites.  A timer that fired, and a controller whose      *)
(* stream ended, stay in them and no longer do anything.                   *)
(*                                                                         *)
(* Events are numbered in the order of broadcast.  What a browser knows is *)
(* the set of events its page reflects: those that happened before it      *)
(* subscribed, those it was sent, and at a refresh, which makes it fetch   *)
(* the list again, all of them.                                            *)
(***************************************************************************)
EXTENDS Naturals, Sequences, FiniteSets

CONSTANTS
  Clients,        \* browsers, one SSE connection each
  MaxSubscribers, \* MAX_SSE_CONNECTIONS
  Loops,          \* bound: runs of startWatch alive at the same time
  MaxBackoff,     \* the longest wait, 30 (in seconds)
  MaxEvents,      \* bound: events ever broadcast
  MaxCrashes,     \* bound: times the daemon goes away
  NoLoop          \* null

ASSUME BridgeAssumption ==
  /\ MaxSubscribers \in Nat \ {0} /\ MaxBackoff \in Nat \ {0}
  /\ MaxEvents \in Nat /\ MaxCrashes \in Nat
  /\ NoLoop \notin Loops /\ IsFiniteSet(Clients)

VARIABLES
  subscribers, watchActive, abortController, reconnectTimeout,
  \* per loop:
  pc,       \* none, open (the call is sent), stream, backoff
  backoff,  \* the loop's "backoff", in seconds
  wait,     \* the length of the timer it waits for
  aborted,  \* the loops whose call was aborted and that did not wake up yet
  \* the daemon, which the bridge only sees through the stream:
  up, crashes,
  events,   \* the number of events broadcast
  reg,      \* the loops whose call has a receiver in the daemon
  queue,    \* per loop, the events on the way to it
  unheard,  \* events broadcast while reg was empty
  \* per browser:
  known

bridgeVars == <<subscribers, watchActive, abortController, reconnectTimeout>>
loopVars   == <<pc, backoff, wait, aborted>>
daemonVars == <<up, crashes, events, unheard>>
streamVars == <<reg, queue>>
vars == <<bridgeVars, loopVars, daemonVars, streamVars, known>>

Init ==
  /\ subscribers = {} /\ watchActive = FALSE
  /\ abortController = NoLoop /\ reconnectTimeout = NoLoop
  /\ pc = [l \in Loops |-> "none"]
  /\ backoff = [l \in Loops |-> 1] /\ wait = [l \in Loops |-> 1]
  /\ aborted = {} /\ reg = {} /\ queue = [l \in Loops |-> <<>>]
  /\ up = TRUE /\ crashes = 0 /\ events = 0 /\ unheard = {}
  /\ known = [c \in Clients |-> {}]

-----------------------------------------------------------------------------
(* startWatch and stopWatch. *)

\* "backoff = 1000; // Reset on successful connection".  It stands before
\* the first await: client.watch only makes the iterator, so it is reached
\* whether or not there is a daemon.
BackoffAtOpen(b) == 1

\* The top of the loop's body, up to the first await.
Open(l) ==
  /\ pc' = [pc EXCEPT ![l] = "open"]
  /\ abortController' = l
  /\ backoff' = [backoff EXCEPT ![l] = BackoffAtOpen(@)]

\* Mutant: one attempt per subscription, no loop.
AgainNever(l) == /\ pc' = [pc EXCEPT ![l] = "none"]
                 /\ UNCHANGED <<abortController, backoff>>

\* "while (watchActive)", from the end of the body.  The variables of a loop
\* that is over go back to their first values.
Again(l) ==
  IF watchActive THEN Open(l)
  ELSE /\ pc' = [pc EXCEPT ![l] = "none"]
       /\ backoff' = [backoff EXCEPT ![l] = 1]
       /\ UNCHANGED abortController

\* The loop that waits for the timer in reconnectTimeout.  It is never resumed
\* once that is cleared: nothing else resolves its promise.  The timer of
\* another loop is not cleared.
Cleared == {l \in Loops : l = reconnectTimeout /\ pc[l] = "backoff"}

\* The rest of stopWatch: abort the newest call, clear the newest timer.
StopNewest ==
  /\ aborted' = aborted \cup
       {l \in Loops : l = abortController /\ pc[l] \in {"open", "stream"}}
  /\ reconnectTimeout' = NoLoop
  /\ pc' = [l \in Loops |-> IF l \in Cleared THEN "none" ELSE pc[l]]
  /\ backoff' = [l \in Loops |-> IF l \in Cleared THEN 1 ELSE backoff[l]]
  /\ wait' = [l \in Loops |-> IF l \in Cleared THEN 1 ELSE wait[l]]

\* Mutant: the flag survives the last subscriber.
StopWatchKeepsFlag == UNCHANGED watchActive /\ StopNewest

StopWatch == watchActive' = FALSE /\ StopNewest

-----------------------------------------------------------------------------
(* The SSE route: a browser connects and goes away. *)

\* "if (subscribers.size >= MAX_SSE_CONNECTIONS) throw": the browser is told
\* and nothing changes.
Subscribe(c) ==
  /\ c \notin subscribers
  /\ Cardinality(subscribers) < MaxSubscribers
  /\ subscribers' = subscribers \cup {c}
  /\ known' = [known EXCEPT ![c] = 1..events]
  /\ IF subscribers = {} /\ ~watchActive
     THEN /\ \E l \in Loops : pc[l] = "none"
          /\ Open(CHOOSE l \in Loops : pc[l] = "none")
          /\ watchActive' = TRUE
     ELSE UNCHANGED <<watchActive, pc, abortController, backoff>>
  /\ UNCHANGED <<reconnectTimeout, wait, aborted, daemonVars, streamVars>>

Unsubscribe(c) ==
  /\ c \in subscribers
  /\ subscribers' = subscribers \ {c}
  /\ known' = [known EXCEPT ![c] = {}]
  /\ IF subscribers = {c} THEN StopWatch
     ELSE UNCHANGED <<watchActive, reconnectTimeout, loopVars>>
  /\ UNCHANGED <<abortController, daemonVars, streamVars>>

-----------------------------------------------------------------------------
(* The loop, from await to await. *)

\* The daemon gets the call and subscribes it to its events.
Register(l) ==
  /\ pc[l] = "open" /\ up /\ l \notin aborted
  /\ pc' = [pc EXCEPT ![l] = "stream"]
  /\ reg' = reg \cup {l}
  /\ UNCHANGED <<bridgeVars, backoff, wait, aborted, daemonVars, queue, known>>

\* Mutant: an exception of one subscriber ends the round.
SentToOne == {CHOOSE c \in Clients : TRUE}

\* "for (const sub of subscribers) try { sub.onEvent(payload) }".
SentTo == subscribers

Deliver(l) ==
  /\ pc[l] = "stream" /\ queue[l] # <<>>
  /\ known' = [c \in Clients |-> IF c \in SentTo THEN known[c] \cup {Head(queue[l])}
                                 ELSE known[c]]
  /\ queue' = [queue EXCEPT ![l] = Tail(@)]
  /\ UNCHANGED <<bridgeVars, loopVars, daemonVars, reg>>

\* Mutant: subscribers are told only when the daemon is down.
RefreshOnConnectionError(connection) ==
  IF connection THEN [c \in Clients |-> IF c \in subscribers THEN 1..events ELSE known[c]]
  ELSE known

\* "Tell all subscribers to refresh their state".
Refresh(connection) ==
  [c \in Clients |-> IF c \in subscribers THEN 1..events ELSE known[c]]

Doubled(b) == IF 2 * b > MaxBackoff THEN MaxBackoff ELSE 2 * b

\* The catch block; "connection" is isConnectionError(err).  It asks for
\* watchActive, not for whether this loop's own call was aborted.
Catch(l, connection) ==
  /\ reg' = reg \ {l}
  /\ queue' = [queue EXCEPT ![l] = <<>>]
  /\ aborted' = aborted \ {l}
  /\ \/ /\ ~watchActive
        /\ pc' = [pc EXCEPT ![l] = "none"]
        /\ backoff' = [backoff EXCEPT ![l] = 1]
        /\ UNCHANGED <<reconnectTimeout, wait, known>>
     \/ /\ watchActive
        /\ pc' = [pc EXCEPT ![l] = "backoff"]
        /\ known' = Refresh(connection)
        /\ reconnectTimeout' = l
        /\ wait' = [wait EXCEPT ![l] = IF connection THEN backoff[l] ELSE 1]
        /\ backoff' = [backoff EXCEPT ![l] = IF connection THEN Doubled(@) ELSE @]
  /\ UNCHANGED <<subscribers, watchActive, abortController, daemonVars>>

\* The call was aborted: AbortError, which is no connection error.
Aborted(l) == /\ l \in aborted /\ pc[l] \in {"open", "stream"}
              /\ Catch(l, FALSE)

\* No daemon answers, or the one that did is gone.
Unreachable(l) == /\ \/ pc[l] = "open" /\ ~up
                     \/ pc[l] = "stream" /\ l \notin reg
                  /\ l \notin aborted
                  /\ Catch(l, TRUE)

\* The stream breaks for another reason.
Broken(l) == /\ pc[l] = "stream" /\ l \notin aborted
             /\ Catch(l, FALSE)

\* The daemon ended the stream in good order: no exception, no refresh.
StreamEnds(l) ==
  /\ pc[l] = "stream" /\ l \notin reg /\ queue[l] = <<>> /\ l \notin aborted
  /\ Again(l)
  /\ UNCHANGED <<subscribers, watchActive, reconnectTimeout, wait, aborted,
                 daemonVars, streamVars, known>>

\* setTimeout's callback resolves the promise.
TimerFires(l) ==
  /\ pc[l] = "backoff"
  /\ Again(l)
  /\ wait' = [wait EXCEPT ![l] = 1]
  /\ UNCHANGED <<subscribers, watchActive, reconnectTimeout, aborted,
                 daemonVars, streamVars, known>>

-----------------------------------------------------------------------------
(* The daemon, as the bridge sees it (WatchStream has its own side). *)

Broadcast ==
  /\ up /\ events < MaxEvents
  /\ events' = events + 1
  /\ queue' = [l \in Loops |-> IF l \in reg THEN Append(queue[l], events + 1) ELSE queue[l]]
  /\ unheard' = IF reg = {} THEN unheard \cup {events + 1} ELSE unheard
  /\ UNCHANGED <<bridgeVars, loopVars, up, crashes, reg, known>>

DaemonStops == /\ up /\ crashes < MaxCrashes
               /\ up' = FALSE /\ crashes' = crashes + 1 /\ reg' = {}
               /\ UNCHANGED <<bridgeVars, loopVars, events, unheard, queue, known>>

DaemonStarts == /\ ~up /\ up' = TRUE
                /\ UNCHANGED <<bridgeVars, loopVars, crashes, events, unheard,
                               streamVars, known>>

Next ==
  \/ \E c \in Clients : Subscribe(c) \/ Unsubscribe(c)
  \/ \E l \in Loops : \/ Register(l) \/ Deliver(l) \/ Aborted(l) \/ Unreachable(l)
                      \/ Broken(l) \/ StreamEnds(l) \/ TimerFires(l)
  \/ Broadcast \/ DaemonStops \/ DaemonStarts

\* The event loop runs what is ready; nothing obliges a browser to come or
\* go, a stream to break or the daemon to do anything.
Fairness ==
  \A l \in Loops : /\ WF_vars(Register(l)) /\ WF_vars(Deliver(l))
                   /\ WF_vars(Aborted(l))  /\ WF_vars(Unreachable(l))
                   /\ WF_vars(TimerFires(l))

Spec == Init /\ [][Next]_vars /\ Fairness

-----------------------------------------------------------------------------
(* Properties. *)

\* However connects, disconnects, aborts, timers and restarts of the daemon
\* interleave, the bridge is on exactly while somebody subscribes, and then a
\* loop is at work that was not told to stop: no browser is left subscribed
\* to nothing.  A loop that waits does so for one second, however often the
\* daemon was not there: the doubled backoff is overwritten before it is used.
Served ==
  /\ watchActive <=> subscribers # {}
  /\ watchActive => \E l \in Loops : pc[l] # "none" /\ l \notin aborted
  /\ \A l \in Loops : pc[l] = "backoff" => wait[l] = 1

\* A subscribed browser misses an event without being told to refresh only
\* when no stream was registered at the time: an event that any stream
\* carried is shown, still on its way, or covered by a refresh, also when that
\* stream is aborted or breaks with the event undelivered.
MissedOnlyWhileDown ==
  \A c \in subscribers : \A e \in (1..events) \ (known[c] \cup unheard) :
    \E l \in Loops : \E i \in 1..Len(queue[l]) : queue[l][i] = e

\* While the daemon stays up, a bridge with subscribers gets its stream back.
StreamReturns ==
  <>[]up => ((subscribers # {}) ~> (subscribers = {} \/ reg # {}))

\* An event that a stream carried comes to every browser that stays: it does
\* not depend on which of several loops carries it.
EventShown ==
  \A c \in Clients : \A e \in 1..MaxEvents :
    (c \in subscribers /\ e \in (1..events) \ unheard)
      ~> (c \notin subscribers \/ e \in known[c])

\* The design's "one shared gRPC Watch stream" (docs/plans): no two loops have
\* a stream at the same time.
OneStream == Cardinality({l \in Loops : pc[l] = "stream"} \ aborted) <= 1
=============================================================================
