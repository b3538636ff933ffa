-------------------------- MODULE WatchBridgeProofs --------------------------
(***************************************************************************)
(* Theorems about WatchBridge, for any number of browsers and loops, any   *)
(* limit of subscribers, any backoff and any number of events and crashes  *)
(* of the daemon: no browser is left subscribed to nothing, and none       *)
(* misses, unnoticed, an event that some stream carried.                   *)
(***************************************************************************)
EXTENDS WatchBridge, SequenceTheorems, TLAPS

TypeOK ==
  /\ subscribers \subseteq Clients /\ watchActive \in BOOLEAN
  /\ pc \in [Loops -> {"none", "open", "stream", "backoff"}]
  /\ backoff \in [Loops -> Nat \ {0}] /\ wait \in [Loops -> Nat \ {0}]
  /\ aborted \subseteq Loops /\ reg \subseteq Loops
  /\ events \in Nat /\ queue \in [Loops -> Seq(Nat)]
  /\ known \in [Clients -> SUBSET Nat]

\* The bridge is on exactly while somebody subscribes.
OnWhileSubscribed == watchActive <=> subscribers # {}

\* A loop that was told to stop is in its call and finds out there.
AbortedInCall == \A l \in aborted : pc[l] \in {"open", "stream"}

\* A loop in its call, or with its wait still to come, has the first backoff.
FirstBackoff ==
  \A l \in Loops : /\ pc[l] \in {"open", "stream"} => backoff[l] = 1
                   /\ pc[l] = "backoff" => wait[l] = 1

\* A loop at work that was not told to stop, while the bridge is on.
AtWork == watchActive => \E l \in Loops : pc[l] # "none" /\ l \notin aborted

\* Events are on their way only to loops that read their stream, and only
\* those have a receiver in the daemon: nothing waits where nobody will look.
OnItsWay == \A l \in Loops : queue[l] # <<>> \/ l \in reg => pc[l] = "stream"

BridgeInv ==
  /\ TypeOK /\ OnWhileSubscribed /\ AbortedInCall /\ FirstBackoff
  /\ AtWork /\ OnItsWay /\ MissedOnlyWhileDown

-----------------------------------------------------------------------------
(* The kinds of steps. *)

\* A loop leaves its call through the catch block.
Catches(l) ==
  pc[l] \in {"open", "stream"} /\ \E connection \in BOOLEAN : Catch(l, connection)

\* The first subscriber starts a loop that was not at work.
Starts(c) ==
  /\ subscribers = {} /\ ~watchActive /\ watchActive'
  /\ \E l \in Loops : pc[l] = "none" /\ Open(l)

\* A step that changes nothing of the bridge or its loops.
DaemonOnly == DaemonStops \/ DaemonStarts \/ UNCHANGED vars

\* Every step is one of these.
LEMMA BridgeSteps ==
  ASSUME [Next]_vars
  PROVE  \/ \E c \in Clients : Subscribe(c) \/ Unsubscribe(c)
         \/ \E l \in Loops : \/ Register(l) \/ Deliver(l) \/ Catches(l)
                             \/ StreamEnds(l) \/ TimerFires(l)
         \/ Broadcast \/ DaemonOnly
<1>1. ASSUME NEW l \in Loops, Aborted(l) \/ Unreachable(l) \/ Broken(l)
      PROVE  Catches(l)
  BY <1>1 DEF Aborted, Unreachable, Broken, Catches
<1> QED
  BY <1>1 DEF Next, DaemonOnly

\* What a browser's connection does to the loops: nothing, or a loop starts.
LEMMA SubscribeStarts ==
  ASSUME NEW c \in Clients, Subscribe(c)
  PROVE  \/ Starts(c)
         \/ /\ ~(subscribers = {} /\ ~watchActive)
            /\ UNCHANGED <<watchActive, pc, abortController, backoff>>
<1>1. CASE subscribers = {} /\ ~watchActive
  <2>1. \E l \in Loops : pc[l] = "none"
    BY <1>1 DEF Subscribe
  <2> DEFINE l == CHOOSE k \in Loops : pc[k] = "none"
  <2>2. l \in Loops /\ pc[l] = "none"
    BY <2>1
  <2>3. Open(l) /\ watchActive' = TRUE
    BY <1>1 DEF Subscribe
  <2> QED  BY <1>1, <2>2, <2>3 DEF Starts
<1>2. CASE ~(subscribers = {} /\ ~watchActive)
  BY <1>2 DEF Subscribe
<1> QED
  BY <1>1, <1>2

-----------------------------------------------------------------------------
(* Types. *)

\* The catch block keeps the types.
LEMMA CatchTypes ==
  ASSUME TypeOK, NEW l \in Loops, Catches(l)
  PROVE  TypeOK'
<1> USE BridgeAssumption
<1>1. PICK connection \in BOOLEAN : Catch(l, connection)
  BY DEF Catches
<1>2. Doubled(backoff[l]) \in Nat \ {0}
  BY DEF TypeOK, Doubled
<1>3. pc' \in [Loops -> {"none", "open", "stream", "backoff"}]
  BY <1>1 DEF Catch, TypeOK
<1>4. backoff' \in [Loops -> Nat \ {0}]
  <2>1. \E b \in Nat \ {0} : backoff' = [backoff EXCEPT ![l] = b]
    BY <1>1, <1>2 DEF Catch, TypeOK
  <2> QED  BY <2>1 DEF TypeOK
<1>5. wait' \in [Loops -> Nat \ {0}]
  BY <1>1 DEF Catch, TypeOK
<1>6. known' \in [Clients -> SUBSET Nat]
  <2>1. 1..events \subseteq Nat
    BY DEF TypeOK
  <2> QED  BY <1>1, <2>1 DEF Catch, TypeOK, Refresh
<1>7. queue' \in [Loops -> Seq(Nat)]
  <2>1. <<>> \in Seq(Nat)
    BY EmptySeq
  <2> QED  BY <1>1, <2>1 DEF Catch, TypeOK
<1>8. /\ aborted' \subseteq Loops /\ reg' \subseteq Loops
      /\ UNCHANGED <<subscribers, watchActive, events>>
  BY <1>1 DEF Catch, TypeOK, daemonVars
<1> QED
  BY <1>3, <1>4, <1>5, <1>6, <1>7, <1>8 DEF TypeOK

\* The top of the loop sets the first backoff.
LEMMA OpenSets ==
  ASSUME NEW l, Open(l)
  PROVE  pc' = [pc EXCEPT ![l] = "open"] /\ backoff' = [backoff EXCEPT ![l] = 1]
  BY DEF Open, BackoffAtOpen

\* Back to the top of the loop, or out of it.
LEMMA AgainTypes ==
  ASSUME TypeOK, NEW l \in Loops, Again(l)
  PROVE  /\ pc' \in [Loops -> {"none", "open", "stream", "backoff"}]
         /\ backoff' \in [Loops -> Nat \ {0}]
<1>1. CASE watchActive
  <2>1. Open(l)
    BY <1>1 DEF Again
  <2>2. pc' = [pc EXCEPT ![l] = "open"] /\ backoff' = [backoff EXCEPT ![l] = 1]
    BY <2>1, OpenSets
  <2> QED  BY <2>2 DEF TypeOK
<1>2. CASE ~watchActive
  BY <1>2 DEF Again, TypeOK
<1> QED
  BY <1>1, <1>2

\* Types are kept.
LEMMA BridgeTypeStep ==
  ASSUME TypeOK, [Next]_vars
  PROVE  TypeOK'
<1> USE BridgeAssumption
<1>0. 1..events \subseteq Nat
  BY DEF TypeOK
<1>1. ASSUME NEW c \in Clients, Subscribe(c)
      PROVE  TypeOK'
  <2>1. /\ pc' \in [Loops -> {"none", "open", "stream", "backoff"}]
        /\ backoff' \in [Loops -> Nat \ {0}]
    <3>1. CASE Starts(c)
      <4>1. PICK l \in Loops : Open(l)
        BY <3>1 DEF Starts
      <4>2. pc' = [pc EXCEPT ![l] = "open"] /\ backoff' = [backoff EXCEPT ![l] = 1]
        BY <4>1, OpenSets
      <4> QED  BY <4>2 DEF TypeOK
    <3>2. CASE UNCHANGED <<pc, backoff>>
      BY <3>2 DEF TypeOK
    <3> QED  BY <1>1, <3>1, <3>2, SubscribeStarts
  <2>2. watchActive' \in BOOLEAN
    BY <1>1, SubscribeStarts DEF Starts, TypeOK
  <2>3. /\ subscribers' \subseteq Clients /\ known' \in [Clients -> SUBSET Nat]
        /\ UNCHANGED <<wait, aborted, reg, queue, events>>
    BY <1>0, <1>1 DEF Subscribe, TypeOK, daemonVars, streamVars
  <2> QED  BY <2>1, <2>2, <2>3 DEF TypeOK
<1>2. ASSUME NEW c \in Clients, Unsubscribe(c)
      PROVE  TypeOK'
  <2>1. /\ subscribers' \subseteq Clients /\ known' \in [Clients -> SUBSET Nat]
        /\ UNCHANGED <<reg, queue, events>>
    BY <1>2 DEF Unsubscribe, TypeOK, daemonVars, streamVars
  <2>2. CASE subscribers = {c}
    <3>1. StopNewest /\ watchActive' = FALSE
      BY <1>2, <2>2 DEF Unsubscribe, StopWatch
    <3>2. pc' \in [Loops -> {"none", "open", "stream", "backoff"}]
      BY <3>1 DEF StopNewest, TypeOK
    <3>3. backoff' \in [Loops -> Nat \ {0}] /\ wait' \in [Loops -> Nat \ {0}]
      BY <3>1 DEF StopNewest, TypeOK
    <3>4. aborted' \subseteq Loops
      BY <3>1 DEF StopNewest, TypeOK
    <3> QED  BY <2>1, <3>1, <3>2, <3>3, <3>4 DEF TypeOK
  <2>3. CASE subscribers # {c}
    BY <1>2, <2>1, <2>3 DEF Unsubscribe, TypeOK, loopVars
  <2> QED  BY <2>2, <2>3
<1>3. ASSUME NEW l \in Loops, Register(l)
      PROVE  TypeOK'
  BY <1>3 DEF Register, TypeOK, bridgeVars, daemonVars
<1>4. ASSUME NEW l \in Loops, Deliver(l)
      PROVE  TypeOK'
  <2>1. queue[l] \in Seq(Nat) /\ queue[l] # <<>>
    BY <1>4 DEF Deliver, TypeOK
  <2>2. Head(queue[l]) \in Nat /\ Tail(queue[l]) \in Seq(Nat)
    BY <2>1, HeadTailProperties
  <2>3. queue' \in [Loops -> Seq(Nat)]
    BY <1>4, <2>2 DEF Deliver, TypeOK
  <2>4. known' \in [Clients -> SUBSET Nat]
    BY <1>4, <2>2 DEF Deliver, TypeOK
  <2>5. UNCHANGED <<bridgeVars, loopVars, daemonVars, reg>>
    BY <1>4 DEF Deliver
  <2> QED  BY <2>3, <2>4, <2>5 DEF TypeOK, bridgeVars, loopVars, daemonVars
<1>5. ASSUME NEW l \in Loops, StreamEnds(l) \/ TimerFires(l)
      PROVE  TypeOK'
  <2>1. Again(l) /\ wait' \in [Loops -> Nat \ {0}]
    BY <1>5 DEF StreamEnds, TimerFires, TypeOK
  <2>2. UNCHANGED <<subscribers, watchActive, aborted, events, reg, queue, known>>
    BY <1>5 DEF StreamEnds, TimerFires, daemonVars, streamVars
  <2> QED  BY <2>1, <2>2, AgainTypes DEF TypeOK
<1>6. CASE Broadcast
  <2>1. ASSUME NEW l \in Loops
        PROVE  Append(queue[l], events + 1) \in Seq(Nat)
    BY AppendProperties DEF TypeOK
  <2>2. queue' \in [Loops -> Seq(Nat)] /\ events' \in Nat
    BY <1>6, <2>1 DEF Broadcast, TypeOK
  <2>3. UNCHANGED <<bridgeVars, loopVars, reg, known>>
    BY <1>6 DEF Broadcast
  <2> QED  BY <2>2, <2>3 DEF TypeOK, bridgeVars, loopVars
<1>7. CASE DaemonOnly
  BY <1>7 DEF DaemonOnly, DaemonStops, DaemonStarts, TypeOK, vars, bridgeVars, loopVars,
              daemonVars, streamVars
<1> QED
  BY <1>1, <1>2, <1>3, <1>4, <1>5, <1>6, <1>7, CatchTypes, BridgeSteps


-----------------------------------------------------------------------------
(* The loops. *)

LoopInv == OnWhileSubscribed /\ AbortedInCall /\ FirstBackoff /\ AtWork /\ OnItsWay

\* A browser connects: the loop it starts is a fresh one.
LEMMA SubscribeLoops ==
  ASSUME TypeOK, LoopInv, NEW c \in Clients, Subscribe(c)
  PROVE  LoopInv'
<1>0. UNCHANGED <<wait, aborted, reg, queue>> /\ subscribers' = subscribers \cup {c}
  BY DEF Subscribe, streamVars
<1>1. CASE Starts(c)
  <2>1. PICK l \in Loops : pc[l] = "none" /\ Open(l)
    BY <1>1 DEF Starts
  <2>2. pc' = [pc EXCEPT ![l] = "open"] /\ backoff' = [backoff EXCEPT ![l] = 1]
    BY <2>1, OpenSets
  <2>3. /\ pc'[l] = "open" /\ backoff'[l] = 1
        /\ \A k \in Loops : k # l => pc'[k] = pc[k] /\ backoff'[k] = backoff[k]
    BY <2>2 DEF TypeOK
  <2>4. l \notin aborted /\ l \notin reg /\ queue[l] = <<>>
    BY <2>1 DEF LoopInv, AbortedInCall, OnItsWay
  <2>5. OnWhileSubscribed'
    BY <1>0, <1>1 DEF Starts, OnWhileSubscribed
  <2>6. AbortedInCall'
    BY <1>0, <2>3, <2>4 DEF LoopInv, AbortedInCall, TypeOK
  <2>7. FirstBackoff'
    BY <1>0, <2>3 DEF LoopInv, FirstBackoff
  <2>8. AtWork'
    BY <1>0, <2>3, <2>4 DEF AtWork
  <2>9. OnItsWay'
    BY <1>0, <2>3, <2>4 DEF LoopInv, OnItsWay
  <2> QED  BY <2>5, <2>6, <2>7, <2>8, <2>9 DEF LoopInv
<1>2. ASSUME ~(subscribers = {} /\ ~watchActive),
             UNCHANGED <<watchActive, pc, abortController, backoff>>
      PROVE  LoopInv'
  BY <1>0, <1>2 DEF LoopInv, OnWhileSubscribed, AbortedInCall, FirstBackoff, AtWork, OnItsWay
<1> QED
  BY <1>1, <1>2, SubscribeStarts

\* A browser goes away: the last one switches the bridge off, and only loops
\* that are in their call are told to stop.
LEMMA UnsubscribeLoops ==
  ASSUME TypeOK, LoopInv, NEW c \in Clients, Unsubscribe(c)
  PROVE  LoopInv'
<1>0. UNCHANGED <<reg, queue>> /\ subscribers' = subscribers \ {c} /\ c \in subscribers
  BY DEF Unsubscribe, streamVars
<1>1. CASE subscribers = {c}
  <2>1. watchActive' = FALSE /\ StopNewest
    BY <1>1 DEF Unsubscribe, StopWatch
  <2>2. \A l \in Loops :
          /\ pc'[l] = IF l \in Cleared THEN "none" ELSE pc[l]
          /\ backoff'[l] = IF l \in Cleared THEN 1 ELSE backoff[l]
          /\ wait'[l] = IF l \in Cleared THEN 1 ELSE wait[l]
    BY <2>1 DEF StopNewest
  <2>3. \A l \in Cleared : pc[l] = "backoff" /\ l \in Loops
    BY DEF Cleared
  <2>4. \A l \in aborted' : l \in aborted \/ (l \in Loops /\ pc[l] \in {"open", "stream"})
    BY <2>1 DEF StopNewest
  <2>5. OnWhileSubscribed' /\ AtWork'
    BY <1>0, <1>1, <2>1 DEF OnWhileSubscribed, AtWork
  <2>6. AbortedInCall'
    BY <2>2, <2>3, <2>4 DEF LoopInv, AbortedInCall, TypeOK
  <2>7. FirstBackoff'
    BY <2>2, <2>3 DEF LoopInv, FirstBackoff
  <2>8. OnItsWay'
    BY <1>0, <2>2, <2>3 DEF LoopInv, OnItsWay
  <2> QED  BY <2>5, <2>6, <2>7, <2>8 DEF LoopInv
<1>2. CASE subscribers # {c}
  <2>1. UNCHANGED <<watchActive, pc, backoff, wait, aborted>>
    BY <1>2 DEF Unsubscribe, loopVars
  <2>2. subscribers' # {}
    BY <1>0, <1>2
  <2> QED
    BY <1>0, <2>1, <2>2
    DEF LoopInv, OnWhileSubscribed, AbortedInCall, FirstBackoff, AtWork, OnItsWay
<1> QED
  BY <1>1, <1>2

\* The catch block: the loop waits for one second, or is over when the
\* bridge is off; its call and what was on its way are gone.
LEMMA CatchLoops ==
  ASSUME TypeOK, LoopInv, NEW l \in Loops, Catches(l)
  PROVE  LoopInv'
<1>1. PICK connection \in BOOLEAN : Catch(l, connection)
  BY DEF Catches
<1>2. /\ aborted' = aborted \ {l} /\ reg' = reg \ {l} /\ queue'[l] = <<>>
      /\ \A k \in Loops : k # l => queue'[k] = queue[k] /\ pc'[k] = pc[k]
      /\ UNCHANGED <<subscribers, watchActive>>
  BY <1>1 DEF Catch, TypeOK
<1>3. \A k \in Loops : k # l => backoff'[k] = backoff[k] /\ wait'[k] = wait[k]
  BY <1>1 DEF Catch, TypeOK
<1>4. /\ watchActive => pc'[l] = "backoff"
      /\ ~watchActive => pc'[l] = "none"
  BY <1>1 DEF Catch, TypeOK
<1>5. pc'[l] = "backoff" => wait'[l] = 1
  <2>1. backoff[l] = 1
    BY DEF Catches, LoopInv, FirstBackoff
  <2> QED  BY <1>1, <1>4, <2>1 DEF Catch, TypeOK
<1>6. OnWhileSubscribed'
  BY <1>2 DEF LoopInv, OnWhileSubscribed
<1>7. AbortedInCall'
  BY <1>2 DEF LoopInv, AbortedInCall, TypeOK
<1>8. FirstBackoff'
  BY <1>2, <1>3, <1>4, <1>5 DEF LoopInv, FirstBackoff
<1>9. AtWork'
  BY <1>2, <1>4 DEF AtWork
<1>10. OnItsWay'
  BY <1>2 DEF LoopInv, OnItsWay
<1> QED
  BY <1>6, <1>7, <1>8, <1>9, <1>10 DEF LoopInv

\* The end of a stream or of a wait: the loop opens the next call, or is over
\* when the bridge is off.
LEMMA AgainLoops ==
  ASSUME TypeOK, LoopInv, NEW l \in Loops, StreamEnds(l) \/ TimerFires(l)
  PROVE  LoopInv'
<1>1. /\ Again(l) /\ l \notin aborted /\ l \notin reg /\ queue[l] = <<>>
      /\ UNCHANGED <<subscribers, watchActive, aborted, reg, queue>>
  BY DEF StreamEnds, TimerFires, LoopInv, AbortedInCall, OnItsWay, streamVars
<1>2. \A k \in Loops : k # l => wait'[k] = wait[k]
  BY DEF StreamEnds, TimerFires, TypeOK
<1>3. /\ watchActive => pc' = [pc EXCEPT ![l] = "open"]
      /\ ~watchActive => pc' = [pc EXCEPT ![l] = "none"]
      /\ backoff' = [backoff EXCEPT ![l] = 1]
  BY <1>1, OpenSets DEF Again
<1>4. /\ watchActive => pc'[l] = "open"
      /\ ~watchActive => pc'[l] = "none"
      /\ backoff'[l] = 1
      /\ \A k \in Loops : k # l => pc'[k] = pc[k] /\ backoff'[k] = backoff[k]
  BY <1>3 DEF TypeOK
<1>5. OnWhileSubscribed'
  BY <1>1 DEF LoopInv, OnWhileSubscribed
<1>6. AbortedInCall'
  BY <1>1, <1>4 DEF LoopInv, AbortedInCall, TypeOK
<1>7. FirstBackoff'
  BY <1>2, <1>4 DEF LoopInv, FirstBackoff
<1>8. AtWork'
  BY <1>1, <1>4 DEF AtWork
<1>9. OnItsWay'
  BY <1>1, <1>4 DEF LoopInv, OnItsWay
<1> QED
  BY <1>5, <1>6, <1>7, <1>8, <1>9 DEF LoopInv

\* The loops' half of the invariant is kept.
LEMMA LoopStep ==
  ASSUME TypeOK, LoopInv, [Next]_vars
  PROVE  LoopInv'
<1>1. ASSUME NEW l \in Loops, Register(l)
      PROVE  LoopInv'
  <2>1. /\ pc[l] = "open" /\ pc'[l] = "stream" /\ reg' = reg \cup {l}
        /\ \A k \in Loops : k # l => pc'[k] = pc[k]
        /\ UNCHANGED <<subscribers, watchActive, backoff, wait, aborted, queue>>
    BY <1>1 DEF Register, TypeOK, bridgeVars
  <2>2. OnWhileSubscribed' /\ AtWork'
    BY <2>1 DEF LoopInv, OnWhileSubscribed, AtWork
  <2>3. AbortedInCall'
    BY <2>1 DEF LoopInv, AbortedInCall, TypeOK
  <2>4. FirstBackoff' /\ OnItsWay'
    BY <2>1 DEF LoopInv, FirstBackoff, OnItsWay
  <2> QED  BY <2>2, <2>3, <2>4 DEF LoopInv
<1>2. ASSUME NEW l \in Loops, Deliver(l)
      PROVE  LoopInv'
  <2>1. /\ pc[l] = "stream" /\ \A k \in Loops : k # l => queue'[k] = queue[k]
        /\ UNCHANGED <<subscribers, watchActive, pc, backoff, wait, aborted, reg>>
    BY <1>2 DEF Deliver, TypeOK, bridgeVars, loopVars
  <2> QED
    BY <2>1 DEF LoopInv, OnWhileSubscribed, AbortedInCall, FirstBackoff, AtWork, OnItsWay
<1>3. CASE Broadcast
  <2>1. /\ \A k \in Loops : k \notin reg => queue'[k] = queue[k]
        /\ UNCHANGED <<subscribers, watchActive, pc, backoff, wait, aborted, reg>>
    BY <1>3 DEF Broadcast, TypeOK, bridgeVars, loopVars
  <2> QED
    BY <2>1 DEF LoopInv, OnWhileSubscribed, AbortedInCall, FirstBackoff, AtWork, OnItsWay
<1>4. CASE DaemonOnly
  <2>1. /\ reg' \subseteq reg
        /\ UNCHANGED <<subscribers, watchActive, pc, backoff, wait, aborted, queue>>
    BY <1>4 DEF DaemonOnly, DaemonStops, DaemonStarts, vars, bridgeVars, loopVars, streamVars
  <2> QED
    BY <2>1 DEF LoopInv, OnWhileSubscribed, AbortedInCall, FirstBackoff, AtWork, OnItsWay
<1> QED
  BY <1>1, <1>2, <1>3, <1>4, BridgeSteps, SubscribeLoops, UnsubscribeLoops, CatchLoops,
     AgainLoops


-----------------------------------------------------------------------------
(* The events. *)

\* Event e is on its way to some loop.
Carried(e) == \E l \in Loops : \E i \in 1..Len(queue[l]) : queue[l][i] = e

\* Browser c has event e, or it is on its way, or nothing carried it.
Accounted(c, e) == e \in known[c] \/ e \in unheard \/ Carried(e)

\* An event stays on its way while its queue only grows.
LEMMA CarriedKept ==
  ASSUME TypeOK, NEW e, Carried(e),
         \A l \in Loops : queue'[l] = queue[l] \/ \E n \in Nat : queue'[l] = Append(queue[l], n)
  PROVE  Carried(e)'
<1>1. PICK l \in Loops : \E i \in 1..Len(queue[l]) : queue[l][i] = e
  BY DEF Carried
<1>2. PICK i \in 1..Len(queue[l]) : queue[l][i] = e
  BY <1>1
<1>3. CASE queue'[l] = queue[l]
  BY <1>1, <1>3 DEF Carried
<1>4. ASSUME NEW n \in Nat, queue'[l] = Append(queue[l], n)
      PROVE  Carried(e)'
  <2>1. /\ Len(queue'[l]) = Len(queue[l]) + 1 /\ queue'[l][i] = queue[l][i]
        /\ Len(queue[l]) \in Nat
    BY <1>4, AppendProperties, LenProperties DEF TypeOK
  <2>2. i \in 1..Len(queue'[l]) /\ queue'[l][i] = e
    BY <1>2, <2>1
  <2> QED  BY <2>2 DEF Carried
<1> QED
  BY <1>3, <1>4

\* The event that is delivered is the first of its queue; the others move up.
LEMMA CarriedDelivered ==
  ASSUME TypeOK, NEW l \in Loops, Deliver(l), NEW e, Carried(e), e # Head(queue[l])
  PROVE  Carried(e)'
<1>1. PICK k \in Loops : \E i \in 1..Len(queue[k]) : queue[k][i] = e
  BY DEF Carried
<1>2. PICK i \in 1..Len(queue[k]) : queue[k][i] = e
  BY <1>1
<1>3. CASE k # l
  <2>1. queue'[k] = queue[k]
    BY <1>3 DEF Deliver, TypeOK
  <2> QED  BY <1>1, <2>1 DEF Carried
<1>4. CASE k = l
  <2>1. queue[l] \in Seq(Nat) /\ queue[l] # <<>> /\ queue'[l] = Tail(queue[l])
    BY DEF Deliver, TypeOK
  <2>2. /\ Len(Tail(queue[l])) = Len(queue[l]) - 1 /\ Len(queue[l]) \in Nat
        /\ \A j \in 1..Len(Tail(queue[l])) : Tail(queue[l])[j] = queue[l][j + 1]
        /\ Head(queue[l]) = queue[l][1]
    BY <2>1, HeadTailProperties, LenProperties
  <2>3. i # 1 /\ i - 1 \in 1..(Len(queue[l]) - 1) /\ (i - 1) + 1 = i
    BY <1>2, <1>4, <2>2
  <2>4. i - 1 \in 1..Len(queue'[l]) /\ queue'[l][i - 1] = e
    BY <1>2, <1>4, <2>1, <2>2, <2>3
  <2> QED  BY <2>4 DEF Carried
<1> QED
  BY <1>3, <1>4

\* No step drops an event that a subscribed browser does not have.
LEMMA AccountedStep ==
  ASSUME TypeOK, LoopInv, MissedOnlyWhileDown, [Next]_vars
  PROVE  MissedOnlyWhileDown'
<1>0. \A c \in subscribers, e \in 1..events : Accounted(c, e)
  BY DEF MissedOnlyWhileDown, Accounted, Carried
<1>1. SUFFICES ASSUME NEW c \in Clients, c \in subscribers', NEW e, e \in 1..events'
               PROVE  Accounted(c, e)'
  <2>1. subscribers' \subseteq Clients
    BY BridgeTypeStep DEF TypeOK
  <2>2. \A c \in subscribers' : \A e \in 1..events' : Accounted(c, e)'
    BY <1>1, <2>1
  <2> QED  BY <2>2 DEF MissedOnlyWhileDown, Accounted, Carried
<1>2. ASSUME UNCHANGED <<unheard, queue, events>>, c \in subscribers,
             known[c] \subseteq known'[c]
      PROVE  Accounted(c, e)'
  <2>1. Accounted(c, e)
    BY <1>0, <1>1, <1>2
  <2> QED  BY <1>2, <2>1 DEF Accounted, Carried
<1>3. ASSUME events' = events, known'[c] = 1..events
      PROVE  Accounted(c, e)'
  BY <1>1, <1>3 DEF Accounted
<1>4. ASSUME NEW b \in Clients, Subscribe(b)
      PROVE  Accounted(c, e)'
  <2>1. /\ UNCHANGED <<unheard, queue, events>> /\ subscribers' = subscribers \cup {b}
        /\ b = c => known'[c] = 1..events
        /\ b # c => known'[c] = known[c]
    BY <1>4 DEF Subscribe, TypeOK, daemonVars, streamVars
  <2> QED  BY <1>1, <1>2, <1>3, <2>1
<1>5. ASSUME NEW b \in Clients, Unsubscribe(b)
      PROVE  Accounted(c, e)'
  <2>1. /\ UNCHANGED <<unheard, queue, events>> /\ subscribers' = subscribers \ {b}
        /\ b # c => known'[c] = known[c]
    BY <1>5 DEF Unsubscribe, TypeOK, daemonVars, streamVars
  <2> QED  BY <1>1, <1>2, <2>1
<1>6. ASSUME NEW l \in Loops, Deliver(l)
      PROVE  Accounted(c, e)'
  <2>1. /\ UNCHANGED <<unheard, events, subscribers>>
        /\ known'[c] = known[c] \cup {Head(queue[l])}
    BY <1>1, <1>6 DEF Deliver, SentTo, TypeOK, daemonVars, bridgeVars
  <2>2. Accounted(c, e)
    BY <1>0, <1>1, <2>1
  <2> QED  BY <1>6, <2>1, <2>2, CarriedDelivered DEF Accounted
<1>7. ASSUME NEW l \in Loops, Catches(l)
      PROVE  Accounted(c, e)'
  <2>1. PICK connection \in BOOLEAN : Catch(l, connection)
    BY <1>7 DEF Catches
  <2>2. UNCHANGED <<subscribers, watchActive, events>>
    BY <2>1 DEF Catch, daemonVars
  <2>3. watchActive
    BY <1>1, <2>2 DEF LoopInv, OnWhileSubscribed
  <2>4. known'[c] = 1..events
    BY <1>1, <2>1, <2>2, <2>3 DEF Catch, Refresh
  <2> QED  BY <1>3, <2>2, <2>4
<1>8. ASSUME NEW l \in Loops, Register(l) \/ StreamEnds(l) \/ TimerFires(l)
      PROVE  Accounted(c, e)'
  <2>1. UNCHANGED <<unheard, queue, events, subscribers, known>>
    BY <1>8 DEF Register, StreamEnds, TimerFires, bridgeVars, daemonVars, streamVars
  <2> QED  BY <1>1, <1>2, <2>1
<1>9. CASE Broadcast
  <2>1. /\ events' = events + 1 /\ events \in Nat /\ known' = known
        /\ subscribers' = subscribers /\ unheard \subseteq unheard'
        /\ \A l \in Loops : /\ l \in reg => queue'[l] = Append(queue[l], events + 1)
                            /\ l \notin reg => queue'[l] = queue[l]
        /\ events + 1 \in Nat
    BY <1>9 DEF Broadcast, TypeOK, bridgeVars
  <2>2. CASE e \in 1..events
    <3>1. Accounted(c, e)
      BY <1>0, <1>1, <2>1, <2>2
    <3>2. \A l \in Loops : queue'[l] = queue[l] \/ \E n \in Nat : queue'[l] = Append(queue[l], n)
      BY <2>1
    <3> QED  BY <2>1, <3>1, <3>2, CarriedKept DEF Accounted
  <2>3. CASE e = events + 1
    <3>1. CASE reg = {}
      BY <1>9, <2>3, <3>1 DEF Broadcast, Accounted
    <3>2. CASE reg # {}
      <4>1. PICK l \in Loops : l \in reg
        BY <3>2 DEF TypeOK
      <4>2. queue'[l] = Append(queue[l], e) /\ queue[l] \in Seq(Nat) /\ e \in Nat
        BY <2>1, <2>3, <4>1 DEF TypeOK
      <4>3. /\ Len(queue[l]) \in Nat /\ Len(queue'[l]) = Len(queue[l]) + 1
            /\ queue'[l][Len(queue[l]) + 1] = e
        BY <4>2, AppendProperties, LenProperties
      <4>4. \E i \in 1..Len(queue'[l]) : queue'[l][i] = e
        BY <4>3
      <4> QED  BY <4>4 DEF Accounted, Carried
    <3> QED  BY <3>1, <3>2
  <2> QED  BY <1>1, <2>1, <2>2, <2>3
<1>10. CASE DaemonOnly
  <2>1. UNCHANGED <<unheard, queue, events, subscribers, known>>
    BY <1>10 DEF DaemonOnly, DaemonStops, DaemonStarts, vars, bridgeVars, daemonVars,
                 streamVars
  <2> QED  BY <1>1, <1>2, <2>1
<1> QED
  BY <1>4, <1>5, <1>6, <1>7, <1>8, <1>9, <1>10, BridgeSteps

-----------------------------------------------------------------------------
(* The theorems. *)

\* The invariant: types, loops and events.
LEMMA BridgeInvariant == Spec => []BridgeInv
<1>1. Init => BridgeInv
  <2> SUFFICES ASSUME Init PROVE BridgeInv
    OBVIOUS
  <2>1. TypeOK
    <3>1. <<>> \in Seq(Nat)
      BY EmptySeq
    <3>2. watchActive \in BOOLEAN
      BY DEF Init
    <3>3. /\ subscribers \subseteq Clients /\ aborted \subseteq Loops /\ reg \subseteq Loops
          /\ pc \in [Loops -> {"none", "open", "stream", "backoff"}]
      BY DEF Init
    <3>4. /\ backoff \in [Loops -> Nat \ {0}] /\ wait \in [Loops -> Nat \ {0}]
          /\ events \in Nat
      BY DEF Init
    <3>5. queue \in [Loops -> Seq(Nat)] /\ known \in [Clients -> SUBSET Nat]
      BY <3>1 DEF Init
    <3> QED  BY <3>2, <3>3, <3>4, <3>5 DEF TypeOK
  <2>2. /\ OnWhileSubscribed /\ AbortedInCall /\ FirstBackoff /\ AtWork /\ OnItsWay
        /\ MissedOnlyWhileDown
    BY DEF Init, OnWhileSubscribed, AbortedInCall, FirstBackoff, AtWork, OnItsWay,
           MissedOnlyWhileDown
  <2> QED  BY <2>1, <2>2 DEF BridgeInv
<1>2. BridgeInv /\ [Next]_vars => BridgeInv'
  BY BridgeTypeStep, LoopStep, AccountedStep DEF BridgeInv, LoopInv
<1> QED
  BY <1>1, <1>2, PTL DEF Spec

\* However connects, disconnects, aborts, timers and restarts interleave: the
\* bridge is on exactly while somebody subscribes, a loop is then at work that
\* was not told to stop, and a loop that waits does so for one second.
THEOREM BridgeServes == Spec => []Served
<1>1. BridgeInv => Served
  BY DEF BridgeInv, OnWhileSubscribed, AtWork, FirstBackoff, Served
<1> QED
  BY <1>1, BridgeInvariant, PTL

\* An event that any stream carried is shown to a subscribed browser, on its
\* way to it, or covered by a refresh.
THEOREM NothingMissedUnnoticed == Spec => []MissedOnlyWhileDown
<1>1. BridgeInv => MissedOnlyWhileDown
  BY DEF BridgeInv
<1> QED
  BY <1>1, BridgeInvariant, PTL

\* "On its way" means something: a queue with events in it, and a receiver in
\* the daemon, belong to a loop that reads its stream.
THEOREM QueuesAreRead == Spec => []OnItsWay
<1>1. BridgeInv => OnItsWay
  BY DEF BridgeInv
<1> QED
  BY <1>1, BridgeInvariant, PTL

=============================================================================
