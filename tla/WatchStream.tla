----------------------------- MODULE WatchStream -----------------------------
(***************************************************************************)
(* The Watch call: the broker's broadcast channel of state changes, the    *)
(* task that each call spawns, and the bounded channel from that task to   *)
(* the client (broker.rs, grpc.rs "watch", main.rs for expiries).          *)
(*                                                                         *)
(* log is every event ever broadcast; the ring keeps the last Capacity of  *)
(* them.  A position in log names an event, so that what a watcher was     *)
(* sent is a sequence of positions, and what it missed is a set of them.   *)
(***************************************************************************)
EXTENDS Naturals, Sequences

CONSTANTS
  Watchers,     \* calls of Watch
  Reservations, \* reservation ids
  Owners,       \* owner strings ...
  HostOwners,   \* ... starting with "host:"
  OwnerOf,      \* id -> owner
  Blank,        \* String::new(), the owner of expiry events
  Filters,      \* owner filters: the strings that start with the filter; the
                \* absent one is all of them, Blank included
  Capacity,     \* broadcast::channel(256)
  Buffer,       \* mpsc::channel(64)
  MaxEvents     \* bound: events ever sent

ASSUME WatchAssumption ==
  /\ Capacity \in Nat \ {0} /\ Buffer \in Nat \ {0} /\ MaxEvents \in Nat
  /\ Blank \notin Owners /\ HostOwners \subseteq Owners
  /\ OwnerOf \in [Reservations -> Owners]
  /\ Filters \subseteq SUBSET (Owners \cup {Blank})

VARIABLES
  row,     \* id -> the state the daemon last announced, absent before the first
  log,     \* the events in the order of broadcast: id, owner, old, new
  \* per call of Watch:
  pc,      \* its task: off, recv (waiting for an event), send, gone
  filter,  \* its owner filter
  from,    \* the first position after its subscription
  next,    \* the position the receiver reads next
  lost,    \* the positions it was told to have missed
  held,    \* the position being sent, while the task is at send
  sent,    \* the positions put into the mpsc channel, oldest first
  taken,   \* how many of them the client has read
  open     \* is the client still there?

taskVars == <<pc, filter, from, next, lost, held, sent, taken, open>>
vars     == <<row, log, pc, filter, from, next, lost, held, sent, taken, open>>

-----------------------------------------------------------------------------
(* Events. *)

LiveStates == {"pending", "active", "failed"}
NoFilter   == Owners \cup {Blank}

\* Mutant: the numbers start at 0.
ToProtoFromZero(s) ==
  CASE s = "pending"  -> 0
    [] s = "active"   -> 1
    [] s = "failed"   -> 2
    [] s = "released" -> 3
    [] OTHER          -> 0

\* ReservationState::from_sql(..).map(to_proto).unwrap_or(0).
ToProto(s) ==
  CASE s = "pending"  -> 1
    [] s = "active"   -> 2
    [] s = "failed"   -> 3
    [] s = "released" -> 4
    [] OTHER          -> 0

\* state_name of portctl, on the numbers of the protocol.
StateName(n) ==
  CASE n = 1 -> "pending"
    [] n = 2 -> "active"
    [] n = 3 -> "failed"
    [] n = 4 -> "released"
    [] OTHER -> "unknown"

\* The ReservationEvent a watcher gets for the event at position n.
ProtoEvent(n) ==
  [id |-> log[n].id, old |-> ToProto(log[n].old), new |-> ToProto(log[n].new)]

\* event.owner.starts_with(filter).
Passes(w, n) == log[n].owner \in filter[w]

Init ==
  /\ row = [i \in Reservations |-> "absent"]
  /\ log = <<>>
  /\ pc = [w \in Watchers |-> "off"]
  /\ filter = [w \in Watchers |-> {}]
  /\ from = [w \in Watchers |-> 0] /\ next = [w \in Watchers |-> 0]
  /\ lost = [w \in Watchers |-> {}] /\ held = [w \in Watchers |-> 0]
  /\ sent = [w \in Watchers |-> <<>>] /\ taken = [w \in Watchers |-> 0]
  /\ open = [w \in Watchers |-> FALSE]

-----------------------------------------------------------------------------
(* The daemon announces state changes. *)

\* event_tx.send: never waits, overwrites the oldest event of a full ring.
Emit(i, owner, old, new) ==
  /\ Len(log) < MaxEvents
  /\ log' = Append(log, [id |-> i, owner |-> owner, old |-> old, new |-> new])
  /\ row' = [row EXCEPT ![i] = new]
  /\ UNCHANGED taskVars

Host(i) == OwnerOf[i] \in HostOwners

\* Broker::reserve: a new row.
Reserved(i) ==
  /\ row[i] = "absent"
  /\ Emit(i, OwnerOf[i], "unspecified", IF Host(i) THEN "active" ELSE "pending")

\* Broker::update_state after the start of a tunnel, whatever the state is.
Updated(i) ==
  /\ row[i] # "absent" /\ ~Host(i)
  /\ \E s \in {"active", "failed"} : Emit(i, OwnerOf[i], row[i], s)

\* Broker::do_release.
Released(i) ==
  /\ row[i] \in LiveStates
  /\ Emit(i, OwnerOf[i], row[i], "released")

\* The teardown task of main: no owner, and "active" whatever the state was.
Expired(i) ==
  /\ row[i] \in {"pending", "active"}
  /\ Emit(i, Blank, "active", "released")

-----------------------------------------------------------------------------
(* A call of Watch. *)

\* broker.subscribe(), the channel and the task.
Watch(w) ==
  /\ pc[w] = "off"
  /\ \E f \in Filters : filter' = [filter EXCEPT ![w] = f]
  /\ pc' = [pc EXCEPT ![w] = "recv"]
  /\ from' = [from EXCEPT ![w] = Len(log) + 1]
  /\ next' = [next EXCEPT ![w] = Len(log) + 1]
  /\ open' = [open EXCEPT ![w] = TRUE]
  /\ UNCHANGED <<row, log, lost, held, sent, taken>>

\* Mutant: a lagging receiver goes on at the newest event.
OldestKeptNewest == Len(log)

\* The oldest position the ring still has.
OldestKept == IF Len(log) < Capacity THEN 1 ELSE Len(log) - Capacity + 1

\* Mutant: lag ends the task.
RecvLaggedEnds(w) ==
  /\ pc[w] = "recv" /\ next[w] < OldestKept
  /\ pc' = [pc EXCEPT ![w] = "gone"]
  /\ UNCHANGED <<row, log, filter, from, next, lost, held, sent, taken, open>>

\* RecvError::Lagged: the overwritten events are gone, the receiver goes on
\* at the oldest one left, and the task only logs a warning.
RecvLagged(w) ==
  /\ pc[w] = "recv" /\ next[w] < OldestKept
  /\ next' = [next EXCEPT ![w] = OldestKept]
  /\ lost' = [lost EXCEPT ![w] = @ \cup (next[w]..(OldestKept - 1))]
  /\ UNCHANGED <<row, log, pc, filter, from, held, sent, taken, open>>

\* An event, which the filter drops or the task goes on to send.
RecvEvent(w) ==
  /\ pc[w] = "recv" /\ next[w] >= OldestKept /\ next[w] <= Len(log)
  /\ next' = [next EXCEPT ![w] = @ + 1]
  /\ \/ ~Passes(w, next[w]) /\ UNCHANGED <<pc, held>>
     \/ /\ Passes(w, next[w])
        /\ held' = [held EXCEPT ![w] = next[w]]
        /\ pc' = [pc EXCEPT ![w] = "send"]
  /\ UNCHANGED <<row, log, filter, from, lost, sent, taken, open>>

\* Mutant: try_send, a full channel drops the event.
SendEventTry(w) ==
  /\ pc[w] = "send" /\ open[w]
  /\ sent' = IF Len(sent[w]) - taken[w] < Buffer
             THEN [sent EXCEPT ![w] = Append(@, held[w])] ELSE sent
  /\ pc' = [pc EXCEPT ![w] = "recv"]
  /\ UNCHANGED <<row, log, filter, from, next, lost, held, taken, open>>

\* tx.send(..).await: waits for room in the channel.
SendEvent(w) ==
  /\ pc[w] = "send" /\ open[w]
  /\ Len(sent[w]) - taken[w] < Buffer
  /\ sent' = [sent EXCEPT ![w] = Append(@, held[w])]
  /\ pc' = [pc EXCEPT ![w] = "recv"]
  /\ UNCHANGED <<row, log, filter, from, next, lost, held, taken, open>>

\* Mutant: the channel outlives the client, the send does not fail.
SendFailsNever(w) ==
  /\ pc[w] = "send" /\ ~open[w]
  /\ Len(sent[w]) - taken[w] < Buffer
  /\ sent' = [sent EXCEPT ![w] = Append(@, held[w])]
  /\ pc' = [pc EXCEPT ![w] = "recv"]
  /\ UNCHANGED <<row, log, filter, from, next, lost, held, taken, open>>

\* tx.send fails because the client is gone: the task ends.
SendFails(w) ==
  /\ pc[w] = "send" /\ ~open[w]
  /\ pc' = [pc EXCEPT ![w] = "gone"]
  /\ UNCHANGED <<row, log, filter, from, next, lost, held, sent, taken, open>>

\* The client reads an event from the stream.
Take(w) ==
  /\ open[w] /\ taken[w] < Len(sent[w])
  /\ taken' = [taken EXCEPT ![w] = @ + 1]
  /\ UNCHANGED <<row, log, pc, filter, from, next, lost, held, sent, open>>

\* The client goes away; the task finds out at its next send.
Close(w) ==
  /\ open[w]
  /\ open' = [open EXCEPT ![w] = FALSE]
  /\ UNCHANGED <<row, log, pc, filter, from, next, lost, held, sent, taken>>

-----------------------------------------------------------------------------

Task(w) == RecvLagged(w) \/ RecvEvent(w) \/ SendEvent(w) \/ SendFails(w)

Next ==
  \/ \E i \in Reservations : Reserved(i) \/ Updated(i) \/ Released(i) \/ Expired(i)
  \/ \E w \in Watchers : Watch(w) \/ Task(w) \/ Take(w) \/ Close(w)

Spec == Init /\ [][Next]_vars

\* The runtime polls every task that can go on; a client that stays reads.
FairSpec == Spec /\ \A w \in Watchers : WF_vars(Task(w)) /\ WF_vars(Take(w))

-----------------------------------------------------------------------------
(* Safety. *)

\* What the task of w has accepted so far.
Accepted(w) ==
  IF pc[w] = "send" THEN Append(sent[w], held[w]) ELSE sent[w]

\* Exactly once, in order: what a watcher is sent are the events since its
\* subscription that pass its filter, in the order of broadcast, without
\* repetition, and without a gap other than the events it lagged behind,
\* however the waits for the channel and the broadcasts interleave.
DeliveredExactly ==
  \A w \in Watchers : pc[w] # "gone" =>
    /\ \A k \in 1..(Len(Accepted(w)) - 1) : Accepted(w)[k] < Accepted(w)[k + 1]
    /\ {Accepted(w)[k] : k \in DOMAIN Accepted(w)} =
         {n \in from[w]..(next[w] - 1) : n \notin lost[w] /\ Passes(w, n)}

\* Lag costs the oldest events: at any time the latest Capacity events are
\* not among the lost ones, so that after a burst a slow watcher still gets
\* to the newest state changes.
NewestKept ==
  \A w \in Watchers : \A n \in lost[w] : n + Capacity <= Len(log)

Last(S)   == CHOOSE n \in S : \A k \in S : k <= n
Caught(w) == /\ open[w] /\ pc[w] = "recv" /\ next[w] > Len(log)
             /\ taken[w] = Len(sent[w])

\* A watcher that is up to date and never lagged can tell the state of every
\* reservation its filter selects and that changed since it subscribed, from
\* the last event it got for it and portctl's names of the states.  The one
\* exception is an expired reservation under a filter: its event has no
\* owner, passes no filter, and the watcher goes on believing what it knew.
KnowsUnlessExpired ==
  \A w \in Watchers, i \in Reservations :
    LET changes == {n \in from[w]..Len(log) : log[n].id = i}
        heard   == {sent[w][k] : k \in 1..taken[w]} \cap changes
    IN  Caught(w) /\ lost[w] = {} /\ OwnerOf[i] \in filter[w] /\ changes # {} =>
          \/ /\ heard # {}
             /\ StateName(ProtoEvent(Last(heard)).new) = row[i]
          \/ /\ log[Last(changes)].owner = Blank /\ Blank \notin filter[w]
             /\ row[i] = "released"

-----------------------------------------------------------------------------
(* Liveness, under FairSpec. *)

\* An event that passes the filter of a watcher is read by it, or lost to
\* lag, or the watcher leaves: it never gets stuck between the channels.
EventArrives ==
  \A w \in Watchers, n \in 1..MaxEvents :
    (pc[w] \in {"recv", "send"} /\ from[w] <= n /\ n <= Len(log) /\ Passes(w, n))
      ~> (\/ ~open[w] \/ n \in lost[w]
          \/ \E k \in 1..taken[w] : sent[w][k] = n)

\* The task of a client without a filter that went away ends at the next
\* event.  (With a filter it lives on until an event passes.)
UnfilteredTaskEnds ==
  \A w \in Watchers :
    (pc[w] # "off" /\ ~open[w] /\ filter[w] = NoFilter /\ next[w] <= Len(log))
      ~> pc[w] = "gone"
=============================================================================
