------------------------------ MODULE Forwarding ------------------------------
(***************************************************************************)
(* One tunnel and the connections it forwards (crates/daemon/tunnel.rs):   *)
(* the accept loop and its connection limit, the two copy loops of each    *)
(* connection, the shutdown flag, the SSH session under them, and the      *)
(* health task that probes the listener and replaces a dead task.          *)
(*                                                                         *)
(* Each task that was ever started for the tunnel has a number: 1 is the   *)
(* one of start_tunnel, every successful reconnection starts the next one. *)
(* A task has its own listener, shutdown flag, counter and SSH session;    *)
(* its connections are tasks of their own and outlive it.  How stop and    *)
(* reconnection interleave with calls is the subject of Portd; here they   *)
(* meet the connections.                                                   *)
(***************************************************************************)
EXTENDS Naturals, FiniteSets

CONSTANTS
  Conns,          \* TCP connections to the port, of clients and of the probe
  MaxConnections, \* max_connections_per_tunnel
  MaxReconnects,  \* max_reconnect_attempts
  Window          \* connection, direction -> bound: bytes waiting to be read

Directions == {"up", "down"}    \* client to server, server to client

ASSUME ForwardingAssumption ==
  /\ MaxConnections \in Nat \ {0} /\ MaxReconnects \in Nat
  /\ Window \in [Conns -> [Directions -> Nat]]
  /\ IsFiniteSet(Conns)

Tasks  == 1..(MaxReconnects + 1)
NoTask == 0

VARIABLES
  \* The tunnel.
  stopped,   \* stop_tunnel has removed the map entry
  current,   \* the last task started
  listener,  \* the task whose listener is bound to the port, or NoTask
  shutdown,  \* tasks whose shutdown flag is set
  broken,    \* tasks whose SSH session has ended
  active,    \* task -> active_connections
  alive,     \* TunnelHealthInfo::alive
  attempts,  \* TunnelHealthInfo::reconnect_count
  retrying,  \* attempt_reconnections has this tunnel as a candidate
  \* The connections.
  pc,        \* waiting (not made yet), opening, open, ended; refused, failed
             \* (no channel), reset (by the client)
  task,      \* the task that accepted it
  pending,   \* direction -> bytes sent and not read by the copy loop
  buf,       \* direction -> bytes in the buffer of the copy loop
  owed,      \* direction -> bytes sent and not written to the other side
  closed     \* direction -> the sender has closed its side

tunnelVars == <<stopped, current, listener, shutdown, broken, alive, attempts, retrying>>
dataVars   == <<pending, buf, owed, closed>>
vars       == <<stopped, current, listener, shutdown, broken, active, alive,
                attempts, retrying, pc, task, pending, buf, owed, closed>>

\* start_tunnel has succeeded.
Init ==
  /\ stopped = FALSE /\ current = 1 /\ listener = 1
  /\ shutdown = {} /\ broken = {} /\ active = [t \in Tasks |-> 0]
  /\ alive = TRUE /\ attempts = 0 /\ retrying = FALSE
  /\ pc = [c \in Conns |-> "waiting"] /\ task = [c \in Conns |-> NoTask]
  /\ pending = [c \in Conns |-> [d \in Directions |-> 0]]
  /\ buf = [c \in Conns |-> [d \in Directions |-> 0]]
  /\ owed = [c \in Conns |-> [d \in Directions |-> 0]]
  /\ closed = [c \in Conns |-> [d \in Directions |-> FALSE]]

-----------------------------------------------------------------------------
(* The accept loop. *)

\* The limit is compared with the counter of this task; a connection over it
\* is dropped, the others get a task of their own.
Accept(c) ==
  /\ pc[c] = "waiting" /\ listener # NoTask
  /\ \/ /\ active[listener] >= MaxConnections
        /\ pc' = [pc EXCEPT ![c] = "refused"]
        /\ UNCHANGED <<task, active>>
     \/ /\ active[listener] < MaxConnections
        /\ pc' = [pc EXCEPT ![c] = "opening"]
        /\ task' = [task EXCEPT ![c] = listener]
        /\ active' = [active EXCEPT ![listener] = @ + 1]
  /\ UNCHANGED <<tunnelVars, dataVars>>

\* accept() fails: the loop ends and says so in the health record.
AcceptError ==
  /\ listener # NoTask
  /\ listener' = NoTask
  /\ alive' = FALSE
  /\ UNCHANGED <<stopped, current, shutdown, broken, attempts, retrying, active,
                 pc, task, dataVars>>

-----------------------------------------------------------------------------
(* forward_one. *)

\* The task of the connection ends: with a result, or an error that is
\* logged; either way the counter goes down.
Ends(c, how) ==
  /\ pc' = [pc EXCEPT ![c] = how]
  /\ active' = [active EXCEPT ![task[c]] = @ - 1]

\* Mutant: the copy loops do not look at the flag.
NeverStopping(c) == FALSE

\* shutdown.load(), at the top of the copy loops.
Stopping(c) == task[c] \in shutdown

\* channel_open_direct_tcpip succeeds; a loop that finds the flag set ends at
\* once, and with it the connection.
ChannelOpen(c) ==
  /\ pc[c] = "opening" /\ task[c] \notin broken
  /\ \/ Stopping(c) /\ Ends(c, "ended")
     \/ ~Stopping(c) /\ pc' = [pc EXCEPT ![c] = "open"] /\ UNCHANGED active
  /\ UNCHANGED <<tunnelVars, task, dataVars>>

\* Mutant: "?" on the channel returns before the counter goes down.
ChannelFailKeepsCount(c) ==
  /\ pc[c] = "opening"
  /\ pc' = [pc EXCEPT ![c] = "failed"]
  /\ UNCHANGED <<tunnelVars, active, task, dataVars>>

\* It fails: the target refuses, or there is no SSH session any more.
ChannelFail(c) ==
  /\ pc[c] = "opening"
  /\ Ends(c, "failed")
  /\ UNCHANGED <<tunnelVars, task, dataVars>>

\* A copy loop reads what has arrived.
CopyRead(c, d) ==
  /\ pc[c] = "open" /\ task[c] \notin broken
  /\ buf[c][d] = 0 /\ pending[c][d] > 0
  /\ buf' = [buf EXCEPT ![c][d] = pending[c][d]]
  /\ pending' = [pending EXCEPT ![c][d] = 0]
  /\ UNCHANGED <<tunnelVars, active, pc, task, owed, closed>>

\* Mutant: write, which may take a part of the buffer only.
WrittenPart(n) == 1

\* write_all: the whole buffer.
Written(n) == n

\* It writes, and looks at the flag before it reads again.
CopyWrite(c, d) ==
  /\ pc[c] = "open" /\ task[c] \notin broken
  /\ buf[c][d] > 0
  /\ owed' = [owed EXCEPT ![c][d] = @ - Written(buf[c][d])]
  /\ buf' = [buf EXCEPT ![c][d] = 0]
  /\ \/ Stopping(c) /\ Ends(c, "ended")
     \/ ~Stopping(c) /\ UNCHANGED <<pc, active>>
  /\ UNCHANGED <<tunnelVars, task, pending, closed>>

\* End of file.  The first loop to end ends the connection (select!), whatever
\* the other one still has to do.
CopyEof(c, d) ==
  /\ pc[c] = "open"
  /\ closed[c][d] /\ pending[c][d] = 0 /\ buf[c][d] = 0
  /\ Ends(c, "ended")
  /\ UNCHANGED <<tunnelVars, task, dataVars>>

\* The SSH session is gone: reads and writes of the channel fail.
CopyBroken(c) ==
  /\ pc[c] = "open" /\ task[c] \in broken
  /\ Ends(c, "ended")
  /\ UNCHANGED <<tunnelVars, task, dataVars>>

-----------------------------------------------------------------------------
(* The two ends of a connection. *)

\* A byte arrives at the daemon.
Arrive(c, d) ==
  /\ pc[c] = "open" /\ ~closed[c][d] /\ pending[c][d] < Window[c][d]
  /\ pending' = [pending EXCEPT ![c][d] = @ + 1]
  /\ owed' = [owed EXCEPT ![c][d] = @ + 1]
  /\ UNCHANGED <<tunnelVars, active, pc, task, buf, closed>>

\* A side closes its direction; the other direction may still be in use.
HalfClose(c, d) ==
  /\ pc[c] = "open" /\ ~closed[c][d]
  /\ closed' = [closed EXCEPT ![c][d] = TRUE]
  /\ UNCHANGED <<tunnelVars, active, pc, task, pending, buf, owed>>

\* The client resets the connection: reads and writes of it fail.
Reset(c) ==
  /\ pc[c] = "open"
  /\ Ends(c, "reset")
  /\ UNCHANGED <<tunnelVars, task, dataVars>>

\* An SSH session ends: the VM goes down, keepalives stay unanswered.
SessionEnds(t) ==
  /\ t <= current /\ t \notin broken
  /\ broken' = broken \cup {t}
  /\ UNCHANGED <<stopped, current, listener, shutdown, active, alive, attempts,
                 retrying, pc, task, dataVars>>

-----------------------------------------------------------------------------
(* The tunnel manager. *)

\* stop_tunnel: the flag, and the accept loop is aborted.
StopTunnel ==
  /\ ~stopped
  /\ stopped' = TRUE
  /\ shutdown' = shutdown \cup {current}
  /\ listener' = NoTask
  /\ UNCHANGED <<current, broken, active, alive, attempts, retrying, pc, task,
                 dataVars>>

\* Mutant: the probe takes the map entry for an answer.
ProbeLetsBe == ~stopped

\* tcp_health_probe: somebody accepts connections on the port.
Probe == listener # NoTask

\* A health round: the answer of the probe, then the candidates.
HealthRound(answer) ==
  /\ ~stopped /\ ~retrying
  /\ alive' = answer
  /\ retrying' = (~answer /\ attempts < MaxReconnects)
  /\ UNCHANGED <<stopped, current, listener, shutdown, broken, active, attempts,
                 pc, task, dataVars>>

\* Mutant: only failures are counted.
ReconnectUpUncounted ==
  /\ retrying /\ retrying' = FALSE
  /\ listener = NoTask /\ current + 1 \in Tasks
  /\ current' = current + 1 /\ listener' = current + 1
  /\ \/ stopped /\ UNCHANGED <<shutdown, alive>>
     \/ ~stopped /\ shutdown' = shutdown \cup {current} /\ alive' = TRUE
  /\ UNCHANGED <<stopped, broken, active, attempts, pc, task, dataVars>>

\* SSH connects and the port can be bound, which takes that no listener has
\* it.  The entry, if there is one, takes the new task over: flag of the old
\* one, attempt counted.
ReconnectUp ==
  /\ retrying /\ retrying' = FALSE
  /\ listener = NoTask /\ current + 1 \in Tasks
  /\ current' = current + 1 /\ listener' = current + 1
  /\ \/ stopped /\ UNCHANGED <<shutdown, attempts, alive>>
     \/ /\ ~stopped
        /\ shutdown' = shutdown \cup {current}
        /\ attempts' = attempts + 1
        /\ alive' = TRUE
  /\ UNCHANGED <<stopped, broken, active, pc, task, dataVars>>

\* SSH or the bind fails.
ReconnectFail ==
  /\ retrying /\ retrying' = FALSE
  /\ attempts' = IF stopped THEN attempts ELSE attempts + 1
  /\ UNCHANGED <<stopped, current, listener, shutdown, broken, active, alive,
                 pc, task, dataVars>>

-----------------------------------------------------------------------------

Copy(c, d) == CopyRead(c, d) \/ CopyWrite(c, d) \/ CopyEof(c, d)

Next ==
  \/ AcceptError \/ StopTunnel \/ ReconnectUp \/ ReconnectFail
  \/ HealthRound(Probe)
  \/ HealthRound(FALSE)                 \* the probe times out
  \/ \E t \in Tasks : SessionEnds(t)
  \/ \E c \in Conns :
       \/ Accept(c) \/ ChannelOpen(c) \/ ChannelFail(c) \/ CopyBroken(c) \/ Reset(c)
       \/ \E d \in Directions : Copy(c, d) \/ Arrive(c, d) \/ HalfClose(c, d)

Spec == Init /\ [][Next]_vars

\* The runtime polls the tasks that can go on, peers read what is sent to
\* them, the health timer ticks, and a reconnection ends one way or the other.
\* Nothing is assumed of what clients and servers send or when they close, nor
\* that a probe times out.
Fairness ==
  /\ \A c \in Conns :
       /\ WF_vars(ChannelOpen(c) \/ ChannelFail(c))
       /\ WF_vars(CopyBroken(c))
       /\ \A d \in Directions : WF_vars(Copy(c, d))
  /\ WF_vars(HealthRound(Probe)) /\ WF_vars(ReconnectUp \/ ReconnectFail)

FairSpec == Spec /\ Fairness

-----------------------------------------------------------------------------
(* Safety. *)

InUse(t) == {c \in Conns : task[c] = t /\ pc[c] \in {"opening", "open"}}

\* The counter of a task is the number of its connections that are in use,
\* whichever way they end, and never over the limit: a connection that failed
\* to open does not take up a place for ever.
CounterExact ==
  \A t \in Tasks : active[t] = Cardinality(InUse(t)) /\ active[t] <= MaxConnections

\* Connections of replaced tasks are not counted by their successors, so the
\* limit of a tunnel grows with each reconnection, and with nothing else: the
\* listener left behind by a stop counts as one.
TunnelBound ==
  Cardinality(UNION {InUse(t) : t \in Tasks})
    <= MaxConnections * (attempts + (IF stopped THEN 2 ELSE 1))

\* A forwarded connection ends because its tunnel was stopped or its session
\* ended, or because one side has closed and all it sent has arrived at the
\* other.  (What the other side sent may be cut off: select!.)
EndsComplete ==
  \A c \in Conns : pc[c] = "ended" =>
    \/ task[c] \in shutdown \cup broken
    \/ \E d \in Directions : closed[c][d] /\ owed[c][d] = 0

-----------------------------------------------------------------------------
(* Liveness, under Fairness. *)

\* A connection of a stopped or replaced task does not outlive the data on
\* its way through it: the copy loop sees the flag after one more write.
BusyConnectionEnds ==
  \A c \in Conns :
    (pc[c] = "open" /\ task[c] \in shutdown /\ \E d \in Directions : pending[c][d] + buf[c][d] > 0)
      ~> pc[c] # "open"

\* "Dead tunnels are reconnected with exponential backoff (up to 5 attempts)"
\* (README): a tunnel that lost its listener gets a new one, is stopped, or
\* uses its attempts up.
ListenerRecovers ==
  (~stopped /\ listener = NoTask)
    ~> (stopped \/ listener # NoTask \/ attempts = MaxReconnects)

\* The same of a tunnel that lost its SSH session, and forwards nothing.
SessionRecovers ==
  (~stopped /\ current \in broken)
    ~> (stopped \/ current \notin broken \/ attempts = MaxReconnects)
=============================================================================
