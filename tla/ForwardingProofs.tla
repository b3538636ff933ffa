-------------------------- MODULE ForwardingProofs --------------------------
(***************************************************************************)
(* Theorems about Forwarding, for any number of connections, any limit,    *)
(* any number of reconnection attempts and any amount of data: the         *)
(* counter, the bound on the connections of a tunnel, and how a forwarded  *)
(* connection ends.                                                        *)
(***************************************************************************)
EXTENDS Forwarding, FiniteSetTheorems, TLAPS

Used    == {"opening", "open"}
PcTypes == Used \cup {"waiting", "ended", "refused", "failed", "reset"}

TunnelTypes ==
  /\ stopped \in BOOLEAN /\ alive \in BOOLEAN /\ retrying \in BOOLEAN
  /\ current \in Tasks /\ attempts \in Nat
  /\ listener \in {NoTask, current}
  /\ shutdown \subseteq Tasks /\ broken \subseteq Tasks

ConnTypes ==
  /\ active \in [Tasks -> Nat]
  /\ pc \in [Conns -> PcTypes] /\ task \in [Conns -> Tasks \cup {NoTask}]

DataTypes ==
  /\ pending \in [Conns -> [Directions -> Nat]]
  /\ buf \in [Conns -> [Directions -> Nat]]
  /\ owed \in [Conns -> [Directions -> Nat]]
  /\ closed \in [Conns -> [Directions -> BOOLEAN]]

TypeOK == TunnelTypes /\ ConnTypes /\ DataTypes

\* A connection in use was accepted by a task that has been started.
AcceptedByTask ==
  \A c \in Conns : pc[c] \in Used => task[c] \in 1..current

\* What was sent and not written is waiting to be read or in the buffer.
BytesAccounted ==
  \A c \in Conns, d \in Directions : owed[c][d] = pending[c][d] + buf[c][d]

\* The connections in use that replaced tasks have left behind.
LeftBehind == {c \in Conns : pc[c] \in Used /\ task[c] < current}

\* Each replaced task left at most its limit behind.
LeftBound == Cardinality(LeftBehind) <= MaxConnections * (current - 1)

\* Each task but the first took an attempt, save the one that a stop let
\* through in the middle of its reconnection.
TasksCounted ==
  /\ ~stopped \/ retrying => current <= attempts + 1
  /\ current <= attempts + 2

ForwardInv ==
  /\ TypeOK /\ AcceptedByTask /\ BytesAccounted
  /\ CounterExact /\ LeftBound /\ TasksCounted /\ EndsComplete

-----------------------------------------------------------------------------
(* The kinds of steps, by what they do to the connections in use. *)

\* A connection is accepted under the limit.
Enters(c) ==
  /\ pc[c] = "waiting" /\ listener # NoTask /\ active[listener] < MaxConnections
  /\ pc' = [pc EXCEPT ![c] = "opening"]
  /\ task' = [task EXCEPT ![c] = listener]
  /\ active' = [active EXCEPT ![listener] = @ + 1]

\* A connection in use ends.
Leaves(c, how) ==
  /\ pc[c] \in Used /\ how \in {"ended", "failed", "reset"}
  /\ Ends(c, how) /\ UNCHANGED task

\* A connection is refused, or its channel is open: no counter changes.
Moves(c) ==
  /\ UNCHANGED <<active, task>>
  /\ \/ pc[c] = "waiting" /\ pc' = [pc EXCEPT ![c] = "refused"]
     \/ pc[c] = "opening" /\ pc' = [pc EXCEPT ![c] = "open"]

\* A step of the connections, which leaves the tunnel alone.
ConnStep ==
  /\ UNCHANGED tunnelVars
  /\ \/ \E c \in Conns : Enters(c) \/ Moves(c)
     \/ \E c \in Conns, how \in PcTypes : Leaves(c, how)
     \/ UNCHANGED <<pc, task, active>>

\* A step of the tunnel, which leaves the connections alone.
TunnelStep ==
  /\ UNCHANGED <<pc, task, active, dataVars>>
  /\ \/ AcceptError \/ StopTunnel \/ ReconnectUp \/ ReconnectFail
     \/ \E answer \in BOOLEAN : HealthRound(answer)
     \/ \E t \in Tasks : SessionEnds(t)

\* Every step is one of the two.
LEMMA ForwardSteps ==
  ASSUME [Next]_vars
  PROVE  ConnStep \/ TunnelStep
<1>1. CASE AcceptError \/ StopTunnel \/ ReconnectUp \/ ReconnectFail
  BY <1>1 DEF TunnelStep, AcceptError, StopTunnel, ReconnectUp, ReconnectFail, dataVars
<1>2. ASSUME NEW answer \in BOOLEAN, HealthRound(answer)
      PROVE  TunnelStep
  BY <1>2 DEF TunnelStep, HealthRound, dataVars
<1>3. ASSUME NEW t \in Tasks, SessionEnds(t)
      PROVE  TunnelStep
  BY <1>3 DEF TunnelStep, SessionEnds, dataVars
<1>4. ASSUME NEW c \in Conns, Accept(c)
      PROVE  ConnStep
  BY <1>4 DEF ConnStep, Accept, Enters, Moves
<1>5. ASSUME NEW c \in Conns, ChannelOpen(c)
      PROVE  ConnStep
  BY <1>5 DEF ConnStep, ChannelOpen, Leaves, Moves, Used, PcTypes
<1>6. ASSUME NEW c \in Conns, ChannelFail(c) \/ CopyBroken(c) \/ Reset(c)
      PROVE  ConnStep
  BY <1>6 DEF ConnStep, ChannelFail, CopyBroken, Reset, Leaves, Used, PcTypes
<1>7. ASSUME NEW c \in Conns, NEW d \in Directions,
             CopyRead(c, d) \/ Arrive(c, d) \/ HalfClose(c, d)
      PROVE  ConnStep
  BY <1>7 DEF ConnStep, CopyRead, Arrive, HalfClose
<1>8. ASSUME NEW c \in Conns, NEW d \in Directions, CopyEof(c, d) \/ CopyWrite(c, d)
      PROVE  ConnStep
  BY <1>8 DEF ConnStep, CopyEof, CopyWrite, Leaves, Used, PcTypes
<1>9. CASE UNCHANGED vars
  BY <1>9 DEF ConnStep, vars, tunnelVars
<1>10. Probe \in BOOLEAN
  BY DEF Probe
<1> QED
  BY <1>1, <1>2, <1>3, <1>4, <1>5, <1>6, <1>7, <1>8, <1>9, <1>10 DEF Next, Copy

\* There are finitely many connections.
LEMMA ConnsFinite ==
  ASSUME NEW S \in SUBSET Conns
  PROVE  IsFiniteSet(S) /\ Cardinality(S) \in Nat
  BY FS_Subset, FS_CardinalityType, ForwardingAssumption

-----------------------------------------------------------------------------
(* The tunnel. *)

\* Types of the tunnel's variables.
LEMMA TunnelTypeStep ==
  ASSUME TunnelTypes, [Next]_vars
  PROVE  TunnelTypes' /\ current <= current'
<1> USE ForwardingAssumption
<1>1. CASE ConnStep
  BY <1>1 DEF ConnStep, tunnelVars, TunnelTypes, Tasks
<1>2. CASE TunnelStep
  <2>1. CASE AcceptError
    <3>1. stopped' \in BOOLEAN /\ alive' \in BOOLEAN /\ retrying' \in BOOLEAN
      BY <2>1 DEF AcceptError, TunnelTypes
    <3>2. /\ current' \in Tasks /\ attempts' \in Nat /\ listener' \in {NoTask, current'}
          /\ shutdown' \subseteq Tasks /\ broken' \subseteq Tasks /\ current <= current'
      BY <2>1 DEF AcceptError, TunnelTypes, Tasks
    <3> QED  BY <3>1, <3>2 DEF TunnelTypes
  <2>2. CASE StopTunnel
    <3>1. stopped' \in BOOLEAN /\ alive' \in BOOLEAN /\ retrying' \in BOOLEAN
      BY <2>2 DEF StopTunnel, TunnelTypes
    <3>2. /\ current' \in Tasks /\ attempts' \in Nat /\ listener' \in {NoTask, current'}
          /\ shutdown' \subseteq Tasks /\ broken' \subseteq Tasks /\ current <= current'
      BY <2>2 DEF StopTunnel, TunnelTypes, Tasks
    <3> QED  BY <3>1, <3>2 DEF TunnelTypes
  <2>3. CASE ReconnectUp
    <3>1. stopped' \in BOOLEAN /\ alive' \in BOOLEAN /\ retrying' \in BOOLEAN
      BY <2>3 DEF ReconnectUp, TunnelTypes
    <3>2. /\ current' \in Tasks /\ attempts' \in Nat /\ listener' \in {NoTask, current'}
          /\ shutdown' \subseteq Tasks /\ broken' \subseteq Tasks /\ current <= current'
      <4>1. /\ current \in Nat /\ current' \in Tasks /\ current' = current + 1
            /\ listener' = current' /\ broken' = broken
        BY <2>3 DEF ReconnectUp, TunnelTypes, Tasks
      <4>2. attempts' \in Nat
        BY <2>3 DEF ReconnectUp, TunnelTypes
      <4>3. shutdown' \subseteq Tasks
        BY <2>3 DEF ReconnectUp, TunnelTypes
      <4> QED  BY <4>1, <4>2, <4>3 DEF TunnelTypes
    <3> QED  BY <3>1, <3>2 DEF TunnelTypes
  <2>4. CASE ReconnectFail
    <3>1. stopped' \in BOOLEAN /\ alive' \in BOOLEAN /\ retrying' \in BOOLEAN
      BY <2>4 DEF ReconnectFail, TunnelTypes
    <3>2. /\ current' \in Tasks /\ attempts' \in Nat /\ listener' \in {NoTask, current'}
          /\ shutdown' \subseteq Tasks /\ broken' \subseteq Tasks /\ current <= current'
      BY <2>4 DEF ReconnectFail, TunnelTypes, Tasks
    <3> QED  BY <3>1, <3>2 DEF TunnelTypes
  <2>5. ASSUME NEW answer \in BOOLEAN, HealthRound(answer)
        PROVE  TunnelTypes' /\ current <= current'
    BY <2>5 DEF HealthRound, TunnelTypes, Tasks
  <2>6. ASSUME NEW t \in Tasks, SessionEnds(t)
        PROVE  TunnelTypes' /\ current <= current'
    BY <2>6 DEF SessionEnds, TunnelTypes, Tasks
  <2> QED  BY <1>2, <2>1, <2>2, <2>3, <2>4, <2>5, <2>6 DEF TunnelStep
<1> QED
  BY <1>1, <1>2, ForwardSteps

\* Tasks are started by attempts; a stop lets at most one more through.
LEMMA TasksCountedStep ==
  ASSUME TunnelTypes, TasksCounted, [Next]_vars
  PROVE  TasksCounted'
<1> USE ForwardingAssumption
<1>1. CASE ConnStep
  BY <1>1 DEF ConnStep, tunnelVars, TasksCounted
<1>2. CASE TunnelStep
  <2>1. CASE AcceptError
    BY <2>1 DEF AcceptError, TasksCounted
  <2>2. CASE StopTunnel
    BY <2>2 DEF StopTunnel, TasksCounted, TunnelTypes
  <2>3. CASE ReconnectUp
    BY <2>3 DEF ReconnectUp, TasksCounted, TunnelTypes, Tasks
  <2>4. CASE ReconnectFail
    BY <2>4 DEF ReconnectFail, TasksCounted, TunnelTypes, Tasks
  <2>5. ASSUME NEW answer \in BOOLEAN, HealthRound(answer)
        PROVE  TasksCounted'
    BY <2>5 DEF HealthRound, TasksCounted
  <2>6. ASSUME NEW t \in Tasks, SessionEnds(t)
        PROVE  TasksCounted'
    BY <2>6 DEF SessionEnds, TasksCounted
  <2> QED  BY <1>2, <2>1, <2>2, <2>3, <2>4, <2>5, <2>6 DEF TunnelStep
<1> QED
  BY <1>1, <1>2, ForwardSteps


-----------------------------------------------------------------------------
(* The counter and the connections that replaced tasks leave behind. *)

Counts == ConnTypes /\ AcceptedByTask /\ CounterExact /\ LeftBound

\* An accepted connection is counted by the task that accepted it, the
\* current one, and by no other.
LEMMA EntersCounted ==
  ASSUME TunnelTypes, Counts, UNCHANGED tunnelVars, NEW c \in Conns, Enters(c)
  PROVE  Counts'
<1> USE ForwardingAssumption
<1>1. /\ listener = current /\ current \in Tasks /\ Tasks \subseteq Nat
      /\ current' = current /\ NoTask \notin Tasks
  BY DEF TunnelTypes, Enters, tunnelVars, Tasks, NoTask
<1>2. /\ pc'[c] = "opening" /\ task'[c] = current
      /\ \A b \in Conns : b # c => pc'[b] = pc[b] /\ task'[b] = task[b]
      /\ active'[current] = active[current] + 1 /\ active[current] < MaxConnections
      /\ \A t \in Tasks : t # current => active'[t] = active[t]
  BY <1>1 DEF Enters, Counts, ConnTypes
<1>3. ConnTypes'
  BY <1>1 DEF Enters, Counts, ConnTypes, PcTypes, Used
<1>4. AcceptedByTask'
  BY <1>1, <1>2 DEF Counts, AcceptedByTask, Tasks
<1>5. CounterExact'
  <2>1. InUse(current) \in SUBSET Conns /\ c \notin InUse(current)
    BY DEF InUse, Enters
  <2>2. \A t : t = current => InUse(t)' = InUse(current) \cup {c}
    BY <1>2 DEF InUse
  <2>3. Cardinality(InUse(current) \cup {c}) = Cardinality(InUse(current)) + 1
    BY <2>1, ConnsFinite, FS_AddElement
  <2>4. \A t \in Tasks : t # current => InUse(t)' = InUse(t)
    <3> SUFFICES ASSUME NEW t \in Tasks, t # current PROVE InUse(t)' = InUse(t)
      OBVIOUS
    <3>1. c \notin InUse(t) /\ c \notin InUse(t)'
      BY <1>2 DEF InUse, Enters
    <3> QED  BY <1>2, <3>1 DEF InUse
  <2>5. active[current] \in Nat /\ active[current] = Cardinality(InUse(current))
    BY <1>1 DEF Counts, ConnTypes, CounterExact
  <2>6. ASSUME NEW t \in Tasks
        PROVE  active'[t] = Cardinality(InUse(t)') /\ active'[t] <= MaxConnections
    <3>1. CASE t = current
      <4>1. InUse(t)' = InUse(current) \cup {c}
        BY <2>2, <3>1
      <4> QED  BY <1>2, <2>3, <2>5, <3>1, <4>1
    <3>2. CASE t # current
      BY <1>2, <2>4, <3>2 DEF Counts, CounterExact
    <3> QED  BY <3>1, <3>2
  <2> QED  BY <2>6 DEF CounterExact
<1>6. LeftBehind' = LeftBehind
  <2>1. c \notin LeftBehind /\ c \notin LeftBehind'
    BY <1>1, <1>2 DEF LeftBehind, Enters, Used
  <2> QED  BY <1>1, <1>2, <2>1 DEF LeftBehind
<1> QED
  BY <1>1, <1>3, <1>4, <1>5, <1>6 DEF Counts, LeftBound

\* A connection that ends, in whichever way, gives its place back.
LEMMA LeavesCounted ==
  ASSUME TunnelTypes, Counts, UNCHANGED tunnelVars, NEW c \in Conns, NEW how,
         Leaves(c, how)
  PROVE  Counts'
<1> USE ForwardingAssumption
<1> DEFINE t0 == task[c]
<1>1. /\ t0 \in Tasks /\ Tasks \subseteq Nat /\ current' = current /\ current \in Nat
      /\ task' = task
  BY DEF TunnelTypes, Leaves, Counts, AcceptedByTask, tunnelVars, Tasks
<1>2. /\ pc'[c] = how /\ how \notin Used /\ how \in PcTypes
      /\ \A b \in Conns : b # c => pc'[b] = pc[b]
      /\ active'[t0] = active[t0] - 1
      /\ \A t \in Tasks : t # t0 => active'[t] = active[t]
  BY <1>1 DEF Leaves, Ends, Counts, ConnTypes, PcTypes, Used
<1>3. InUse(t0) \in SUBSET Conns /\ c \in InUse(t0)
  BY DEF InUse, Leaves, Used
<1>4. \A t : t = t0 => InUse(t)' = InUse(t0) \ {c}
  BY <1>1, <1>2 DEF InUse, Used
<1>5. /\ Cardinality(InUse(t0) \ {c}) = Cardinality(InUse(t0)) - 1
      /\ Cardinality(InUse(t0) \ {c}) \in Nat
  BY <1>3, ConnsFinite, FS_RemoveElement
<1>6. active[t0] = Cardinality(InUse(t0)) /\ active[t0] \in Nat /\ active[t0] <= MaxConnections
  BY <1>1 DEF Counts, ConnTypes, CounterExact
<1>7. active' \in [Tasks -> Nat]
  <2>1. active[t0] - 1 \in Nat
    BY <1>5, <1>6
  <2> QED  BY <1>1, <2>1 DEF Leaves, Ends, Counts, ConnTypes
<1>8. ConnTypes'
  <2>1. pc' \in [Conns -> PcTypes]
    BY <1>2 DEF Leaves, Ends, Counts, ConnTypes
  <2> QED  BY <1>1, <1>7, <2>1 DEF Counts, ConnTypes
<1>9. AcceptedByTask'
  BY <1>1, <1>2 DEF Counts, AcceptedByTask
<1>10. CounterExact'
  <2>1. \A t \in Tasks : t # t0 => InUse(t)' = InUse(t)
    <3> SUFFICES ASSUME NEW t \in Tasks, t # t0 PROVE InUse(t)' = InUse(t)
      OBVIOUS
    <3>1. c \notin InUse(t) /\ c \notin InUse(t)'
      BY <1>1 DEF InUse
    <3> QED  BY <1>1, <1>2, <3>1 DEF InUse
  <2>2. ASSUME NEW t \in Tasks
        PROVE  active'[t] = Cardinality(InUse(t)') /\ active'[t] <= MaxConnections
    <3>1. CASE t = t0
      <4>1. InUse(t)' = InUse(t0) \ {c}
        BY <1>4, <3>1
      <4>2. active'[t] = active[t0] - 1
        BY <1>2, <3>1
      <4> HIDE DEF t0
      <4> QED  BY <1>5, <1>6, <4>1, <4>2
    <3>2. CASE t # t0
      BY <1>2, <2>1, <3>2 DEF Counts, CounterExact
    <3> QED  BY <3>1, <3>2
  <2> QED  BY <2>2 DEF CounterExact
<1>11. LeftBound'
  <2>1. LeftBehind' \in SUBSET LeftBehind /\ LeftBehind \in SUBSET Conns
    BY <1>1, <1>2 DEF LeftBehind
  <2>2. /\ Cardinality(LeftBehind') <= Cardinality(LeftBehind)
        /\ Cardinality(LeftBehind') \in Nat /\ Cardinality(LeftBehind) \in Nat
    BY <2>1, ConnsFinite, FS_Subset
  <2>3. MaxConnections * (current - 1) \in Int
    BY <1>1
  <2> QED  BY <1>1, <2>2, <2>3 DEF Counts, LeftBound
<1> QED
  BY <1>8, <1>9, <1>10, <1>11 DEF Counts

\* The connections of a replaced task join the ones left behind, and there
\* are at most as many as its limit.
LEMMA ReplacedLeaves ==
  ASSUME TunnelTypes, Counts, ReconnectUp
  PROVE  Counts'
<1> USE ForwardingAssumption
<1>1. /\ current \in Tasks /\ current' = current + 1 /\ UNCHANGED <<pc, task, active>>
      /\ current \in Nat
  BY DEF TunnelTypes, ReconnectUp, Tasks
<1>2. ConnTypes' /\ CounterExact'
  BY <1>1 DEF Counts, ConnTypes, CounterExact, InUse
<1>3. AcceptedByTask'
  BY <1>1 DEF Counts, AcceptedByTask
<1>4. LeftBehind' = LeftBehind \cup InUse(current)
  BY <1>1 DEF LeftBehind, InUse, Used, Counts, AcceptedByTask
<1>5. LeftBehind \in SUBSET Conns /\ InUse(current) \in SUBSET Conns
      /\ LeftBehind \cap InUse(current) \in SUBSET Conns
  BY DEF LeftBehind, InUse
<1>6. Cardinality(LeftBehind \cup InUse(current))
        <= Cardinality(LeftBehind) + Cardinality(InUse(current))
  <2>1. Cardinality(LeftBehind \cap InUse(current)) \in Nat
    BY <1>5, ConnsFinite
  <2>2. /\ Cardinality(LeftBehind \cup InUse(current)) =
             Cardinality(LeftBehind) + Cardinality(InUse(current))
               - Cardinality(LeftBehind \cap InUse(current))
        /\ Cardinality(LeftBehind) \in Nat /\ Cardinality(InUse(current)) \in Nat
    BY <1>5, ConnsFinite, FS_Union
  <2> QED  BY <2>1, <2>2
<1>7. /\ Cardinality(LeftBehind) <= MaxConnections * (current - 1)
      /\ Cardinality(InUse(current)) <= MaxConnections
      /\ Cardinality(LeftBehind) \in Nat /\ Cardinality(InUse(current)) \in Nat
  BY <1>1, <1>5, ConnsFinite DEF Counts, LeftBound, CounterExact
<1>8. MaxConnections * (current - 1) + MaxConnections = MaxConnections * current
  BY <1>1
<1>9. Cardinality(LeftBehind') <= MaxConnections * current
  <2>1. Cardinality(LeftBehind') \in Nat
    BY <1>4, <1>5, ConnsFinite
  <2>2. MaxConnections * (current - 1) \in Int /\ MaxConnections * current \in Int
    BY <1>1
  <2> QED  BY <1>4, <1>6, <1>7, <1>8, <2>1, <2>2
<1>10. LeftBound'
  <2>1. current' - 1 = current
    BY <1>1
  <2> QED  BY <1>9, <2>1 DEF LeftBound
<1> QED
  BY <1>2, <1>3, <1>10 DEF Counts

\* The counters stay exact and what is left behind stays bounded.
LEMMA CountsStep ==
  ASSUME TunnelTypes, Counts, [Next]_vars
  PROVE  Counts'
<1>1. CASE ConnStep
  <2>1. ASSUME NEW c \in Conns, Moves(c), UNCHANGED tunnelVars
        PROVE  Counts'
    <3>1. /\ UNCHANGED <<active, task, current>>
          /\ pc' \in [Conns -> PcTypes]
          /\ \A b \in Conns : pc'[b] \in Used <=> pc[b] \in Used
      BY <2>1 DEF Moves, Counts, ConnTypes, PcTypes, Used, tunnelVars
    <3>2. LeftBehind' = LeftBehind /\ \A t : InUse(t)' = InUse(t)
      BY <3>1 DEF LeftBehind, InUse, Used
    <3> QED
      BY <3>1, <3>2 DEF Counts, ConnTypes, AcceptedByTask, CounterExact, LeftBound
  <2>2. ASSUME UNCHANGED tunnelVars, UNCHANGED <<pc, task, active>>
        PROVE  Counts'
    BY <2>2 DEF Counts, ConnTypes, AcceptedByTask, CounterExact, LeftBound, LeftBehind,
                InUse, tunnelVars
  <2> QED  BY <1>1, <2>1, <2>2, EntersCounted, LeavesCounted DEF ConnStep
<1>2. ASSUME TunnelStep, ~ReconnectUp
      PROVE  Counts'
  <2>1. UNCHANGED <<pc, task, active, current>>
    BY <1>2 DEF TunnelStep, AcceptError, StopTunnel, ReconnectFail, HealthRound, SessionEnds
  <2> QED
    BY <2>1 DEF Counts, ConnTypes, AcceptedByTask, CounterExact, LeftBound, LeftBehind, InUse
<1> QED
  BY <1>1, <1>2, ReplacedLeaves, ForwardSteps


-----------------------------------------------------------------------------
(* The data. *)

\* A byte is waiting to be read, in a buffer, or written: none is lost or
\* written twice, as long as a write takes the whole buffer.
LEMMA DataStep ==
  ASSUME DataTypes, BytesAccounted, [Next]_vars
  PROVE  DataTypes' /\ BytesAccounted'
<1>1. ASSUME UNCHANGED dataVars
      PROVE  DataTypes' /\ BytesAccounted'
  BY <1>1 DEF dataVars, DataTypes, BytesAccounted
<1>2. ASSUME NEW c \in Conns, NEW d \in Directions, CopyRead(c, d)
      PROVE  DataTypes' /\ BytesAccounted'
  <2>1. DataTypes'
    BY <1>2 DEF CopyRead, DataTypes
  <2>2. /\ buf[c][d] = 0 /\ buf'[c][d] = pending[c][d] /\ pending'[c][d] = 0
        /\ owed' = owed
        /\ \A b \in Conns, e \in Directions : <<b, e>> # <<c, d>> =>
             buf'[b][e] = buf[b][e] /\ pending'[b][e] = pending[b][e]
    BY <1>2 DEF CopyRead, DataTypes
  <2>3. ASSUME NEW b \in Conns, NEW e \in Directions
        PROVE  owed'[b][e] = pending'[b][e] + buf'[b][e]
    <3>1. /\ owed[b][e] = pending[b][e] + buf[b][e]
          /\ pending[b][e] \in Nat /\ buf[b][e] \in Nat
      BY DEF BytesAccounted, DataTypes
    <3>2. CASE b = c /\ e = d
      BY <2>2, <3>1, <3>2
    <3>3. CASE <<b, e>> # <<c, d>>
      BY <2>2, <3>1, <3>3
    <3> QED  BY <3>2, <3>3
  <2> QED  BY <2>1, <2>3 DEF BytesAccounted
<1>3. ASSUME NEW c \in Conns, NEW d \in Directions, CopyWrite(c, d)
      PROVE  DataTypes' /\ BytesAccounted'
  <2>1. /\ buf'[c][d] = 0 /\ owed'[c][d] = owed[c][d] - buf[c][d]
        /\ pending' = pending /\ closed' = closed
        /\ \A b \in Conns, e \in Directions : <<b, e>> # <<c, d>> =>
             buf'[b][e] = buf[b][e] /\ owed'[b][e] = owed[b][e]
    BY <1>3 DEF CopyWrite, DataTypes, Written
  <2>2. owed[c][d] = pending[c][d] + buf[c][d] /\ pending[c][d] \in Nat /\ buf[c][d] \in Nat
    BY DEF BytesAccounted, DataTypes
  <2>3. owed[c][d] - buf[c][d] \in Nat
    BY <2>2
  <2>4. DataTypes'
    BY <1>3, <2>3 DEF CopyWrite, DataTypes, Written
  <2>5. ASSUME NEW b \in Conns, NEW e \in Directions
        PROVE  owed'[b][e] = pending'[b][e] + buf'[b][e]
    BY <2>1, <2>2 DEF BytesAccounted, DataTypes
  <2> QED  BY <2>4, <2>5 DEF BytesAccounted
<1>4. ASSUME NEW c \in Conns, NEW d \in Directions, Arrive(c, d)
      PROVE  DataTypes' /\ BytesAccounted'
  <2>1. DataTypes'
    BY <1>4 DEF Arrive, DataTypes
  <2>2. /\ owed'[c][d] = owed[c][d] + 1 /\ pending'[c][d] = pending[c][d] + 1
        /\ buf' = buf
        /\ \A b \in Conns, e \in Directions : <<b, e>> # <<c, d>> =>
             owed'[b][e] = owed[b][e] /\ pending'[b][e] = pending[b][e]
    BY <1>4 DEF Arrive, DataTypes
  <2>3. ASSUME NEW b \in Conns, NEW e \in Directions
        PROVE  owed'[b][e] = pending'[b][e] + buf'[b][e]
    <3>1. /\ owed[b][e] = pending[b][e] + buf[b][e]
          /\ pending[b][e] \in Nat /\ buf[b][e] \in Nat
      BY DEF BytesAccounted, DataTypes
    <3>2. CASE b = c /\ e = d
      BY <2>2, <3>1, <3>2
    <3>3. CASE <<b, e>> # <<c, d>>
      BY <2>2, <3>1, <3>3
    <3> QED  BY <3>2, <3>3
  <2> QED  BY <2>1, <2>3 DEF BytesAccounted
<1>5. ASSUME NEW c \in Conns, NEW d \in Directions, HalfClose(c, d)
      PROVE  DataTypes' /\ BytesAccounted'
  BY <1>5 DEF HalfClose, DataTypes, BytesAccounted
<1>6. ASSUME NEW c \in Conns,
             Accept(c) \/ ChannelOpen(c) \/ ChannelFail(c) \/ CopyBroken(c) \/ Reset(c)
      PROVE  UNCHANGED dataVars
  BY <1>6 DEF Accept, ChannelOpen, ChannelFail, CopyBroken, Reset
<1>7. ASSUME NEW c \in Conns, NEW d \in Directions, CopyEof(c, d)
      PROVE  UNCHANGED dataVars
  BY <1>7 DEF CopyEof
<1>8. ASSUME NEW t \in Tasks, SessionEnds(t)
      PROVE  UNCHANGED dataVars
  BY <1>8 DEF SessionEnds
<1>9. CASE AcceptError \/ StopTunnel \/ ReconnectUp \/ ReconnectFail
           \/ HealthRound(Probe) \/ HealthRound(FALSE) \/ UNCHANGED vars
  <2>1. UNCHANGED dataVars
    BY <1>9 DEF AcceptError, StopTunnel, ReconnectUp, ReconnectFail, HealthRound,
                vars, dataVars
  <2> QED  BY <1>1, <2>1
<1> QED
  BY <1>1, <1>2, <1>3, <1>4, <1>5, <1>6, <1>7, <1>8, <1>9 DEF Next, Copy

\* A connection ends by a flag, a broken session, or a complete direction,
\* and that stays so: flags are never cleared and sessions never return.
LEMMA EndsStep ==
  ASSUME TypeOK, AcceptedByTask, BytesAccounted, EndsComplete, [Next]_vars
  PROVE  EndsComplete'
<1> DEFINE Excuse(c) == \/ task[c] \in shutdown \cup broken
                        \/ \E d \in Directions : closed[c][d] /\ owed[c][d] = 0
<1>1. shutdown \subseteq shutdown' /\ broken \subseteq broken'
  BY ForwardSteps DEF ConnStep, TunnelStep, tunnelVars, AcceptError, StopTunnel,
                      ReconnectUp, ReconnectFail, HealthRound, SessionEnds
<1>2. ASSUME NEW c \in Conns, pc[c] = "ended"
      PROVE  Excuse(c)'
  <2>1. task'[c] = task[c]
    <3>1. CASE ConnStep
      BY <1>2, <3>1 DEF ConnStep, Enters, Leaves, Moves, TypeOK, ConnTypes
    <3>2. CASE TunnelStep
      BY <3>2 DEF TunnelStep
    <3> QED  BY <3>1, <3>2, ForwardSteps
  <2>2. owed'[c] = owed[c] /\ closed'[c] = closed[c]
    <3>1. CASE UNCHANGED <<owed, closed>>
      BY <3>1
    <3>2. ASSUME NEW b \in Conns, NEW d \in Directions,
                 CopyWrite(b, d) \/ Arrive(b, d) \/ HalfClose(b, d)
          PROVE  owed'[c] = owed[c] /\ closed'[c] = closed[c]
      <4>1. b # c
        BY <1>2, <3>2 DEF CopyWrite, Arrive, HalfClose
      <4> QED  BY <3>2, <4>1 DEF CopyWrite, Arrive, HalfClose, TypeOK, DataTypes
    <3>3. ASSUME NEW b \in Conns,
                 Accept(b) \/ ChannelOpen(b) \/ ChannelFail(b) \/ CopyBroken(b) \/ Reset(b)
          PROVE  UNCHANGED <<owed, closed>>
      BY <3>3 DEF Accept, ChannelOpen, ChannelFail, CopyBroken, Reset, dataVars
    <3>4. ASSUME NEW b \in Conns, NEW d \in Directions, CopyEof(b, d) \/ CopyRead(b, d)
          PROVE  UNCHANGED <<owed, closed>>
      BY <3>4 DEF CopyEof, CopyRead, dataVars
    <3>5. CASE TunnelStep \/ UNCHANGED vars
      BY <3>5 DEF TunnelStep, dataVars, vars
    <3>6. ASSUME NEW t \in Tasks, SessionEnds(t)
          PROVE  UNCHANGED <<owed, closed>>
      BY <3>6 DEF SessionEnds, dataVars
    <3>7. CASE AcceptError \/ StopTunnel \/ ReconnectUp \/ ReconnectFail
               \/ HealthRound(Probe) \/ HealthRound(FALSE)
      BY <3>7 DEF AcceptError, StopTunnel, ReconnectUp, ReconnectFail, HealthRound, dataVars
    <3> QED  BY <3>1, <3>2, <3>3, <3>4, <3>5, <3>6, <3>7 DEF Next, Copy
  <2> QED  BY <1>1, <1>2, <2>1, <2>2 DEF EndsComplete
<1>3. ASSUME NEW c \in Conns, pc[c] # "ended", pc'[c] = "ended"
      PROVE  Excuse(c)'
  <2>1. ASSUME NEW b \in Conns, ChannelOpen(b) \/ CopyBroken(b)
        PROVE  Excuse(c)'
    BY <1>3, <2>1 DEF ChannelOpen, CopyBroken, Ends, Stopping, tunnelVars, TypeOK, ConnTypes
  <2>2. ASSUME NEW b \in Conns, NEW d \in Directions, CopyWrite(b, d)
        PROVE  Excuse(c)'
    BY <1>3, <2>2 DEF CopyWrite, Ends, Stopping, tunnelVars, TypeOK, ConnTypes
  <2>3. ASSUME NEW b \in Conns, NEW d \in Directions, CopyEof(b, d)
        PROVE  Excuse(c)'
    <3>1. b = c
      BY <1>3, <2>3 DEF CopyEof, Ends, TypeOK, ConnTypes
    <3>2. closed[c][d] /\ owed[c][d] = 0
      BY <2>3, <3>1 DEF CopyEof, BytesAccounted
    <3> QED  BY <2>3, <3>2 DEF CopyEof, dataVars
  <2>4. ASSUME NEW b \in Conns, Accept(b) \/ ChannelFail(b) \/ Reset(b)
        PROVE  FALSE
    BY <1>3, <2>4 DEF Accept, ChannelFail, Reset, Ends, TypeOK, ConnTypes
  <2>5. ASSUME NEW b \in Conns, NEW d \in Directions,
               CopyRead(b, d) \/ Arrive(b, d) \/ HalfClose(b, d)
        PROVE  FALSE
    BY <1>3, <2>5 DEF CopyRead, Arrive, HalfClose
  <2>6. ASSUME NEW t \in Tasks, SessionEnds(t)
        PROVE  FALSE
    BY <1>3, <2>6 DEF SessionEnds
  <2>7. CASE AcceptError \/ StopTunnel \/ ReconnectUp \/ ReconnectFail
             \/ HealthRound(Probe) \/ HealthRound(FALSE) \/ UNCHANGED vars
    BY <1>3, <2>7 DEF AcceptError, StopTunnel, ReconnectUp, ReconnectFail, HealthRound, vars
  <2> QED  BY <2>1, <2>2, <2>3, <2>4, <2>5, <2>6, <2>7 DEF Next, Copy
<1> QED
  BY <1>2, <1>3 DEF EndsComplete


-----------------------------------------------------------------------------
(* The theorems. *)

\* The invariant: types, counters, bytes, and how connections ended.
LEMMA ForwardInvariant == Spec => []ForwardInv
<1> USE ForwardingAssumption
<1>1. Init => ForwardInv
  <2> SUFFICES ASSUME Init PROVE ForwardInv
    OBVIOUS
  <2>1. TypeOK
    <3>1. TunnelTypes
      <4>1. stopped \in BOOLEAN /\ alive \in BOOLEAN /\ retrying \in BOOLEAN
        BY DEF Init
      <4>2. /\ current \in Tasks /\ attempts \in Nat /\ listener \in {NoTask, current}
            /\ shutdown \subseteq Tasks /\ broken \subseteq Tasks
        BY DEF Init, Tasks
      <4> QED  BY <4>1, <4>2 DEF TunnelTypes
    <3>2. ConnTypes /\ DataTypes
      BY DEF Init, ConnTypes, DataTypes, PcTypes, Used
    <3> QED  BY <3>1, <3>2 DEF TypeOK
  <2>2. \A c \in Conns : pc[c] = "waiting"
    BY DEF Init
  <2>3. LeftBehind = {} /\ \A t \in Tasks : InUse(t) = {}
    BY <2>2 DEF LeftBehind, InUse, Used
  <2>4. CounterExact /\ LeftBound
    <3>1. Cardinality({}) = 0
      BY FS_EmptySet
    <3>2. current = 1 /\ MaxConnections * (1 - 1) = 0 /\ \A t \in Tasks : active[t] = 0
      BY DEF Init
    <3>3. CounterExact
      <4>1. ASSUME NEW t \in Tasks
            PROVE  active[t] = Cardinality(InUse(t)) /\ active[t] <= MaxConnections
        <5>1. InUse(t) = {} /\ active[t] = 0
          BY <2>3, <3>2
        <5> QED  BY <3>1, <5>1
      <4> QED  BY <4>1 DEF CounterExact
    <3>4. LeftBound
      BY <2>3, <3>1, <3>2 DEF LeftBound
    <3> QED  BY <3>3, <3>4
  <2>5. AcceptedByTask /\ EndsComplete
    BY <2>2 DEF AcceptedByTask, EndsComplete, Used
  <2>6. BytesAccounted
    BY DEF Init, BytesAccounted
  <2>7. TasksCounted
    BY DEF Init, TasksCounted
  <2> QED  BY <2>1, <2>4, <2>5, <2>6, <2>7 DEF ForwardInv
<1>2. ForwardInv /\ [Next]_vars => ForwardInv'
  BY TunnelTypeStep, CountsStep, DataStep, TasksCountedStep, EndsStep
  DEF ForwardInv, TypeOK, Counts
<1> QED
  BY <1>1, <1>2, PTL DEF Spec

\* active_connections is the number of connections in use, for every task,
\* whichever way connections end, and never over the limit.
THEOREM CounterIsExact == Spec => []CounterExact
<1>1. ForwardInv => CounterExact
  BY DEF ForwardInv
<1> QED
  BY <1>1, ForwardInvariant, PTL

\* A forwarded connection ends complete in one direction, or because its
\* tunnel was stopped or replaced or its session ended.
THEOREM ConnectionsEndComplete == Spec => []EndsComplete
<1>1. ForwardInv => EndsComplete
  BY DEF ForwardInv
<1> QED
  BY <1>1, ForwardInvariant, PTL

\* The connections of a tunnel are at most the limit times its attempts and
\* one, or two when a stop let a reconnection through.
THEOREM TunnelIsBounded == Spec => []TunnelBound
<1> USE ForwardingAssumption
<1>1. ASSUME ForwardInv
      PROVE  TunnelBound
  <2> DEFINE all == UNION {InUse(t) : t \in Tasks}
             k   == attempts + (IF stopped THEN 2 ELSE 1)
  <2>1. current \in Tasks /\ current \in Nat /\ current >= 1 /\ attempts \in Nat
    BY <1>1 DEF ForwardInv, TypeOK, TunnelTypes, Tasks
  <2>2. all = LeftBehind \cup InUse(current)
    BY <1>1, <2>1 DEF ForwardInv, AcceptedByTask, LeftBehind, InUse, Used, Tasks
  <2>3. /\ LeftBehind \in SUBSET Conns /\ InUse(current) \in SUBSET Conns
        /\ LeftBehind \cap InUse(current) = {}
    BY <2>1 DEF LeftBehind, InUse
  <2>4. /\ Cardinality(LeftBehind) \in Nat /\ Cardinality(InUse(current)) \in Nat
        /\ IsFiniteSet(LeftBehind) /\ IsFiniteSet(InUse(current))
    BY <2>3, ConnsFinite
  <2>5. Cardinality(LeftBehind \cup InUse(current))
          = Cardinality(LeftBehind) + Cardinality(InUse(current))
    <3>1. Cardinality(LeftBehind \cup InUse(current))
            = Cardinality(LeftBehind) + Cardinality(InUse(current))
                - Cardinality(LeftBehind \cap InUse(current))
      BY <2>4, FS_Union
    <3>2. Cardinality(LeftBehind \cap InUse(current)) = 0
      BY <2>3, FS_EmptySet
    <3> QED  BY <2>4, <3>1, <3>2
  <2>6. /\ Cardinality(LeftBehind) <= MaxConnections * (current - 1)
        /\ Cardinality(InUse(current)) <= MaxConnections
    BY <1>1, <2>1 DEF ForwardInv, LeftBound, CounterExact
  <2>7. Cardinality(all) <= MaxConnections * current
    <3>1. MaxConnections * (current - 1) + MaxConnections = MaxConnections * current
      BY <2>1
    <3>2. MaxConnections * (current - 1) \in Int /\ MaxConnections * current \in Int
      BY <2>1
    <3> HIDE DEF all
    <3> QED  BY <2>2, <2>4, <2>5, <2>6, <3>1, <3>2
  <2>8. current <= k /\ k \in Nat
    BY <1>1, <2>1 DEF ForwardInv, TasksCounted
  <2>9. MaxConnections * current <= MaxConnections * k
    <3> HIDE DEF k
    <3> QED  BY <2>1, <2>8
  <2>10. Cardinality(all) \in Nat
    <3> HIDE DEF all
    <3> QED  BY <2>2, <2>4, <2>5
  <2>11. MaxConnections * current \in Int /\ MaxConnections * k \in Int
    <3> HIDE DEF k
    <3> QED  BY <2>1, <2>8
  <2>12. Cardinality(all) <= MaxConnections * k
    <3> HIDE DEF k, all
    <3> QED  BY <2>7, <2>9, <2>10, <2>11
  <2> QED  BY <2>12 DEF TunnelBound
<1> QED
  BY <1>1, ForwardInvariant, PTL

=============================================================================
