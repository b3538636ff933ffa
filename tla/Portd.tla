-------------------------------- MODULE Portd --------------------------------
(***************************************************************************)
(* The port-authority daemon, portd (crates/daemon): the gRPC handlers     *)
(* that reserve and release ports, the broker and its SQLite table, the    *)
(* tunnel manager with its health task, the lease cleanup task and the     *)
(* task that tears expired reservations down.                              *)
(*                                                                         *)
(* portd runs on a single-threaded tokio runtime, so the code between two  *)
(* awaits is atomic.  What can interleave is the awaits: the two async     *)
(* mutexes (broker, tunnel manager), the SQL statements (one connection,   *)
(* one statement at a time) and the SSH connection.  An action below is    *)
(* the code from one of these awaits to the next.  Consecutive SQL         *)
(* statements under the broker lock are one action where the only other    *)
(* writers, expiry and purge, cannot affect the outcome.                   *)
(***************************************************************************)
EXTENDS PortAlloc, FiniteSets, Sequences

CONSTANTS
  Clients,         \* callers of the gRPC API, one call in flight each
  Nobody, Reaper,  \* lock holders other than a client's handler
  MaxId,           \* bound: reservations ever inserted
  Ports,           \* the TCP ports of 127.0.0.1 that matter
  Owners,          \* owner strings ...
  HostOwners,      \* ... starting with "host:"
  VmOwners,        \* ... starting with "vm:"
  Configured,      \* ... whose VM has an entry in ssh.toml
  CountedWith,     \* owner -> owners matched by its LIKE 'prefix%' pattern
  Targets,         \* (target_host, target_port) pairs
  Requests,        \* the reserve calls clients make
  MaxPerOwner,     \* max_reservations_per_owner
  MaxReconnects,   \* max_reconnect_attempts
  ExternalPorts,   \* ports other processes bind now and then
  MayDisconnect,   \* may a client go away while its call is running?
  MayDropWrites,   \* ... and while a write is on its way to SQLite?
  MayRestart       \* may portd stop and start again?

Ids  == 1..MaxId
NoId == 0

\* A reserve call as it reaches the broker: owner, target and preferred port
\* have passed the handler's validation.
RequestSet ==
  [owner : Owners, target : Targets, pref : Ports \cup {NoPort},
   exact : BOOLEAN, leased : BOOLEAN]

ASSUME PortdAssumption ==
  /\ MaxId \in Nat /\ MaxPerOwner \in Nat /\ MaxReconnects \in Nat
  /\ Ports \subseteq Nat \ {0} /\ ExternalPorts \subseteq Ports
  /\ HostOwners \subseteq Owners /\ VmOwners \subseteq Owners
  /\ HostOwners \cap VmOwners = {} /\ Configured \subseteq VmOwners
  /\ CountedWith \in [Owners -> SUBSET Owners]
  /\ Requests \subseteq RequestSet
  /\ Nobody \notin Clients \cup Owners \cup Targets
  /\ Reaper \notin Clients /\ Reaper # Nobody
  /\ MayDisconnect \in BOOLEAN /\ MayDropWrites \in BOOLEAN /\ MayRestart \in BOOLEAN

VARIABLES
  \* The reservations table.  res holds the columns that never change; it is
  \* kept after the row is gone, since handlers, the expiry channel and the
  \* tunnel map hold copies of them.
  res,      \* id -> owner, target, assigned port
  state,    \* id -> state column, "absent" when there is no row
  lease,    \* id -> "none" (expires_at IS NULL), "running" or "due"
  \* In memory.
  sock,     \* port -> the listening socket bound to it; Broker::hold_listeners
            \* are the "hold" ones, the id is the reservation it was bound for
  tunnels,  \* keys of TunnelManager::tunnels
  retries,  \* id -> reconnect_count of its tunnel entry
  broker,   \* holder of the broker mutex
  tm,       \* holder of the tunnel manager mutex
  req,      \* client -> where its handler is
  expired,  \* the unbounded channel of expired batches
  reaper,   \* the expired reservation being torn down
  health,   \* the health task: candidates, the one being installed
  \* What a watcher that misses no event believes: the new_state of the last
  \* event for each id.
  view,
  \* Reservations with a write whose handler was dropped before SQLite answered.
  lost

dbVars  == <<res, state, lease>>
tmVars  == <<tunnels, retries>>
vars    == <<res, state, lease, sock, tunnels, retries, broker, tm, req,
             expired, reaper, health, view, lost>>

-----------------------------------------------------------------------------
(* Types. *)

LiveStates == {"pending", "active", "failed"}
States     == LiveStates \cup {"released", "absent"}

Reservation == [owner : Owners \cup {Nobody}, target : Targets \cup {Nobody},
                port : Ports \cup {NoPort}]
NoRes == [owner |-> Nobody, target |-> Nobody, port |-> NoPort]

\* hold: Broker::hold_listeners.  fwd: the listener of a registered tunnel's
\* task.  orphan: the listener of a reconnect task no map entry refers to
\* (yet).  dying: of an aborted task the runtime has not dropped yet.  ext:
\* another process.
SockKinds == {"free", "ext", "hold", "fwd", "orphan", "dying"}
Socket    == [kind : SockKinds, id : Ids \cup {NoId}]
FreeSock  == [kind |-> "free", id |-> NoId]
ExtSock   == [kind |-> "ext", id |-> NoId]
Hold(i)   == [kind |-> "hold", id |-> i]
Fwd(i)    == [kind |-> "fwd", id |-> i]
Orphan(i) == [kind |-> "orphan", id |-> i]
Dying(i)  == [kind |-> "dying", id |-> i]

\* A handler: fetch = re-reading the inserted row; tmWait, ssh = waiting for
\* the tunnel manager, connecting; mark, write = update_state's SELECT and
\* UPDATE; rel = do_release's UPDATE; relTm = waiting to stop the tunnel.
Pcs     == {"idle", "fetch", "tmWait", "ssh", "mark", "write", "rel", "relTm"}
Handler == [pc : Pcs, id : Ids \cup {NoId}, to : {"active", "failed", "none"}]
Idle    == [pc |-> "idle", id |-> NoId, to |-> "none"]
At(pc, i) == [pc |-> pc, id |-> i, to |-> "none"]

\* The health task: todo = candidates of this round, busy = the one connected
\* and about to be installed, up = whether its connection succeeded, same =
\* candidates whose map entry is still the one the round saw (it holds the
\* entry's health record, where the attempts are counted).
HealthTask == [todo : SUBSET Ids, busy : Ids \cup {NoId}, up : BOOLEAN,
               same : SUBSET Ids]
Sleeping   == [todo |-> {}, busy |-> NoId, up |-> FALSE, same |-> {}]

\* Every variable has its type: table, sockets, locks, handlers and tasks.
TypeOK ==
  /\ res \in [Ids -> Reservation]
  /\ state \in [Ids -> States]
  /\ lease \in [Ids -> {"none", "running", "due"}]
  /\ sock \in [Ports -> Socket]
  /\ tunnels \subseteq Ids
  /\ retries \in [Ids -> Nat]
  /\ broker \in Clients \cup {Nobody}
  /\ tm \in Clients \cup {Nobody, Reaper}
  /\ req \in [Clients -> Handler]
  /\ expired \in Seq(SUBSET Ids)
  /\ reaper \in Ids \cup {NoId}
  /\ health \in HealthTask
  /\ view \in [Ids -> States] /\ lost \subseteq Ids

-----------------------------------------------------------------------------
(* The table and the sockets. *)

Live(i)   == state[i] \in LiveStates            \* state != 'released'
Fresh(i)  == /\ res[i].port = NoPort            \* ids are minted in order
             /\ \A j \in Ids : j < i => res[j].port # NoPort
PortOf(i) == res[i].port

\* vm_name_from_owner(&r.owner).is_some().
Vm(i) == res[i].owner \in VmOwners

\* Mutant: the row is inserted with the old_state of its first event.
InitialUnspecified(o) == "unspecified"

\* The state a row is inserted with.
Initial(o) == IF o \in HostOwners THEN "active" ELSE "pending"

\* The duplicate check of Broker::reserve.
Duplicate(j, r) ==
  Live(j) /\ res[j].owner = r.owner /\ res[j].target = r.target

\* The per-owner limit.
WithinLimit(o) ==
  Cardinality({j \in Ids : Live(j) /\ res[j].owner \in CountedWith[o]})
    < MaxPerOwner

\* Mutant: allocate_port trusts the bind test alone.
BindableOnly == {p \in Ports : sock[p].kind = "free"}

\* A port allocate_port may pick: no live row has it and it can be bound.
Available ==
  {p \in Ports : sock[p].kind = "free" /\ \A i \in Ids : Live(i) => PortOf(i) # p}

\* Mutant: no row is cleared before the INSERT.
ClearedNone(p) == {}

\* "DELETE ... WHERE assigned_port = ? AND state = 'released'".
Cleared(p) == {j \in Ids : state[j] = "released" /\ PortOf(j) = p}

\* Mutant: the hold listener is kept.
UnholdNothing(p) == sock

\* Mutant: hold_listeners.clear().
UnholdAll(p) ==
  [q \in Ports |-> IF sock[q].kind = "hold" THEN FreeSock ELSE sock[q]]

\* hold_listeners.remove(&port).
Unhold(p) ==
  IF p \in Ports /\ sock[p].kind = "hold" THEN [sock EXCEPT ![p] = FreeSock] ELSE sock

\* The map entry of i goes or is replaced by one with its own health record.
NewEntry(i) ==
  /\ retries' = [retries EXCEPT ![i] = 0]
  /\ health' = [health EXCEPT !.same = @ \ {i}]

\* Mutant: the map entry is removed but its task is not aborted.
StopTunnelNoAbort(i) ==
  /\ tunnels' = tunnels \ {i}
  /\ NewEntry(i)
  /\ sock' = sock

\* stop_tunnel: the entry goes, its task is aborted, the listener is dropped
\* when the runtime gets to it.
StopTunnel(i) ==
  /\ tunnels' = tunnels \ {i}
  /\ NewEntry(i)
  /\ sock' = [p \in Ports |->
                IF i \in tunnels /\ sock[p] = Fwd(i) THEN Dying(i) ELSE sock[p]]

-----------------------------------------------------------------------------
(* Initially the table is empty and nothing runs. *)

Init ==
  /\ res = [i \in Ids |-> NoRes]
  /\ state = [i \in Ids |-> "absent"]
  /\ lease = [i \in Ids |-> "none"]
  /\ sock = [p \in Ports |-> FreeSock]
  /\ tunnels = {} /\ retries = [i \in Ids |-> 0]
  /\ broker = Nobody /\ tm = Nobody
  /\ req = [c \in Clients |-> Idle]
  /\ expired = <<>> /\ reaper = NoId
  /\ health = Sleeping
  /\ view = [i \in Ids |-> "absent"] /\ lost = {}

-----------------------------------------------------------------------------
(* PortBroker::reserve. *)

\* The handler has a pending VM reservation: it gives up the hold listener and
\* the broker lock, and queues for the tunnel manager.
Handover(c, i) ==
  /\ sock' = Unhold(PortOf(i))
  /\ broker' = Nobody
  /\ req' = [req EXCEPT ![c] = At("tmWait", i)]

\* Broker::reserve finds a live row of the same owner and target.  Only a
\* pending VM row makes the handler do anything else than answer.
ReserveExisting(c, r) ==
  /\ req[c].pc = "idle" /\ broker = Nobody
  /\ \E j \in Ids : /\ Duplicate(j, r) /\ Vm(j) /\ state[j] = "pending"
                    /\ Handover(c, j)
  /\ UNCHANGED <<dbVars, tmVars, tm, expired, reaper, health, view, lost>>

\* Duplicate check, limit, allocation, bind, the DELETE + INSERT transaction
\* of Broker::reserve.  The errors leave everything as it was.
InsertRow(r, p, i) ==
  /\ ~ \E j \in Ids : Duplicate(j, r)
  /\ WithinLimit(r.owner)
  /\ Allocates(r.pref, r.exact, Available, p)
  /\ Fresh(i)
  /\ res' = [res EXCEPT ![i] =
               [owner |-> r.owner, target |-> r.target, port |-> p]]
  /\ state' = [j \in Ids |-> IF j = i THEN Initial(r.owner)
                             ELSE IF j \in Cleared(p) THEN "absent"
                             ELSE state[j]]
  /\ lease' = [lease EXCEPT ![i] = IF r.leased THEN "running" ELSE "none"]

\* Broker::reserve inserts a row, keeps the hold listener and sends the event.
\* The re-read of the row comes next.
ReserveNew(c, r, p) ==
  /\ req[c].pc = "idle" /\ broker = Nobody
  /\ \E i \in Ids :
       /\ InsertRow(r, p, i)
       /\ sock' = [sock EXCEPT ![p] = Hold(i)]
       /\ view' = [view EXCEPT ![i] = Initial(r.owner)]
       /\ req' = [req EXCEPT ![c] = At("fetch", i)]
  /\ broker' = c
  /\ UNCHANGED <<tmVars, tm, expired, reaper, health, lost>>

\* Mutant: the handler takes the row to be as it was inserted.
ReserveFetchBlind(c) ==
  LET i == req[c].id IN
  /\ req[c].pc = "fetch"
  /\ \/ Vm(i) /\ Handover(c, i)
     \/ /\ ~Vm(i)
        /\ broker' = Nobody
        /\ req' = [req EXCEPT ![c] = Idle]
        /\ sock' = sock
  /\ UNCHANGED <<dbVars, tmVars, tm, expired, reaper, health, view, lost>>

\* Broker::reserve re-reads the row; the lease may have expired meanwhile.
ReserveFetch(c) ==
  LET i == req[c].id IN
  /\ req[c].pc = "fetch"
  /\ \/ Vm(i) /\ state[i] = "pending" /\ Handover(c, i)
     \/ /\ ~(Vm(i) /\ state[i] = "pending")
        /\ broker' = Nobody
        /\ req' = [req EXCEPT ![c] = Idle]
        /\ sock' = sock
  /\ UNCHANGED <<dbVars, tmVars, tm, expired, reaper, health, view, lost>>

\* tunnel_manager.lock() in the reserve handler.
TmAcquire(c) ==
  /\ req[c].pc = "tmWait" /\ tm = Nobody
  /\ tm' = c
  /\ req' = [req EXCEPT ![c].pc = "ssh"]
  /\ UNCHANGED <<dbVars, sock, tmVars, broker, expired, reaper, health, view, lost>>

\* start_tunnel succeeds: SSH is up, the port is bound, the entry inserted.
TunnelUp(c) ==
  LET i == req[c].id IN
  /\ req[c].pc = "ssh"
  /\ res[i].owner \in Configured
  /\ sock[PortOf(i)].kind = "free"
  /\ sock' = [sock EXCEPT ![PortOf(i)] = Fwd(i)]
  /\ tunnels' = tunnels \cup {i}
  /\ NewEntry(i)
  /\ req' = [req EXCEPT ![c] = [pc |-> "mark", id |-> i, to |-> "active"]]
  /\ UNCHANGED <<dbVars, broker, tm, expired, reaper, view, lost>>

\* Mutant: a failed start returns its error and leaves the row as it is.
TunnelFailReturns(c) ==
  /\ req[c].pc = "ssh"
  /\ req' = [req EXCEPT ![c] = Idle]
  /\ tm' = Nobody
  /\ UNCHANGED <<dbVars, sock, tmVars, broker, expired, reaper, health, view, lost>>

\* start_tunnel fails: unknown VM, SSH error, or the port cannot be bound.
TunnelFail(c) ==
  /\ req[c].pc = "ssh"
  /\ req' = [req EXCEPT ![c] = [pc |-> "mark", id |-> req[c].id, to |-> "failed"]]
  /\ UNCHANGED <<dbVars, sock, tmVars, broker, tm, expired, reaper, health, view, lost>>

\* update_state: broker lock (with the tunnel manager held) and SELECT.
MarkSelect(c) ==
  LET i == req[c].id IN
  /\ req[c].pc = "mark" /\ broker = Nobody
  /\ \/ /\ state[i] = "absent"                  \* ReservationNotFound
        /\ tm' = Nobody
        /\ req' = [req EXCEPT ![c] = Idle]
        /\ broker' = broker
     \/ /\ state[i] # "absent"
        /\ broker' = c
        /\ req' = [req EXCEPT ![c].pc = "write"]
        /\ tm' = tm
  /\ UNCHANGED <<dbVars, sock, tmVars, expired, reaper, health, view, lost>>

\* "UPDATE reservations SET state = ? WHERE id = ?", no row, no effect.  The
\* unique index cannot reject it: OneRowPerPort.
SetState(i, s) == [state EXCEPT ![i] = IF @ = "absent" THEN @ ELSE s]

\* update_state: UPDATE and event; then the handler drops both locks.
MarkWrite(c) ==
  LET i == req[c].id IN
  /\ req[c].pc = "write"
  /\ state' = SetState(i, req[c].to)
  /\ view' = [view EXCEPT ![i] = req[c].to]
  /\ broker' = Nobody /\ tm' = Nobody
  /\ req' = [req EXCEPT ![c] = Idle]
  /\ UNCHANGED <<res, lease, sock, tmVars, expired, reaper, health, lost>>

-----------------------------------------------------------------------------
(* PortBroker::release, by reservation id or by port.                      *)

AfterRelease(i) == IF Vm(i) THEN At("relTm", i) ELSE Idle

\* Lock, look the row up (twice), and start do_release's UPDATE; a released
\* row is left alone but its tunnel is still stopped.
Release(c, i) ==
  /\ req[c].pc = "idle" /\ broker = Nobody
  /\ \/ /\ Live(i)
        /\ broker' = c
        /\ req' = [req EXCEPT ![c] = At("rel", i)]
     \/ /\ state[i] = "released" /\ Vm(i)
        /\ broker' = broker
        /\ req' = [req EXCEPT ![c] = AfterRelease(i)]
  /\ UNCHANGED <<dbVars, sock, tmVars, tm, expired, reaper, health, view, lost>>

\* Mutant: the broker lock is not dropped before the tunnel manager is locked.
ReleaseWriteKeepsLock(c) ==
  LET i == req[c].id IN
  /\ req[c].pc = "rel"
  /\ state' = SetState(i, "released")
  /\ sock' = Unhold(PortOf(i))
  /\ view' = [view EXCEPT ![i] = "released"]
  /\ req' = [req EXCEPT ![c] = AfterRelease(i)]
  /\ UNCHANGED <<res, lease, tmVars, broker, tm, expired, reaper, health, lost>>

\* The UPDATE, the hold listener, the event, and the broker lock.
ReleaseWrite(c) ==
  LET i == req[c].id IN
  /\ req[c].pc = "rel"
  /\ state' = SetState(i, "released")
  /\ sock' = Unhold(PortOf(i))
  /\ view' = [view EXCEPT ![i] = "released"]
  /\ broker' = Nobody
  /\ req' = [req EXCEPT ![c] = AfterRelease(i)]
  /\ UNCHANGED <<res, lease, tmVars, tm, expired, reaper, health, lost>>

\* Tunnel manager lock and stop_tunnel.
ReleaseStop(c) ==
  /\ req[c].pc = "relTm" /\ tm = Nobody
  /\ StopTunnel(req[c].id)
  /\ req' = [req EXCEPT ![c] = Idle]
  /\ UNCHANGED <<dbVars, broker, tm, expired, reaper, view, lost>>

-----------------------------------------------------------------------------
(* LeaseCleanup::run and the task that tears expired reservations down.    *)

\* Mutant: only active rows expire.
ExpirableActive == {i \in Ids : state[i] = "active" /\ lease[i] = "due"}

\* "WHERE state IN ('active', 'pending') AND expires_at <= datetime('now')".
Expirable == {i \in Ids : state[i] \in {"active", "pending"} /\ lease[i] = "due"}

\* Mutant: the batch is not sent.
ExpireLeasesUnsent ==
  /\ Expirable # {}
  /\ state' = [i \in Ids |-> IF i \in Expirable THEN "released" ELSE state[i]]
  /\ UNCHANGED <<res, lease, sock, tmVars, broker, tm, req, expired, reaper,
                 health, view, lost>>

\* expire_leases: one UPDATE ... RETURNING, the batch goes to the channel.
ExpireLeases ==
  /\ Expirable # {}
  /\ state' = [i \in Ids |-> IF i \in Expirable THEN "released" ELSE state[i]]
  /\ expired' = Append(expired, Expirable)
  /\ UNCHANGED <<res, lease, sock, tmVars, broker, tm, req, reaper, health, view, lost>>

\* purge_released: rows past the retention time, any of the released ones.
PurgeReleased(S) ==
  /\ S # {}
  /\ \A i \in S : state[i] = "released"
  /\ state' = [i \in Ids |-> IF i \in S THEN "absent" ELSE state[i]]
  /\ UNCHANGED <<res, lease, sock, tmVars, broker, tm, req, expired, reaper,
                 health, view, lost>>

\* Next item of the batch: tunnel manager lock and stop_tunnel.
ReaperStop(i) ==
  /\ reaper = NoId /\ tm = Nobody
  /\ expired # <<>> /\ i \in Head(expired)
  /\ reaper' = i /\ tm' = Reaper
  /\ expired' = IF Head(expired) = {i} THEN Tail(expired)
                ELSE [expired EXCEPT ![1] = @ \ {i}]
  /\ StopTunnel(i)
  /\ UNCHANGED <<dbVars, broker, req, view, lost>>

\* Mutant: the event of the expiry is not sent.
ReaperFreeSilent ==
  /\ reaper # NoId /\ broker = Nobody
  /\ sock' = Unhold(PortOf(reaper))
  /\ reaper' = NoId /\ tm' = Nobody
  /\ UNCHANGED <<dbVars, tmVars, broker, req, expired, health, view, lost>>

\* Broker lock, the hold listener of the port, the event, both locks.
ReaperFree ==
  /\ reaper # NoId /\ broker = Nobody
  /\ sock' = Unhold(PortOf(reaper))
  /\ view' = [view EXCEPT ![reaper] = "released"]
  /\ reaper' = NoId /\ tm' = Nobody
  /\ UNCHANGED <<dbVars, tmVars, broker, req, expired, health, lost>>

-----------------------------------------------------------------------------
(* TunnelManager::run_health_checks and attempt_reconnections.             *)

\* Mutant: one attempt too many.
AttemptsLeftInclusive(i) == retries[i] <= MaxReconnects

\* h.reconnect_count < max_attempts.
AttemptsLeft(i) == retries[i] < MaxReconnects

\* A round: probe every tunnel without the lock, then lock and collect the
\* ones with alive = FALSE and attempts left.  A probe is any connection to
\* the port and precedes the collection: it may have met a listener that is
\* gone by now, of whichever process, or timed out on one that is there.  So
\* the failed probes are any set of entries.
HealthRound(C) ==
  /\ health = Sleeping /\ tm = Nobody
  /\ C # {} /\ C \subseteq tunnels
  /\ \A i \in C : AttemptsLeft(i)
  /\ health' = [Sleeping EXCEPT !.todo = C, !.same = C]
  /\ UNCHANGED <<dbVars, sock, tmVars, broker, tm, req, expired, reaper, view, lost>>

\* One candidate, no lock held: SSH connects and the port is bound again.
ReconnectUp(i) ==
  /\ health.busy = NoId /\ i \in health.todo
  /\ sock[PortOf(i)].kind = "free"
  /\ sock' = [sock EXCEPT ![PortOf(i)] = Orphan(i)]
  /\ health' = [health EXCEPT !.todo = @ \ {i}, !.busy = i, !.up = TRUE]
  /\ UNCHANGED <<dbVars, tmVars, broker, tm, req, expired, reaper, view, lost>>

\* SSH or the bind fails.
ReconnectFail(i) ==
  /\ health.busy = NoId /\ i \in health.todo
  /\ health' = [health EXCEPT !.todo = @ \ {i}, !.busy = i]
  /\ UNCHANGED <<dbVars, sock, tmVars, broker, tm, req, expired, reaper, view, lost>>

\* h.reconnect_count += 1.
CountAttempt(i) == [retries EXCEPT ![i] = @ + 1]

\* Tunnel manager lock again: the entry, if it is still there, counts the
\* attempt and takes the new task over, aborting its old one.  If it is gone,
\* the new task's handle is dropped, which leaves the task running.
ReconnectInstall ==
  LET i == health.busy IN
  /\ i # NoId /\ tm = Nobody
  /\ health' = [health EXCEPT !.busy = NoId, !.up = FALSE, !.same = @ \ {i}]
  /\ \/ i \notin tunnels /\ UNCHANGED <<sock, retries>>
     \/ /\ i \in tunnels
        /\ retries' = IF i \in health.same THEN CountAttempt(i) ELSE retries
        /\ sock' = [p \in Ports |->
                      IF health.up /\ sock[p] = Fwd(i) THEN Dying(i)
                      ELSE IF health.up /\ sock[p] = Orphan(i) THEN Fwd(i)
                      ELSE sock[p]]
  /\ UNCHANGED <<dbVars, tunnels, broker, tm, req, expired, reaper, view, lost>>

-----------------------------------------------------------------------------
(* The runtime and the environment. *)

\* The runtime drops an aborted task and with it the listener.
FinishAbort(p) ==
  /\ sock[p].kind = "dying"
  /\ sock' = [sock EXCEPT ![p] = FreeSock]
  /\ UNCHANGED <<dbVars, tmVars, broker, tm, req, expired, reaper, health, view, lost>>

\* accept() fails: the forwarding task ends, its map entry stays.
AcceptError(p) ==
  /\ sock[p].kind \in {"fwd", "orphan"}
  /\ sock' = [sock EXCEPT ![p] = FreeSock]
  /\ UNCHANGED <<dbVars, tmVars, broker, tm, req, expired, reaper, health, view, lost>>

\* Another process binds and unbinds a port.
External(p) ==
  /\ \/ sock[p].kind = "free" /\ sock' = [sock EXCEPT ![p] = ExtSock]
     \/ sock[p].kind = "ext" /\ sock' = [sock EXCEPT ![p] = FreeSock]
  /\ UNCHANGED <<dbVars, tmVars, broker, tm, req, expired, reaper, health, view, lost>>

\* expires_at passes.
LeaseTick(i) ==
  /\ lease[i] = "running" /\ Live(i)
  /\ lease' = [lease EXCEPT ![i] = "due"]
  /\ UNCHANGED <<res, state, sock, tmVars, broker, tm, req, expired, reaper,
                 health, view, lost>>

\* The client goes away and the server drops the handler where it waits,
\* releasing its locks.  (Not while a write is on its way to SQLite.)
Disconnect(c) ==
  /\ MayDisconnect
  /\ req[c].pc \in {"fetch", "tmWait", "ssh", "mark", "relTm"}
  /\ req' = [req EXCEPT ![c] = Idle]
  /\ broker' = IF broker = c THEN Nobody ELSE broker
  /\ tm' = IF tm = c THEN Nobody ELSE tm
  /\ UNCHANGED <<dbVars, sock, tmVars, expired, reaper, health, view, lost>>

\* The same while COMMIT is on its way: SQLite inserts the row, the listener
\* that was to hold its port is closed and no event is sent.
DropCommit(c, r, p) ==
  /\ MayDropWrites
  /\ req[c].pc = "idle" /\ broker = Nobody
  /\ \E i \in Ids : InsertRow(r, p, i) /\ lost' = lost \cup {i}
  /\ UNCHANGED <<sock, tmVars, broker, tm, req, expired, reaper, health, view>>

\* The same while the UPDATE of update_state or do_release is on its way.
DropUpdate(c) ==
  LET i == req[c].id IN
  /\ MayDropWrites
  /\ req[c].pc \in {"write", "rel"}
  /\ state' = SetState(i, IF req[c].pc = "rel" THEN "released" ELSE req[c].to)
  /\ lost' = lost \cup {i}
  /\ broker' = Nobody
  /\ tm' = IF tm = c THEN Nobody ELSE tm
  /\ req' = [req EXCEPT ![c] = Idle]
  /\ UNCHANGED <<res, lease, sock, tmVars, expired, reaper, health, view>>

\* portd stops (signal or crash) and starts again on the same database: main
\* builds an empty Broker and TunnelManager.  Watchers list again.
Restart ==
  /\ MayRestart
  /\ sock' = [p \in Ports |-> IF sock[p].kind = "ext" THEN ExtSock ELSE FreeSock]
  /\ tunnels' = {} /\ retries' = [i \in Ids |-> 0]
  /\ broker' = Nobody /\ tm' = Nobody
  /\ req' = [c \in Clients |-> Idle]
  /\ expired' = <<>> /\ reaper' = NoId
  /\ health' = Sleeping
  /\ view' = state /\ lost' = {}
  /\ UNCHANGED dbVars

-----------------------------------------------------------------------------

HandlerStep(c) ==
  \/ ReserveFetch(c) \/ TmAcquire(c) \/ TunnelUp(c) \/ TunnelFail(c)
  \/ MarkSelect(c) \/ MarkWrite(c) \/ ReleaseWrite(c) \/ ReleaseStop(c)

Next ==
  \/ \E c \in Clients :
       \/ \E r \in Requests : ReserveExisting(c, r)
       \/ \E r \in Requests, p \in Ports : ReserveNew(c, r, p) \/ DropCommit(c, r, p)
       \/ \E i \in Ids : Release(c, i)
       \/ HandlerStep(c)
       \/ Disconnect(c) \/ DropUpdate(c)
  \/ ExpireLeases
  \/ \E S \in SUBSET Ids : PurgeReleased(S)
  \/ \E i \in Ids : ReaperStop(i)
  \/ ReaperFree
  \/ \E C \in SUBSET Ids : HealthRound(C)
  \/ \E i \in Ids : ReconnectUp(i) \/ ReconnectFail(i) \/ LeaseTick(i)
  \/ ReconnectInstall
  \/ \E p \in Ports : FinishAbort(p) \/ AcceptError(p)
  \/ \E p \in ExternalPorts : External(p)
  \/ Restart

Spec == Init /\ [][Next]_vars

\* The runtime polls every ready task and the cleanup timer ticks; tokio's
\* mutex is fair (FIFO), so a waiter gets a lock that is free again and again.
\* Nothing is assumed about clients, other processes, accept errors, restarts,
\* or SSH.
Fairness ==
  /\ \A c \in Clients :
       /\ WF_vars(ReserveFetch(c)) /\ SF_vars(TmAcquire(c))
       /\ SF_vars(MarkSelect(c)) /\ WF_vars(MarkWrite(c))
       /\ WF_vars(ReleaseWrite(c)) /\ SF_vars(ReleaseStop(c))
  /\ WF_vars(ExpireLeases)
  /\ SF_vars(\E i \in Ids : ReaperStop(i)) /\ SF_vars(ReaperFree)
  /\ WF_vars(\E i \in Ids : ReconnectUp(i) \/ ReconnectFail(i))
  /\ SF_vars(ReconnectInstall)
  /\ WF_vars(\E p \in Ports : FinishAbort(p))

\* An SSH connection comes about or fails: there is no timeout in the code that
\* would see to it.
SshAnswers == \A c \in Clients : WF_vars(TunnelUp(c) \/ TunnelFail(c))

FairSpec == Spec /\ Fairness

-----------------------------------------------------------------------------
(* Safety. *)

Queued(i)   == \E k \in DOMAIN expired : i \in expired[k]
BeingReaped(i) == Queued(i) \/ reaper = i
Settled(i)     == \A c \in Clients : req[c].id # i

\* "Single source of truth for port ownership": no two rows that are not
\* released have the same assigned port.
PortExclusive ==
  \A i, j \in Ids : Live(i) /\ Live(j) /\ i # j => PortOf(i) # PortOf(j)

\* No two rows at all, released ones included, have the same assigned port:
\* reserve deletes the released row of a port before it inserts, so a late
\* update_state that brings a released row back to life cannot collide, and
\* the partial unique index never rejects a write.
OneRowPerPort ==
  \A i, j \in Ids :
    state[i] # "absent" /\ state[j] # "absent" /\ i # j => PortOf(i) # PortOf(j)

\* A hold listener is held for a live reservation of that very port, for an
\* expired one that the teardown task still has to reach, or for one whose
\* release was dropped half way: no interleaving leaks it otherwise.
HoldAccounted ==
  \A p \in Ports : sock[p].kind = "hold" =>
    LET i == sock[p].id IN
    i \in Ids /\ PortOf(i) = p /\ (Live(i) \/ BeingReaped(i) \/ i \in lost)

\* Every forwarding listener that a map entry stands for can be stopped
\* through it, and an entry has at most one: each is on its own reservation's
\* port.
FwdRegistered ==
  \A p \in Ports : sock[p].kind = "fwd" =>
    sock[p].id \in tunnels /\ PortOf(sock[p].id) = p

\* reconnect_count never exceeds max_reconnect_attempts, although candidates
\* are chosen from a snapshot and counted later under another lock.
ReconnectBound == \A i \in Ids : retries[i] <= MaxReconnects

\* A watcher that misses no event knows the state of every reservation, except
\* while an expiry is on its way to the teardown task, after a dropped write,
\* and for an expired VM reservation that a late call brought back.
ViewCurrent ==
  \A i \in Ids : state[i] # "absent" /\ ~BeingReaped(i) /\ i \notin lost
                     /\ ~(Vm(i) /\ lease[i] = "due")
                   => view[i] = state[i]

\* "Host reservations go directly to active - no tunnel needed, the port is
\* just held" (README): while the row says active, portd listens on the port.
ActiveHostHeld ==
  \A i \in Ids : state[i] = "active" /\ res[i].owner \in HostOwners
                   => sock[PortOf(i)] = Hold(i)

\* The port of a live reservation is not served by the tunnel of another one,
\* once the call that started that tunnel has ended.
PortServesItsOwner ==
  \A i \in Ids : Live(i) /\ sock[PortOf(i)].kind = "fwd" /\ Settled(sock[PortOf(i)].id)
                   => sock[PortOf(i)].id = i

\* A reconnected listener is reachable through the tunnel map once the health
\* task has installed it: none is left that nothing can stop.
NoStrayListener ==
  \A p \in Ports : sock[p].kind = "orphan" => health.busy = sock[p].id

\* A released row stays released until it is deleted ("Released rows are dead
\* data", broker.rs).
ReleasedIsDead ==
  [][\A i \in Ids : state[i] = "released" => state'[i] \in {"released", "absent"}]_vars

\* A reservation that has been released while no call was about to start its
\* tunnel does not come back, whatever else is under way for it.
Dead(i) ==
  /\ state[i] \in {"released", "absent"} /\ PortOf(i) # NoPort
  /\ \A c \in Clients :
       req[c].id = i => req[c].pc \notin {"tmWait", "ssh", "mark", "write"}

DeadStaysDead == [][\A i \in Ids : Dead(i) => Dead(i)']_vars

\* The port of an active host reservation is given up under it only by the
\* teardown of another, expired, reservation of the same port, or a restart.
HoldKept ==
  [][\A i \in Ids :
       /\ res[i].owner \in HostOwners /\ sock[PortOf(i)] = Hold(i)
       /\ state[i] = "active" /\ state'[i] = "active"
       => \/ sock'[PortOf(i)] = Hold(i)
          \/ reaper \in Ids /\ PortOf(reaper) = PortOf(i) /\ ReaperFree
          \/ Restart]_vars

\* A port passes from one reservation to the next only through a moment in
\* which nobody owns it.
Ledger == INSTANCE PortLedger WITH
            LedgerPorts <- Ports, LedgerIds <- Ids,
            claims <- {<<PortOf(i), i>> : i \in {j \in Ids : Live(j)}}

LedgerSpec == Ledger!Spec

-----------------------------------------------------------------------------
(* Liveness, under Fairness. *)

\* Every call is answered if SSH answers: the handlers and the teardown task,
\* which take the two locks in different places, never wait for each other
\* forever.
CallsEnd ==
  SshAnswers => \A c \in Clients : req[c].pc # "idle" ~> req[c].pc = "idle"

\* Even when an SSH connection hangs, with the tunnel manager locked: whoever
\* gets the broker lock gives it back, so that reservations go on.
BrokerLockReturns == \A c \in Clients : broker = c ~> broker # c

\* ... and a lease that runs out takes its reservation out of active and
\* pending.
DueLeaseEnds ==
  \A i \in Ids : (lease[i] = "due" /\ state[i] \in {"active", "pending"})
                   ~> state[i] \notin {"active", "pending"}

\* The hold listener of a reservation that is no longer live is closed, so
\* that its port can be allocated again, if SSH answers.
HoldClosed ==
  SshAnswers =>
    \A i \in Ids, p \in Ports :
      (sock[p] = Hold(i) /\ ~Live(i)) ~> (sock[p] # Hold(i) \/ Live(i))

\* "VM reservations start as pending, then ... active ... failed" (README): a
\* VM reservation does not stay pending, if SSH answers.
PendingResolves ==
  SshAnswers =>
    \A i \in Ids : (state[i] = "pending" /\ Vm(i)) ~> state[i] # "pending"
=============================================================================
