----------------------------- MODULE PortdProofs -----------------------------
(***************************************************************************)
(* Theorems about Portd, for every choice of its constants: any number of  *)
(* clients, reservations and ports, any port range and any set of calls,   *)
(* with or without disconnects and restarts.                               *)
(***************************************************************************)
EXTENDS Portd, SequenceTheorems, TLAPS

-----------------------------------------------------------------------------
(* Port selection. *)

\* allocate_port returns a port of the ones offered to it, and with
\* exact_only the very port that was asked for.
THEOREM AllocatesAvailable ==
  ASSUME NEW pref, NEW exact \in BOOLEAN, NEW avail, NEW p,
         Allocates(pref, exact, avail, p)
  PROVE  p \in avail /\ (exact /\ pref # NoPort => p = pref)
  BY DEF Allocates, Lowest, Above

\* The choice is deterministic: the relation names at most one port.
THEOREM AllocatesUnique ==
  ASSUME NEW pref \in Nat, NEW exact \in BOOLEAN, NEW avail \in SUBSET Nat,
         NEW p, NEW q,
         Allocates(pref, exact, avail, p), Allocates(pref, exact, avail, q)
  PROVE  p = q
<1>1. ASSUME NEW S \in SUBSET Nat, Lowest(S, p), Lowest(S, q)
      PROVE  p = q
  BY <1>1 DEF Lowest
<1>2. Above(pref, avail) \in SUBSET Nat
  BY DEF Above
<1>3. ASSUME NEW S, Lowest(S, p) \/ Lowest(S, q)
      PROVE  S # {}
  BY <1>3 DEF Lowest
<1> QED
  BY <1>1, <1>2, <1>3 DEF Allocates

-----------------------------------------------------------------------------
(* Types. *)

\* A handler at work knows its reservation and, once start_tunnel has
\* returned, the state to write.
MarkKnown ==
  \A c \in Clients :
    /\ req[c].pc # "idle" => req[c].id \in Ids
    /\ req[c].pc \in {"mark", "write"} => req[c].to \in {"active", "failed"}

TypeInv == TypeOK /\ MarkKnown

\* Removing a hold listener leaves a well-typed socket table.
LEMMA UnholdType ==
  ASSUME TypeOK, NEW p
  PROVE  Unhold(p) \in [Ports -> Socket]
  BY DEF TypeOK, Unhold, Socket, FreeSock, SockKinds

\* A row's UPDATE leaves a well-typed state column.
LEMMA SetStateType ==
  ASSUME TypeOK, NEW i, NEW s \in States
  PROVE  SetState(i, s) \in [Ids -> States]
  BY DEF TypeOK, SetState

\* stop_tunnel leaves sockets, map and health record well-typed.
LEMMA StopTunnelType ==
  ASSUME TypeOK, NEW i \in Ids \cup {NoId}, StopTunnel(i)
  PROVE  /\ tunnels' \subseteq Ids
         /\ retries' \in [Ids -> Nat]
         /\ sock' \in [Ports -> Socket]
         /\ health' \in HealthTask
<1>1. tunnels' \subseteq Ids
  BY DEF TypeOK, StopTunnel
<1>2. retries' \in [Ids -> Nat]
  BY DEF TypeOK, StopTunnel, NewEntry
<1>3. sock' \in [Ports -> Socket]
  BY DEF TypeOK, StopTunnel, Socket, SockKinds, Dying
<1>4. health' \in HealthTask
  BY DEF TypeOK, StopTunnel, NewEntry, HealthTask
<1> QED
  BY <1>1, <1>2, <1>3, <1>4

\* Replacing one handler's record keeps req well-typed and MarkKnown.
LEMMA ReqUpdate ==
  ASSUME TypeInv, NEW c \in Clients, NEW hd \in Handler,
         hd.pc \notin {"mark", "write"} \/ hd.to # "none",
         hd.pc # "idle" => hd.id \in Ids,
         req' = [req EXCEPT ![c] = hd]
  PROVE  req' \in [Clients -> Handler] /\ MarkKnown'
  BY DEF TypeInv, TypeOK, MarkKnown, Handler

\* The handler records the actions write are of the Handler type.
LEMMA HandlerRecords ==
  /\ Idle \in Handler /\ Idle.pc = "idle" /\ Idle.id = NoId
  /\ \A i \in Ids \cup {NoId}, pc \in Pcs :
       At(pc, i) \in Handler /\ At(pc, i).pc = pc /\ At(pc, i).id = i
  BY DEF At, Idle, Handler, Pcs

\* The type invariant with MarkKnown is inductive: each action of the daemon
\* keeps it.
LEMMA TypeInvariant == Spec => []TypeInv
<1>1. Init => TypeInv
  BY PortdAssumption DEF Init, TypeInv, TypeOK, MarkKnown, Reservation, NoRes,
     States, LiveStates, Socket, SockKinds, FreeSock, Handler, Pcs, Idle,
     HealthTask, Sleeping, NoId
<1>2. TypeInv /\ [Next]_vars => TypeInv'
  <2> SUFFICES ASSUME TypeInv, [Next]_vars PROVE TypeInv'
    OBVIOUS
  <2>t. TypeOK /\ MarkKnown
    BY DEF TypeInv
  <2>i. \A c \in Clients : /\ req[c].id \in Ids \cup {NoId} /\ req[c].pc \in Pcs
                           /\ req[c].pc # "idle" => req[c].id \in Ids
    BY <2>t DEF TypeOK, MarkKnown, Handler
  <2>o. ASSUME NEW c \in Clients, NEW i \in Ids, Handover(c, i)
        PROVE  /\ sock' \in [Ports -> Socket]
               /\ broker' \in Clients \cup {Nobody}
               /\ req' \in [Clients -> Handler] /\ MarkKnown'
    <3>1. sock' \in [Ports -> Socket]
      BY <2>t, <2>o, UnholdType DEF Handover
    <3>2. /\ At("tmWait", i) \in Handler
          /\ At("tmWait", i).pc = "tmWait" /\ At("tmWait", i).id = i
      BY HandlerRecords DEF Pcs
    <3> QED
      BY <2>o, <3>1, <3>2, ReqUpdate DEF Handover
  <2>1. ASSUME NEW c \in Clients, NEW r \in Requests, ReserveExisting(c, r)
        PROVE  TypeInv'
    BY <2>t, <2>o, <2>1 DEF ReserveExisting, TypeInv, TypeOK, dbVars, tmVars
  <2>n. ASSUME NEW r \in Requests, NEW p \in Ports, NEW i \in Ids, InsertRow(r, p, i)
        PROVE  /\ res' \in [Ids -> Reservation] /\ state' \in [Ids -> States]
               /\ lease' \in [Ids -> {"none", "running", "due"}]
               /\ Initial(r.owner) \in States
    <3>1. r.owner \in Owners /\ r.target \in Targets
      BY PortdAssumption DEF RequestSet
    <3>2. Initial(r.owner) \in States
      BY DEF Initial, States, LiveStates
    <3>3. res' \in [Ids -> Reservation]
      BY <2>t, <2>n, <3>1 DEF InsertRow, TypeOK, Reservation
    <3>4. state' \in [Ids -> States]
      BY <2>t, <2>n, <3>2 DEF InsertRow, TypeOK, States
    <3>5. lease' \in [Ids -> {"none", "running", "due"}]
      BY <2>t, <2>n DEF InsertRow, TypeOK
    <3> QED
      BY <3>2, <3>3, <3>4, <3>5
  <2>2. ASSUME NEW c \in Clients, NEW r \in Requests, NEW p \in Ports,
               ReserveNew(c, r, p)
        PROVE  TypeInv'
    <3>1. PICK i \in Ids :
            /\ InsertRow(r, p, i)
            /\ sock' = [sock EXCEPT ![p] = Hold(i)]
            /\ view' = [view EXCEPT ![i] = Initial(r.owner)]
            /\ req' = [req EXCEPT ![c] = At("fetch", i)]
      BY <2>2 DEF ReserveNew
    <3>2. /\ res' \in [Ids -> Reservation] /\ state' \in [Ids -> States]
          /\ lease' \in [Ids -> {"none", "running", "due"}]
          /\ Initial(r.owner) \in States
      BY <2>n, <3>1
    <3>3. view' \in [Ids -> States]
      BY <2>t, <3>1, <3>2 DEF TypeOK
    <3>4. sock' \in [Ports -> Socket]
      BY <2>t, <3>1 DEF TypeOK, Socket, SockKinds, Hold
    <3>5. /\ At("fetch", i) \in Handler
          /\ At("fetch", i).pc = "fetch" /\ At("fetch", i).id = i
      BY HandlerRecords DEF Pcs
    <3>6. req' \in [Clients -> Handler] /\ MarkKnown'
      BY <3>1, <3>5, ReqUpdate
    <3> QED
      BY <2>t, <2>2, <3>2, <3>3, <3>4, <3>6
      DEF ReserveNew, TypeInv, TypeOK, tmVars
  <2>3. ASSUME NEW c \in Clients, ReserveFetch(c)
        PROVE  TypeInv'
    <3>1. CASE Handover(c, req[c].id)
      BY <2>t, <2>i, <2>o, <2>3, <3>1 DEF ReserveFetch, TypeInv, TypeOK, dbVars, tmVars
    <3>2. CASE broker' = Nobody /\ req' = [req EXCEPT ![c] = Idle] /\ sock' = sock
      BY <2>t, <2>3, <3>2, ReqUpdate, HandlerRecords
      DEF ReserveFetch, TypeInv, TypeOK, dbVars, tmVars
    <3> QED
      BY <2>3, <3>1, <3>2 DEF ReserveFetch
  <2>4. ASSUME NEW c \in Clients, TmAcquire(c)
        PROVE  TypeInv'
    BY <2>t, <2>4 DEF TmAcquire, TypeInv, TypeOK, MarkKnown, Handler, Pcs, dbVars, tmVars
  <2>5. ASSUME NEW c \in Clients, TunnelUp(c)
        PROVE  TypeInv'
    <3> DEFINE i == req[c].id
               hd == [pc |-> "mark", id |-> i, to |-> "active"]
    <3>1. hd \in Handler /\ hd.to # "none" /\ hd.id \in Ids
      BY <2>i, <2>5 DEF TunnelUp, Handler, Pcs
    <3>2. req' \in [Clients -> Handler] /\ MarkKnown'
      BY <2>5, <3>1, ReqUpdate DEF TunnelUp
    <3>3. retries' \in [Ids -> Nat] /\ health' \in HealthTask
      BY <2>t, <2>5 DEF TunnelUp, NewEntry, TypeOK, HealthTask
    <3>4. sock' \in [Ports -> Socket]
      BY <2>t, <2>i, <2>5 DEF TunnelUp, TypeOK, Socket, SockKinds, Fwd
    <3>5. i \in Ids
      BY <2>i, <2>5 DEF TunnelUp
    <3> QED
      BY <2>t, <2>5, <3>2, <3>3, <3>4, <3>5 DEF TunnelUp, TypeInv, TypeOK, dbVars
  <2>6. ASSUME NEW c \in Clients, TunnelFail(c)
        PROVE  TypeInv'
    <3> DEFINE hd == [pc |-> "mark", id |-> req[c].id, to |-> "failed"]
    <3>1. hd \in Handler /\ hd.to # "none" /\ hd.id \in Ids
      BY <2>i, <2>6 DEF TunnelFail, Handler, Pcs
    <3>2. req' \in [Clients -> Handler] /\ MarkKnown'
      BY <2>6, <3>1, ReqUpdate DEF TunnelFail
    <3> QED
      BY <2>t, <2>6, <3>2 DEF TunnelFail, TypeInv, TypeOK, dbVars, tmVars
  <2>7. ASSUME NEW c \in Clients, MarkSelect(c)
        PROVE  TypeInv'
    <3>1. CASE req' = [req EXCEPT ![c] = Idle]
      <4>1. req' \in [Clients -> Handler] /\ MarkKnown'
        BY <3>1, ReqUpdate, HandlerRecords
      <4> QED
        BY <2>t, <2>7, <4>1 DEF MarkSelect, TypeInv, TypeOK, dbVars, tmVars
    <3>2. CASE req' = [req EXCEPT ![c].pc = "write"]
      <4>1. req' \in [Clients -> Handler]
        BY <2>t, <3>2 DEF TypeOK, Handler, Pcs
      <4>2. MarkKnown'
        BY <2>t, <2>7, <3>2 DEF MarkSelect, TypeOK, MarkKnown, Handler
      <4> QED
        BY <2>t, <2>7, <4>1, <4>2 DEF MarkSelect, TypeInv, TypeOK, dbVars, tmVars
    <3> QED
      BY <2>7, <3>1, <3>2 DEF MarkSelect
  <2>8. ASSUME NEW c \in Clients, MarkWrite(c)
        PROVE  TypeInv'
    <3>1. req[c].to \in States
      BY <2>t, <2>8 DEF MarkWrite, MarkKnown, States, LiveStates
    <3>2. state' \in [Ids -> States]
      BY <2>t, <2>8, <3>1, SetStateType DEF MarkWrite
    <3>3. req' \in [Clients -> Handler] /\ MarkKnown'
      BY <2>8, ReqUpdate, HandlerRecords DEF MarkWrite
    <3> QED
      BY <2>t, <2>8, <3>1, <3>2, <3>3 DEF MarkWrite, TypeInv, TypeOK, tmVars
  <2>9. ASSUME NEW c \in Clients, NEW i \in Ids, Release(c, i)
        PROVE  TypeInv'
    <3>1. \A hd \in {At("rel", i), AfterRelease(i)} :
            /\ hd \in Handler /\ hd.pc \notin {"mark", "write"}
            /\ hd.pc # "idle" => hd.id \in Ids
      BY HandlerRecords DEF AfterRelease, Pcs
    <3>2. req' \in [Clients -> Handler] /\ MarkKnown'
      BY <2>9, <3>1, ReqUpdate DEF Release
    <3> QED
      BY <2>t, <2>9, <3>2 DEF Release, TypeInv, TypeOK, dbVars, tmVars
  <2>10. ASSUME NEW c \in Clients, ReleaseWrite(c)
         PROVE  TypeInv'
    <3> DEFINE i == req[c].id
    <3>1. /\ AfterRelease(i) \in Handler
          /\ AfterRelease(i).pc \notin {"mark", "write"}
          /\ AfterRelease(i).pc # "idle" => AfterRelease(i).id \in Ids
      BY <2>i, <2>10, HandlerRecords DEF ReleaseWrite, AfterRelease, Pcs
    <3>2. req' \in [Clients -> Handler] /\ MarkKnown'
      BY <2>10, <3>1, ReqUpdate DEF ReleaseWrite
    <3>3. sock' \in [Ports -> Socket]
      BY <2>t, <2>10, UnholdType DEF ReleaseWrite
    <3>4. "released" \in States
      BY DEF States
    <3>5. state' \in [Ids -> States]
      BY <2>t, <2>10, <3>4, SetStateType DEF ReleaseWrite
    <3> QED
      BY <2>t, <2>10, <3>2, <3>3, <3>4, <3>5 DEF ReleaseWrite, TypeInv, TypeOK, tmVars
  <2>11. ASSUME NEW c \in Clients, ReleaseStop(c)
         PROVE  TypeInv'
    <3>1. req' \in [Clients -> Handler] /\ MarkKnown'
      BY <2>11, ReqUpdate, HandlerRecords DEF ReleaseStop
    <3>2. /\ tunnels' \subseteq Ids /\ retries' \in [Ids -> Nat]
          /\ sock' \in [Ports -> Socket] /\ health' \in HealthTask
      BY <2>t, <2>i, <2>11, StopTunnelType DEF ReleaseStop
    <3> QED
      BY <2>t, <2>11, <3>1, <3>2 DEF ReleaseStop, TypeInv, TypeOK, dbVars
  <2>12. ASSUME NEW c \in Clients, Disconnect(c)
         PROVE  TypeInv'
    <3>1. req' \in [Clients -> Handler] /\ MarkKnown'
      BY <2>12, ReqUpdate, HandlerRecords DEF Disconnect
    <3> QED
      BY <2>t, <2>12, <3>1 DEF Disconnect, TypeInv, TypeOK, dbVars, tmVars
  <2>d. ASSUME NEW c \in Clients, NEW r \in Requests, NEW p \in Ports,
               DropCommit(c, r, p)
        PROVE  TypeInv'
    <3>1. PICK i \in Ids : InsertRow(r, p, i) /\ lost' = lost \cup {i}
      BY <2>d DEF DropCommit
    <3>2. /\ res' \in [Ids -> Reservation] /\ state' \in [Ids -> States]
          /\ lease' \in [Ids -> {"none", "running", "due"}]
      BY <2>n, <3>1
    <3> QED
      BY <2>t, <2>d, <3>1, <3>2 DEF DropCommit, TypeInv, TypeOK, MarkKnown, tmVars
  <2>e. ASSUME NEW c \in Clients, DropUpdate(c)
        PROVE  TypeInv'
    <3> DEFINE s == IF req[c].pc = "rel" THEN "released" ELSE req[c].to
    <3>1. s \in States /\ req[c].id \in Ids
      BY <2>t, <2>i, <2>e DEF DropUpdate, MarkKnown, States, LiveStates
    <3>2. state' \in [Ids -> States]
      BY <2>t, <2>e, <3>1, SetStateType DEF DropUpdate
    <3>3. req' \in [Clients -> Handler] /\ MarkKnown'
      BY <2>e, ReqUpdate, HandlerRecords DEF DropUpdate
    <3> QED
      BY <2>t, <2>e, <3>1, <3>2, <3>3 DEF DropUpdate, TypeInv, TypeOK, tmVars
  <2>13. ASSUME ExpireLeases
         PROVE  TypeInv'
    <3>1. Expirable \in SUBSET Ids
      BY DEF Expirable
    <3>2. expired' \in Seq(SUBSET Ids)
      BY <2>t, <2>13, <3>1, AppendProperties DEF ExpireLeases, TypeOK
    <3>3. state' \in [Ids -> States]
      BY <2>t, <2>13 DEF ExpireLeases, TypeOK, States
    <3> QED
      BY <2>t, <2>13, <3>2, <3>3 DEF ExpireLeases, TypeInv, TypeOK, MarkKnown, tmVars
  <2>14. ASSUME NEW S \in SUBSET Ids, PurgeReleased(S)
         PROVE  TypeInv'
    <3>1. state' \in [Ids -> States]
      BY <2>t, <2>14 DEF PurgeReleased, TypeOK, States
    <3> QED
      BY <2>t, <2>14, <3>1 DEF PurgeReleased, TypeInv, TypeOK, MarkKnown, tmVars
  <2>15. ASSUME NEW i \in Ids, ReaperStop(i)
         PROVE  TypeInv'
    <3>1. /\ tunnels' \subseteq Ids /\ retries' \in [Ids -> Nat]
          /\ sock' \in [Ports -> Socket] /\ health' \in HealthTask
      BY <2>t, <2>15, StopTunnelType DEF ReaperStop
    <3>2. expired \in Seq(SUBSET Ids) /\ expired # <<>>
      BY <2>t, <2>15 DEF ReaperStop, TypeOK
    <3>3. Tail(expired) \in Seq(SUBSET Ids) /\ 1 \in 1..Len(expired) /\ expired[1] \in SUBSET Ids
      BY <3>2, HeadTailProperties, EmptySeq, LenProperties, ElementOfSeq
    <3>4. [expired EXCEPT ![1] = expired[1] \ {i}] \in Seq(SUBSET Ids)
      BY <3>2, <3>3, ExceptSeq
    <3>5. expired' \in Seq(SUBSET Ids)
      BY <2>15, <3>3, <3>4 DEF ReaperStop
    <3> QED
      BY <2>t, <2>15, <3>1, <3>5 DEF ReaperStop, TypeInv, TypeOK, MarkKnown, dbVars
  <2>16. ASSUME ReaperFree
         PROVE  TypeInv'
    <3>1. sock' \in [Ports -> Socket]
      BY <2>t, <2>16, UnholdType DEF ReaperFree
    <3>2. view' \in [Ids -> States]
      BY <2>t, <2>16 DEF ReaperFree, TypeOK, States
    <3> QED
      BY <2>t, <2>16, <3>1, <3>2 DEF ReaperFree, TypeInv, TypeOK, MarkKnown, dbVars, tmVars
  <2>17. ASSUME NEW C \in SUBSET Ids, HealthRound(C)
         PROVE  TypeInv'
    <3>1. health' \in HealthTask
      BY <2>17 DEF HealthRound, HealthTask, Sleeping, NoId
    <3> QED
      BY <2>t, <2>17, <3>1 DEF HealthRound, TypeInv, TypeOK, MarkKnown, dbVars, tmVars
  <2>18. ASSUME NEW i \in Ids, ReconnectUp(i)
         PROVE  TypeInv'
    <3>1. health' \in HealthTask
      BY <2>t, <2>18 DEF ReconnectUp, HealthTask, TypeOK
    <3>2. sock' \in [Ports -> Socket]
      BY <2>t, <2>18 DEF ReconnectUp, TypeOK, Socket, SockKinds, Orphan
    <3> QED
      BY <2>t, <2>18, <3>1, <3>2 DEF ReconnectUp, TypeInv, TypeOK, MarkKnown, dbVars, tmVars
  <2>19. ASSUME NEW i \in Ids, ReconnectFail(i)
         PROVE  TypeInv'
    <3>1. health' \in HealthTask
      BY <2>t, <2>19 DEF ReconnectFail, HealthTask, TypeOK
    <3> QED
      BY <2>t, <2>19, <3>1 DEF ReconnectFail, TypeInv, TypeOK, MarkKnown, dbVars, tmVars
  <2>20. ASSUME NEW i \in Ids, LeaseTick(i)
         PROVE  TypeInv'
    BY <2>t, <2>20 DEF LeaseTick, TypeInv, TypeOK, MarkKnown, tmVars
  <2>21. ASSUME ReconnectInstall
         PROVE  TypeInv'
    <3>1. health' \in HealthTask /\ health.busy \in Ids
      BY <2>t, <2>21 DEF ReconnectInstall, HealthTask, TypeOK
    <3>2. retries' \in [Ids -> Nat]
      BY <2>t, <2>21, <3>1 DEF ReconnectInstall, TypeOK, CountAttempt
    <3>3. sock' \in [Ports -> Socket]
      BY <2>t, <2>21, <3>1
      DEF ReconnectInstall, TypeOK, Socket, SockKinds, Fwd, Dying, Orphan
    <3> QED
      BY <2>t, <2>21, <3>1, <3>2, <3>3
      DEF ReconnectInstall, TypeInv, TypeOK, MarkKnown, dbVars
  <2>22. ASSUME NEW p \in Ports, FinishAbort(p) \/ AcceptError(p) \/ External(p)
         PROVE  TypeInv'
    <3>0. FreeSock \in Socket /\ ExtSock \in Socket
      BY DEF Socket, SockKinds, FreeSock, ExtSock
    <3>1. sock' \in [Ports -> Socket]
      BY <2>t, <2>22, <3>0 DEF FinishAbort, AcceptError, External, TypeOK
    <3> QED
      BY <2>t, <2>22, <3>1
      DEF FinishAbort, AcceptError, External, TypeInv, TypeOK, MarkKnown, dbVars, tmVars
  <2>23. ASSUME Restart
         PROVE  TypeInv'
    <3>1. sock' \in [Ports -> Socket]
      BY <2>t, <2>23 DEF Restart, TypeOK, Socket, SockKinds, FreeSock, ExtSock
    <3>2. req' \in [Clients -> Handler] /\ MarkKnown'
      BY <2>23, HandlerRecords DEF Restart, MarkKnown
    <3>3. health' \in HealthTask
      BY <2>23 DEF Restart, HealthTask, Sleeping
    <3>4. expired' \in Seq(SUBSET Ids)
      BY <2>23, EmptySeq DEF Restart
    <3> QED
      BY <2>t, <2>23, <3>1, <3>2, <3>3, <3>4 DEF Restart, TypeInv, TypeOK, dbVars
  <2>24. CASE UNCHANGED vars
    BY <2>t, <2>24 DEF vars, TypeInv, TypeOK, MarkKnown
  <2> QED
    BY <2>1, <2>2, <2>3, <2>4, <2>5, <2>6, <2>7, <2>8, <2>9, <2>10, <2>11, <2>12,
       <2>13, <2>14, <2>15, <2>16, <2>17, <2>18, <2>19, <2>20, <2>21, <2>22, <2>23,
       <2>24, <2>d, <2>e, PortdAssumption
    DEF Next, HandlerStep
<1> QED
  BY <1>1, <1>2, PTL DEF Spec

\* Every variable keeps its type in every reachable state, whatever the
\* interleaving of handlers, background tasks, disconnects and restarts.
THEOREM TypeCorrect == Spec => []TypeOK
<1>1. TypeInv => TypeOK
  BY DEF TypeInv
<1> QED
  BY <1>1, TypeInvariant, PTL

-----------------------------------------------------------------------------
(* One row per port. *)

\* A row has a port: ids that were never inserted have no row.
RowsMinted == \A i \in Ids : state[i] # "absent" => PortOf(i) \in Ports

RowInv == RowsMinted /\ OneRowPerPort

\* What a step may do to the rows: insert a fresh one on a port no row is
\* left on, or drop and relabel existing ones.
InsertsRow ==
  \E i \in Ids, p \in Ports :
    /\ PortOf(i) = NoPort
    /\ \A j \in Ids : j # i => res'[j] = res[j]
    /\ PortOf(i)' = p /\ Live(i)'
    /\ \A j \in Ids : j # i => /\ state'[j] # state[j] => state[j] = "released" /\ state'[j] = "absent"
                               /\ state'[j] # "absent" => PortOf(j) # p
    /\ \A j \in Ids : Live(j) => PortOf(j) # p

KeepsRows ==
  res' = res /\ \A i \in Ids : state[i] = "absent" => state'[i] = "absent"

\* Broker::reserve inserts one row, on a port no remaining row has.
LEMMA ReserveInserts ==
  ASSUME TypeOK, NEW r \in Requests, NEW p \in Ports, NEW i \in Ids,
         InsertRow(r, p, i)
  PROVE  InsertsRow
<1>1. p \in Available
  <2>1. r.exact \in BOOLEAN
    BY PortdAssumption DEF RequestSet
  <2> QED
    BY <2>1, AllocatesAvailable DEF InsertRow
<1>2. /\ Fresh(i)
      /\ res' = [res EXCEPT ![i] =
                   [owner |-> r.owner, target |-> r.target, port |-> p]]
      /\ state' = [j \in Ids |-> IF j = i THEN Initial(r.owner)
                                 ELSE IF j \in Cleared(p) THEN "absent"
                                 ELSE state[j]]
  BY DEF InsertRow
<1>3. PortOf(i) = NoPort /\ PortOf(i)' = p /\ \A j \in Ids : j # i => res'[j] = res[j]
  BY <1>2 DEF Fresh, PortOf, TypeOK
<1>4. state'[i] = Initial(r.owner)
  BY <1>2
<1>5. Live(i)'
  BY <1>4 DEF Live, Initial, LiveStates
<1>6. \A j \in Ids : Live(j) => PortOf(j) # p
  BY <1>1 DEF Available
<1>7. ASSUME NEW j \in Ids, j # i
      PROVE  /\ state'[j] # state[j] => state[j] = "released" /\ state'[j] = "absent"
             /\ state'[j] # "absent" => PortOf(j) # p
  <2>1. state'[j] = IF j \in Cleared(p) THEN "absent" ELSE state[j]
    BY <1>2, <1>7
  <2>2. state[j] \in States
    BY DEF TypeOK
  <2> QED
    BY <1>6, <2>1, <2>2 DEF Cleared, Live, States
<1> QED
  BY <1>3, <1>5, <1>6, <1>7 DEF InsertsRow

\* An UPDATE of the state column brings no absent row back.
LEMMA SetStateKeeps ==
  ASSUME TypeOK, NEW i, NEW s, state' = SetState(i, s)
  PROVE  \A j \in Ids : state[j] = "absent" => state'[j] = "absent"
  BY DEF TypeOK, SetState

\* The steps that touch the table's rows; every other one leaves them alone.
LEMMA RowStutters ==
  ASSUME [Next]_vars
  PROVE  \/ broker = Nobody /\ \E r \in Requests, p \in Ports, i \in Ids : InsertRow(r, p, i)
         \/ \E c \in Clients : MarkWrite(c) \/ ReleaseWrite(c) \/ DropUpdate(c)
         \/ ExpireLeases \/ \E S \in SUBSET Ids : PurgeReleased(S)
         \/ UNCHANGED <<res, state>>
<1>1. ASSUME NEW c \in Clients,
             \/ \E r \in Requests : ReserveExisting(c, r)
             \/ \E i \in Ids : Release(c, i)
             \/ ReserveFetch(c) \/ TmAcquire(c) \/ TunnelUp(c) \/ TunnelFail(c)
             \/ MarkSelect(c) \/ ReleaseStop(c) \/ Disconnect(c)
      PROVE  UNCHANGED <<res, state>>
  BY <1>1 DEF ReserveExisting, Release, ReserveFetch, TmAcquire, TunnelUp, TunnelFail,
     MarkSelect, ReleaseStop, Disconnect, dbVars
<1>2. ASSUME \/ \E i \in Ids : ReaperStop(i)
             \/ ReaperFree
             \/ \E C \in SUBSET Ids : HealthRound(C)
             \/ \E i \in Ids : ReconnectUp(i) \/ ReconnectFail(i) \/ LeaseTick(i)
             \/ ReconnectInstall
             \/ \E p \in Ports : FinishAbort(p) \/ AcceptError(p)
             \/ \E p \in ExternalPorts : External(p)
             \/ Restart
             \/ UNCHANGED vars
      PROVE  UNCHANGED <<res, state>>
  BY <1>2 DEF ReaperStop, ReaperFree, HealthRound, ReconnectUp, ReconnectFail, LeaseTick,
     ReconnectInstall, FinishAbort, AcceptError, External, Restart, dbVars, vars
<1>3. ASSUME NEW c \in Clients, NEW r \in Requests, NEW p \in Ports,
             ReserveNew(c, r, p) \/ DropCommit(c, r, p)
      PROVE  broker = Nobody /\ \E i \in Ids : InsertRow(r, p, i)
  BY <1>3 DEF ReserveNew, DropCommit
<1> QED
  BY <1>1, <1>2, <1>3 DEF Next, HandlerStep

\* Every step inserts one row as above, with the broker lock, or keeps the
\* rows.
LEMMA RowSteps ==
  ASSUME TypeOK, [Next]_vars
  PROVE  (broker = Nobody /\ InsertsRow) \/ KeepsRows
<1>1. ASSUME NEW r \in Requests, NEW p \in Ports, NEW i \in Ids, InsertRow(r, p, i)
      PROVE  InsertsRow
  BY <1>1, ReserveInserts
<1>2. ASSUME NEW c \in Clients, MarkWrite(c) \/ ReleaseWrite(c) \/ DropUpdate(c)
      PROVE  KeepsRows
  BY <1>2, SetStateKeeps DEF MarkWrite, ReleaseWrite, DropUpdate, KeepsRows
<1>3. ASSUME ExpireLeases \/ \E S \in SUBSET Ids : PurgeReleased(S)
      PROVE  KeepsRows
  <2>1. res' = res
    BY <1>3 DEF ExpireLeases, PurgeReleased
  <2>2. ASSUME NEW i \in Ids, state[i] = "absent" PROVE state'[i] = "absent"
    <3>1. i \notin Expirable
      BY <2>2 DEF Expirable
    <3> QED
      BY <1>3, <2>2, <3>1 DEF ExpireLeases, PurgeReleased
  <2> QED
    BY <2>1, <2>2 DEF KeepsRows
<1>4. ASSUME UNCHANGED <<res, state>>
      PROVE  KeepsRows
  BY <1>4 DEF KeepsRows
<1> QED
  BY <1>1, <1>2, <1>3, <1>4, RowStutters

\* A step of the daemon keeps every row on a port of its own.
LEMMA RowInvStep ==
  ASSUME TypeOK, TypeOK', RowInv, [Next]_vars
  PROVE  RowInv'
<1>1. CASE InsertsRow
  <2>1. PICK i \in Ids, p \in Ports :
          /\ PortOf(i) = NoPort
          /\ \A j \in Ids : j # i => res'[j] = res[j]
          /\ PortOf(i)' = p /\ Live(i)'
          /\ \A j \in Ids : j # i =>
               /\ state'[j] # state[j] => state[j] = "released" /\ state'[j] = "absent"
               /\ state'[j] # "absent" => PortOf(j) # p
    BY <1>1 DEF InsertsRow
  <2>2. \A j \in Ids : j # i => PortOf(j)' = PortOf(j)
    BY <2>1 DEF PortOf
  <2>3. \A j \in Ids : j # i /\ state'[j] # "absent" => state[j] # "absent" /\ PortOf(j)' # p
    BY <2>1, <2>2
  <2>4. RowsMinted'
    BY <2>1, <2>2, <2>3 DEF RowInv, RowsMinted
  <2>5. OneRowPerPort'
    BY <2>1, <2>2, <2>3 DEF RowInv, OneRowPerPort
  <2> QED
    BY <2>4, <2>5 DEF RowInv
<1>2. CASE KeepsRows
  BY <1>2 DEF KeepsRows, RowInv, RowsMinted, OneRowPerPort, PortOf
<1> QED
  BY <1>1, <1>2, RowSteps

\* In every reachable state each row has a port, and no two the same.
LEMMA RowInvariant == Spec => []RowInv
<1>1. Init => RowInv
  BY DEF Init, RowInv, RowsMinted, OneRowPerPort
<1>2. TypeOK /\ TypeOK' /\ RowInv /\ [Next]_vars => RowInv'
  BY RowInvStep
<1> QED
  BY <1>1, <1>2, TypeCorrect, PTL DEF Spec

\* No two rows have the same assigned port, released rows included: the
\* unique index never rejects an INSERT or UPDATE of the broker.
THEOREM RowsExclusive == Spec => []OneRowPerPort
<1>1. RowInv => OneRowPerPort
  BY DEF RowInv
<1> QED
  BY <1>1, RowInvariant, PTL

\* No port is assigned to two live reservations.
THEOREM PortsExclusive == Spec => []PortExclusive
<1>1. RowInv => PortExclusive
  BY DEF RowInv, OneRowPerPort, PortExclusive, Live, LiveStates
<1> QED
  BY <1>1, RowInvariant, PTL

-----------------------------------------------------------------------------
(* The daemon implements the ledger. *)

Claims == {<<PortOf(i), i>> : i \in {j \in Ids : Live(j)}}

\* Inserting a row is one grant of the ledger.
LEMMA ReserveClaims ==
  ASSUME TypeOK, RowInv, InsertsRow
  PROVE  \E p \in Ports, i \in Ids :
           /\ \A c \in Claims : c[1] # p /\ c[2] # i
           /\ Claims' = Claims \cup {<<p, i>>}
<1>1. PICK i \in Ids, p \in Ports :
        /\ PortOf(i) = NoPort
        /\ \A j \in Ids : j # i => res'[j] = res[j]
        /\ PortOf(i)' = p /\ Live(i)'
        /\ \A j \in Ids : j # i =>
             (state'[j] # state[j] => state[j] = "released" /\ state'[j] = "absent")
        /\ \A j \in Ids : Live(j) => PortOf(j) # p
  BY DEF InsertsRow
<1>2. ~Live(i)
  BY <1>1, PortdAssumption DEF RowInv, RowsMinted, Live, LiveStates, NoPort
<1>3. \A c \in Claims : c[1] # p /\ c[2] # i
  BY <1>1, <1>2 DEF Claims
<1>4. \A j \in Ids : j # i => PortOf(j)' = PortOf(j) /\ (Live(j)' <=> Live(j))
  BY <1>1 DEF PortOf, Live, LiveStates
<1>5. Claims' = Claims \cup {<<p, i>>}
  BY <1>1, <1>2, <1>4 DEF Claims
<1> QED
  BY <1>3, <1>5

\* A step that keeps the rows revives at most one of them, and then it frees
\* none: the port of a released row is still that row's own.
LEMMA KeepsClaims ==
  ASSUME TypeOK, RowInv, [Next]_vars, KeepsRows
  PROVE  \/ Claims' \subseteq Claims
         \/ \E i \in Ids : /\ state[i] = "released"
                           /\ \A j \in Ids : j # i => state'[j] = state[j]
                           /\ Live(i)'
<1>1. CASE \E c \in Clients : MarkWrite(c) \/ DropUpdate(c)
  <2>1. PICK c \in Clients : MarkWrite(c) \/ DropUpdate(c)
    BY <1>1
  <2>0. PICK i : i = req[c].id
    OBVIOUS
  <2>2. PICK s : state' = SetState(i, s) /\ res' = res
    BY <2>0, <2>1 DEF MarkWrite, DropUpdate
  <2>3. \A j \in Ids : j # i => state'[j] = state[j]
    BY <2>2 DEF SetState, TypeOK
  <2>4. CASE i \in Ids /\ state[i] = "released" /\ Live(i)'
    BY <2>3, <2>4
  <2>5. CASE ~(i \in Ids /\ state[i] = "released" /\ Live(i)')
    <3>1. \A j \in Ids : Live(j)' => Live(j)
      BY <2>2, <2>3, <2>5 DEF SetState, TypeOK, Live, LiveStates, States
    <3> QED
      BY <2>2, <3>1 DEF Claims, PortOf
  <2> QED
    BY <2>4, <2>5
<1>2. CASE ~ \E c \in Clients : MarkWrite(c) \/ DropUpdate(c)
  <2>1. \A j \in Ids : Live(j)' => Live(j)
    <3>1. CASE UNCHANGED <<res, state>>
      BY <3>1 DEF Live
    <3>2. CASE \E c \in Clients : ReleaseWrite(c)
      BY <3>2 DEF ReleaseWrite, SetState, TypeOK, Live, LiveStates
    <3>3. CASE ExpireLeases \/ \E S \in SUBSET Ids : PurgeReleased(S)
      BY <3>3 DEF ExpireLeases, PurgeReleased, TypeOK, Live, LiveStates
    <3>4. CASE \E r \in Requests, p \in Ports, i \in Ids : InsertRow(r, p, i)
      <4>1. InsertsRow
        BY <3>4, ReserveInserts
      <4> QED
        BY <4>1, PortdAssumption DEF InsertsRow, KeepsRows, PortOf, NoPort
    <3> QED
      BY <1>2, <3>1, <3>2, <3>3, <3>4, RowStutters
  <2> QED
    BY <2>1 DEF KeepsRows, Claims, PortOf
<1> QED
  BY <1>1, <1>2

\* The daemon implements the ledger: a step grants at most one port, one that
\* no live reservation has, or gives ports up, never both.
THEOREM LedgerImplemented == Spec => LedgerSpec
<1>1. Init => Ledger!Init
  BY DEF Init, Ledger!Init, Live, LiveStates
<1>2. TypeOK /\ RowInv /\ [Next]_vars => [Ledger!Next]_Claims
  <2> SUFFICES ASSUME TypeOK, RowInv, [Next]_vars
               PROVE  Ledger!Next \/ Claims' = Claims
    OBVIOUS
  <2>1. ASSUME Claims' \subseteq Claims
        PROVE  Ledger!Next
    <3>1. Claims \ Claims' \in SUBSET Claims /\ Claims' = Claims \ (Claims \ Claims')
      BY <2>1
    <3> QED
      BY <3>1 DEF Ledger!Next, Ledger!Free, Claims
  <2>2. ASSUME NEW p \in Ports, NEW i \in Ids,
               \A c \in Claims : c[1] # p /\ c[2] # i,
               Claims' = Claims \cup {<<p, i>>}
        PROVE  Ledger!Next
    BY <2>2 DEF Ledger!Next, Ledger!Claim, Claims
  <2>3. CASE InsertsRow
    BY <2>2, <2>3, ReserveClaims
  <2>4. CASE KeepsRows
    <3>1. CASE Claims' \subseteq Claims
      BY <2>1, <3>1
    <3>2. ASSUME NEW i \in Ids, state[i] = "released", Live(i)',
                 \A j \in Ids : j # i => state'[j] = state[j]
          PROVE  Ledger!Next
      <4>1. ~Live(i) /\ PortOf(i) \in Ports
        BY <3>2 DEF Live, LiveStates, RowInv, RowsMinted
      <4>2. \A c \in Claims : c[1] # PortOf(i) /\ c[2] # i
        BY <3>2, <4>1 DEF Claims, RowInv, OneRowPerPort, Live, LiveStates
      <4>3. \A j \in Ids : PortOf(j)' = PortOf(j) /\ (j # i => (Live(j)' <=> Live(j)))
        BY <2>4, <3>2 DEF KeepsRows, PortOf, Live
      <4>4. Claims' = Claims \cup {<<PortOf(i), i>>}
        BY <3>2, <4>3 DEF Claims
      <4> QED
        BY <2>2, <4>1, <4>2, <4>4
    <3> QED
      BY <2>4, <3>1, <3>2, KeepsClaims
  <2> QED
    BY <2>3, <2>4, RowSteps
<1>3. TypeOK /\ RowInv /\ [Next]_vars
        => [Ledger!Next]_{<<PortOf(i), i>> : i \in {j \in Ids : Live(j)}}
  BY <1>2 DEF Claims
<1> QED
  BY <1>1, <1>3, TypeCorrect, RowInvariant, PTL DEF Spec, LedgerSpec, Ledger!Spec

-----------------------------------------------------------------------------
(* Hold listeners. *)

\* What a step does to the hold listeners: it adds none, and the ones it
\* leaves stay accounted for.
KeepsHolds ==
  /\ lost \subseteq lost'
  /\ \A i \in Ids : PortOf(i) \in Ports => PortOf(i)' = PortOf(i)
  /\ \A p \in Ports : sock'[p].kind = "hold" =>
       /\ sock'[p] = sock[p]
       /\ \A i \in Ids : i = sock[p].id /\ PortOf(i) = p /\ (Live(i) \/ BeingReaped(i))
                           => Live(i)' \/ BeingReaped(i)' \/ i \in lost'

\* A step that keeps every hold accounted for keeps the invariant.
LEMMA KeepsHoldsAccounted ==
  ASSUME HoldAccounted, KeepsHolds
  PROVE  HoldAccounted'
  BY DEF HoldAccounted, KeepsHolds

\* hold_listeners.remove(&p) leaves no hold on p and the other sockets alone.
LEMMA UnholdEffect ==
  ASSUME TypeOK, NEW p, sock' = Unhold(p)
  PROVE  \A q \in Ports : sock'[q].kind = "hold" => sock'[q] = sock[q] /\ q # p
  BY DEF TypeOK, Unhold, FreeSock

\* stop_tunnel does not touch hold listeners.
LEMMA StopTunnelHolds ==
  ASSUME TypeOK, NEW i, StopTunnel(i)
  PROVE  \A q \in Ports : sock'[q].kind = "hold" => sock'[q] = sock[q]
  BY DEF TypeOK, StopTunnel, Dying

\* Teardown bookkeeping depends on the channel and the current item only.
LEMMA SameReaping ==
  ASSUME UNCHANGED <<expired, reaper>>
  PROVE  \A i \in Ids : BeingReaped(i)' <=> BeingReaped(i)
  BY DEF BeingReaped, Queued

\* Taking an item from the head batch keeps every other one queued.
LEMMA ReaperStopQueue ==
  ASSUME TypeOK, NEW i \in Ids, ReaperStop(i), NEW j \in Ids, BeingReaped(j)
  PROVE  BeingReaped(j)'
<1>1. expired \in Seq(SUBSET Ids) /\ expired # <<>> /\ reaper = NoId /\ reaper' = i
  BY DEF ReaperStop, TypeOK
<1>2. CASE j = i
  BY <1>1, <1>2 DEF BeingReaped
<1>3. CASE j # i
  <2>1. PICK k \in DOMAIN expired : j \in expired[k]
    BY <1>1 DEF BeingReaped, Queued, Ids, NoId
  <2>2. DOMAIN expired = 1..Len(expired) /\ Len(expired) \in Nat /\ k \in 1..Len(expired)
    BY <1>1, <2>1, LenProperties
  <2>3. CASE Head(expired) = {i}
    <3>1. expired' = Tail(expired)
      BY <2>3 DEF ReaperStop
    <3>2. /\ Tail(expired) \in Seq(SUBSET Ids)
          /\ Len(Tail(expired)) = Len(expired) - 1
          /\ \A m \in 1..Len(Tail(expired)) : Tail(expired)[m] = expired[m + 1]
      BY <1>1, HeadTailProperties
    <3>3. Head(expired) = expired[1]
      BY <1>1
    <3>4. k # 1
      BY <1>3, <2>1, <2>3, <3>3
    <3>5. k - 1 \in 1..Len(Tail(expired)) /\ DOMAIN Tail(expired) = 1..Len(Tail(expired))
      BY <2>2, <3>2, <3>4, LenProperties
    <3>6. Tail(expired)[k - 1] = expired[k]
      BY <2>2, <3>2, <3>5
    <3> QED
      BY <2>1, <3>1, <3>5, <3>6 DEF BeingReaped, Queued
  <2>4. CASE Head(expired) # {i}
    <3>1. expired' = [expired EXCEPT ![1] = expired[1] \ {i}]
      BY <2>4 DEF ReaperStop
    <3>2. k \in DOMAIN expired' /\ j \in expired'[k]
      BY <1>3, <2>1, <3>1
    <3> QED
      BY <3>2 DEF BeingReaped, Queued
  <2> QED
    BY <2>3, <2>4
<1> QED
  BY <1>2, <1>3

\* Only a restart forgets the dropped writes; it closes all hold listeners.
LEMMA LostKept ==
  ASSUME [Next]_vars
  PROVE  Restart \/ lost \subseteq lost'
<1>1. ASSUME NEW c \in Clients,
             \/ \E r \in Requests : ReserveExisting(c, r)
             \/ \E r \in Requests, p \in Ports : ReserveNew(c, r, p) \/ DropCommit(c, r, p)
             \/ \E i \in Ids : Release(c, i)
             \/ HandlerStep(c) \/ Disconnect(c) \/ DropUpdate(c)
      PROVE  lost \subseteq lost'
  BY <1>1 DEF ReserveExisting, ReserveNew, DropCommit, Release, HandlerStep, ReserveFetch,
     TmAcquire, TunnelUp, TunnelFail, MarkSelect, MarkWrite, ReleaseWrite, ReleaseStop,
     Disconnect, DropUpdate
<1>2. ASSUME \/ ExpireLeases \/ \E S \in SUBSET Ids : PurgeReleased(S)
             \/ \E i \in Ids : ReaperStop(i)
             \/ ReaperFree
             \/ \E C \in SUBSET Ids : HealthRound(C)
             \/ \E i \in Ids : ReconnectUp(i) \/ ReconnectFail(i) \/ LeaseTick(i)
             \/ ReconnectInstall
             \/ \E p \in Ports : FinishAbort(p) \/ AcceptError(p)
             \/ \E p \in ExternalPorts : External(p)
             \/ UNCHANGED vars
      PROVE  lost' = lost
  BY <1>2 DEF ExpireLeases, PurgeReleased, ReaperStop, ReaperFree, HealthRound, ReconnectUp,
     ReconnectFail, LeaseTick, ReconnectInstall, FinishAbort, AcceptError, External, vars
<1> QED
  BY <1>1, <1>2 DEF Next

\* A step of the daemon leaks no hold listener.
LEMMA HoldStep ==
  ASSUME TypeInv, RowInv, HoldAccounted, [Next]_vars, lost \subseteq lost'
  PROVE  HoldAccounted'
<1>t. TypeOK
  BY DEF TypeInv
<1>1. ASSUME UNCHANGED <<res, state, expired, reaper>>,
             \A q \in Ports : sock'[q].kind = "hold" => sock'[q] = sock[q]
      PROVE  HoldAccounted'
  <2>1. KeepsHolds
    BY <1>1, SameReaping DEF KeepsHolds, PortOf, Live
  <2> QED
    BY <2>1, KeepsHoldsAccounted
<1>2. ASSUME NEW c \in Clients, NEW r \in Requests, ReserveExisting(c, r)
      PROVE  HoldAccounted'
  <2>1. PICK j \in Ids : sock' = Unhold(PortOf(j))
    BY <1>2 DEF ReserveExisting, Handover
  <2> QED
    BY <1>t, <1>1, <1>2, <2>1, UnholdEffect DEF ReserveExisting, dbVars
<1>n. ASSUME NEW r \in Requests, NEW p \in Ports, NEW i \in Ids, InsertRow(r, p, i),
             UNCHANGED <<expired, reaper>>,
             NEW q \in Ports, sock'[q] = sock[q],
             sock'[q].kind = "hold", NEW j, j = sock[q].id
      PROVE  j \in Ids /\ PortOf(j)' = q /\ (Live(j)' \/ BeingReaped(j)' \/ j \in lost')
  <2>1. j \in Ids /\ PortOf(j) = q /\ (Live(j) \/ BeingReaped(j) \/ j \in lost)
    BY <1>n DEF HoldAccounted
  <2>2. j # i
    BY <1>n, <2>1, PortdAssumption DEF InsertRow, Fresh, PortOf, NoPort
  <2>3. PortOf(j)' = q
    BY <1>t, <1>n, <2>1, <2>2 DEF InsertRow, PortOf, TypeOK
  <2>4. Live(j) => Live(j)'
    BY <1>n, <2>1, <2>2 DEF InsertRow, Live, LiveStates, Cleared
  <2> QED
    BY <1>n, <2>1, <2>3, <2>4, SameReaping
<1>3. ASSUME NEW c \in Clients, NEW r \in Requests, NEW p \in Ports, ReserveNew(c, r, p)
      PROVE  HoldAccounted'
  <2>1. PICK i \in Ids : InsertRow(r, p, i) /\ sock' = [sock EXCEPT ![p] = Hold(i)]
    BY <1>3 DEF ReserveNew
  <2>2. PortOf(i)' = p /\ Live(i)'
    BY <1>t, <2>1 DEF InsertRow, PortOf, Live, LiveStates, Initial, TypeOK
  <2>3. sock'[p] = Hold(i) /\ \A q \in Ports : q # p => sock'[q] = sock[q]
    BY <1>t, <2>1 DEF TypeOK
  <2>4. UNCHANGED <<expired, reaper>>
    BY <1>3 DEF ReserveNew
  <2>5. \A q \in Ports : q # p /\ sock'[q].kind = "hold" =>
          \A j : j = sock'[q].id =>
            j \in Ids /\ PortOf(j)' = q /\ (Live(j)' \/ BeingReaped(j)' \/ j \in lost')
    BY <1>n, <2>1, <2>3, <2>4
  <2> QED
    BY <2>2, <2>3, <2>5 DEF HoldAccounted, Hold
<1>d. ASSUME NEW c \in Clients, NEW r \in Requests, NEW p \in Ports, DropCommit(c, r, p)
      PROVE  HoldAccounted'
  <2>1. PICK i \in Ids : InsertRow(r, p, i)
    BY <1>d DEF DropCommit
  <2>2. UNCHANGED <<sock, expired, reaper>>
    BY <1>d DEF DropCommit
  <2>3. \A q \in Ports : sock'[q].kind = "hold" =>
          \A j : j = sock'[q].id =>
            j \in Ids /\ PortOf(j)' = q /\ (Live(j)' \/ BeingReaped(j)' \/ j \in lost')
    BY <1>n, <2>1, <2>2
  <2> QED
    BY <2>3 DEF HoldAccounted
<1>e. ASSUME NEW c \in Clients, DropUpdate(c)
      PROVE  HoldAccounted'
  <2>1. PICK k : k = req[c].id
    OBVIOUS
  <2>2. PICK s : /\ state' = SetState(k, s) /\ lost' = lost \cup {k}
                 /\ UNCHANGED <<res, sock, expired, reaper>>
    BY <1>e, <2>1 DEF DropUpdate
  <2>3. \A i \in Ids : i # k => (Live(i)' <=> Live(i))
    BY <1>t, <2>2 DEF SetState, TypeOK, Live
  <2>4. KeepsHolds
    BY <2>2, <2>3, SameReaping DEF KeepsHolds, PortOf
  <2> QED
    BY <2>4, KeepsHoldsAccounted
<1>4. ASSUME NEW c \in Clients, ReserveFetch(c)
      PROVE  HoldAccounted'
  BY <1>t, <1>1, <1>4, UnholdEffect DEF ReserveFetch, Handover, dbVars
<1>5. ASSUME NEW c \in Clients, TunnelUp(c)
      PROVE  HoldAccounted'
  BY <1>t, <1>1, <1>5 DEF TunnelUp, TypeOK, Fwd, dbVars
<1>6. ASSUME NEW c \in Clients, MarkWrite(c)
      PROVE  HoldAccounted'
  <2>1. \A i \in Ids : Live(i) => Live(i)'
    BY <1>t, <1>6 DEF TypeInv, MarkKnown, MarkWrite, SetState, TypeOK, Live, LiveStates
  <2>2. UNCHANGED <<res, sock, expired, reaper>>
    BY <1>6 DEF MarkWrite
  <2>3. KeepsHolds
    BY <2>1, <2>2, SameReaping DEF KeepsHolds, PortOf
  <2> QED
    BY <2>3, KeepsHoldsAccounted
<1>7. ASSUME NEW c \in Clients, ReleaseWrite(c)
      PROVE  HoldAccounted'
  <2>1. PICK k : k = req[c].id
    OBVIOUS
  <2>2. /\ sock' = Unhold(PortOf(k)) /\ UNCHANGED <<res, expired, reaper>>
        /\ state' = SetState(k, "released")
    BY <1>7, <2>1 DEF ReleaseWrite
  <2>3. \A i \in Ids : i # k => (Live(i)' <=> Live(i))
    BY <1>t, <2>2 DEF SetState, TypeOK, Live
  <2>4. \A q \in Ports : sock'[q].kind = "hold" => sock'[q] = sock[q] /\ q # PortOf(k)
    BY <1>t, <2>2, UnholdEffect
  <2>5. KeepsHolds
    BY <2>2, <2>3, <2>4, SameReaping DEF KeepsHolds, PortOf
  <2> QED
    BY <2>5, KeepsHoldsAccounted
<1>8. ASSUME NEW c \in Clients, ReleaseStop(c)
      PROVE  HoldAccounted'
  BY <1>t, <1>1, <1>8, StopTunnelHolds DEF ReleaseStop, dbVars
<1>9. ASSUME ExpireLeases
      PROVE  HoldAccounted'
  <2>1. UNCHANGED <<res, sock, reaper>> /\ expired' = Append(expired, Expirable)
    BY <1>9 DEF ExpireLeases
  <2>2. expired \in Seq(SUBSET Ids) /\ Expirable \in SUBSET Ids
    BY <1>t DEF TypeOK, Expirable
  <2>3. /\ Len(expired) \in Nat /\ DOMAIN expired = 1..Len(expired)
        /\ DOMAIN expired' = 1..(Len(expired) + 1)
        /\ \A k \in 1..Len(expired) : expired'[k] = expired[k]
        /\ expired'[Len(expired) + 1] = Expirable
    BY <2>1, <2>2, AppendProperties, LenProperties
  <2>4. \A i \in Ids : BeingReaped(i) => BeingReaped(i)'
    BY <2>1, <2>3 DEF BeingReaped, Queued
  <2>5. \A i \in Expirable : BeingReaped(i)'
    BY <2>3 DEF BeingReaped, Queued
  <2>6. \A i \in Ids : i \notin Expirable => (Live(i)' <=> Live(i))
    BY <1>9 DEF ExpireLeases, Live
  <2>7. KeepsHolds
    BY <2>1, <2>4, <2>5, <2>6 DEF KeepsHolds, PortOf
  <2> QED
    BY <2>7, KeepsHoldsAccounted
<1>10. ASSUME NEW S \in SUBSET Ids, PurgeReleased(S)
       PROVE  HoldAccounted'
  <2>1. \A i \in Ids : Live(i) => Live(i)'
    BY <1>10 DEF PurgeReleased, Live, LiveStates
  <2>2. UNCHANGED <<res, sock, expired, reaper>>
    BY <1>10 DEF PurgeReleased
  <2>3. KeepsHolds
    BY <2>1, <2>2, SameReaping DEF KeepsHolds, PortOf
  <2> QED
    BY <2>3, KeepsHoldsAccounted
<1>11. ASSUME NEW i \in Ids, ReaperStop(i)
       PROVE  HoldAccounted'
  <2>1. UNCHANGED <<res, state>>
    BY <1>11 DEF ReaperStop, dbVars
  <2>2. \A j \in Ids : BeingReaped(j) => BeingReaped(j)'
    BY <1>t, <1>11, ReaperStopQueue
  <2>3. \A q \in Ports : sock'[q].kind = "hold" => sock'[q] = sock[q]
    BY <1>t, <1>11, StopTunnelHolds DEF ReaperStop
  <2>4. KeepsHolds
    BY <2>1, <2>2, <2>3 DEF KeepsHolds, PortOf, Live
  <2> QED
    BY <2>4, KeepsHoldsAccounted
<1>12. ASSUME ReaperFree
       PROVE  HoldAccounted'
  <2>1. PICK k : k = reaper
    OBVIOUS
  <2>2. sock' = Unhold(PortOf(k)) /\ UNCHANGED <<res, state, expired>> /\ reaper' = NoId
    BY <1>12, <2>1 DEF ReaperFree, dbVars
  <2>3. \A j \in Ids : j # k /\ BeingReaped(j) => BeingReaped(j)'
    BY <2>1, <2>2 DEF BeingReaped, Queued
  <2>4. \A q \in Ports : sock'[q].kind = "hold" => sock'[q] = sock[q] /\ q # PortOf(k)
    BY <1>t, <2>2, UnholdEffect
  <2>5. KeepsHolds
    BY <2>2, <2>3, <2>4 DEF KeepsHolds, PortOf, Live
  <2> QED
    BY <2>5, KeepsHoldsAccounted
<1>13. ASSUME NEW i \in Ids, ReconnectUp(i)
       PROVE  HoldAccounted'
  BY <1>t, <1>1, <1>13 DEF ReconnectUp, TypeOK, Orphan, dbVars
<1>14. ASSUME ReconnectInstall
       PROVE  HoldAccounted'
  <2>1. \A q \in Ports : sock'[q].kind = "hold" => sock'[q] = sock[q]
    <3>1. \A q \in Ports : sock'[q] \in {sock[q], Fwd(health.busy), Dying(health.busy)}
      BY <1>14 DEF ReconnectInstall
    <3> QED
      BY <3>1 DEF Fwd, Dying
  <2> QED
    BY <1>1, <1>14, <2>1 DEF ReconnectInstall, dbVars
<1>15. ASSUME NEW p \in Ports, FinishAbort(p) \/ AcceptError(p) \/ External(p)
       PROVE  HoldAccounted'
  <2>1. \A q \in Ports : sock'[q].kind = "hold" => sock'[q] = sock[q]
    <3>1. \E s \in {FreeSock, ExtSock} : sock' = [sock EXCEPT ![p] = s]
      BY <1>15 DEF FinishAbort, AcceptError, External
    <3> QED
      BY <1>t, <3>1 DEF TypeOK, FreeSock, ExtSock
  <2> QED
    BY <1>1, <1>15, <2>1 DEF FinishAbort, AcceptError, External, dbVars
<1>16. ASSUME Restart
       PROVE  HoldAccounted'
  BY <1>16 DEF Restart, HoldAccounted, FreeSock, ExtSock
<1>17. ASSUME UNCHANGED <<res, state, sock, expired, reaper>>
       PROVE  HoldAccounted'
  BY <1>1, <1>17
<1>18. ASSUME NEW c \in Clients,
              \/ TmAcquire(c) \/ TunnelFail(c) \/ MarkSelect(c) \/ Disconnect(c)
              \/ \E i \in Ids : Release(c, i)
       PROVE  HoldAccounted'
  BY <1>17, <1>18 DEF TmAcquire, TunnelFail, MarkSelect, Disconnect, Release, dbVars
<1>19. ASSUME \/ \E C \in SUBSET Ids : HealthRound(C)
              \/ \E i \in Ids : ReconnectFail(i) \/ LeaseTick(i)
              \/ UNCHANGED vars
       PROVE  HoldAccounted'
  BY <1>17, <1>19 DEF HealthRound, ReconnectFail, LeaseTick, vars, dbVars
<1> QED
  BY <1>2, <1>3, <1>4, <1>5, <1>6, <1>7, <1>8, <1>9, <1>10, <1>11, <1>12, <1>13,
     <1>14, <1>15, <1>16, <1>18, <1>19, <1>d, <1>e, PortdAssumption
  DEF Next, HandlerStep

\* Each hold listener belongs to a live reservation of its port, to an expired
\* one the teardown task has yet to reach, or to one with a dropped write: where
\* no write is dropped, none is leaked.
THEOREM HoldsAccounted == Spec => []HoldAccounted
<1>1. Init => HoldAccounted
  BY DEF Init, HoldAccounted, FreeSock
<1>2. TypeInv /\ RowInv /\ HoldAccounted /\ [Next]_vars => HoldAccounted'
  <2>1. Restart => HoldAccounted'
    BY DEF Restart, HoldAccounted, FreeSock, ExtSock
  <2> QED
    BY <2>1, HoldStep, LostKept
<1> QED
  BY <1>1, <1>2, TypeInvariant, RowInvariant, PTL DEF Spec

-----------------------------------------------------------------------------
(* Forwarding listeners and reconnection attempts. *)

\* A listener of a reconnect task that is not installed is on its own port.
OrphanOnItsPort ==
  \A p \in Ports : sock[p].kind = "orphan" =>
    sock[p].id \in Ids /\ PortOf(sock[p].id) = p

\* An entry that the health task is about to count an attempt for still has
\* one left; others are within the bound.
AttemptsCovered ==
  \A i \in Ids : /\ retries[i] <= MaxReconnects
                 /\ i \in health.same => retries[i] < MaxReconnects

TunnelInv == FwdRegistered /\ OrphanOnItsPort /\ AttemptsCovered

\* What is left of TunnelInv when no tunnel appears: the sockets that forward
\* were there before, on the same port and with a registered entry.
KeepsForwards ==
  /\ \A i \in Ids : PortOf(i) \in Ports => PortOf(i)' = PortOf(i)
  /\ \A p \in Ports : sock'[p].kind \in {"fwd", "orphan"} =>
       sock'[p] = sock[p] /\ (sock[p].kind = "fwd" => sock[p].id \in tunnels')

\* A step that adds no forwarding listener and keeps the entries of the ones
\* there are keeps them registered.
LEMMA KeepsForwardsRegistered ==
  ASSUME TypeOK, FwdRegistered, OrphanOnItsPort, KeepsForwards
  PROVE  FwdRegistered' /\ OrphanOnItsPort'
<1>1. ASSUME NEW p \in Ports, sock'[p].kind = "fwd"
      PROVE  sock'[p].id \in tunnels' /\ res'[sock'[p].id].port = p
  <2>1. sock'[p] = sock[p] /\ sock[p].id \in tunnels /\ PortOf(sock[p].id) = p
    BY <1>1 DEF KeepsForwards, FwdRegistered
  <2>2. PICK i : i = sock[p].id
    OBVIOUS
  <2>3. i \in Ids /\ PortOf(i)' = p
    BY <2>1, <2>2 DEF TypeOK, KeepsForwards
  <2> QED
    BY <1>1, <2>1, <2>2, <2>3 DEF KeepsForwards, PortOf
<1>2. ASSUME NEW p \in Ports, sock'[p].kind = "orphan"
      PROVE  sock'[p].id \in Ids /\ res'[sock'[p].id].port = p
  <2>1. sock'[p] = sock[p] /\ sock[p].id \in Ids /\ PortOf(sock[p].id) = p
    BY <1>2 DEF KeepsForwards, OrphanOnItsPort
  <2> QED
    BY <2>1 DEF KeepsForwards, PortOf
<1> QED
  BY <1>1, <1>2 DEF FwdRegistered, OrphanOnItsPort, PortOf

\* A new or removed map entry starts counting attempts at zero.
LEMMA NewEntryAttempts ==
  ASSUME TypeOK, AttemptsCovered, NEW i, NewEntry(i)
  PROVE  AttemptsCovered'
  BY PortdAssumption DEF TypeOK, HealthTask, AttemptsCovered, NewEntry

\* Steps that leave counters and the health task alone keep the bound.
LEMMA SameAttempts ==
  ASSUME AttemptsCovered, retries' = retries, health'.same = health.same
  PROVE  AttemptsCovered'
  BY DEF AttemptsCovered

\* stop_tunnel leaves no forwarding listener without its entry.
LEMMA StopTunnelForwards ==
  ASSUME TypeOK, TunnelInv, NEW i, StopTunnel(i), res' = res
  PROVE  TunnelInv'
<1>1. AttemptsCovered'
  BY NewEntryAttempts DEF StopTunnel, TunnelInv
<1>2. tunnels' = tunnels \ {i}
  BY DEF StopTunnel
<1>3. \A p \in Ports : sock'[p] = IF i \in tunnels /\ sock[p] = Fwd(i) THEN Dying(i) ELSE sock[p]
  BY DEF StopTunnel
<1>4. ASSUME NEW p \in Ports, sock'[p].kind \in {"fwd", "orphan"}
      PROVE  sock'[p] = sock[p] /\ (sock[p].kind = "fwd" => sock[p].id \in tunnels')
  <2>1. sock'[p] = sock[p] /\ ~(i \in tunnels /\ sock[p] = Fwd(i))
    BY <1>3, <1>4 DEF Dying
  <2>2. sock[p].kind = "fwd" => sock[p].id \in tunnels
    BY DEF TunnelInv, FwdRegistered
  <2>3. sock[p].kind = "fwd" /\ sock[p].id = i => sock[p] = Fwd(i)
    BY DEF TypeOK, Socket, Fwd
  <2> QED
    BY <1>2, <2>1, <2>2, <2>3
<1>5. KeepsForwards
  BY <1>4 DEF KeepsForwards, PortOf
<1> QED
  BY <1>1, <1>5, KeepsForwardsRegistered DEF TunnelInv

\* A step of the daemon keeps the tunnel invariant.
LEMMA TunnelStep ==
  ASSUME TypeInv, RowInv, TunnelInv, [Next]_vars
  PROVE  TunnelInv'
<1>t. TypeOK
  BY DEF TypeInv
<1>v. FwdRegistered /\ OrphanOnItsPort /\ AttemptsCovered
  BY DEF TunnelInv
<1>1. ASSUME UNCHANGED <<res, tunnels, retries>>, health'.same = health.same,
             \A p \in Ports : sock'[p].kind \in {"fwd", "orphan"} => sock'[p] = sock[p]
      PROVE  TunnelInv'
  <2>1. KeepsForwards
    BY <1>v, <1>1 DEF KeepsForwards, FwdRegistered, PortOf
  <2> QED
    BY <1>t, <1>v, <1>1, <2>1, KeepsForwardsRegistered, SameAttempts DEF TunnelInv
<1>u. ASSUME NEW p, sock' = Unhold(p)
      PROVE  \A q \in Ports : sock'[q].kind \in {"fwd", "orphan"} => sock'[q] = sock[q]
  BY <1>t, <1>u DEF TypeOK, Unhold, FreeSock
<1>2. ASSUME NEW c \in Clients, NEW r \in Requests, NEW p \in Ports,
             ReserveNew(c, r, p) \/ DropCommit(c, r, p)
      PROVE  TunnelInv'
  <2>1. PICK i \in Ids : InsertRow(r, p, i) /\ sock' \in {sock, [sock EXCEPT ![p] = Hold(i)]}
    BY <1>2 DEF ReserveNew, DropCommit
  <2>2. UNCHANGED <<tunnels, retries, health>>
    BY <1>2 DEF ReserveNew, DropCommit, tmVars
  <2>3. \A j \in Ids : PortOf(j) \in Ports => PortOf(j)' = PortOf(j)
    BY <1>t, <2>1, PortdAssumption DEF TypeOK, InsertRow, Fresh, PortOf, NoPort
  <2>4. \A q \in Ports : sock'[q].kind \in {"fwd", "orphan"} => sock'[q] = sock[q]
    BY <1>t, <2>1 DEF TypeOK, Hold
  <2>5. KeepsForwards
    BY <1>v, <2>2, <2>3, <2>4 DEF KeepsForwards, FwdRegistered
  <2> QED
    BY <1>t, <1>v, <2>2, <2>5, KeepsForwardsRegistered, SameAttempts DEF TunnelInv
<1>3. ASSUME NEW c \in Clients,
             ReserveFetch(c) \/ \E r \in Requests : ReserveExisting(c, r)
      PROVE  TunnelInv'
  <2>1. \/ sock' = sock
        \/ \E p : sock' = Unhold(p)
    BY <1>3 DEF ReserveFetch, ReserveExisting, Handover
  <2>2. UNCHANGED <<res, tunnels, retries, health>>
    BY <1>3 DEF ReserveFetch, ReserveExisting, dbVars, tmVars
  <2> QED
    BY <1>1, <1>u, <2>1, <2>2
<1>4. ASSUME NEW c \in Clients, TunnelUp(c)
      PROVE  TunnelInv'
  <2>1. PICK i : i = req[c].id
    OBVIOUS
  <2>2. i \in Ids
    BY <1>4, <2>1 DEF TunnelUp, TypeInv, MarkKnown
  <2>3. /\ sock' = [sock EXCEPT ![PortOf(i)] = Fwd(i)]
        /\ tunnels' = tunnels \cup {i} /\ NewEntry(i) /\ res' = res
    BY <1>4, <2>1 DEF TunnelUp, dbVars
  <2>4. \A p \in Ports : sock'[p] = IF p = PortOf(i) THEN Fwd(i) ELSE sock[p]
    BY <1>t, <2>3 DEF TypeOK
  <2>5. FwdRegistered'
    BY <1>v, <2>3, <2>4 DEF FwdRegistered, Fwd, PortOf
  <2>6. OrphanOnItsPort'
    BY <1>v, <2>3, <2>4 DEF OrphanOnItsPort, Fwd, PortOf
  <2> QED
    BY <1>t, <1>v, <2>3, <2>5, <2>6, NewEntryAttempts DEF TunnelInv
<1>5. ASSUME NEW c \in Clients, ReleaseWrite(c)
      PROVE  TunnelInv'
  <2>1. \E p : sock' = Unhold(p)
    BY <1>5 DEF ReleaseWrite
  <2>2. UNCHANGED <<res, tunnels, retries, health>>
    BY <1>5 DEF ReleaseWrite, tmVars
  <2> QED
    BY <1>1, <1>u, <2>1, <2>2
<1>6. ASSUME NEW c \in Clients, ReleaseStop(c)
      PROVE  TunnelInv'
  BY <1>t, <1>6, StopTunnelForwards DEF ReleaseStop, dbVars
<1>7. ASSUME NEW i \in Ids, ReaperStop(i)
      PROVE  TunnelInv'
  BY <1>t, <1>7, StopTunnelForwards DEF ReaperStop, dbVars
<1>8. ASSUME ReaperFree
      PROVE  TunnelInv'
  <2>1. \E p : sock' = Unhold(p)
    BY <1>8 DEF ReaperFree
  <2>2. UNCHANGED <<res, tunnels, retries, health>>
    BY <1>8 DEF ReaperFree, dbVars, tmVars
  <2> QED
    BY <1>1, <1>u, <2>1, <2>2
<1>9. ASSUME NEW C \in SUBSET Ids, HealthRound(C)
      PROVE  TunnelInv'
  <2>1. UNCHANGED <<res, sock, tunnels, retries>> /\ health'.same = C
    BY <1>9 DEF HealthRound, Sleeping, dbVars, tmVars
  <2>2. \A i \in C : retries[i] < MaxReconnects
    BY <1>9 DEF HealthRound, AttemptsLeft
  <2>3. AttemptsCovered'
    BY <1>v, <2>1, <2>2 DEF AttemptsCovered
  <2>4. KeepsForwards
    BY <1>v, <2>1 DEF KeepsForwards, FwdRegistered, PortOf
  <2> QED
    BY <1>t, <1>v, <2>3, <2>4, KeepsForwardsRegistered DEF TunnelInv
<1>10. ASSUME NEW i \in Ids, ReconnectUp(i)
       PROVE  TunnelInv'
  <2>1. /\ sock' = [sock EXCEPT ![PortOf(i)] = Orphan(i)]
        /\ UNCHANGED <<res, tunnels, retries>>
    BY <1>10 DEF ReconnectUp, dbVars, tmVars
  <2>2. health'.same = health.same
    BY <1>t, <1>10 DEF ReconnectUp, TypeOK, HealthTask
  <2>3. \A p \in Ports : sock'[p] = IF p = PortOf(i) THEN Orphan(i) ELSE sock[p]
    BY <1>t, <2>1 DEF TypeOK
  <2>4. FwdRegistered'
    BY <1>v, <2>1, <2>3 DEF FwdRegistered, Orphan, PortOf
  <2>5. OrphanOnItsPort'
    BY <1>v, <2>1, <2>3 DEF OrphanOnItsPort, Orphan, PortOf
  <2> QED
    BY <1>v, <2>1, <2>2, <2>4, <2>5, SameAttempts DEF TunnelInv
<1>11. ASSUME NEW i \in Ids, ReconnectFail(i)
       PROVE  TunnelInv'
  <2>1. health'.same = health.same
    BY <1>t, <1>11 DEF ReconnectFail, TypeOK, HealthTask
  <2> QED
    BY <1>1, <1>11, <2>1 DEF ReconnectFail, dbVars, tmVars
<1>12. ASSUME ReconnectInstall
       PROVE  TunnelInv'
  <2>1. PICK i : i = health.busy
    OBVIOUS
  <2>2. i \in Ids /\ health'.same = health.same \ {i} /\ UNCHANGED <<res, tunnels>>
    BY <1>t, <1>12, <2>1 DEF ReconnectInstall, TypeOK, HealthTask, dbVars
  <2>3. AttemptsCovered'
    <3>1. retries' = retries \/ (i \in health.same /\ retries' = [retries EXCEPT ![i] = @ + 1])
      BY <1>12, <2>1 DEF ReconnectInstall, CountAttempt
    <3> QED
      BY <1>t, <1>v, <2>2, <3>1, PortdAssumption DEF AttemptsCovered, TypeOK
  <2>4. CASE sock' = sock
    <3>1. KeepsForwards
      BY <1>v, <2>2, <2>4 DEF KeepsForwards, FwdRegistered, PortOf
    <3> QED
      BY <1>t, <1>v, <2>3, <3>1, KeepsForwardsRegistered DEF TunnelInv
  <2>5. CASE i \in tunnels /\ \A p \in Ports :
               sock'[p] = IF health.up /\ sock[p] = Fwd(i) THEN Dying(i)
                          ELSE IF health.up /\ sock[p] = Orphan(i) THEN Fwd(i)
                          ELSE sock[p]
    <3>1. \A p \in Ports : \/ sock'[p] = sock[p]
                           \/ sock'[p] = Dying(i)
                           \/ sock'[p] = Fwd(i) /\ sock[p] = Orphan(i)
      BY <2>5
    <3>2. FwdRegistered'
      BY <1>v, <2>2, <2>5, <3>1
      DEF FwdRegistered, OrphanOnItsPort, Fwd, Orphan, Dying, PortOf
    <3>3. OrphanOnItsPort'
      BY <1>v, <2>2, <3>1 DEF OrphanOnItsPort, Fwd, Dying, PortOf
    <3> QED
      BY <2>3, <3>2, <3>3 DEF TunnelInv
  <2> QED
    BY <1>12, <2>1, <2>4, <2>5 DEF ReconnectInstall
<1>13. ASSUME NEW p \in Ports, FinishAbort(p) \/ AcceptError(p) \/ External(p)
       PROVE  TunnelInv'
  <2>1. \E s \in {FreeSock, ExtSock} : sock' = [sock EXCEPT ![p] = s]
    BY <1>13 DEF FinishAbort, AcceptError, External
  <2>2. \A q \in Ports : sock'[q].kind \in {"fwd", "orphan"} => sock'[q] = sock[q]
    BY <1>t, <2>1 DEF TypeOK, FreeSock, ExtSock
  <2> QED
    BY <1>1, <1>13, <2>2 DEF FinishAbort, AcceptError, External, dbVars, tmVars
<1>14. ASSUME Restart
       PROVE  TunnelInv'
  BY <1>14, PortdAssumption DEF Restart, TunnelInv, FwdRegistered, OrphanOnItsPort,
     AttemptsCovered, FreeSock, ExtSock, Sleeping
<1>15. ASSUME UNCHANGED <<res, sock, tunnels, retries, health>>
       PROVE  TunnelInv'
  BY <1>1, <1>15
<1>16. ASSUME NEW c \in Clients,
              \/ TmAcquire(c) \/ TunnelFail(c) \/ MarkSelect(c) \/ MarkWrite(c)
              \/ Disconnect(c) \/ DropUpdate(c) \/ \E i \in Ids : Release(c, i)
       PROVE  TunnelInv'
  BY <1>15, <1>16
  DEF TmAcquire, TunnelFail, MarkSelect, MarkWrite, Disconnect, DropUpdate, Release,
      dbVars, tmVars
<1>17. ASSUME \/ ExpireLeases \/ \E S \in SUBSET Ids : PurgeReleased(S)
              \/ \E i \in Ids : LeaseTick(i)
              \/ UNCHANGED vars
       PROVE  TunnelInv'
  BY <1>15, <1>17 DEF ExpireLeases, PurgeReleased, LeaseTick, vars, tmVars
<1> QED
  BY <1>2, <1>3, <1>4, <1>5, <1>6, <1>7, <1>8, <1>9, <1>10, <1>11, <1>12, <1>13,
     <1>14, <1>16, <1>17, PortdAssumption
  DEF Next, HandlerStep

\* The tunnel invariant holds in every reachable state.
LEMMA TunnelInvariant == Spec => []TunnelInv
<1>1. Init => TunnelInv
  BY PortdAssumption DEF Init, TunnelInv, FwdRegistered, OrphanOnItsPort,
     AttemptsCovered, FreeSock, Sleeping
<1>2. TypeInv /\ RowInv /\ TunnelInv /\ [Next]_vars => TunnelInv'
  BY TunnelStep
<1> QED
  BY <1>1, <1>2, TypeInvariant, RowInvariant, PTL DEF Spec

\* Every installed forwarding listener has a map entry through which it can
\* be stopped, and forwards on that entry's own port.
THEOREM ForwardsRegistered == Spec => []FwdRegistered
<1>1. TunnelInv => FwdRegistered
  BY DEF TunnelInv
<1> QED
  BY <1>1, TunnelInvariant, PTL

\* No tunnel is reconnected more than max_reconnect_attempts times.
THEOREM ReconnectsBounded == Spec => []ReconnectBound
<1>1. TunnelInv => ReconnectBound
  BY DEF TunnelInv, AttemptsCovered, ReconnectBound
<1> QED
  BY <1>1, TunnelInvariant, PTL
=============================================================================
