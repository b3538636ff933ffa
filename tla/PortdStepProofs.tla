--------------------------- MODULE PortdStepProofs ---------------------------
(***************************************************************************)
(* More theorems about Portd, for every choice of its constants: what the  *)
(* handlers and the teardown task know while they work, and from it what   *)
(* watchers know and what no step of the daemon may do to a dead           *)
(* reservation or to the hold listener of a live one.                      *)
(***************************************************************************)
EXTENDS PortdProofs

-----------------------------------------------------------------------------
(* Handlers at work. *)

Minted(i) == PortOf(i) # NoPort

\* The places of a handler between a pending VM row and its new state, and
\* those where it has the broker lock.
TunnelPcs == {"tmWait", "ssh", "mark", "write"}
BrokerPcs == {"fetch", "write", "rel"}

\* A handler works for a reservation that was inserted; only VM reservations
\* get a tunnel; the broker lock is held across the statements that need it;
\* and since a release started no other row has its port.
HandlerOk(c) ==
  LET i == req[c].id IN
  /\ req[c].pc # "idle" => Minted(i)
  /\ req[c].pc \in TunnelPcs => Vm(i)
  /\ req[c].pc \in BrokerPcs => broker = c
  /\ req[c].pc = "rel" =>
       \A j \in Ids : state[j] # "absent" /\ j # i => PortOf(j) # PortOf(i)

HandlersInv == \A c \in Clients : HandlerOk(c)

\* The columns of a row that was inserted once never change.
LEMMA MintedKept ==
  ASSUME TypeOK, [Next]_vars
  PROVE  \A i \in Ids : Minted(i) =>
           res'[i] = res[i] /\ Minted(i)' /\ (Vm(i) => Vm(i)')
<1>1. \A i \in Ids : Minted(i) => res'[i] = res[i]
  BY RowSteps DEF InsertsRow, KeepsRows, Minted
<1> QED
  BY <1>1 DEF Minted, PortOf, Vm

\* A row that is there was inserted.
LEMMA PresentMinted ==
  ASSUME RowInv
  PROVE  \A i \in Ids : state[i] # "absent" => Minted(i)
  BY PortdAssumption DEF RowInv, RowsMinted, Minted, NoPort

\* A step that moves on neither a handler nor the lock from under it leaves
\* what the handler knows true.
LEMMA HandlerFrame ==
  ASSUME TypeInv, [Next]_vars, NEW d \in Clients, HandlerOk(d),
         req'[d] = req[d], broker' = broker \/ broker # d
  PROVE  HandlerOk(d)'
<1> DEFINE i == req[d].id
<1>t. TypeOK /\ (req[d].pc # "idle" => i \in Ids)
  BY DEF TypeInv, MarkKnown
<1>1. req[d].pc # "idle" => Minted(i)' /\ PortOf(i)' = PortOf(i) /\ (Vm(i) => Vm(i)')
  BY <1>t, MintedKept DEF HandlerOk, PortOf
<1>2. req[d].pc \in BrokerPcs => broker' = d
  BY DEF HandlerOk
<1>3. ASSUME req[d].pc = "rel", NEW j \in Ids, state'[j] # "absent", j # i
      PROVE  PortOf(j)' # PortOf(i)'
  <2>1. broker = d /\ d # Nobody
    BY <1>3, PortdAssumption DEF HandlerOk, BrokerPcs
  <2>2. KeepsRows
    BY <1>t, <2>1, RowSteps
  <2> QED
    BY <1>3, <2>2 DEF KeepsRows, HandlerOk, PortOf
<1>4. req[d].pc \in TunnelPcs => req[d].pc # "idle"
  BY DEF TunnelPcs
<1> QED
  BY <1>1, <1>2, <1>3, <1>4 DEF HandlerOk

\* A step of one handler that takes the broker lock only when it is free.
LEMMA OneHandlerMoves ==
  ASSUME TypeInv, HandlersInv, [Next]_vars, NEW c \in Clients, NEW hd,
         req' = [req EXCEPT ![c] = hd],
         broker' = broker \/ broker \in {Nobody, c},
         HandlerOk(c)'
  PROVE  HandlersInv'
<1>1. ASSUME NEW d \in Clients, d # c PROVE HandlerOk(d)'
  <2>1. req'[d] = req[d] /\ (broker' = broker \/ broker # d) /\ HandlerOk(d)
    BY <1>1, PortdAssumption DEF TypeInv, TypeOK, HandlersInv
  <2> QED
    BY <1>1, <2>1, HandlerFrame
<1> QED
  BY <1>1 DEF HandlersInv

\* A step that leaves handlers and broker lock alone.
LEMMA NoHandlerMoves ==
  ASSUME TypeInv, HandlersInv, [Next]_vars, UNCHANGED <<req, broker>>
  PROVE  HandlersInv'
  BY HandlerFrame DEF HandlersInv

\* An idle handler knows nothing, one that waits only that its reservation
\* exists.
LEMMA HandlerRests ==
  ASSUME TypeInv, NEW c \in Clients, NEW hd, req' = [req EXCEPT ![c] = hd],
         \/ hd.pc = "idle"
         \/ hd.pc = "relTm" /\ Minted(hd.id)'
         \/ hd.pc \in {"tmWait", "ssh", "mark"} /\ Minted(hd.id)' /\ Vm(hd.id)'
  PROVE  HandlerOk(c)'
<1>1. req'[c] = hd
  BY DEF TypeInv, TypeOK
<1> QED
  BY <1>1 DEF HandlerOk, TunnelPcs, BrokerPcs

\* A step of the daemon leaves what its handlers know true.
LEMMA HandlersStep ==
  ASSUME TypeInv, RowInv, HandlersInv, [Next]_vars
  PROVE  HandlersInv'
<1>t. TypeOK
  BY DEF TypeInv
<1>h. ASSUME NEW c \in Clients
      PROVE  /\ req[c].pc # "idle" => /\ req[c].id \in Ids
                                      /\ \A i : i = req[c].id => Minted(i)'
             /\ req[c].pc \in TunnelPcs => \A i : i = req[c].id => Vm(i)'
             /\ req[c].pc \in BrokerPcs => broker = c
  <2>1. HandlerOk(c) /\ (req[c].pc # "idle" => req[c].id \in Ids)
    BY DEF HandlersInv, TypeInv, MarkKnown
  <2>2. req[c].pc \in TunnelPcs => req[c].pc # "idle"
    BY DEF TunnelPcs
  <2> QED
    BY <1>t, <2>1, <2>2, MintedKept DEF HandlerOk
<1>r. \A i \in Ids : state[i] # "absent" => Minted(i)' /\ (Vm(i) => Vm(i)')
  BY <1>t, PresentMinted, MintedKept
<1>o. ASSUME NEW c \in Clients, NEW i \in Ids, Handover(c, i), Vm(i), state[i] = "pending",
             broker \in {Nobody, c}
      PROVE  HandlersInv'
  <2>1. HandlerOk(c)'
    BY <1>r, <1>o, HandlerRests DEF Handover, At
  <2> QED
    BY <1>o, <2>1, OneHandlerMoves DEF Handover
<1>1. ASSUME NEW c \in Clients, NEW r \in Requests, ReserveExisting(c, r)
      PROVE  HandlersInv'
  BY <1>1, <1>o DEF ReserveExisting
<1>2. ASSUME NEW c \in Clients, NEW r \in Requests, NEW p \in Ports, ReserveNew(c, r, p)
      PROVE  HandlersInv'
  <2>1. PICK i \in Ids : /\ InsertRow(r, p, i)
                         /\ req' = [req EXCEPT ![c] = At("fetch", i)]
    BY <1>2 DEF ReserveNew
  <2>2. broker = Nobody /\ broker' = c
    BY <1>2 DEF ReserveNew
  <2>3. Minted(i)'
    BY <1>t, <2>1, PortdAssumption DEF InsertRow, Minted, PortOf, TypeOK, NoPort
  <2>4. req'[c] = At("fetch", i)
    BY <1>t, <2>1 DEF TypeOK
  <2>5. HandlerOk(c)'
    BY <2>2, <2>3, <2>4 DEF HandlerOk, At, TunnelPcs
  <2> QED
    BY <2>1, <2>2, <2>5, OneHandlerMoves
<1>3. ASSUME NEW c \in Clients, NEW r \in Requests, NEW p \in Ports, DropCommit(c, r, p)
      PROVE  HandlersInv'
  BY <1>3, NoHandlerMoves DEF DropCommit
<1>4. ASSUME NEW c \in Clients, ReserveFetch(c)
      PROVE  HandlersInv'
  <2>1. broker = c /\ req[c].id \in Ids
    BY <1>4, <1>h DEF ReserveFetch, BrokerPcs
  <2>2. CASE Vm(req[c].id) /\ state[req[c].id] = "pending" /\ Handover(c, req[c].id)
    BY <1>o, <2>1, <2>2
  <2>3. CASE req' = [req EXCEPT ![c] = Idle]
    <3>1. HandlerOk(c)'
      BY <2>3, HandlerRests DEF Idle
    <3> QED
      BY <2>1, <2>3, <3>1, OneHandlerMoves
  <2> QED
    BY <1>4, <2>2, <2>3 DEF ReserveFetch
<1>5. ASSUME NEW c \in Clients, NEW hd, req' = [req EXCEPT ![c] = hd],
             broker' = broker \/ broker \in {Nobody, c}, hd.pc = "idle"
      PROVE  HandlersInv'
  BY <1>5, HandlerRests, OneHandlerMoves
<1>6. ASSUME NEW c \in Clients, TmAcquire(c)
      PROVE  HandlersInv'
  <2>1. /\ req[c].pc = "tmWait" /\ broker' = broker
        /\ req' = [req EXCEPT ![c] = [req[c] EXCEPT !.pc = "ssh"]]
    BY <1>6 DEF TmAcquire
  <2>2. [req[c] EXCEPT !.pc = "ssh"].pc = "ssh" /\ [req[c] EXCEPT !.pc = "ssh"].id = req[c].id
    BY <1>t DEF TypeOK, Handler
  <2>3. HandlerOk(c)'
    BY <1>h, <2>1, <2>2, HandlerRests DEF TunnelPcs
  <2> QED
    BY <2>1, <2>3, OneHandlerMoves
<1>7. ASSUME NEW c \in Clients, TunnelUp(c) \/ TunnelFail(c)
      PROVE  HandlersInv'
  <2>1. PICK hd : /\ hd.pc = "mark" /\ hd.id = req[c].id /\ req[c].pc = "ssh"
                  /\ req' = [req EXCEPT ![c] = hd] /\ broker' = broker
    BY <1>7 DEF TunnelUp, TunnelFail
  <2>2. HandlerOk(c)'
    BY <1>h, <2>1, HandlerRests DEF TunnelPcs
  <2> QED
    BY <2>1, <2>2, OneHandlerMoves
<1>8. ASSUME NEW c \in Clients, MarkSelect(c)
      PROVE  HandlersInv'
  <2>1. CASE req' = [req EXCEPT ![c] = Idle] /\ broker' = broker
    BY <1>5, <2>1 DEF Idle
  <2>2. CASE req' = [req EXCEPT ![c].pc = "write"] /\ broker' = c
    <3>1. req[c].pc = "mark" /\ broker = Nobody
      BY <1>8 DEF MarkSelect
    <3>2. req'[c] = [req[c] EXCEPT !.pc = "write"]
      BY <1>t, <2>2 DEF TypeOK
    <3>3. req'[c].pc = "write" /\ req'[c].id = req[c].id
      BY <1>t, <3>2 DEF TypeOK, Handler
    <3>4. HandlerOk(c)'
      BY <1>h, <2>2, <3>1, <3>3 DEF HandlerOk, TunnelPcs, BrokerPcs
    <3> QED
      BY <2>2, <3>1, <3>4, OneHandlerMoves
  <2> QED
    BY <1>8, <2>1, <2>2 DEF MarkSelect
<1>9. ASSUME NEW c \in Clients, MarkWrite(c)
      PROVE  HandlersInv'
  <2>1. req[c].pc = "write" /\ req' = [req EXCEPT ![c] = Idle]
    BY <1>9 DEF MarkWrite
  <2>2. broker = c
    BY <1>h, <2>1 DEF BrokerPcs
  <2> QED
    BY <1>5, <2>1, <2>2 DEF Idle
<1>10. ASSUME NEW c \in Clients, NEW i \in Ids, Release(c, i)
       PROVE  HandlersInv'
  <2>1. CASE Live(i) /\ broker' = c /\ req' = [req EXCEPT ![c] = At("rel", i)]
    <3>1. broker = Nobody /\ UNCHANGED <<res, state>>
      BY <1>10 DEF Release, dbVars
    <3>2. req'[c] = At("rel", i)
      BY <1>t, <2>1 DEF TypeOK
    <3>3. state[i] # "absent"
      BY <2>1 DEF Live, LiveStates
    <3>4. \A j \in Ids : state'[j] # "absent" /\ j # i => PortOf(j)' # PortOf(i)'
      BY <3>1, <3>3 DEF RowInv, OneRowPerPort, PortOf
    <3>5. HandlerOk(c)'
      BY <1>r, <2>1, <3>2, <3>3, <3>4 DEF HandlerOk, At, TunnelPcs
    <3> QED
      BY <2>1, <3>1, <3>5, OneHandlerMoves
  <2>2. CASE /\ state[i] = "released" /\ Vm(i) /\ broker' = broker
             /\ req' = [req EXCEPT ![c] = AfterRelease(i)]
    <3>1. AfterRelease(i).pc = "relTm" /\ AfterRelease(i).id = i
      BY <2>2 DEF AfterRelease, At
    <3>2. HandlerOk(c)'
      BY <1>r, <2>2, <3>1, HandlerRests
    <3> QED
      BY <2>2, <3>2, OneHandlerMoves
  <2> QED
    BY <1>10, <2>1, <2>2 DEF Release
<1>11. ASSUME NEW c \in Clients, ReleaseWrite(c)
       PROVE  HandlersInv'
  <2>1. PICK hd : hd = AfterRelease(req[c].id)
    OBVIOUS
  <2>2. req[c].pc = "rel" /\ req' = [req EXCEPT ![c] = hd]
    BY <1>11, <2>1 DEF ReleaseWrite
  <2>3. hd.pc = "idle" \/ (hd.pc = "relTm" /\ hd.id = req[c].id)
    BY <2>1 DEF AfterRelease, At, Idle
  <2>4. HandlerOk(c)' /\ broker = c
    BY <1>h, <2>2, <2>3, HandlerRests DEF BrokerPcs
  <2> QED
    BY <2>2, <2>4, OneHandlerMoves
<1>12. ASSUME NEW c \in Clients, ReleaseStop(c) \/ Disconnect(c)
       PROVE  HandlersInv'
  BY <1>5, <1>12 DEF ReleaseStop, Disconnect, Idle
<1>13. ASSUME NEW c \in Clients, DropUpdate(c)
       PROVE  HandlersInv'
  <2>1. req[c].pc \in {"write", "rel"} /\ req' = [req EXCEPT ![c] = Idle]
    BY <1>13 DEF DropUpdate
  <2>2. broker = c
    BY <1>h, <2>1 DEF BrokerPcs
  <2> QED
    BY <1>5, <2>1, <2>2 DEF Idle
<1>14. ASSUME \/ ExpireLeases \/ \E S \in SUBSET Ids : PurgeReleased(S)
              \/ \E i \in Ids : ReaperStop(i)
              \/ ReaperFree
              \/ \E C \in SUBSET Ids : HealthRound(C)
              \/ \E i \in Ids : ReconnectUp(i) \/ ReconnectFail(i) \/ LeaseTick(i)
              \/ ReconnectInstall
              \/ \E p \in Ports : FinishAbort(p) \/ AcceptError(p)
              \/ \E p \in ExternalPorts : External(p)
              \/ UNCHANGED vars
       PROVE  HandlersInv'
  <2>1. UNCHANGED <<req, broker>>
    BY <1>14 DEF ExpireLeases, PurgeReleased, ReaperStop, ReaperFree, HealthRound,
       ReconnectUp, ReconnectFail, LeaseTick, ReconnectInstall, FinishAbort, AcceptError,
       External, vars
  <2> QED
    BY <2>1, NoHandlerMoves
<1>15. ASSUME Restart
       PROVE  HandlersInv'
  BY <1>15 DEF Restart, HandlersInv, HandlerOk, Idle, TunnelPcs, BrokerPcs
<1> QED
  BY <1>1, <1>2, <1>3, <1>4, <1>6, <1>7, <1>8, <1>9, <1>10, <1>11, <1>12, <1>13, <1>14,
     <1>15 DEF Next, HandlerStep

\* In every reachable state the handlers are where their locks and rows say.
LEMMA HandlersInvariant == Spec => []HandlersInv
<1>1. Init => HandlersInv
  BY DEF Init, HandlersInv, HandlerOk, Idle, TunnelPcs, BrokerPcs
<1>2. TypeInv /\ RowInv /\ HandlersInv /\ [Next]_vars => HandlersInv'
  BY HandlersStep
<1> QED
  BY <1>1, <1>2, TypeInvariant, RowInvariant, PTL DEF Spec

-----------------------------------------------------------------------------
(* Dead reservations. *)

DeadStates == {"released", "absent"}

\* The state column of a dead row changes only by the UPDATE of a handler that
\* has read it to be marked active or failed.
LEMMA DeadRowKept ==
  ASSUME TypeInv, [Next]_vars, NEW i \in Ids, Minted(i), state[i] \in DeadStates,
         \A c \in Clients : req[c].pc = "write" => req[c].id # i
  PROVE  state'[i] \in DeadStates
<1>t. TypeOK
  BY DEF TypeInv
<1>1. ASSUME NEW r \in Requests, NEW p \in Ports, NEW j \in Ids, InsertRow(r, p, j)
      PROVE  state'[i] \in DeadStates
  <2>1. j # i
    BY <1>1 DEF InsertRow, Fresh, Minted, PortOf
  <2> QED
    BY <1>1, <2>1 DEF InsertRow, DeadStates
<1>2. ASSUME NEW c \in Clients, MarkWrite(c) \/ ReleaseWrite(c) \/ DropUpdate(c)
      PROVE  state'[i] \in DeadStates
  <2>1. CASE req[c].pc = "write"
    <3>1. \E s : state' = SetState(req[c].id, s)
      BY <1>2 DEF MarkWrite, ReleaseWrite, DropUpdate
    <3> QED
      BY <1>t, <2>1, <3>1 DEF SetState, TypeOK
  <2>2. CASE req[c].pc # "write"
    <3>1. state' = SetState(req[c].id, "released")
      BY <1>2, <2>2 DEF MarkWrite, ReleaseWrite, DropUpdate
    <3> QED
      BY <1>t, <3>1 DEF SetState, TypeOK, DeadStates
  <2> QED
    BY <2>1, <2>2
<1>3. ASSUME ExpireLeases \/ \E S \in SUBSET Ids : PurgeReleased(S)
      PROVE  state'[i] \in DeadStates
  BY <1>3 DEF ExpireLeases, PurgeReleased, DeadStates
<1>4. ASSUME UNCHANGED <<res, state>>
      PROVE  state'[i] \in DeadStates
  BY <1>4
<1> QED
  BY <1>1, <1>2, <1>3, <1>4, RowStutters

\* What a step may do to a handler as far as tunnels are concerned: one that
\* is at work for a tunnel afterwards was so before, for the same reservation,
\* or has just found its row pending.
LEMMA TunnelHandlers ==
  ASSUME TypeInv, [Next]_vars, NEW c \in Clients, req'[c].pc \in TunnelPcs
  PROVE  \/ req[c].pc \in TunnelPcs /\ req'[c].id = req[c].id
         \/ state[req'[c].id] = "pending"
<1>t. TypeOK
  BY DEF TypeInv
<1>1. CASE req' = req
  BY <1>1
<1>2. ASSUME NEW d \in Clients, d # c, NEW hd, req' = [req EXCEPT ![d] = hd]
      PROVE  req'[c] = req[c]
  BY <1>t, <1>2 DEF TypeOK
<1>3. ASSUME NEW hd, req' = [req EXCEPT ![c] = hd]
      PROVE  req'[c] = hd
  BY <1>t, <1>3 DEF TypeOK
<1>4. ASSUME NEW d \in Clients, NEW j, Handover(d, j), state[j] = "pending"
      PROVE  req'[c] = req[c] \/ state[req'[c].id] = "pending"
  BY <1>2, <1>3, <1>4 DEF Handover, At
<1>5. ASSUME NEW d \in Clients,
             \/ \E r \in Requests : ReserveExisting(d, r)
             \/ ReserveFetch(d)
      PROVE  req'[c] = req[c] \/ req'[c].pc = "idle" \/ state[req'[c].id] = "pending"
  BY <1>2, <1>3, <1>4, <1>5 DEF ReserveExisting, ReserveFetch, Idle
<1>6. ASSUME NEW d \in Clients, NEW p \in Pcs, req[d].pc \in TunnelPcs,
             req' = [req EXCEPT ![d].pc = p]
      PROVE  req'[c] = req[c] \/ (req[c].pc \in TunnelPcs /\ req'[c].id = req[c].id)
  <2>1. req' = [req EXCEPT ![d] = [req[d] EXCEPT !.pc = p]]
    BY <1>6
  <2>2. [req[d] EXCEPT !.pc = p].id = req[d].id
    BY <1>t DEF TypeOK, Handler
  <2> QED
    BY <1>2, <1>3, <1>6, <2>1, <2>2
<1>7. ASSUME NEW d \in Clients, TmAcquire(d) \/ MarkSelect(d)
      PROVE  \/ req'[c] = req[c] \/ req'[c].pc = "idle"
             \/ req[c].pc \in TunnelPcs /\ req'[c].id = req[c].id
  BY <1>2, <1>3, <1>6, <1>7 DEF TmAcquire, MarkSelect, Pcs, TunnelPcs, Idle
<1>8. ASSUME NEW d \in Clients, TunnelUp(d) \/ TunnelFail(d)
      PROVE  req'[c] = req[c] \/ (req[c].pc \in TunnelPcs /\ req'[c].id = req[c].id)
  <2>1. PICK hd : req' = [req EXCEPT ![d] = hd] /\ hd.id = req[d].id
    BY <1>8 DEF TunnelUp, TunnelFail
  <2>2. req[d].pc \in TunnelPcs
    BY <1>8 DEF TunnelUp, TunnelFail, TunnelPcs
  <2> QED
    BY <1>2, <1>3, <2>1, <2>2
<1>9. ASSUME NEW d \in Clients,
             \/ \E r \in Requests, p \in Ports : ReserveNew(d, r, p)
             \/ \E i \in Ids : Release(d, i)
             \/ MarkWrite(d) \/ ReleaseWrite(d) \/ ReleaseStop(d) \/ Disconnect(d)
             \/ DropUpdate(d)
      PROVE  req'[c] = req[c] \/ req'[c].pc \in {"fetch", "rel", "relTm", "idle"}
  <2>1. PICK hd : req' = [req EXCEPT ![d] = hd] /\ hd.pc \in {"fetch", "rel", "relTm", "idle"}
    BY <1>9 DEF ReserveNew, Release, MarkWrite, ReleaseWrite, ReleaseStop, Disconnect,
       DropUpdate, AfterRelease, At, Idle
  <2> QED
    BY <1>2, <1>3, <2>1
<1>10. ASSUME Restart PROVE req'[c].pc = "idle"
  BY <1>10 DEF Restart, Idle
<1>11. ASSUME \/ ExpireLeases \/ \E S \in SUBSET Ids : PurgeReleased(S)
              \/ \E i \in Ids : ReaperStop(i)
              \/ ReaperFree
              \/ \E C \in SUBSET Ids : HealthRound(C)
              \/ \E i \in Ids : ReconnectUp(i) \/ ReconnectFail(i) \/ LeaseTick(i)
              \/ ReconnectInstall
              \/ \E p \in Ports : FinishAbort(p) \/ AcceptError(p)
              \/ \E p \in ExternalPorts : External(p)
              \/ \E d \in Clients, r \in Requests, p \in Ports : DropCommit(d, r, p)
              \/ UNCHANGED vars
       PROVE  req' = req
  BY <1>11 DEF ExpireLeases, PurgeReleased, ReaperStop, ReaperFree, HealthRound, ReconnectUp,
     ReconnectFail, LeaseTick, ReconnectInstall, FinishAbort, AcceptError, External,
     DropCommit, vars
<1>12. req'[c].pc \notin {"fetch", "rel", "relTm", "idle"}
  BY DEF TunnelPcs
<1> QED
  BY <1>1, <1>5, <1>7, <1>8, <1>9, <1>10, <1>11, <1>12 DEF Next, HandlerStep

\* No step brings a reservation back to life that was released or deleted with
\* no call about to start its tunnel.
LEMMA DeadStep ==
  ASSUME TypeInv, [Next]_vars, NEW i \in Ids, Dead(i)
  PROVE  Dead(i)'
<1>1. state[i] \in DeadStates /\ Minted(i)
      /\ \A c \in Clients : req[c].id = i => req[c].pc \notin TunnelPcs
  BY DEF Dead, DeadStates, Minted, TunnelPcs
<1>2. state'[i] \in DeadStates
  BY <1>1, DeadRowKept DEF TunnelPcs
<1>3. Minted(i)'
  BY <1>1, MintedKept DEF TypeInv
<1>4. ASSUME NEW c \in Clients, req'[c].id = i PROVE req'[c].pc \notin TunnelPcs
  BY <1>1, <1>4, TunnelHandlers DEF DeadStates
<1> QED
  BY <1>2, <1>3, <1>4 DEF Dead, DeadStates, Minted, TunnelPcs

\* A reservation that was released, expired or deleted while no call was about
\* to start its tunnel stays dead: no later step of any handler or background
\* task makes its row pending, active or failed again.
THEOREM DeadReservationsStayDead == Spec => DeadStaysDead
<1>1. TypeInv /\ [Next]_vars => [\A i \in Ids : Dead(i) => Dead(i)']_vars
  BY DeadStep
<1> QED
  BY <1>1, TypeInvariant, PTL DEF Spec, DeadStaysDead

-----------------------------------------------------------------------------
(* Teardown, and what watchers know. *)

\* What the teardown task has before it: reservations whose lease is over and
\* that are released, unless a late call for a VM revived them.
ReapInv ==
  \A i \in Ids : BeingReaped(i) =>
    /\ Minted(i) /\ lease[i] = "due"
    /\ Vm(i) \/ state[i] \in DeadStates

\* Only an expiry gives the teardown task more to do.
LEMMA ReapingGrows ==
  ASSUME TypeOK, [Next]_vars, NEW i \in Ids, BeingReaped(i)'
  PROVE  BeingReaped(i) \/ (ExpireLeases /\ i \in Expirable)
<1>1. CASE UNCHANGED <<expired, reaper>>
  BY <1>1, SameReaping
<1>2. CASE ExpireLeases
  <2>1. reaper' = reaper /\ expired' = Append(expired, Expirable)
    BY <1>2 DEF ExpireLeases
  <2>2. expired \in Seq(SUBSET Ids) /\ Expirable \in SUBSET Ids
    BY DEF TypeOK, Expirable
  <2>3. /\ Len(expired) \in Nat /\ DOMAIN expired = 1..Len(expired)
        /\ DOMAIN expired' = 1..(Len(expired) + 1)
        /\ \A k \in 1..Len(expired) : expired'[k] = expired[k]
        /\ expired'[Len(expired) + 1] = Expirable
    BY <2>1, <2>2, AppendProperties, LenProperties
  <2>4. \A k \in 1..(Len(expired) + 1) : k \in 1..Len(expired) \/ k = Len(expired) + 1
    BY <2>3
  <2> QED
    BY <1>2, <2>1, <2>3, <2>4 DEF BeingReaped, Queued
<1>3. ASSUME NEW j \in Ids, ReaperStop(j) PROVE BeingReaped(i)
  <2>1. /\ expired \in Seq(SUBSET Ids) /\ expired # <<>> /\ reaper' = j
        /\ j \in Head(expired)
    BY <1>3 DEF ReaperStop, TypeOK
  <2>2. /\ DOMAIN expired = 1..Len(expired) /\ Len(expired) \in Nat /\ 1 \in DOMAIN expired
        /\ Head(expired) = expired[1]
    BY <2>1, LenProperties, EmptySeq
  <2>3. Queued(j)
    BY <2>1, <2>2 DEF Queued
  <2>4. ASSUME NEW k \in DOMAIN expired', i \in expired'[k] PROVE Queued(i)
    <3>1. CASE expired' = Tail(expired)
      <4>1. /\ Tail(expired) \in Seq(SUBSET Ids)
            /\ Len(Tail(expired)) = Len(expired) - 1
            /\ \A m \in 1..Len(Tail(expired)) : Tail(expired)[m] = expired[m + 1]
        BY <2>1, HeadTailProperties
      <4>2. DOMAIN Tail(expired) = 1..Len(Tail(expired))
        BY <4>1, LenProperties
      <4>3. k + 1 \in DOMAIN expired /\ expired'[k] = expired[k + 1]
        BY <2>2, <2>4, <3>1, <4>1, <4>2
      <4> QED
        BY <2>4, <4>3 DEF Queued
    <3>2. CASE expired' = [expired EXCEPT ![1] = expired[1] \ {j}]
      <4>1. k \in DOMAIN expired /\ i \in expired[k]
        BY <2>4, <3>2
      <4> QED
        BY <4>1 DEF Queued
    <3> QED
      BY <1>3, <3>1, <3>2 DEF ReaperStop
  <2> QED
    BY <2>1, <2>3, <2>4 DEF BeingReaped, Queued
<1>4. CASE ReaperFree
  BY <1>4 DEF ReaperFree, BeingReaped, Queued, Ids, NoId
<1>5. CASE Restart
  BY <1>5 DEF Restart, BeingReaped, Queued, Ids, NoId
<1>6. ASSUME NEW c \in Clients,
             \/ \E r \in Requests : ReserveExisting(c, r)
             \/ \E r \in Requests, p \in Ports : ReserveNew(c, r, p) \/ DropCommit(c, r, p)
             \/ \E j \in Ids : Release(c, j)
             \/ HandlerStep(c) \/ Disconnect(c) \/ DropUpdate(c)
      PROVE  UNCHANGED <<expired, reaper>>
  BY <1>6 DEF ReserveExisting, ReserveNew, DropCommit, Release, HandlerStep, ReserveFetch,
     TmAcquire, TunnelUp, TunnelFail, MarkSelect, MarkWrite, ReleaseWrite, ReleaseStop,
     Disconnect, DropUpdate
<1>7. ASSUME \/ \E S \in SUBSET Ids : PurgeReleased(S)
             \/ \E C \in SUBSET Ids : HealthRound(C)
             \/ \E j \in Ids : ReconnectUp(j) \/ ReconnectFail(j) \/ LeaseTick(j)
             \/ ReconnectInstall
             \/ \E p \in Ports : FinishAbort(p) \/ AcceptError(p)
             \/ \E p \in ExternalPorts : External(p)
             \/ UNCHANGED vars
      PROVE  UNCHANGED <<expired, reaper>>
  BY <1>7 DEF PurgeReleased, HealthRound, ReconnectUp, ReconnectFail, LeaseTick,
     ReconnectInstall, FinishAbort, AcceptError, External, vars
<1> QED
  BY <1>1, <1>2, <1>3, <1>4, <1>5, <1>6, <1>7 DEF Next

\* A lease that is over stays so: extending a lease is no operation of the
\* daemon.
LEMMA DueKept ==
  ASSUME TypeOK, [Next]_vars, NEW i \in Ids, Minted(i), lease[i] = "due"
  PROVE  lease'[i] = "due"
<1>1. ASSUME NEW r \in Requests, NEW p \in Ports, NEW j \in Ids, InsertRow(r, p, j)
      PROVE  lease'[i] = "due"
  <2>1. j # i
    BY <1>1 DEF InsertRow, Fresh, Minted, PortOf
  <2> QED
    BY <1>1, <2>1 DEF InsertRow, TypeOK
<1>2. ASSUME NEW c \in Clients, NEW r \in Requests, NEW p \in Ports,
             ReserveNew(c, r, p) \/ DropCommit(c, r, p)
      PROVE  lease'[i] = "due"
  BY <1>1, <1>2 DEF ReserveNew, DropCommit
<1>3. ASSUME NEW c \in Clients,
             \/ \E r \in Requests : ReserveExisting(c, r)
             \/ \E j \in Ids : Release(c, j)
             \/ HandlerStep(c) \/ Disconnect(c) \/ DropUpdate(c)
      PROVE  lease' = lease
  BY <1>3 DEF ReserveExisting, Release, HandlerStep, ReserveFetch, TmAcquire, TunnelUp,
     TunnelFail, MarkSelect, MarkWrite, ReleaseWrite, ReleaseStop, Disconnect, DropUpdate,
     dbVars
<1>4. ASSUME \/ ExpireLeases \/ \E S \in SUBSET Ids : PurgeReleased(S)
             \/ \E j \in Ids : ReaperStop(j)
             \/ ReaperFree
             \/ \E C \in SUBSET Ids : HealthRound(C)
             \/ \E j \in Ids : ReconnectUp(j) \/ ReconnectFail(j)
             \/ ReconnectInstall
             \/ \E p \in Ports : FinishAbort(p) \/ AcceptError(p)
             \/ \E p \in ExternalPorts : External(p)
             \/ Restart
             \/ UNCHANGED vars
      PROVE  lease' = lease
  BY <1>4 DEF ExpireLeases, PurgeReleased, ReaperStop, ReaperFree, HealthRound, ReconnectUp,
     ReconnectFail, ReconnectInstall, FinishAbort, AcceptError, External, Restart, dbVars, vars
<1>5. ASSUME NEW j \in Ids, LeaseTick(j) PROVE lease'[i] = "due"
  BY <1>5 DEF LeaseTick, TypeOK
<1> QED
  BY <1>2, <1>3, <1>4, <1>5 DEF Next

\* A step of the daemon keeps ReapInv.
LEMMA ReapStep ==
  ASSUME TypeInv, RowInv, HandlersInv, ReapInv, [Next]_vars
  PROVE  ReapInv'
<1> SUFFICES ASSUME NEW i \in Ids, BeingReaped(i)'
             PROVE  Minted(i)' /\ lease'[i] = "due" /\ (Vm(i)' \/ state'[i] \in DeadStates)
  BY DEF ReapInv
<1>t. TypeOK
  BY DEF TypeInv
<1>1. CASE ExpireLeases /\ i \in Expirable
  <2>1. Minted(i) /\ lease[i] = "due"
    BY <1>1, PresentMinted DEF Expirable
  <2>2. state'[i] = "released"
    BY <1>1 DEF ExpireLeases
  <2> QED
    BY <1>t, <2>1, <2>2, MintedKept, DueKept DEF DeadStates
<1>2. CASE BeingReaped(i)
  <2>1. Minted(i) /\ lease[i] = "due" /\ (Vm(i) \/ state[i] \in DeadStates)
    BY <1>2 DEF ReapInv
  <2>2. ASSUME ~Vm(i) PROVE state'[i] \in DeadStates
    <3>1. \A c \in Clients : req[c].pc = "write" => req[c].id # i
      BY <2>2 DEF HandlersInv, HandlerOk, TunnelPcs
    <3> QED
      BY <2>1, <2>2, <3>1, DeadRowKept
  <2> QED
    BY <1>t, <2>1, <2>2, MintedKept, DueKept
<1> QED
  BY <1>t, <1>1, <1>2, ReapingGrows

\* In every reachable state the teardown task has expired reservations before
\* it only.
LEMMA ReapInvariant == Spec => []ReapInv
<1>1. Init => ReapInv
  BY DEF Init, ReapInv, BeingReaped, Queued, Ids, NoId
<1>2. TypeInv /\ RowInv /\ HandlersInv /\ ReapInv /\ [Next]_vars => ReapInv'
  BY ReapStep
<1> QED
  BY <1>1, <1>2, TypeInvariant, RowInvariant, HandlersInvariant, PTL DEF Spec

\* The teardown task forgets a reservation only when it is done with it, or
\* with the whole process.
LEMMA ReapingKept ==
  ASSUME TypeOK, [Next]_vars, NEW i \in Ids, BeingReaped(i), ~Restart,
         ~(ReaperFree /\ reaper = i)
  PROVE  BeingReaped(i)'
<1>1. CASE UNCHANGED <<expired, reaper>>
  BY <1>1, SameReaping
<1>2. CASE ExpireLeases
  <2>1. reaper' = reaper /\ expired' = Append(expired, Expirable)
    BY <1>2 DEF ExpireLeases
  <2>2. expired \in Seq(SUBSET Ids) /\ Expirable \in SUBSET Ids
    BY DEF TypeOK, Expirable
  <2>3. /\ Len(expired) \in Nat /\ DOMAIN expired = 1..Len(expired)
        /\ DOMAIN expired' = 1..(Len(expired) + 1)
        /\ \A k \in 1..Len(expired) : expired'[k] = expired[k]
    BY <2>1, <2>2, AppendProperties, LenProperties
  <2> QED
    BY <2>1, <2>3 DEF BeingReaped, Queued
<1>3. CASE \E j \in Ids : ReaperStop(j)
  BY <1>3, ReaperStopQueue
<1>4. CASE ReaperFree
  BY <1>4 DEF ReaperFree, BeingReaped, Queued
<1>5. ASSUME NEW c \in Clients,
             \/ \E r \in Requests : ReserveExisting(c, r)
             \/ \E r \in Requests, p \in Ports : ReserveNew(c, r, p) \/ DropCommit(c, r, p)
             \/ \E j \in Ids : Release(c, j)
             \/ HandlerStep(c) \/ Disconnect(c) \/ DropUpdate(c)
      PROVE  UNCHANGED <<expired, reaper>>
  BY <1>5 DEF ReserveExisting, ReserveNew, DropCommit, Release, HandlerStep, ReserveFetch,
     TmAcquire, TunnelUp, TunnelFail, MarkSelect, MarkWrite, ReleaseWrite, ReleaseStop,
     Disconnect, DropUpdate
<1>6. ASSUME \/ \E S \in SUBSET Ids : PurgeReleased(S)
             \/ \E C \in SUBSET Ids : HealthRound(C)
             \/ \E j \in Ids : ReconnectUp(j) \/ ReconnectFail(j) \/ LeaseTick(j)
             \/ ReconnectInstall
             \/ \E p \in Ports : FinishAbort(p) \/ AcceptError(p)
             \/ \E p \in ExternalPorts : External(p)
             \/ UNCHANGED vars
      PROVE  UNCHANGED <<expired, reaper>>
  BY <1>6 DEF PurgeReleased, HealthRound, ReconnectUp, ReconnectFail, LeaseTick,
     ReconnectInstall, FinishAbort, AcceptError, External, vars
<1> QED
  BY <1>1, <1>2, <1>3, <1>4, <1>5, <1>6 DEF Next

\* The reservations about which a watcher may be wrong.
Excused(i) == BeingReaped(i) \/ i \in lost \/ (Vm(i) /\ lease[i] = "due")

\* What a watcher knows of one reservation.
Known(i) == state[i] # "absent" /\ ~Excused(i) => view[i] = state[i]

\* Before it is done with a reservation, nothing that excuses the watchers
\* goes away.
LEMMA ExcusedKept ==
  ASSUME TypeOK, [Next]_vars, NEW i \in Ids, Minted(i), Excused(i), ~Restart,
         ~(ReaperFree /\ reaper = i)
  PROVE  Excused(i)'
  BY MintedKept, DueKept, ReapingKept, LostKept DEF Excused

\* A step that keeps or deletes a row and sends no event for it.
LEMMA KnownFrame ==
  ASSUME TypeOK, RowInv, [Next]_vars, NEW i \in Ids, Known(i), ~Restart,
         ~(ReaperFree /\ reaper = i),
         view'[i] = view[i], state'[i] \in {state[i], "absent"}
  PROVE  Known(i)'
<1> SUFFICES ASSUME state'[i] # "absent", ~Excused(i)'
             PROVE  view'[i] = state'[i]
  BY DEF Known
<1>1. state[i] # "absent" /\ state'[i] = state[i]
  OBVIOUS
<1>2. Minted(i)
  BY <1>1, PresentMinted
<1> QED
  BY <1>1, <1>2, ExcusedKept DEF Known

\* A step of the daemon keeps watchers up to date.
LEMMA ViewStep ==
  ASSUME TypeInv, RowInv, HandlersInv, ReapInv, [Next]_vars,
         \A i \in Ids : Known(i), NEW i \in Ids
  PROVE  Known(i)'
<1>t. TypeOK
  BY DEF TypeInv
<1>f. ASSUME ~Restart, ~(ReaperFree /\ reaper = i),
             view'[i] = view[i], state'[i] \in {state[i], "absent"}
      PROVE  Known(i)'
  BY <1>t, <1>f, KnownFrame
<1>1. CASE Restart
  BY <1>1 DEF Restart, Known, dbVars
<1>2. CASE ReaperFree /\ ~Restart
  <2>1. state' = state /\ view' = [view EXCEPT ![reaper] = "released"] /\ lease' = lease
        /\ res' = res
    BY <1>2 DEF ReaperFree, dbVars
  <2>2. CASE i # reaper
    BY <1>2, <1>f, <1>t, <2>1, <2>2 DEF TypeOK
  <2>3. CASE i = reaper
    <3>1. lease[i] = "due" /\ (Vm(i) \/ state[i] \in DeadStates)
      BY <2>3 DEF ReapInv, BeingReaped
    <3>2. view'[i] = "released"
      BY <1>t, <2>1, <2>3 DEF TypeOK
    <3>3. Vm(i)' <=> Vm(i)
      BY <2>1 DEF Vm
    <3> QED
      BY <2>1, <3>1, <3>2, <3>3 DEF Known, Excused, DeadStates
  <2> QED
    BY <2>2, <2>3
<1>3. ASSUME ~Restart, ~ReaperFree, NEW k \in Ids, NEW s, i # k,
             state' = SetState(k, s), view'[i] = view[i]
      PROVE  Known(i)'
  BY <1>3, <1>f, <1>t DEF SetState, TypeOK
<1>4. ASSUME ~Restart, ~ReaperFree, NEW c \in Clients, MarkWrite(c) \/ ReleaseWrite(c)
      PROVE  Known(i)'
  <2>1. PICK s : /\ state' = SetState(req[c].id, s)
                 /\ view' = [view EXCEPT ![req[c].id] = s]
    BY <1>4 DEF MarkWrite, ReleaseWrite
  <2>2. req[c].id \in Ids
    BY <1>4 DEF MarkWrite, ReleaseWrite, TypeInv, MarkKnown
  <2>3. CASE i = req[c].id
    BY <1>t, <2>1, <2>3 DEF SetState, TypeOK, Known
  <2>4. CASE i # req[c].id
    BY <1>3, <1>4, <1>t, <2>1, <2>2, <2>4 DEF TypeOK
  <2> QED
    BY <2>3, <2>4
<1>5. ASSUME ~Restart, ~ReaperFree, NEW c \in Clients, DropUpdate(c)
      PROVE  Known(i)'
  <2>1. /\ \E s : state' = SetState(req[c].id, s)
        /\ view' = view /\ lost' = lost \cup {req[c].id}
    BY <1>5 DEF DropUpdate
  <2>2. req[c].id \in Ids
    BY <1>5 DEF DropUpdate, TypeInv, MarkKnown
  <2>3. CASE i = req[c].id
    BY <2>1, <2>3 DEF Known, Excused
  <2>4. CASE i # req[c].id
    BY <1>3, <1>5, <2>1, <2>2, <2>4
  <2> QED
    BY <2>3, <2>4
<1>6. ASSUME ~Restart, ~ReaperFree,
             NEW r \in Requests, NEW p \in Ports, NEW k \in Ids, InsertRow(r, p, k), i # k,
             view'[i] = view[i]
      PROVE  Known(i)'
  <2>1. state'[i] \in {state[i], "absent"}
    BY <1>6 DEF InsertRow
  <2> QED
    BY <1>6, <1>f, <2>1
<1>7. ASSUME ~Restart, ~ReaperFree,
             NEW c \in Clients, NEW r \in Requests, NEW p \in Ports, ReserveNew(c, r, p)
      PROVE  Known(i)'
  <2>1. PICK k \in Ids : InsertRow(r, p, k) /\ view' = [view EXCEPT ![k] = Initial(r.owner)]
    BY <1>7 DEF ReserveNew
  <2>2. CASE i = k
    <3>1. state'[i] = Initial(r.owner) /\ view'[i] = Initial(r.owner)
      BY <1>t, <2>1, <2>2 DEF InsertRow, TypeOK
    <3> QED
      BY <3>1 DEF Known
  <2>3. CASE i # k
    <3>1. view'[i] = view[i]
      BY <1>t, <2>1, <2>3 DEF TypeOK
    <3> QED
      BY <1>6, <1>7, <2>1, <2>3, <3>1
  <2> QED
    BY <2>2, <2>3
<1>8. ASSUME ~Restart, ~ReaperFree,
             NEW c \in Clients, NEW r \in Requests, NEW p \in Ports, DropCommit(c, r, p)
      PROVE  Known(i)'
  <2>1. PICK k \in Ids : InsertRow(r, p, k) /\ lost' = lost \cup {k} /\ view' = view
    BY <1>8 DEF DropCommit
  <2>2. CASE i = k
    BY <2>1, <2>2 DEF Known, Excused
  <2>3. CASE i # k
    BY <1>6, <1>8, <2>1, <2>3
  <2> QED
    BY <2>2, <2>3
<1>9. ASSUME ~Restart, ~ReaperFree, ExpireLeases
      PROVE  Known(i)'
  <2>1. /\ state' = [j \in Ids |-> IF j \in Expirable THEN "released" ELSE state[j]]
        /\ expired' = Append(expired, Expirable) /\ view' = view
    BY <1>9 DEF ExpireLeases
  <2>2. CASE i \in Expirable
    <3>1. expired \in Seq(SUBSET Ids) /\ Expirable \in SUBSET Ids
      BY <1>t DEF TypeOK, Expirable
    <3>2. Len(expired) + 1 \in DOMAIN expired' /\ expired'[Len(expired) + 1] = Expirable
      BY <2>1, <3>1, AppendProperties, LenProperties
    <3> QED
      BY <2>2, <3>2 DEF Known, Excused, BeingReaped, Queued
  <2>3. CASE i \notin Expirable
    BY <1>9, <1>f, <2>1, <2>3
  <2> QED
    BY <2>2, <2>3
<1>10. ASSUME ~Restart, ~ReaperFree, NEW S \in SUBSET Ids, PurgeReleased(S)
       PROVE  Known(i)'
  <2>1. state'[i] \in {state[i], "absent"} /\ view' = view
    BY <1>10 DEF PurgeReleased
  <2> QED
    BY <1>10, <1>f, <2>1
<1>11. ASSUME ~Restart, ~ReaperFree, NEW c \in Clients,
              \/ \E r \in Requests : ReserveExisting(c, r)
              \/ \E j \in Ids : Release(c, j)
              \/ ReserveFetch(c) \/ TmAcquire(c) \/ TunnelUp(c) \/ TunnelFail(c)
              \/ MarkSelect(c) \/ ReleaseStop(c) \/ Disconnect(c)
       PROVE  Known(i)'
  <2>1. UNCHANGED <<state, view>>
    BY <1>11 DEF ReserveExisting, Release, ReserveFetch, TmAcquire, TunnelUp, TunnelFail,
       MarkSelect, ReleaseStop, Disconnect, dbVars
  <2> QED
    BY <1>11, <1>f, <2>1
<1>12. ASSUME ~Restart, ~ReaperFree,
              \/ \E j \in Ids : ReaperStop(j)
              \/ \E C \in SUBSET Ids : HealthRound(C)
              \/ \E j \in Ids : ReconnectUp(j) \/ ReconnectFail(j) \/ LeaseTick(j)
              \/ ReconnectInstall
              \/ \E p \in Ports : FinishAbort(p) \/ AcceptError(p)
              \/ \E p \in ExternalPorts : External(p)
              \/ UNCHANGED vars
       PROVE  Known(i)'
  <2>1. UNCHANGED <<state, view>>
    BY <1>12 DEF ReaperStop, HealthRound, ReconnectUp, ReconnectFail, LeaseTick,
       ReconnectInstall, FinishAbort, AcceptError, External, dbVars, vars
  <2> QED
    BY <1>12, <1>f, <2>1
<1> QED
  BY <1>1, <1>2, <1>4, <1>5, <1>7, <1>8, <1>9, <1>10, <1>11, <1>12 DEF Next, HandlerStep

\* A watcher that misses no event knows the state of every reservation, except
\* while its expiry is on its way to the teardown task, after a dropped write,
\* and for an expired VM reservation that a late call brought back.
THEOREM ViewsCurrent == Spec => []ViewCurrent
<1> DEFINE AllKnown == \A i \in Ids : Known(i)
<1>1. Init => AllKnown
  BY DEF Init, Known
<1>2. TypeInv /\ RowInv /\ HandlersInv /\ ReapInv /\ AllKnown /\ [Next]_vars => AllKnown'
  BY ViewStep
<1>3. AllKnown => ViewCurrent
  BY DEF Known, Excused, ViewCurrent
<1> HIDE DEF AllKnown
<1> QED
  BY <1>1, <1>2, <1>3, TypeInvariant, RowInvariant, HandlersInvariant, ReapInvariant, PTL
  DEF Spec

-----------------------------------------------------------------------------
(* Hold listeners of live reservations. *)

\* A step of the daemon closes the hold listener of a host reservation that
\* stays active only in the teardown of another one of its port, or a restart.
LEMMA HoldKeptStep ==
  ASSUME TypeInv, RowInv, HandlersInv, [Next]_vars, NEW i \in Ids,
         res[i].owner \in HostOwners, sock[PortOf(i)] = Hold(i),
         state[i] = "active", state'[i] = "active"
  PROVE  \/ sock'[PortOf(i)] = Hold(i)
         \/ reaper \in Ids /\ PortOf(reaper) = PortOf(i) /\ ReaperFree
         \/ Restart
<1>t. TypeOK
  BY DEF TypeInv
<1>p. PICK p \in Ports : p = PortOf(i)
  BY DEF RowInv, RowsMinted
<1>h. sock \in [Ports -> Socket] /\ sock[p] = Hold(i) /\ sock[p].kind = "hold"
  BY <1>t, <1>p DEF TypeOK, Hold
<1>u. ASSUME NEW q, q # p, sock' = Unhold(q) PROVE sock'[p] = Hold(i)
  BY <1>h, <1>u DEF Unhold
<1>o. ASSUME NEW c \in Clients, NEW k \in Ids, Handover(c, k), state[k] = "pending"
      PROVE  sock'[p] = Hold(i)
  <2>1. PortOf(k) # p
    BY <1>o, <1>p DEF RowInv, OneRowPerPort
  <2> QED
    BY <1>o, <1>u, <2>1 DEF Handover
<1>b. ASSUME NEW q, NEW s, sock[q].kind # "hold", sock' = [sock EXCEPT ![q] = s]
      PROVE  sock'[p] = Hold(i)
  BY <1>h, <1>b
<1>s. ASSUME NEW k, StopTunnel(k) PROVE sock'[p] = Hold(i)
  <2>1. sock[p] # Fwd(k)
    BY <1>h DEF Fwd
  <2> QED
    BY <1>h, <1>s, <2>1 DEF StopTunnel
<1>1. ASSUME NEW c \in Clients, NEW r \in Requests, ReserveExisting(c, r)
      PROVE  sock'[p] = Hold(i)
  BY <1>1, <1>o DEF ReserveExisting
<1>2. ASSUME NEW c \in Clients, NEW r \in Requests, NEW q \in Ports, ReserveNew(c, r, q)
      PROVE  sock'[p] = Hold(i)
  <2>1. PICK k \in Ids : InsertRow(r, q, k) /\ sock' = [sock EXCEPT ![q] = Hold(k)]
    BY <1>2 DEF ReserveNew
  <2>2. r.exact \in BOOLEAN
    BY PortdAssumption DEF RequestSet
  <2>3. q \in Available
    BY <2>1, <2>2, AllocatesAvailable DEF InsertRow
  <2> QED
    BY <1>b, <2>1, <2>3 DEF Available
<1>3. ASSUME NEW c \in Clients, ReserveFetch(c)
      PROVE  sock'[p] = Hold(i)
  <2>1. req[c].id \in Ids
    BY <1>3 DEF ReserveFetch, TypeInv, MarkKnown
  <2> QED
    BY <1>3, <1>o, <1>h, <2>1 DEF ReserveFetch
<1>4. ASSUME NEW c \in Clients, TunnelUp(c)
      PROVE  sock'[p] = Hold(i)
  BY <1>4, <1>b DEF TunnelUp
<1>5. ASSUME NEW c \in Clients, ReleaseWrite(c)
      PROVE  sock'[p] = Hold(i)
  <2>1. /\ req[c].pc = "rel" /\ sock' = Unhold(PortOf(req[c].id))
        /\ state' = SetState(req[c].id, "released")
    BY <1>5 DEF ReleaseWrite
  <2>2. req[c].id # i
    BY <1>t, <2>1 DEF SetState, TypeOK
  <2>3. PortOf(req[c].id) # p
    BY <1>p, <2>1, <2>2 DEF HandlersInv, HandlerOk
  <2> QED
    BY <1>u, <2>1, <2>3
<1>6. ASSUME \/ \E c \in Clients : ReleaseStop(c)
             \/ \E k \in Ids : ReaperStop(k)
      PROVE  sock'[p] = Hold(i)
  BY <1>6, <1>s DEF ReleaseStop, ReaperStop
<1>7. ASSUME ReaperFree
      PROVE  sock'[p] = Hold(i) \/ (reaper \in Ids /\ PortOf(reaper) = p)
  BY <1>7, <1>t, <1>u DEF ReaperFree, TypeOK
<1>8. ASSUME NEW k \in Ids, ReconnectUp(k)
      PROVE  sock'[p] = Hold(i)
  BY <1>8, <1>b DEF ReconnectUp
<1>9. ASSUME ReconnectInstall
      PROVE  sock'[p] = Hold(i)
  <2>1. sock[p] # Fwd(health.busy) /\ sock[p] # Orphan(health.busy)
    BY <1>h DEF Fwd, Orphan
  <2> QED
    BY <1>9, <1>h, <2>1 DEF ReconnectInstall
<1>10. ASSUME NEW q \in Ports, FinishAbort(q) \/ AcceptError(q) \/ External(q)
       PROVE  sock'[p] = Hold(i)
  BY <1>10, <1>b DEF FinishAbort, AcceptError, External
<1>11. ASSUME NEW c \in Clients,
              \/ \E r \in Requests, q \in Ports : DropCommit(c, r, q)
              \/ \E k \in Ids : Release(c, k)
              \/ TmAcquire(c) \/ TunnelFail(c) \/ MarkSelect(c) \/ MarkWrite(c)
              \/ Disconnect(c) \/ DropUpdate(c)
       PROVE  sock'[p] = Hold(i)
  BY <1>11, <1>h DEF DropCommit, Release, TmAcquire, TunnelFail, MarkSelect, MarkWrite,
     Disconnect, DropUpdate
<1>12. ASSUME \/ ExpireLeases \/ \E S \in SUBSET Ids : PurgeReleased(S)
              \/ \E C \in SUBSET Ids : HealthRound(C)
              \/ \E k \in Ids : ReconnectFail(k) \/ LeaseTick(k)
              \/ UNCHANGED vars
       PROVE  sock'[p] = Hold(i)
  BY <1>12, <1>h DEF ExpireLeases, PurgeReleased, HealthRound, ReconnectFail, LeaseTick, vars
<1> QED
  BY <1>p, <1>1, <1>2, <1>3, <1>4, <1>5, <1>6, <1>7, <1>8, <1>9, <1>10, <1>11, <1>12,
     PortdAssumption DEF Next, HandlerStep

\* The port of a host reservation that stays active is not given up under it
\* by any call or task, other than the teardown of an expired reservation that
\* had the same port before, and a restart.
THEOREM HoldsKept == Spec => HoldKept
<1> DEFINE Kept(i) ==
             /\ res[i].owner \in HostOwners /\ sock[PortOf(i)] = Hold(i)
             /\ state[i] = "active" /\ state'[i] = "active"
             => \/ sock'[PortOf(i)] = Hold(i)
                \/ reaper \in Ids /\ PortOf(reaper) = PortOf(i) /\ ReaperFree
                \/ Restart
<1>1. TypeInv /\ RowInv /\ HandlersInv /\ [Next]_vars => [\A i \in Ids : Kept(i)]_vars
  BY HoldKeptStep
<1> QED
  BY <1>1, TypeInvariant, RowInvariant, HandlersInvariant, PTL DEF Spec, HoldKept

=============================================================================
