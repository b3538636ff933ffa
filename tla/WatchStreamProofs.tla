-------------------------- MODULE WatchStreamProofs --------------------------
(***************************************************************************)
(* Theorems about WatchStream, for any number of watchers, reservations    *)
(* and events and any capacity of the two channels: what a watcher is      *)
(* sent, what lag can cost it, and what it knows of the reservations.      *)
(*                                                                         *)
(* The invariant has two halves.  LogInv is about the daemon alone: the    *)
(* last event of a reservation carries its state, and an event without an  *)
(* owner is a release.  CursorInv is about one watcher: where its receiver *)
(* stands relative to the log, to what it lost and to what it holds.       *)
(***************************************************************************)
EXTENDS WatchStream, SequenceTheorems, TLAPS

Announced == {"pending", "active", "failed", "released"}
Events == [id : Reservations, owner : Owners \cup {Blank},
           old : Announced \cup {"unspecified"}, new : Announced]

TypeOK ==
  /\ row \in [Reservations -> Announced \cup {"absent"}]
  /\ log \in Seq(Events)
  /\ pc \in [Watchers -> {"off", "recv", "send", "gone"}]
  /\ filter \in [Watchers -> SUBSET (Owners \cup {Blank})]
  /\ from \in [Watchers -> Nat] /\ next \in [Watchers -> Nat]
  /\ lost \in [Watchers -> SUBSET Nat] /\ held \in [Watchers -> Nat]
  /\ sent \in [Watchers -> Seq(Nat)] /\ taken \in [Watchers -> Nat]
  /\ open \in [Watchers -> BOOLEAN]

\* The event at position n carries the current state of reservation i.
Carries(n, i) ==
  /\ log[n].id = i /\ log[n].new = row[i]
  /\ \A k \in DOMAIN log : log[k].id = i => k <= n

\* The daemon's side: the last event of a reservation carries its state, and
\* only a release is announced under another name than the owner's.
LogInv ==
  /\ \A k \in DOMAIN log :
       /\ \E n \in DOMAIN log : Carries(n, log[k].id)
       /\ \/ log[k].owner = OwnerOf[log[k].id]
          \/ log[k].owner = Blank /\ log[k].new = "released"

\* One watcher: the receiver is between its subscription and the end of the
\* log, what it lost is behind it and out of the ring, and what it holds is
\* what it received last.
Cursor(w) ==
  /\ pc[w] = "off" => sent[w] = <<>> /\ from[w] = 0 /\ next[w] = 0
  /\ pc[w] # "off" => from[w] \in Nat \ {0}
  /\ from[w] <= next[w] /\ next[w] <= Len(log) + 1
  /\ \A n \in lost[w] : from[w] <= n /\ n < next[w] /\ n + Capacity <= Len(log)
  /\ pc[w] = "send" => held[w] + 1 = next[w]
  /\ taken[w] <= Len(sent[w])

\* DeliveredExactly, of one watcher.
Delivered(w) ==
  pc[w] # "gone" =>
    /\ \A k \in 1..(Len(Accepted(w)) - 1) : Accepted(w)[k] < Accepted(w)[k + 1]
    /\ {Accepted(w)[k] : k \in DOMAIN Accepted(w)} =
         {n \in from[w]..(next[w] - 1) : n \notin lost[w] /\ Passes(w, n)}

StreamInv == TypeOK /\ LogInv /\ \A w \in Watchers : Cursor(w) /\ Delivered(w)

\* An event the daemon announces: under the owner's name, or a release.
Announces(i, owner, old, new) ==
  /\ i \in Reservations /\ new \in Announced /\ old \in Announced \cup {"unspecified"}
  /\ owner = OwnerOf[i] \/ (owner = Blank /\ new = "released")
  /\ Emit(i, owner, old, new)

\* A step of the call w: what it does not touch of the others is the same.
Calls(w) == Watch(w) \/ Task(w) \/ Take(w) \/ Close(w)

-----------------------------------------------------------------------------

\* A step is an announcement, a step of a call, or none.
LEMMA StepKinds ==
  ASSUME TypeOK, [Next]_vars
  PROVE  \/ \E i, owner, old, new : Announces(i, owner, old, new)
         \/ \E w \in Watchers : Calls(w)
         \/ UNCHANGED vars
<1>1. ASSUME NEW i \in Reservations, Reserved(i)
      PROVE  \E owner, old, new : Announces(i, owner, old, new)
  <2>1. PICK new \in {"active", "pending"} : Emit(i, OwnerOf[i], "unspecified", new)
    BY <1>1 DEF Reserved
  <2> QED  BY <2>1 DEF Announces, Announced
<1>2. ASSUME NEW i \in Reservations, Updated(i)
      PROVE  \E owner, old, new : Announces(i, owner, old, new)
  <2>1. PICK new \in {"active", "failed"} : Emit(i, OwnerOf[i], row[i], new)
    BY <1>2 DEF Updated
  <2>2. row[i] \in Announced
    BY <1>2 DEF Updated, TypeOK
  <2> QED  BY <2>1, <2>2 DEF Announces, Announced
<1>3. ASSUME NEW i \in Reservations, Released(i)
      PROVE  \E owner, old, new : Announces(i, owner, old, new)
  BY <1>3 DEF Released, Announces, Announced, LiveStates
<1>4. ASSUME NEW i \in Reservations, Expired(i)
      PROVE  \E owner, old, new : Announces(i, owner, old, new)
  BY <1>4 DEF Expired, Announces, Announced
<1> QED
  BY <1>1, <1>2, <1>3, <1>4 DEF Next, Calls

\* What an announcement does to the log: one more event, the others stay.
LEMMA EmitAppends ==
  ASSUME TypeOK, NEW i, NEW owner, NEW old, NEW new, Announces(i, owner, old, new)
  PROVE  /\ log' \in Seq(Events) /\ Len(log') = Len(log) + 1
         /\ DOMAIN log = 1..Len(log) /\ DOMAIN log' = 1..(Len(log) + 1)
         /\ \A k \in 1..Len(log) : log'[k] = log[k]
         /\ log'[Len(log) + 1] = [id |-> i, owner |-> owner, old |-> old, new |-> new]
         /\ row' = [row EXCEPT ![i] = new] /\ UNCHANGED taskVars
<1> DEFINE e == [id |-> i, owner |-> owner, old |-> old, new |-> new]
<1>1. OwnerOf[i] \in Owners
  BY WatchAssumption DEF Announces
<1>2. e \in Events
  BY <1>1 DEF Announces, Events
<1>3. log \in Seq(Events) /\ log' = Append(log, e)
  BY DEF TypeOK, Announces, Emit
<1>4. row' = [row EXCEPT ![i] = new] /\ UNCHANGED taskVars
  BY DEF Announces, Emit
<1> HIDE DEF e
<1>5. /\ log' \in Seq(Events) /\ Len(log') = Len(log) + 1
      /\ \A k \in 1..Len(log) : log'[k] = log[k]
      /\ log'[Len(log) + 1] = e
  BY <1>2, <1>3, AppendProperties
<1>6. DOMAIN log = 1..Len(log) /\ DOMAIN log' = 1..(Len(log) + 1)
  BY <1>3, <1>5, LenProperties
<1> QED
  BY <1>4, <1>5, <1>6 DEF e

\* Types are kept.
LEMMA StreamTypeStep ==
  ASSUME TypeOK, [Next]_vars
  PROVE  TypeOK'
<1>1. ASSUME NEW i, NEW owner, NEW old, NEW new, Announces(i, owner, old, new)
      PROVE  TypeOK'
  <2>1. row' \in [Reservations -> Announced \cup {"absent"}]
    BY <1>1 DEF TypeOK, Announces, Emit
  <2>2. log' \in Seq(Events) /\ UNCHANGED taskVars
    BY <1>1, EmitAppends
  <2> QED  BY <2>1, <2>2 DEF TypeOK, taskVars
<1>2. ASSUME NEW w \in Watchers, Calls(w)
      PROVE  TypeOK'
  <2>0. Len(log) \in Nat /\ OldestKept \in Nat
    BY WatchAssumption, LenProperties DEF TypeOK, OldestKept
  <2>1. CASE Watch(w)
    BY <2>0, <2>1, WatchAssumption DEF Watch, TypeOK
  <2>2. CASE RecvLagged(w)
    BY <2>0, <2>2 DEF RecvLagged, TypeOK
  <2>3. CASE RecvEvent(w)
    <3>1. next' \in [Watchers -> Nat]
      BY <2>3 DEF RecvEvent, TypeOK
    <3>2. held' \in [Watchers -> Nat] /\ pc' \in [Watchers -> {"off", "recv", "send", "gone"}]
      BY <2>3 DEF RecvEvent, TypeOK
    <3>3. UNCHANGED <<row, log, filter, from, lost, sent, taken, open>>
      BY <2>3 DEF RecvEvent
    <3> QED  BY <3>1, <3>2, <3>3 DEF TypeOK
  <2>4. CASE SendEvent(w)
    <3>1. Append(sent[w], held[w]) \in Seq(Nat)
      BY AppendProperties DEF TypeOK
    <3> QED  BY <2>4, <3>1 DEF SendEvent, TypeOK
  <2>5. CASE SendFails(w)
    BY <2>5 DEF SendFails, TypeOK
  <2>6. CASE Take(w)
    BY <2>6 DEF Take, TypeOK
  <2>7. CASE Close(w)
    BY <2>7 DEF Close, TypeOK
  <2> QED  BY <1>2, <2>1, <2>2, <2>3, <2>4, <2>5, <2>6, <2>7 DEF Calls, Task
<1>3. CASE UNCHANGED vars
  BY <1>3 DEF TypeOK, vars
<1> QED
  BY <1>1, <1>2, <1>3, StepKinds

\* The daemon's half of the invariant is kept.
LEMMA LogStep ==
  ASSUME TypeOK, LogInv, [Next]_vars
  PROVE  LogInv'
<1>1. ASSUME NEW i, NEW owner, NEW old, NEW new, Announces(i, owner, old, new)
      PROVE  LogInv'
  <2>1. /\ DOMAIN log = 1..Len(log) /\ DOMAIN log' = 1..(Len(log) + 1)
        /\ Len(log) \in Nat
        /\ \A k \in 1..Len(log) : log'[k] = log[k] /\ log[k] \in Events
        /\ log'[Len(log) + 1] = [id |-> i, owner |-> owner, old |-> old, new |-> new]
        /\ row' = [row EXCEPT ![i] = new]
    BY <1>1, EmitAppends, LenProperties, ElementOfSeq DEF TypeOK
  <2>2. i \in Reservations /\ row'[i] = new
        /\ \A j \in Reservations : j # i => row'[j] = row[j]
    BY <1>1, <2>1 DEF TypeOK, Announces
  <2>3. ASSUME NEW n, n = Len(log) + 1
        PROVE  Carries(n, i)'
    BY <2>1, <2>2, <2>3 DEF Carries
  <2>4. ASSUME NEW n \in DOMAIN log, NEW j \in Reservations, j # i, Carries(n, j)
        PROVE  Carries(n, j)'
    BY <2>1, <2>2, <2>4 DEF Carries
  <2>5. ASSUME NEW k \in 1..(Len(log) + 1), NEW j, j = log'[k].id
        PROVE  \E n \in DOMAIN log' : Carries(n, j)'
    <3>1. CASE j = i
      BY <2>1, <2>3, <3>1
    <3>2. CASE j # i
      <4>1. k \in DOMAIN log /\ j = log[k].id /\ j \in Reservations
        BY <2>1, <2>5, <3>2 DEF Events
      <4>2. PICK n \in DOMAIN log : Carries(n, j)
        BY <4>1 DEF LogInv
      <4> QED  BY <2>1, <2>4, <3>2, <4>1, <4>2
    <3> QED  BY <3>1, <3>2
  <2>6. ASSUME NEW k \in 1..(Len(log) + 1)
        PROVE  \/ log'[k].owner = OwnerOf[log'[k].id]
               \/ log'[k].owner = Blank /\ log'[k].new = "released"
    <3>1. CASE k \in DOMAIN log
      BY <2>1, <3>1 DEF LogInv
    <3>2. CASE k = Len(log) + 1
      BY <1>1, <2>1, <3>2 DEF Announces
    <3> QED  BY <2>1, <3>1, <3>2
  <2>7. ASSUME NEW k \in 1..(Len(log) + 1)
        PROVE  \E n \in DOMAIN log' : Carries(n, log[k].id)'
    BY <2>5 DEF Carries
  <2> QED
    BY <2>1, <2>6, <2>7 DEF LogInv
<1>2. ASSUME UNCHANGED <<row, log>>
      PROVE  LogInv'
  BY <1>2 DEF LogInv, Carries
<1>3. ASSUME NEW w \in Watchers, Calls(w)
      PROVE  UNCHANGED <<row, log>>
  BY <1>3 DEF Calls, Task, Watch, RecvLagged, RecvEvent, SendEvent, SendFails, Take, Close
<1> QED
  BY <1>1, <1>2, <1>3, StepKinds DEF vars


\* The ring's oldest position: behind it lie the events out of the ring.
LEMMA OldestKeptBounds ==
  ASSUME TypeOK
  PROVE  /\ Len(log) \in Nat /\ OldestKept \in Nat \ {0}
         /\ OldestKept <= Len(log) + 1
         /\ \A n \in Nat \ {0} : n < OldestKept => n + Capacity <= Len(log)
<1>1. Len(log) \in Nat
  BY LenProperties DEF TypeOK
<1> QED
  BY <1>1, WatchAssumption DEF OldestKept

\* A call leaves the other calls, the log and the rows alone.
LEMMA CallFrame ==
  ASSUME TypeOK, NEW w \in Watchers, Calls(w), NEW u \in Watchers, u # w
  PROVE  /\ UNCHANGED <<row, log, pc[u], filter[u], from[u], next[u], lost[u]>>
         /\ UNCHANGED <<held[u], sent[u], taken[u], open[u]>>
<1>1. CASE Watch(w)
  BY <1>1 DEF Watch, TypeOK
<1>2. CASE RecvLagged(w)
  BY <1>2 DEF RecvLagged, TypeOK
<1>3. CASE RecvEvent(w)
  <2>1. UNCHANGED <<row, log, filter, from, lost, sent, taken, open, next[u]>>
    BY <1>3 DEF RecvEvent, TypeOK
  <2>2. UNCHANGED <<pc[u], held[u]>>
    BY <1>3 DEF RecvEvent, TypeOK
  <2> QED  BY <2>1, <2>2
<1>4. CASE SendEvent(w)
  BY <1>4 DEF SendEvent, TypeOK
<1>5. CASE SendFails(w)
  BY <1>5 DEF SendFails, TypeOK
<1>6. CASE Take(w)
  BY <1>6 DEF Take, TypeOK
<1>7. CASE Close(w)
  BY <1>7 DEF Close, TypeOK
<1> QED
  BY <1>1, <1>2, <1>3, <1>4, <1>5, <1>6, <1>7 DEF Calls, Task

\* The cursor of a watcher moves forward, and only lag costs it events.
LEMMA CursorStep ==
  ASSUME TypeOK, NEW u \in Watchers, Cursor(u), [Next]_vars
  PROVE  Cursor(u)'
<1>0. /\ Len(log) \in Nat /\ from[u] \in Nat /\ next[u] \in Nat /\ held[u] \in Nat
      /\ taken[u] \in Nat /\ sent[u] \in Seq(Nat) /\ Len(sent[u]) \in Nat
      /\ lost[u] \subseteq Nat /\ Capacity \in Nat
  BY OldestKeptBounds, LenProperties, WatchAssumption DEF TypeOK
<1>1. ASSUME NEW i, NEW owner, NEW old, NEW new, Announces(i, owner, old, new)
      PROVE  Cursor(u)'
  <2>1. Len(log') = Len(log) + 1 /\ UNCHANGED taskVars
    BY <1>1, EmitAppends
  <2>2. \A n \in lost[u] : n + Capacity <= Len(log) => n + Capacity <= Len(log')
    BY <1>0, <2>1
  <2>3. next[u] <= Len(log) + 1 => next[u] <= Len(log') + 1
    BY <1>0, <2>1, SMTT(30)
  <2> QED  BY <1>0, <2>1, <2>2, <2>3 DEF Cursor, taskVars
<1>2. ASSUME NEW w \in Watchers, Calls(w), w # u
      PROVE  Cursor(u)'
  <2>1. /\ UNCHANGED <<row, log, pc[u], filter[u], from[u], next[u], lost[u]>>
        /\ UNCHANGED <<held[u], sent[u], taken[u], open[u]>>
    BY <1>2, CallFrame
  <2> QED  BY <2>1 DEF Cursor
<1>3. ASSUME Calls(u)
      PROVE  Cursor(u)'
  <2>1. CASE Watch(u)
    BY <1>0, <2>1 DEF Watch, Cursor, TypeOK
  <2>2. CASE RecvLagged(u)
    <3>1. /\ next'[u] = OldestKept /\ lost'[u] = lost[u] \cup (next[u]..(OldestKept - 1))
          /\ pc[u] = "recv" /\ next[u] < OldestKept
          /\ UNCHANGED <<log, pc, from, held, sent, taken>>
      BY <2>2 DEF RecvLagged, TypeOK
    <3> QED  BY <1>0, <3>1, OldestKeptBounds DEF Cursor
  <2>3. CASE RecvEvent(u)
    <3>1. /\ next'[u] = next[u] + 1 /\ next[u] <= Len(log)
          /\ UNCHANGED <<log, lost, from, sent, taken>> /\ pc[u] = "recv"
      BY <2>3 DEF RecvEvent, TypeOK
    <3>2. /\ pc'[u] \in {"recv", "send"}
          /\ pc'[u] = "send" => held'[u] = next[u]
      BY <2>3 DEF RecvEvent, TypeOK
    <3> QED  BY <1>0, <3>1, <3>2 DEF Cursor
  <2>4. CASE SendEvent(u)
    <3>1. /\ Len(sent'[u]) = Len(sent[u]) + 1 /\ pc[u] = "send" /\ pc'[u] = "recv"
          /\ UNCHANGED <<log, from, next, lost, held, taken>>
      BY <1>0, <2>4, AppendProperties DEF SendEvent, TypeOK
    <3> QED  BY <1>0, <3>1 DEF Cursor
  <2>5. CASE SendFails(u)
    BY <1>0, <2>5 DEF SendFails, Cursor, TypeOK
  <2>6. CASE Take(u)
    BY <1>0, <2>6 DEF Take, Cursor, TypeOK
  <2>7. CASE Close(u)
    BY <1>0, <2>7 DEF Close, Cursor, TypeOK
  <2> QED  BY <1>3, <2>1, <2>2, <2>3, <2>4, <2>5, <2>6, <2>7 DEF Calls, Task
<1>4. CASE UNCHANGED vars
  BY <1>4 DEF Cursor, vars
<1> QED
  BY <1>1, <1>2, <1>3, <1>4, StepKinds


-----------------------------------------------------------------------------
(* Exactly once, in order. *)

\* The positions a watcher should have accepted by now.
Due(w) == {n \in from[w]..(next[w] - 1) : n \notin lost[w] /\ Passes(w, n)}

\* A sequence of naturals is the increasing enumeration of a set.
Enumerates(s, S) ==
  /\ \A k \in 1..(Len(s) - 1) : s[k] < s[k + 1]
  /\ {s[k] : k \in DOMAIN s} = S

\* A larger element at the end keeps an enumeration increasing.
LEMMA EnumerationGrows ==
  ASSUME NEW s \in Seq(Nat), NEW S, NEW n \in Nat, Enumerates(s, S),
         \A k \in S : k < n
  PROVE  Enumerates(Append(s, n), S \cup {n})
<1> DEFINE t == Append(s, n)
<1>1. /\ Len(s) \in Nat /\ Len(t) = Len(s) + 1
      /\ DOMAIN s = 1..Len(s) /\ DOMAIN t = 1..(Len(s) + 1)
      /\ \A k \in 1..Len(s) : t[k] = s[k]
      /\ t[Len(s) + 1] = n
  BY AppendProperties, LenProperties
<1> HIDE DEF t
<1>2. \A k \in 1..Len(s) : s[k] \in S
  BY <1>1 DEF Enumerates
<1>3. ASSUME NEW k \in 1..(Len(t) - 1)
      PROVE  t[k] < t[k + 1]
  <2>1. CASE k = Len(s)
    <3>1. k \in 1..Len(s) /\ t[k] = s[k] /\ t[k + 1] = n
      BY <1>1, <2>1
    <3> QED  BY <1>2, <3>1
  <2>2. CASE k \in 1..(Len(s) - 1)
    BY <1>1, <2>2, SMTT(30) DEF Enumerates
  <2>3. k = Len(s) \/ k \in 1..(Len(s) - 1)
    <3>1. Len(s) \in Nat /\ Len(t) - 1 = Len(s)
      BY <1>1
    <3> QED  BY <3>1
  <2> QED  BY <2>1, <2>2, <2>3
<1>4. {t[k] : k \in DOMAIN t} = S \cup {n}
  <2>1. ASSUME NEW k \in DOMAIN t
        PROVE  t[k] \in S \cup {n}
    BY <1>1, <1>2
  <2>2. ASSUME NEW e \in S
        PROVE  \E k \in DOMAIN t : t[k] = e
    BY <1>1 DEF Enumerates
  <2>3. \E k \in DOMAIN t : t[k] = n
    BY <1>1
  <2> QED  BY <2>1, <2>2, <2>3
<1> QED
  BY <1>3, <1>4 DEF Enumerates, t

\* Delivered says that the accepted events enumerate the ones due.
LEMMA DeliveredEnumerates ==
  ASSUME NEW w
  PROVE  /\ Delivered(w) <=> (pc[w] # "gone" => Enumerates(Accepted(w), Due(w)))
         /\ Delivered(w)' <=> (pc'[w] # "gone" => Enumerates(Accepted(w)', Due(w)'))
  BY DEF Delivered, Enumerates, Due

\* What a watcher is sent stays exact: an event joins what is accepted when
\* the receiver passes it, and lag takes the events it skips out of the debt.
LEMMA DeliveredStep ==
  ASSUME TypeOK, NEW u \in Watchers, Cursor(u), Delivered(u), [Next]_vars
  PROVE  Delivered(u)'
<1>0. /\ Len(log) \in Nat /\ from[u] \in Nat /\ next[u] \in Nat /\ held[u] \in Nat
      /\ sent[u] \in Seq(Nat) /\ lost[u] \subseteq Nat
      /\ from[u] <= next[u] /\ next[u] <= Len(log) + 1
      /\ pc[u] # "off" => from[u] \in Nat \ {0}
  BY OldestKeptBounds DEF TypeOK, Cursor
<1>u. ASSUME log' = log, pc'[u] = pc[u], filter'[u] = filter[u], from'[u] = from[u],
             next'[u] = next[u], lost'[u] = lost[u], held'[u] = held[u], sent'[u] = sent[u]
      PROVE  Delivered(u)'
  <2>1. Accepted(u)' = Accepted(u) /\ pc'[u] = pc[u]
    BY <1>u DEF Accepted
  <2>2. Due(u)' = Due(u)
    BY <1>u DEF Due, Passes
  <2> QED  BY <2>1, <2>2, DeliveredEnumerates
<1>1. ASSUME NEW i, NEW owner, NEW old, NEW new, Announces(i, owner, old, new)
      PROVE  Delivered(u)'
  <2>1. /\ UNCHANGED taskVars /\ \A k \in 1..Len(log) : log'[k] = log[k]
    BY <1>1, EmitAppends
  <2>2. Accepted(u)' = Accepted(u)
    BY <2>1 DEF Accepted, taskVars
  <2>3. Due(u)' = Due(u)
    <3>1. CASE pc[u] = "off"
      BY <1>0, <2>1, <3>1 DEF Due, taskVars, Cursor
    <3>2. CASE pc[u] # "off"
      BY <1>0, <2>1, <3>2 DEF Due, taskVars, Passes
    <3> QED  BY <3>1, <3>2
  <2> QED  BY <2>1, <2>2, <2>3, DeliveredEnumerates DEF taskVars
<1>2. ASSUME NEW w \in Watchers, Calls(w), w # u
      PROVE  Delivered(u)'
  <2>1. /\ UNCHANGED <<row, log, pc[u], filter[u], from[u], next[u], lost[u]>>
        /\ UNCHANGED <<held[u], sent[u], taken[u], open[u]>>
    BY <1>2, CallFrame
  <2> QED  BY <1>u, <2>1
<1>3. ASSUME Calls(u)
      PROVE  Delivered(u)'
  <2>1. CASE Watch(u)
    <3>1. pc[u] = "off" /\ pc'[u] = "recv" /\ sent'[u] = <<>>
      BY <2>1 DEF Watch, Cursor, TypeOK
    <3>2. from'[u] = Len(log) + 1 /\ next'[u] = Len(log) + 1
      BY <2>1 DEF Watch, TypeOK
    <3>3. Accepted(u)' = <<>> /\ Due(u)' = {}
      BY <1>0, <3>1, <3>2 DEF Accepted, Due
    <3>4. Enumerates(<<>>, {})
      BY DEF Enumerates
    <3> QED  BY <3>3, <3>4, DeliveredEnumerates
  <2>2. CASE RecvLagged(u)
    <3>1. /\ next'[u] = OldestKept /\ lost'[u] = lost[u] \cup (next[u]..(OldestKept - 1))
          /\ pc[u] = "recv" /\ next[u] < OldestKept
          /\ UNCHANGED <<log, pc, filter, from, held, sent, taken>>
      BY <2>2 DEF RecvLagged, TypeOK
    <3>2. Due(u)' = Due(u)
      BY <1>0, <3>1, OldestKeptBounds DEF Due, Passes
    <3>3. Accepted(u)' = Accepted(u)
      BY <3>1 DEF Accepted
    <3> QED  BY <3>1, <3>2, <3>3, DeliveredEnumerates
  <2>3. CASE RecvEvent(u)
    <3>1. /\ next'[u] = next[u] + 1 /\ next[u] <= Len(log) /\ pc[u] = "recv"
          /\ UNCHANGED <<log, filter, from, lost, sent>>
      BY <2>3 DEF RecvEvent, TypeOK
    <3>2. Accepted(u) = sent[u] /\ next[u] \notin lost[u]
          /\ Enumerates(sent[u], Due(u))
      BY <1>0, <3>1, DeliveredEnumerates DEF Accepted, Cursor
    <3>3. CASE ~Passes(u, next[u])
      <4>1. pc'[u] = "recv" /\ Accepted(u)' = sent[u]
        BY <2>3, <3>1, <3>3 DEF RecvEvent, Accepted
      <4>2. Due(u)' = Due(u)
        BY <1>0, <3>1, <3>3 DEF Due, Passes
      <4> QED  BY <3>2, <4>1, <4>2, DeliveredEnumerates
    <3>4. CASE Passes(u, next[u])
      <4>1. pc'[u] = "send" /\ held'[u] = next[u]
        BY <2>3, <3>4 DEF RecvEvent, TypeOK
      <4>2. Accepted(u)' = Append(sent[u], next[u])
        BY <3>1, <4>1 DEF Accepted
      <4>3. Due(u)' = Due(u) \cup {next[u]}
        BY <1>0, <3>1, <3>2, <3>4 DEF Due, Passes
      <4>4. \A k \in Due(u) : k < next[u]
        BY <1>0 DEF Due
      <4>5. Enumerates(Append(sent[u], next[u]), Due(u) \cup {next[u]})
        BY <1>0, <3>2, <4>4, EnumerationGrows
      <4> QED  BY <4>2, <4>3, <4>5, DeliveredEnumerates
    <3> QED  BY <3>3, <3>4
  <2>4. CASE SendEvent(u)
    <3>1. /\ sent'[u] = Append(sent[u], held[u]) /\ pc[u] = "send" /\ pc'[u] = "recv"
          /\ UNCHANGED <<log, filter, from, next, lost>>
      BY <2>4 DEF SendEvent, TypeOK
    <3>2. Accepted(u)' = Accepted(u) /\ Due(u)' = Due(u)
      BY <3>1 DEF Accepted, Due, Passes
    <3> QED  BY <3>1, <3>2, DeliveredEnumerates
  <2>5. CASE SendFails(u)
    <3>1. pc'[u] = "gone"
      BY <2>5 DEF SendFails, TypeOK
    <3> QED  BY <3>1, DeliveredEnumerates
  <2>6. CASE Take(u)
    BY <1>u, <2>6 DEF Take
  <2>7. CASE Close(u)
    BY <1>u, <2>7 DEF Close
  <2> QED  BY <1>3, <2>1, <2>2, <2>3, <2>4, <2>5, <2>6, <2>7 DEF Calls, Task
<1>4. CASE UNCHANGED vars
  BY <1>4, <1>u DEF vars
<1> QED
  BY <1>1, <1>2, <1>3, <1>4, StepKinds


-----------------------------------------------------------------------------
(* The theorems. *)

\* The invariant: types, the log, the cursors and what was delivered.
LEMMA StreamInvariant == Spec => []StreamInv
<1>1. Init => StreamInv
  <2> SUFFICES ASSUME Init PROVE StreamInv
    OBVIOUS
  <2>1. TypeOK
    BY DEF Init, TypeOK
  <2>2. log = <<>> /\ Len(log) = 0 /\ DOMAIN log = {}
    BY DEF Init
  <2>3. LogInv
    BY <2>2 DEF LogInv
  <2>4. ASSUME NEW w \in Watchers
        PROVE  Cursor(w) /\ Delivered(w)
    <3>1. /\ pc[w] = "off" /\ from[w] = 0 /\ next[w] = 0 /\ lost[w] = {}
          /\ sent[w] = <<>> /\ taken[w] = 0 /\ Len(sent[w]) = 0
      BY DEF Init
    <3>2. Accepted(w) = <<>>
      BY <3>1 DEF Accepted
    <3> QED  BY <2>2, <3>1, <3>2 DEF Cursor, Delivered
  <2> QED  BY <2>1, <2>3, <2>4 DEF StreamInv
<1>2. StreamInv /\ [Next]_vars => StreamInv'
  BY StreamTypeStep, LogStep, CursorStep, DeliveredStep DEF StreamInv
<1> QED
  BY <1>1, <1>2, PTL DEF Spec

\* Exactly once, in order: whatever the capacities and however broadcasts,
\* waits for the channel, lag and clients that leave interleave, a watcher is
\* sent the events since its subscription that pass its filter, in order and
\* without a gap other than the events it lagged behind.
THEOREM WatchDeliversExactly == Spec => []DeliveredExactly
<1>1. StreamInv => DeliveredExactly
  BY DEF StreamInv, Delivered, DeliveredExactly
<1> QED
  BY <1>1, StreamInvariant, PTL

\* Lag never costs a watcher one of the latest Capacity events.
THEOREM LagKeepsNewest == Spec => []NewestKept
<1>1. StreamInv => NewestKept
  BY DEF StreamInv, Cursor, NewestKept
<1> QED
  BY <1>1, StreamInvariant, PTL

\* The largest element of a set of numbers is the one Last chooses.
LEMMA LastIs ==
  ASSUME NEW S \in SUBSET Nat, NEW n \in S, \A k \in S : k <= n
  PROVE  Last(S) = n
<1>1. /\ Last(S) \in S /\ \A k \in S : k <= Last(S)
  BY DEF Last
<1>2. Last(S) <= n /\ n <= Last(S) /\ Last(S) \in Nat
  BY <1>1
<1> QED
  BY <1>2

\* The numbers of the protocol and portctl's names undo each other on the
\* states that are announced.
LEMMA NameOfNumber ==
  ASSUME NEW s \in Announced
  PROVE  StateName(ToProto(s)) = s
<1>1. CASE s = "pending"   BY <1>1 DEF StateName, ToProto
<1>2. CASE s = "active"    BY <1>2 DEF StateName, ToProto
<1>3. CASE s = "failed"    BY <1>3 DEF StateName, ToProto
<1>4. CASE s = "released"  BY <1>4 DEF StateName, ToProto
<1> QED
  BY <1>1, <1>2, <1>3, <1>4 DEF Announced

\* A watcher that is up to date and never lagged knows the state of every
\* reservation its filter selects, unless it expired and the filter, which no
\* event without an owner passes, hid that.
THEOREM WatcherKnows == Spec => []KnowsUnlessExpired
<1>1. ASSUME StreamInv, NEW w \in Watchers, NEW i \in Reservations
      PROVE
        LET changes == {n \in from[w]..Len(log) : log[n].id = i}
            heard   == {sent[w][k] : k \in 1..taken[w]} \cap changes
        IN  Caught(w) /\ lost[w] = {} /\ OwnerOf[i] \in filter[w] /\ changes # {} =>
              \/ /\ heard # {}
                 /\ StateName(ProtoEvent(Last(heard)).new) = row[i]
              \/ /\ log[Last(changes)].owner = Blank /\ Blank \notin filter[w]
                 /\ row[i] = "released"
  <2> DEFINE changes == {n \in from[w]..Len(log) : log[n].id = i}
             heard   == {sent[w][k] : k \in 1..taken[w]} \cap changes
  <2> SUFFICES ASSUME Caught(w), lost[w] = {}, OwnerOf[i] \in filter[w], changes # {}
               PROVE  \/ /\ heard # {}
                         /\ StateName(ProtoEvent(Last(heard)).new) = row[i]
                      \/ /\ log[Last(changes)].owner = Blank /\ Blank \notin filter[w]
                         /\ row[i] = "released"
    OBVIOUS
  <2>1. /\ Len(log) \in Nat /\ DOMAIN log = 1..Len(log) /\ from[w] \in Nat \ {0}
        /\ next[w] = Len(log) + 1 /\ sent[w] \in Seq(Nat)
        /\ DOMAIN sent[w] = 1..Len(sent[w]) /\ taken[w] = Len(sent[w])
        /\ \A k \in 1..Len(log) : log[k] \in Events
    BY <1>1, LenProperties, ElementOfSeq DEF StreamInv, TypeOK, Cursor, Caught
  <2>2. {sent[w][k] : k \in 1..taken[w]} = {n \in from[w]..Len(log) : Passes(w, n)}
    <3>1. Accepted(w) = sent[w] /\ pc[w] # "gone"
      BY DEF Accepted, Caught
    <3>2. {sent[w][k] : k \in DOMAIN sent[w]} =
            {n \in from[w]..(next[w] - 1) : n \notin lost[w] /\ Passes(w, n)}
      BY <1>1, <3>1 DEF StreamInv, Delivered
    <3>3. DOMAIN sent[w] = 1..taken[w] /\ next[w] - 1 = Len(log)
      BY <2>1
    <3>4. {n \in from[w]..(next[w] - 1) : n \notin lost[w] /\ Passes(w, n)} =
            {n \in from[w]..Len(log) : Passes(w, n)}
      BY <3>3
    <3> QED  BY <3>2, <3>3, <3>4, Zenon
  <2>3. PICK k \in changes : TRUE
    OBVIOUS
  <2>4. PICK m \in DOMAIN log : Carries(m, i)
    BY <1>1, <2>1, <2>3 DEF StreamInv, LogInv
  <2>5. m \in changes /\ \A n \in changes : n <= m
    BY <2>1, <2>3, <2>4 DEF Carries
  <2>6. changes \in SUBSET Nat /\ heard \in SUBSET Nat
    BY <2>1
  <2>7. Last(changes) = m
    BY <2>5, <2>6, LastIs
  <2>8. CASE Passes(w, m)
    <3>1. m \in heard /\ \A n \in heard : n <= m
      BY <2>2, <2>5, <2>8
    <3>2. Last(heard) = m
      BY <2>6, <3>1, LastIs
    <3>3. log[m].new = row[i] /\ log[m].new \in Announced
      BY <2>1, <2>4 DEF Carries, Events
    <3>4. ProtoEvent(m).new = ToProto(log[m].new)
      BY DEF ProtoEvent
    <3> HIDE DEF heard
    <3> QED  BY <3>1, <3>2, <3>3, <3>4, NameOfNumber
  <2>9. CASE ~Passes(w, m)
    <3>1. log[m].id = i /\ log[m].owner # OwnerOf[i]
      BY <2>4, <2>9 DEF Carries, Passes
    <3>2. log[m].owner = Blank /\ log[m].new = "released"
      BY <1>1, <2>4, <3>1 DEF StreamInv, LogInv
    <3> QED  BY <2>4, <2>7, <2>9, <3>2 DEF Carries, Passes
  <2> QED  BY <2>8, <2>9
<1>2. StreamInv => KnowsUnlessExpired
  BY <1>1 DEF KnowsUnlessExpired
<1> QED
  BY <1>2, StreamInvariant, PTL

=============================================================================
