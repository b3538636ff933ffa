------------------------------ MODULE PureProofs ------------------------------
(***************************************************************************)
(* Theorems about the pure functions: for every input of the type the code *)
(* gives them, that dates, ages, the arguments of reserve, release, list,  *)
(* socket paths and settings come out as they should; and for each         *)
(* invariant of MCPure, that it holds of its specification.                *)
(* PortAllocProofs and OwnerProofs have those on ports and owners.         *)
(***************************************************************************)
EXTENDS MCPure, OwnerProofs, FiniteSetTheorems

-----------------------------------------------------------------------------
(* Calls and results. *)

CallMade == AllocateCall \/ OwnerCall \/ TimeCall \/ ApiCall \/ SettingsCall

\* What the function of a call returns.
Value(c) ==
  CASE c.fn = "allocate_port" -> AllocatePort(c.pref, c.exact, c.avail)
    [] c.fn = "count"     -> CountsTowards(c.o, c.q)
    [] c.fn = "filter"    -> [list |-> MatchesList(c.o, c.f), watch |-> MatchesWatch(c.o, c.f)]
    [] c.fn = "timestamp" -> ChronoParseNaive(c.d, c.t)
    [] c.fn = "age"       -> FormatAge(c.created, c.now)
    [] c.fn = "reserve"   -> ReserveArgs(c.target, c.preferred)
    [] c.fn = "release"   -> Release(c.rows, Identifier(c.port, c.id))
    [] c.fn = "list"      -> List(c.rows, c.owner, c.state)
    [] c.fn = "error"     -> StatusOf(c.error)
    [] c.fn = "socket"    -> <<DaemonSocket(c.env), PortctlSocket(c.env),
                               UiSocket(c.env, <<"", "home">>)>>
    [] c.fn = "load"      -> Load(c.file)
    [] c.fn = "connect"   -> ConnectAndAuthenticate(c.loads, c.fp, c.digest, c.authed)

\* The call is one that Init makes, and its result is what the function returns.
Answered == CallMade /\ (result = <<>> \/ result = <<Value(call)>>)

\* A call keeps its function and its arguments.
LEMMA CallKept ==
  ASSUME CallMade, call' = call
  PROVE  CallMade'
<1>1. ASSUME AllocateCall PROVE AllocateCall'
  BY <1>1, Zenon DEF AllocateCall
<1>2. ASSUME OwnerCall PROVE OwnerCall'
  BY <1>2, Zenon DEF OwnerCall
<1>3. ASSUME TimeCall PROVE TimeCall'
  BY <1>3, SMT DEF TimeCall
<1>4. ASSUME ApiCall PROVE ApiCall'
  BY <1>4, Zenon DEF ApiCall
<1>5. ASSUME SettingsCall PROVE SettingsCall'
  BY <1>5, Zenon DEF SettingsCall
<1> QED
  BY <1>1, <1>2, <1>3, <1>4, <1>5, Zenon DEF CallMade

\* Every call is answered by its function.
LEMMA CallsAnswered == Spec => []Answered
<1>1. Init => Answered
  BY Zenon DEF Init, Answered, CallMade
<1>2. Answered /\ [Next]_vars => Answered'
  <2> SUFFICES ASSUME Answered, [Next]_vars PROVE Answered'
    OBVIOUS
  <2>1. ASSUME NEW fn, NEW value, Returns(fn, value), call.fn = fn => Value(call) = value
        PROVE  Answered'
    <3>1. call' = call /\ result' = <<value>> /\ Value(call) = value
      BY <2>1, Zenon DEF Returns
    <3>2. CallMade'
      BY <3>1, CallKept, Zenon DEF Answered
    <3>3. (Value(call))' = value
      BY <3>1, Zenon
    <3> QED  BY <3>1, <3>2, <3>3, Zenon DEF Answered
  <2>2. ASSUME UNCHANGED vars PROVE Answered'
    <3>1. call' = call /\ result' = result
      BY <2>2, Zenon DEF vars
    <3>2. CallMade'
      BY <3>1, CallKept, Zenon DEF Answered
    <3>3. (Value(call))' = Value(call)
      BY <3>1, Zenon
    <3> QED  BY <3>1, <3>2, <3>3, Zenon DEF Answered
  <2>3. CASE AllocateReturns
    BY <2>1, <2>3, Zenon DEF AllocateReturns, Value
  <2>4. CASE CountReturns
    BY <2>1, <2>4, Zenon DEF CountReturns, Value
  <2>5. CASE FilterReturns
    BY <2>1, <2>5, Zenon DEF FilterReturns, Value
  <2>6. CASE TimestampReturns
    BY <2>1, <2>6, Zenon DEF TimestampReturns, Value
  <2>7. CASE AgeReturns
    BY <2>1, <2>7, Zenon DEF AgeReturns, Value
  <2>8. CASE ReserveReturns
    BY <2>1, <2>8, Zenon DEF ReserveReturns, Value
  <2>9. CASE ReleaseReturns
    BY <2>1, <2>9, Zenon DEF ReleaseReturns, Value
  <2>10. CASE ListReturns
    BY <2>1, <2>10, Zenon DEF ListReturns, Value
  <2>11. CASE ErrorReturns
    BY <2>1, <2>11, Zenon DEF ErrorReturns, Value
  <2>12. CASE SocketReturns
    BY <2>1, <2>12, Zenon DEF SocketReturns, Value
  <2>13. CASE LoadReturns
    BY <2>1, <2>13, Zenon DEF LoadReturns, Value
  <2>14. CASE ConnectReturns
    BY <2>1, <2>14, Zenon DEF ConnectReturns, Value
  <2> QED
    BY <2>2, <2>3, <2>4, <2>5, <2>6, <2>7, <2>8, <2>9, <2>10, <2>11, <2>12, <2>13, <2>14, Zenon
    DEF Next
<1> QED
  BY <1>1, <1>2, PTL DEF Spec

\* Which calls a function name stands for.
LEMMA CallsByName ==
  ASSUME CallMade
  PROVE  /\ call.fn = "allocate_port" => AllocateCall
         /\ call.fn \in {"count", "filter"} => OwnerCall
         /\ call.fn \in {"timestamp", "age"} => TimeCall
         /\ call.fn \in {"reserve", "release", "list", "error"} => ApiCall
         /\ call.fn \in {"socket", "load", "connect"} => SettingsCall
<1>1. AllocateCall => call.fn = "allocate_port"
  BY DEF AllocateCall
<1>2. OwnerCall => call.fn \in {"count", "filter"}
  BY DEF OwnerCall
<1>3. TimeCall => call.fn \in {"timestamp", "age"}
  BY DEF TimeCall
<1>4. ApiCall => call.fn \in {"reserve", "release", "list", "error"}
  BY DEF ApiCall
<1>5. SettingsCall => call.fn \in {"socket", "load", "connect"}
  <2>1. ASSUME NEW env, call = [fn |-> "socket", env |-> env]
        PROVE  call.fn = "socket"
    BY <2>1
  <2>2. ASSUME NEW file, call = [fn |-> "load", file |-> file]
        PROVE  call.fn = "load"
    BY <2>2
  <2>3. ASSUME NEW loads, NEW fp, NEW digest, NEW authed,
               call = [fn |-> "connect", loads |-> loads, fp |-> fp, digest |-> digest,
                       authed |-> authed]
        PROVE  call.fn = "connect"
    BY <2>3
  <2> QED  BY <2>1, <2>2, <2>3, Zenon DEF SettingsCall
<1> QED
  BY <1>1, <1>2, <1>3, <1>4, <1>5 DEF CallMade

\* A function that has returned has returned its value.
LEMMA ReturnedValue ==
  ASSUME Answered, NEW fn, Returned(fn)
  PROVE  call.fn = fn /\ CallMade /\ result[1] = Value(call)
<1>1. call.fn = fn /\ CallMade /\ result = <<Value(call)>>
  BY Zenon DEF Answered, Returned
<1>2. \A v : <<v>>[1] = v
  OBVIOUS
<1> QED
  BY <1>1, <1>2, Zenon

-----------------------------------------------------------------------------
(* allocate_port, as MCPure calls it. *)

\* A call of allocate_port has a preference and free ports of the port space,
\* and its result is what the loops return.
LEMMA AllocateCalled ==
  ASSUME Answered, Returned("allocate_port")
  PROVE  /\ call.pref \in Nat /\ call.exact \in BOOLEAN /\ call.avail \in SUBSET (Nat \ {0})
         /\ result[1] = AllocatePort(call.pref, call.exact, call.avail)
<1>1. call.fn = "allocate_port" /\ CallMade /\ result[1] = Value(call)
  BY ReturnedValue
<1>2. AllocateCall
  BY <1>1, CallsByName
<1>3. call.pref \in Nat /\ call.exact \in BOOLEAN /\ call.avail \in SUBSET (Nat \ {0})
  BY <1>2, PureAssumption DEF AllocateCall
<1>4. Value(call) = AllocatePort(call.pref, call.exact, call.avail)
  BY <1>1 DEF Value
<1> QED
  BY <1>1, <1>3, <1>4, Zenon

\* For every range and every port space, the loops of allocate_port return p
\* exactly when the relation names p.
THEOREM LoopsMatchRelation == Spec => []ScanMatchesRelation
<1>1. Answered => ScanMatchesRelation
  <2> SUFFICES ASSUME Answered, Returned("allocate_port"), NEW p \in 1..MaxPort
               PROVE  (result[1] = p) <=> Allocates(call.pref, call.exact, call.avail, p)
    BY DEF ScanMatchesRelation
  <2>1. /\ call.pref \in Nat /\ call.exact \in BOOLEAN /\ call.avail \in SUBSET (Nat \ {0})
        /\ result[1] = AllocatePort(call.pref, call.exact, call.avail)
    BY AllocateCalled
  <2>2. p \in Nat \ {0}
    BY PureAssumption
  <2> QED  BY <2>1, <2>2, ScansComputeRelation
<1> QED
  BY <1>1, CallsAnswered, PTL

\* For every range and every port space, exact_only gives the named port or
\* an error, "exhausted" means that no port of the range is free, and a port
\* outside the range is returned only for a preference outside it.
THEOREM RequestsHonoured == Spec => []AllocationHonoursRequest
<1>1. Answered => AllocationHonoursRequest
  <2> SUFFICES ASSUME Answered, Returned("allocate_port")
               PROVE  AllocationHonoursRequest
    BY DEF AllocationHonoursRequest
  <2>1. /\ call.pref \in Nat /\ call.exact \in BOOLEAN /\ call.avail \in SUBSET (Nat \ {0})
        /\ result[1] = AllocatePort(call.pref, call.exact, call.avail)
    BY AllocateCalled
  <2> QED  BY <2>1, AllocationHonoursAnyRequest DEF AllocationHonoursRequest
<1> QED
  BY <1>1, CallsAnswered, PTL

-----------------------------------------------------------------------------
(* Owners, as MCPure calls their functions. *)

\* The owners and the filters are texts over these characters.
Text == {"vm", "VM", "host", ":", "a", "_", "%"}

LEMMA StringsAreTexts ==
  ASSUME NEW chars \in SUBSET Text, NEW n \in Nat, NEW x \in Strings(chars, n)
  PROVE  x \in Seq(Text)
<1> DEFINE T == UNION {[1..k -> chars] : k \in 0..n}
<1>1. PICK h \in Heads, t \in T : x = h \o t
  <2>1. x \in {h \o t : h \in Heads, t \in T}
    BY SMT DEF Strings
  <2> HIDE DEF T
  <2> QED  BY <2>1
<1>2. h \in Seq(Text)
  <2>0. "vm" \in Text /\ "VM" \in Text /\ "host" \in Text /\ ":" \in Text
    BY Zenon DEF Text
  <2>1. <<"vm", ":">> \in Seq(Text)
    BY <2>0
  <2>2. <<"VM", ":">> \in Seq(Text)
    BY <2>0
  <2>3. <<"host", ":">> \in Seq(Text)
    BY <2>0
  <2>4. <<>> \in Seq(Text)
    BY EmptySeq
  <2> QED  BY <1>1, <2>1, <2>2, <2>3, <2>4, Zenon DEF Heads
<1>3. t \in Seq(Text)
  <2>1. PICK k \in 0..n : t \in [1..k -> chars]
    BY <1>1, Zenon
  <2>2. k \in Nat /\ t \in [1..k -> Text]
    BY <2>1
  <2> HIDE DEF Text
  <2> QED  BY <2>2
<1> QED
  BY <1>1, <1>2, <1>3, ConcatProperties

LEMMA OwnersAreTexts ==
  OwnerSet \subseteq Seq(Text) /\ FilterSet \subseteq Seq(Text)
<1>1. {"a", "_", ":"} \in SUBSET Text /\ {"a", "_", ":", "%"} \in SUBSET Text
  BY DEF Text
<1>2. 2 \in Nat /\ 3 \in Nat
  OBVIOUS
<1>3. OwnerSet \subseteq Strings({"a", "_", ":"}, 3)
  BY Zenon DEF OwnerSet
<1>4. FilterSet \subseteq Strings({"a", "_", ":", "%"}, 2)
  BY Zenon DEF FilterSet
<1> QED
  BY <1>1, <1>2, <1>3, <1>4, StringsAreTexts, Zenon

\* The fields of the two records.
LEMMA CountRecord ==
  \A o, q, c : c = [fn |-> "count", o |-> o, q |-> q] => c.o = o /\ c.q = q
  OBVIOUS

LEMMA FilterRecord ==
  \A o, f, c : c = [fn |-> "filter", o |-> o, f |-> f] => c.o = o /\ c.f = f
  OBVIOUS

LEMMA MatchRecord ==
  \A l, w, r : r = [list |-> l, watch |-> w] => r.list = l /\ r.watch = w
  OBVIOUS

\* A call of either function has two texts.
LEMMA OwnersCalled ==
  ASSUME CallMade
  PROVE  /\ call.fn = "count" => call.o \in Seq(Text) /\ call.q \in Seq(Text)
         /\ call.fn = "filter" => call.o \in Seq(Text) /\ call.f \in Seq(Text)
<1>1. call.fn \in {"count", "filter"} => OwnerCall
  BY CallsByName, Zenon
<1>2. ASSUME NEW o \in OwnerSet, NEW q \in OwnerSet, call = [fn |-> "count", o |-> o, q |-> q]
      PROVE  call.fn = "count" /\ call.o \in Seq(Text) /\ call.q \in Seq(Text)
  <2>1. call.fn = "count"
    BY <1>2
  <2> QED  BY <1>2, <2>1, CountRecord, OwnersAreTexts, Zenon
<1>3. ASSUME NEW o \in OwnerSet, NEW f \in FilterSet, call = [fn |-> "filter", o |-> o, f |-> f]
      PROVE  call.fn = "filter" /\ call.o \in Seq(Text) /\ call.f \in Seq(Text)
  <2>1. call.fn = "filter"
    BY <1>3
  <2> QED  BY <1>3, <2>1, FilterRecord, OwnersAreTexts, Zenon
<1>4. OwnerCall => \/ call.fn = "count" /\ call.o \in Seq(Text) /\ call.q \in Seq(Text)
                   \/ call.fn = "filter" /\ call.o \in Seq(Text) /\ call.f \in Seq(Text)
  BY <1>2, <1>3, Zenon DEF OwnerCall
<1> QED
  BY <1>1, <1>4, Zenon

\* Rows are counted towards the limits they should be, as MCPure calls reserve's
\* count, whatever the character set and the length limit of owners.
THEOREM RowsCountedExactly == Spec => []CountedExactly
<1>1. Answered => CountedExactly
  <2> SUFFICES ASSUME Answered, Returned("count")
               PROVE  CountedExactly
    BY DEF CountedExactly
  <2>1. call.fn = "count" /\ CallMade /\ result[1] = Value(call)
    BY ReturnedValue
  <2>2. call.o \in Seq(Text) /\ call.q \in Seq(Text)
    BY <2>1, OwnersCalled, Zenon
  <2>3. Value(call) = CountsTowards(call.o, call.q)
    BY <2>1 DEF Value
  <2> QED  BY <2>1, <2>2, <2>3, CountsByPrefix, Zenon DEF CountedExactly
<1> QED
  BY <1>1, CallsAnswered, PTL

\* list shows what watch announces, as MCPure calls the two filters.
THEOREM WatchedWithinList == Spec => []WatchWithinList
<1>1. Answered => WatchWithinList
  <2> SUFFICES ASSUME Answered, Returned("filter")
               PROVE  WatchWithinList
    BY DEF WatchWithinList
  <2>1. call.fn = "filter" /\ CallMade /\ result[1] = Value(call)
    BY ReturnedValue
  <2>2. call.o \in Seq(Text) /\ call.f \in Seq(Text)
    BY <2>1, OwnersCalled, Zenon
  <2>3. Value(call) = [list  |-> MatchesList(call.o, call.f),
                       watch |-> MatchesWatch(call.o, call.f)]
    BY <2>1 DEF Value
  <2>4. /\ result[1].list = MatchesList(call.o, call.f)
        /\ result[1].watch = MatchesWatch(call.o, call.f)
    <3> DEFINE l == MatchesList(call.o, call.f)
               w == MatchesWatch(call.o, call.f)
               r == result[1]
    <3>1. r = [list |-> l, watch |-> w]
      BY <2>1, <2>3, Zenon
    <3> HIDE DEF l, w, r
    <3>2. r.list = l /\ r.watch = w
      BY <3>1, MatchRecord
    <3> QED  BY <3>2 DEF l, w, r
  <2> QED  BY <2>2, <2>4, WatchSelectsWithinList, Zenon DEF WatchWithinList
<1> QED
  BY <1>1, CallsAnswered, PTL

-----------------------------------------------------------------------------
(* The calendar. *)

\* Days from year 1 to the end of a year, by the rules of the calendar.
DaysUntil(year) == 365 * year + year \div 4 - year \div 100 + year \div 400

\* A year has 366 days exactly when it is a leap year.
LEMMA YearLength ==
  ASSUME NEW y \in Nat \ {0}
  PROVE  DaysUntil(y) - DaysUntil(y - 1) = IF IsLeap(y) THEN 366 ELSE 365
<1>1. y \div 4 - (y - 1) \div 4 = IF y % 4 = 0 THEN 1 ELSE 0
  OBVIOUS
<1>2. y \div 100 - (y - 1) \div 100 = IF y % 100 = 0 THEN 1 ELSE 0
  OBVIOUS
<1>3. y \div 400 - (y - 1) \div 400 = IF y % 400 = 0 THEN 1 ELSE 0
  OBVIOUS
<1>4. (y % 400 = 0 => y % 100 = 0) /\ (y % 100 = 0 => y % 4 = 0)
  OBVIOUS
<1> QED
  BY <1>1, <1>2, <1>3, <1>4 DEF DaysUntil, IsLeap, Leap

\* The daemon's loop over the years counts the days of the calendar.
LEMMA YearLoop ==
  ASSUME NEW year \in Nat, year >= 1970
  PROVE  DaysBeforeYear(year) = DaysUntil(year - 1) - DaysUntil(1969)
<1> DEFINE Body(f) == [y \in 1970..year |->
                         IF y = 1970 THEN 0 ELSE f[y - 1] + (IF IsLeap(y - 1) THEN 366 ELSE 365)]
           g == [y \in 1970..year |-> DaysUntil(y - 1) - DaysUntil(1969)]
           days == CHOOSE f : f = Body(f)
<1>1. ASSUME NEW y \in 1970..year, y # 1970
      PROVE  DaysUntil(y - 1) - DaysUntil(1969) =
               (DaysUntil(y - 2) - DaysUntil(1969)) + (IF IsLeap(y - 1) THEN 366 ELSE 365)
  <2>1. y - 1 \in Nat \ {0} /\ (y - 1) - 1 = y - 2
    BY <1>1
  <2>2. DaysUntil(y - 1) - DaysUntil(y - 2) = IF IsLeap(y - 1) THEN 366 ELSE 365
    BY <2>1, YearLength
  <2>3. DaysUntil(y - 1) \in Int /\ DaysUntil(y - 2) \in Int /\ DaysUntil(1969) \in Int
    BY DEF DaysUntil
  <2> QED  BY <2>2, <2>3
<1>2. g = Body(g)
  <2>1. ASSUME NEW y \in 1970..year
        PROVE  g[y] = IF y = 1970 THEN 0 ELSE g[y - 1] + (IF IsLeap(y - 1) THEN 366 ELSE 365)
    <3>1. CASE y = 1970
      BY <3>1 DEF DaysUntil
    <3>2. CASE y # 1970
      <4>1. y - 1 \in 1970..year /\ (y - 1) - 1 = y - 2
        BY <3>2
      <4>2. g[y - 1] = DaysUntil(y - 2) - DaysUntil(1969)
        BY <4>1
      <4> QED  BY <1>1, <3>2, <4>2
    <3> QED  BY <3>1, <3>2
  <2>2. g = [y \in 1970..year |-> g[y]]
    OBVIOUS
  <2> HIDE DEF g
  <2>3. Body(g) = [y \in 1970..year |-> g[y]]
    BY <2>1
  <2> HIDE DEF Body
  <2> QED  BY <2>2, <2>3
<1>3. days = Body(days)
  <2> HIDE DEF g, Body
  <2> QED  BY <1>2
<1>4. DaysBeforeYear(year) = days[year]
  BY DEF DaysBeforeYear
<1>5. \A h : h = Body(h) => \A y \in 1970..year :
        h[y] = IF y = 1970 THEN 0 ELSE h[y - 1] + (IF IsLeap(y - 1) THEN 366 ELSE 365)
  OBVIOUS
<1> HIDE DEF g, days, Body
<1>6. days[year] = g[year]
  <2> DEFINE Differ == {y \in Nat : y \in 1970..year /\ days[y] # g[y]}
  <2>1. SUFFICES ASSUME Differ # {} PROVE FALSE
    <3>1. year \notin Differ
      BY <2>1
    <3> QED  BY <3>1
  <2>2. PICK y \in Differ : Lowest(Differ, y)
    <3>1. Differ \in SUBSET Nat
      OBVIOUS
    <3> HIDE DEF Differ
    <3> QED  BY <2>1, <3>1, LowestExists
  <2>3. y \in 1970..year /\ days[y] # g[y]
    BY <2>2
  <2>4. y # 1970
    BY <1>2, <1>3, <1>5, <2>3
  <2>5. y - 1 \in 1970..year /\ y - 1 \notin Differ
    BY <2>2, <2>3, <2>4 DEF Lowest
  <2>6. days[y - 1] = g[y - 1]
    BY <2>5
  <2> QED  BY <1>2, <1>3, <1>5, <2>3, <2>4, <2>6
<1>7. g[year] = DaysUntil(year - 1) - DaysUntil(1969)
  BY DEF g
<1> QED
  BY <1>4, <1>6, <1>7


\* Days of a year before a month, by the rules of the calendar.
DaysBefore(year, month) ==
  <<0, 31, 59, 90, 120, 151, 181, 212, 243, 273, 304, 334>>[month]
    + (IF Leap(year) /\ month > 2 THEN 1 ELSE 0)

\* The daemon's loop over the months counts the days of the calendar.
LEMMA MonthLoop ==
  ASSUME NEW year \in Nat, NEW month \in 1..12
  PROVE  DaysBeforeMonth(year, month) = DaysBefore(year, month)
<1> DEFINE Body(f) == [m \in 1..month |->
                         IF m = 1 THEN 0
                         ELSE f[m - 1] + MonthDays[m - 1]
                                + (IF m - 1 = 2 /\ IsLeap(year) THEN 1 ELSE 0)]
           g == [m \in 1..month |-> DaysBefore(year, m)]
           days == CHOOSE f : f = Body(f)
<1>1. ASSUME NEW m \in 1..month
      PROVE  DaysBefore(year, m) =
               IF m = 1 THEN 0
               ELSE DaysBefore(year, m - 1) + MonthDays[m - 1]
                      + (IF m - 1 = 2 /\ IsLeap(year) THEN 1 ELSE 0)
  <2>1. \/ m = 1 \/ m = 2 \/ m = 3 \/ m = 4 \/ m = 5 \/ m = 6 \/ m = 7 \/ m = 8
        \/ m = 9 \/ m = 10 \/ m = 11 \/ m = 12
    OBVIOUS
  <2> QED  BY <2>1 DEF DaysBefore, MonthDays, IsLeap
<1>2. g = Body(g)
  <2>1. ASSUME NEW m \in 1..month
        PROVE  g[m] = IF m = 1 THEN 0
                      ELSE g[m - 1] + MonthDays[m - 1]
                             + (IF m - 1 = 2 /\ IsLeap(year) THEN 1 ELSE 0)
    <3>1. CASE m = 1
      BY <1>1, <3>1
    <3>2. CASE m # 1
      <4>1. m - 1 \in 1..month
        BY <3>2
      <4>2. g[m - 1] = DaysBefore(year, m - 1)
        BY <4>1
      <4> QED  BY <1>1, <3>2, <4>2
    <3> QED  BY <3>1, <3>2
  <2>2. g = [m \in 1..month |-> g[m]]
    OBVIOUS
  <2> HIDE DEF g
  <2>3. Body(g) = [m \in 1..month |-> g[m]]
    BY <2>1
  <2> HIDE DEF Body
  <2> QED  BY <2>2, <2>3
<1>3. days = Body(days)
  <2> HIDE DEF g, Body
  <2> QED  BY <1>2
<1>4. DaysBeforeMonth(year, month) = days[month]
  BY DEF DaysBeforeMonth
<1>5. \A h : h = Body(h) => \A m \in 1..month :
        h[m] = IF m = 1 THEN 0
               ELSE h[m - 1] + MonthDays[m - 1]
                      + (IF m - 1 = 2 /\ IsLeap(year) THEN 1 ELSE 0)
  OBVIOUS
<1> HIDE DEF g, days, Body
<1>6. days[month] = g[month]
  <2> DEFINE Differ == {m \in Nat : m \in 1..month /\ days[m] # g[m]}
  <2>1. SUFFICES ASSUME Differ # {} PROVE FALSE
    <3>1. month \notin Differ
      BY <2>1
    <3> QED  BY <3>1
  <2>2. PICK m \in Differ : Lowest(Differ, m)
    <3>1. Differ \in SUBSET Nat
      OBVIOUS
    <3> HIDE DEF Differ
    <3> QED  BY <2>1, <3>1, LowestExists
  <2>3. m \in 1..month /\ days[m] # g[m]
    BY <2>2
  <2>4. m # 1
    BY <1>2, <1>3, <1>5, <2>3
  <2>5. m - 1 \in 1..month /\ m - 1 \notin Differ
    BY <2>2, <2>3, <2>4 DEF Lowest
  <2>6. days[m - 1] = g[m - 1]
    BY <2>5
  <2> QED  BY <1>2, <1>3, <1>5, <2>3, <2>4, <2>6
<1>7. g[month] = DaysBefore(year, month)
  BY DEF g
<1> QED
  BY <1>4, <1>6, <1>7

\* The daemon's day number of a date is the calendar's, for every year from
\* 1970 on: leap years, century years and the years divisible by 400 included.
THEOREM DaysMatchCalendar ==
  ASSUME NEW year \in Nat, year >= 1970, NEW month \in 1..12, NEW day \in Nat
  PROVE  DaysBeforeYear(year) + DaysBeforeMonth(year, month) + day - 1
           = Calendar(<<year, month, day>>)
<1>1. DaysBeforeYear(year) = DaysUntil(year - 1) - DaysUntil(1969)
  BY YearLoop
<1>2. DaysBeforeMonth(year, month) = DaysBefore(year, month)
  BY MonthLoop
<1>3. DaysUntil(year - 1) \in Int /\ DaysUntil(1969) \in Int
  BY DEF DaysUntil
<1>4. <<0, 31, 59, 90, 120, 151, 181, 212, 243, 273, 304, 334>>[month] \in Int
  OBVIOUS
<1>5. Calendar(<<year, month, day>>) =
        DaysUntil(year - 1) - DaysUntil(1969)
          + <<0, 31, 59, 90, 120, 151, 181, 212, 243, 273, 304, 334>>[month]
          + (IF Leap(year) /\ month > 2 THEN 1 ELSE 0) + day - 1
  BY DEF Calendar, DaysUntil
<1> DEFINE b == <<0, 31, 59, 90, 120, 151, 181, 212, 243, 273, 304, 334>>[month]
<1>6. DaysBefore(year, month) = b + (IF Leap(year) /\ month > 2 THEN 1 ELSE 0)
  BY DEF DaysBefore
<1>7. b \in Int
  BY <1>4
<1> HIDE DEF b
<1> QED
  BY <1>1, <1>2, <1>3, <1>5, <1>6, <1>7 DEF b

\* The age that portctl shows is rounded down to the smallest unit shown, and
\* no part of it reaches the next unit, for every age.
THEOREM AgesRoundDown ==
  ASSUME NEW created \in Nat, NEW now \in Nat, created <= now
  PROVE  LET age   == now - created
             parts == FormatAge(created, now)
             last  == parts[Len(parts)]
             shown == last[1] * last[2]
                        + (IF Len(parts) = 2 THEN parts[1][1] * parts[1][2] ELSE 0)
         IN  /\ shown <= age /\ age < shown + last[2]
             /\ Len(parts) = 2 => last[1] * last[2] < parts[1][2]
<1> DEFINE age == now - created
<1>0. age \in Nat /\ FormatAge(created, now) = FormatDuration(age)
  BY DEF FormatAge
<1> HIDE DEF age
<1>1. CASE age < 60
  <2>1. FormatDuration(age) = <<<<age, 1>>>>
    BY <1>0, <1>1 DEF FormatDuration
  <2> QED  BY <1>0, <2>1 DEF age
<1>2. CASE age >= 60 /\ age < 3600
  <2>1. FormatDuration(age) = <<<<age \div 60, 60>>>>
    BY <1>0, <1>2 DEF FormatDuration
  <2>2. age \div 60 \in Nat /\ (age \div 60) * 60 <= age /\ age < (age \div 60) * 60 + 60
    BY <1>0
  <2> QED  BY <1>0, <2>1, <2>2, SMTT(30) DEF age
<1>3. CASE age >= 3600 /\ age < 86400
  <2>1. FormatDuration(age) = <<<<age \div 3600, 3600>>, <<(age % 3600) \div 60, 60>>>>
    BY <1>0, <1>3 DEF FormatDuration
  <2> QED  BY <1>0, <2>1 DEF age
<1>4. CASE age >= 86400
  <2>1. FormatDuration(age) = <<<<age \div 86400, 86400>>, <<(age % 86400) \div 3600, 3600>>>>
    BY <1>0, <1>4 DEF FormatDuration
  <2> QED  BY <1>0, <2>1 DEF age
<1> QED
  BY <1>0, <1>1, <1>2, <1>3, <1>4


-----------------------------------------------------------------------------
(* Requests. *)

\* No port number that passes the check changes when it is cut to 16 bits.
LEMMA AcceptedFits ==
  ASSUME NEW p \in Nat, PortAccepted(p)
  PROVE  p % U16 = p /\ p \in 1..(U16 - 1)
  BY DEF PortAccepted, U16

\* The fields of a parsed target.
LEMMA TargetRecord ==
  ASSUME NEW h, NEW p, NEW q, q = <<[host |-> h, port |-> p]>>
  PROVE  q[1].host = h /\ q[1].port = p
  OBVIOUS

\* The fields of the arguments of Broker::reserve.
LEMMA ArgsRecord ==
  \A h, p, q, r : r = <<[host |-> h, port |-> p, preferred |-> q]>> =>
                  r[1].host = h /\ r[1].port = p /\ r[1].preferred = q
  OBVIOUS

\* A target is cut before its last part and can be put together again.
LEMMA TargetParts ==
  ASSUME NEW target \in Seq(Int), ParseTarget(target) # <<>>
  PROVE  LET t == ParseTarget(target)[1]
         IN  t.port \in Nat /\ Append(t.host, t.port) = target
<1> DEFINE n == Len(target)
           f == Front(target)
           a == Append(f, target[n])
<1>1. n \in Nat /\ ~(n < 2 \/ target[n] < 0)
  BY LenProperties DEF ParseTarget
<1>2. ParseTarget(target) = <<[host |-> f, port |-> target[n]]>>
  BY <1>1, Zenon DEF ParseTarget, Last
<1>3. ASSUME NEW i \in 1..n
      PROVE  target[i] \in Int
  BY <1>3, ElementOfSeq
<1>4. target[n] \in Int /\ target[n] \in Nat
  BY <1>1, <1>3
<1>5. /\ f \in Seq(Int) /\ Len(f) = n - 1
      /\ \A i \in 1..(n - 1) : f[i] = target[i]
  BY <1>1, <1>3, SubSeqProperties DEF Front
<1> HIDE DEF f
<1>6. /\ a \in Seq(Int) /\ Len(a) = n
      /\ \A i \in 1..(n - 1) : a[i] = target[i]
      /\ a[n] = target[n]
  BY <1>1, <1>4, <1>5, AppendProperties
<1> HIDE DEF a
<1>7. \A i \in 1..n : a[i] = target[i]
  BY <1>1, <1>6, SMTT(30)
<1>8. a = target
  BY <1>6, <1>7, SeqEqual
<1>9. Append(f, target[n]) = target
  BY <1>8, Zenon DEF a
<1>10. ParseTarget(target)[1].host = f /\ ParseTarget(target)[1].port = target[n]
  <2> DEFINE q == ParseTarget(target)
             last == target[n]
  <2>1. q = <<[host |-> f, port |-> last]>>
    BY <1>2, Zenon
  <2> HIDE DEF q, last
  <2>2. q[1].host = f /\ q[1].port = last
    BY <2>1, TargetRecord
  <2> QED  BY <2>2, Zenon DEF q, last
<1> QED
  BY <1>4, <1>9, <1>10, Zenon

\* What holds of the arguments when they pass every check.
LEMMA ReserveArgsAre ==
  ASSUME NEW target, NEW preferred, ReserveArgs(target, preferred) # <<>>
  PROVE  LET t == ParseTarget(target)
             args == ReserveArgs(target, preferred)[1]
         IN  /\ t # <<>> /\ PortAccepted(t[1].port)
             /\ preferred # <<>> => PortAccepted(preferred[1])
             /\ args.host = t[1].host /\ args.port = t[1].port % U16
             /\ args.preferred = IF preferred = <<>> THEN <<>> ELSE <<preferred[1] % U16>>
<1> DEFINE t == ParseTarget(target)
           pref == IF preferred = <<>> THEN <<>> ELSE <<preferred[1] % U16>>
           rec == [host |-> t[1].host, port |-> t[1].port % U16, preferred |-> pref]
<1>1. t # <<>> /\ PortAccepted(t[1].port)
  BY Zenon DEF ReserveArgs
<1>2. preferred # <<>> => PortAccepted(preferred[1])
  BY Zenon DEF ReserveArgs
<1>3. ReserveArgs(target, preferred) = <<rec>>
  BY Zenon DEF ReserveArgs
<1> HIDE DEF pref, t
<1>4. LET args == ReserveArgs(target, preferred)[1]
      IN  args.host = t[1].host /\ args.port = t[1].port % U16 /\ args.preferred = pref
  <2> DEFINE r == ReserveArgs(target, preferred)
             h == t[1].host
             p == t[1].port % U16
  <2>1. r = <<[host |-> h, port |-> p, preferred |-> pref]>>
    BY <1>3, Zenon
  <2> HIDE DEF r, h, p
  <2>2. r[1].host = h /\ r[1].port = p /\ r[1].preferred = pref
    BY <2>1, ArgsRecord, Zenon
  <2> QED  BY <2>2, Zenon DEF r, h, p
<1> QED
  BY <1>1, <1>2, <1>4, Zenon DEF pref, t

\* What Broker::reserve is called with, when portctl and the daemon accept
\* the arguments: the target that was typed, its last part the port, and the
\* preferred port, neither changed by the cut to 16 bits.  Colons in the host
\* stay in it.
THEOREM ReservedAsTyped ==
  ASSUME NEW target \in Seq(Int),
         NEW preferred, preferred # <<>> => preferred[1] \in Nat,
         ReserveArgs(target, preferred) # <<>>
  PROVE  LET args == ReserveArgs(target, preferred)[1]
         IN  /\ Append(args.host, args.port) = target /\ args.port \in 1..(U16 - 1)
             /\ preferred = <<>> => args.preferred = <<>>
             /\ preferred # <<>> => /\ args.preferred = <<preferred[1]>>
                                    /\ preferred[1] \in 1..(U16 - 1)
<1> DEFINE t == ParseTarget(target)
<1>1. /\ t # <<>> /\ PortAccepted(t[1].port)
      /\ t[1].port \in Nat /\ Append(t[1].host, t[1].port) = target
  BY ReserveArgsAre, TargetParts, Zenon
<1>2. t[1].port % U16 = t[1].port /\ t[1].port \in 1..(U16 - 1)
  BY <1>1, AcceptedFits, Zenon
<1>3. preferred # <<>> => preferred[1] % U16 = preferred[1] /\ preferred[1] \in 1..(U16 - 1)
  BY ReserveArgsAre, AcceptedFits, Zenon
<1> DEFINE args == ReserveArgs(target, preferred)[1]
<1>4. /\ args.host = t[1].host /\ args.port = t[1].port % U16
      /\ args.preferred = IF preferred = <<>> THEN <<>> ELSE <<preferred[1] % U16>>
  BY ReserveArgsAre, Zenon
<1>5. Append(args.host, args.port) = target /\ args.port \in 1..(U16 - 1)
  BY <1>1, <1>2, <1>4, Zenon
<1>6. /\ preferred = <<>> => args.preferred = <<>>
      /\ preferred # <<>> => args.preferred = <<preferred[1]>>
  BY <1>3, <1>4, Zenon
<1> QED
  BY <1>3, <1>5, <1>6, Zenon

\* --port goes before --id.
LEMMA IdentifierIs ==
  ASSUME NEW n, NEW id
  PROVE  /\ Identifier(<<n>>, id) = [by |-> "port", val |-> n]
         /\ Identifier(<<>>, <<n>>) = [by |-> "id", val |-> n]
  BY DEF Identifier

\* A row found by port has it and is not released.
LEMMA FoundByPort ==
  ASSUME NEW rows, NEW r \in DOMAIN rows, NEW ident, ident.by = "port"
  PROVE  r \in Found(rows, ident) <=> rows[r].port = ident.val % U16 /\ rows[r].state # "released"
  BY Zenon DEF Found

\* A row is found by its own id only.
LEMMA FoundById ==
  ASSUME NEW rows, NEW r \in DOMAIN rows, NEW ident, ident.by = "id"
  PROVE  r \in Found(rows, ident) <=> r = ident.val
  BY Zenon DEF Found

\* The table after a release, row by row.
LEMMA ReleaseRow ==
  ASSUME NEW rows, NEW r \in DOMAIN rows, NEW ident, "state" \in DOMAIN rows[r]
  PROVE  /\ r \notin Found(rows, ident) => Release(rows, ident)[r] = rows[r]
         /\ r \in Found(rows, ident) => Release(rows, ident)[r].state = "released"
<1>1. Release(rows, ident)[r] = IF r \in Found(rows, ident)
                                THEN [rows[r] EXCEPT !.state = "released"] ELSE rows[r]
  BY Zenon DEF Release
<1>2. [rows[r] EXCEPT !.state = "released"].state = "released"
  BY Zenon
<1> QED
  BY <1>1, <1>2, Zenon

\* The cut to 16 bits changes no number below 65536.
LEMMA PortFits ==
  ASSUME NEW p \in 1..(U16 - 1), NEW n \in Nat
  PROVE  /\ p = n % U16 => p = n \/ n >= U16
         /\ p = n => p = n % U16
<1>1. U16 = 65536
  BY DEF U16
<1>2. n < U16 => n % U16 = n
  BY <1>1
<1> QED
  BY <1>1, <1>2

\* What a release by port does to a row.
LEMMA ReleaseByPort ==
  ASSUME NEW rows, NEW r \in DOMAIN rows, "state" \in DOMAIN rows[r],
         rows[r].port \in 1..(U16 - 1),
         NEW ident, ident.by = "port", ident.val \in Nat
  PROVE  LET n == ident.val
             after == Release(rows, ident)[r]
         IN  /\ after # rows[r] => rows[r].port = n \/ n >= U16
             /\ rows[r].port = n => after.state = "released"
<1> DEFINE n == ident.val
<1>1. r \in Found(rows, ident) <=> rows[r].port = n % U16 /\ rows[r].state # "released"
  BY FoundByPort, Zenon
<1>2. /\ rows[r].port = n % U16 => rows[r].port = n \/ n >= U16
      /\ rows[r].port = n => rows[r].port = n % U16
  BY PortFits, Zenon
<1>3. /\ r \notin Found(rows, ident) => Release(rows, ident)[r] = rows[r]
      /\ r \in Found(rows, ident) => Release(rows, ident)[r].state = "released"
  BY ReleaseRow, Zenon
<1> QED
  BY <1>1, <1>2, <1>3, Zenon

\* The fields of an identifier.
LEMMA IdentRecord ==
  \A b, v, ident : ident = [by |-> b, val |-> v] => ident.by = b /\ ident.val = v
  OBVIOUS

\* What a release by id does to a row.
LEMMA ReleaseById ==
  ASSUME NEW rows, NEW r \in DOMAIN rows, "state" \in DOMAIN rows[r], NEW i
  PROVE  LET after == Release(rows, Identifier(<<>>, <<i>>))[r]
         IN  /\ after # rows[r] => r = i
             /\ r = i => after.state = "released"
<1> DEFINE byId == Identifier(<<>>, <<i>>)
<1>1. byId = [by |-> "id", val |-> i]
  BY IdentifierIs, Zenon
<1> HIDE DEF byId
<1>2. byId.by = "id" /\ byId.val = i
  BY <1>1, IdentRecord, Zenon
<1>3. r \in Found(rows, byId) <=> r = i
  BY <1>2, FoundById, Zenon
<1>4. /\ r \notin Found(rows, byId) => Release(rows, byId)[r] = rows[r]
      /\ r \in Found(rows, byId) => Release(rows, byId)[r].state = "released"
  BY ReleaseRow, Zenon
<1> QED
  BY <1>3, <1>4, Zenon DEF byId

\* A release, for any table and any row of it: by port it leaves a row of
\* another port alone unless the number given exceeds 16 bits, also when an id
\* is given as well; by id it leaves every other row alone; and the row that
\* was named is released afterwards.
THEOREM ReleasesNamed ==
  ASSUME NEW rows, NEW r \in DOMAIN rows, "state" \in DOMAIN rows[r],
         rows[r].port \in 1..(U16 - 1), NEW n \in Nat, NEW i, NEW id
  PROVE  /\ LET after == Release(rows, Identifier(<<n>>, id))[r]
            IN  /\ after # rows[r] => rows[r].port = n \/ n >= U16
                /\ rows[r].port = n => after.state = "released"
         /\ LET after == Release(rows, Identifier(<<>>, <<i>>))[r]
            IN  /\ after # rows[r] => r = i
                /\ r = i => after.state = "released"
<1> DEFINE byPort == Identifier(<<n>>, id)
<1>1. byPort = [by |-> "port", val |-> n]
  BY IdentifierIs, Zenon
<1> HIDE DEF byPort
<1>2. byPort.by = "port" /\ byPort.val = n
  BY <1>1, IdentRecord, Zenon
<1>3. /\ Release(rows, byPort)[r] # rows[r] => rows[r].port = n \/ n >= U16
      /\ rows[r].port = n => Release(rows, byPort)[r].state = "released"
  BY <1>2, ReleaseByPort, Zenon
<1> QED
  BY <1>3, ReleaseById, Zenon DEF byPort

-----------------------------------------------------------------------------
(* Requests, as MCPure makes them. *)

\* The fields of the records.
LEMMA ReserveRecord ==
  \A t, p, c : c = [fn |-> "reserve", target |-> t, preferred |-> p] =>
               c.fn = "reserve" /\ c.target = t /\ c.preferred = p
  OBVIOUS

LEMMA ReleaseRecord ==
  \A rows, p, i, c : c = [fn |-> "release", rows |-> rows, port |-> p, id |-> i] =>
                     c.fn = "release" /\ c.rows = rows /\ c.port = p /\ c.id = i
  OBVIOUS

LEMMA ListRecord ==
  \A rows, o, s, c : c = [fn |-> "list", rows |-> rows, owner |-> o, state |-> s] =>
                     c.fn = "list" /\ c.rows = rows /\ c.owner = o /\ c.state = s
  OBVIOUS

LEMMA ErrorRecord ==
  \A h, e, c : c = [fn |-> "error", handler |-> h, error |-> e] =>
               c.fn = "error" /\ c.handler = h /\ c.error = e
  OBVIOUS

ReserveMade == /\ call.fn = "reserve" /\ call.target \in Targets
               /\ call.preferred \in Options(PortNumbers \cup {0})
ReleaseMade == /\ call.fn = "release" /\ call.rows \in Tables({<<"vm", ":", "a">>})
               /\ call.port \in Options(PortNumbers) /\ call.id \in Options(1..3)
ListMade    == /\ call.fn = "list"
               /\ call.rows \in Tables({<<"vm", ":", "a">>, <<"VM", ":", "a">>,
                                        <<"host", ":", "a">>})
               /\ call.owner \in Options({<<"vm", ":">>, <<"host", ":", "a">>, <<"%">>})
               /\ call.state \in Options(0..5)
ErrorMade   == /\ call.fn = "error" /\ call.handler \in {"reserve", "release", "inspect", "list"}
               /\ call.error \in HandlerErrors(call.handler)

\* The arguments of each.
LEMMA RequestsMade ==
  ASSUME CallMade
  PROVE  /\ call.fn = "reserve" => ReserveMade
         /\ call.fn = "release" => ReleaseMade
         /\ call.fn = "list" => ListMade
         /\ call.fn = "error" => ErrorMade
<1>1. call.fn \in {"reserve", "release", "list", "error"} => ApiCall
  BY CallsByName, Zenon
<1>2. ApiCall => ReserveMade \/ ReleaseMade \/ ListMade \/ ErrorMade
  <2>1. ASSUME NEW t \in Targets, NEW p \in Options(PortNumbers \cup {0}),
               call = [fn |-> "reserve", target |-> t, preferred |-> p]
        PROVE  ReserveMade
    BY <2>1, ReserveRecord, Zenon DEF ReserveMade
  <2>2. ASSUME NEW rows \in Tables({<<"vm", ":", "a">>}), NEW p \in Options(PortNumbers),
               NEW i \in Options(1..3),
               call = [fn |-> "release", rows |-> rows, port |-> p, id |-> i]
        PROVE  ReleaseMade
    BY <2>2, ReleaseRecord, Zenon DEF ReleaseMade
  <2>3. ASSUME NEW rows \in Tables({<<"vm", ":", "a">>, <<"VM", ":", "a">>,
                                    <<"host", ":", "a">>}),
               NEW o \in Options({<<"vm", ":">>, <<"host", ":", "a">>, <<"%">>}),
               NEW s \in Options(0..5),
               call = [fn |-> "list", rows |-> rows, owner |-> o, state |-> s]
        PROVE  ListMade
    BY <2>3, ListRecord, Zenon DEF ListMade
  <2>4. ASSUME NEW h \in {"reserve", "release", "inspect", "list"}, NEW e \in HandlerErrors(h),
               call = [fn |-> "error", handler |-> h, error |-> e]
        PROVE  ErrorMade
    BY <2>4, ErrorRecord, Zenon DEF ErrorMade
  <2> QED  BY <2>1, <2>2, <2>3, <2>4, Zenon DEF ApiCall
<1>3. /\ ReserveMade => call.fn = "reserve"
      /\ ReleaseMade => call.fn = "release"
      /\ ListMade => call.fn = "list"
      /\ ErrorMade => call.fn = "error"
  BY Zenon DEF ReserveMade, ReleaseMade, ListMade, ErrorMade
<1> QED
  BY <1>1, <1>2, <1>3, Zenon

\* An optional number is a number.
LEMMA OptionOf ==
  ASSUME NEW S, NEW x \in Options(S)
  PROVE  x = <<>> \/ \E v \in S : x = <<v>> /\ x[1] = v
<1>1. x = <<>> \/ \E v \in S : x = <<v>>
  BY Zenon DEF Options
<1>2. \A v : <<v>>[1] = v
  OBVIOUS
<1> QED
  BY <1>1, <1>2, Zenon

LEMMA NumbersAreNat == PortNumbers \cup {0} \subseteq Nat
  BY DEF PortNumbers

LEMMA TargetsAreParts == Targets \subseteq Seq(Int)
<1>1. <<80>> \in Seq(Int) /\ <<-2>> \in Seq(Int)
  OBVIOUS
<1>2. <<-2, -3>> \in Seq(Int) /\ <<-2, -3, 80>> \in Seq(Int) /\ <<5, 80>> \in Seq(Int)
  OBVIOUS
<1>3. <<NoText, 80>> \in Seq(Int)
  BY DEF NoText
<1>4. \A n \in PortNumbers \cup {0} : <<-2, n>> \in Seq(Int)
  BY NumbersAreNat
<1>5. ASSUME NEW t \in Targets
      PROVE  t \in Seq(Int)
  <2>1. \/ t \in {<<80>>, <<-2>>, <<-2, -3>>, <<NoText, 80>>, <<-2, -3, 80>>, <<5, 80>>}
        \/ \E n \in PortNumbers \cup {0} : t = <<-2, n>>
    BY SMT DEF Targets
  <2> QED  BY <1>1, <1>2, <1>3, <1>4, <2>1, Zenon
<1> QED
  BY <1>5

\* Broker::reserve gets the target and the preferred port that were typed, as
\* MCPure calls portctl's reserve.
THEOREM ReservesAsTyped == Spec => []ReserveAsTyped
<1>1. Answered => ReserveAsTyped
  <2> SUFFICES ASSUME Answered, Returned("reserve"), result[1] # <<>>
               PROVE  LET args == result[1][1] IN
                      /\ Append(args.host, args.port) = call.target
                      /\ args.preferred = call.preferred
    BY Zenon DEF ReserveAsTyped
  <2>1. call.fn = "reserve" /\ CallMade /\ result[1] = Value(call)
    BY ReturnedValue
  <2>2. Value(call) = ReserveArgs(call.target, call.preferred)
    BY <2>1 DEF Value
  <2>3. call.target \in Seq(Int) /\ call.preferred \in Options(PortNumbers \cup {0})
    BY <2>1, RequestsMade, TargetsAreParts, Zenon DEF ReserveMade
  <2>4. call.preferred = <<>> \/ /\ call.preferred = <<call.preferred[1]>>
                                 /\ call.preferred[1] \in Nat
    BY <2>3, OptionOf, NumbersAreNat, Zenon
  <2>5. ReserveArgs(call.target, call.preferred) # <<>>
    BY <2>1, <2>2, Zenon
  <2>6. LET args == ReserveArgs(call.target, call.preferred)[1]
        IN  /\ Append(args.host, args.port) = call.target
            /\ call.preferred = <<>> => args.preferred = <<>>
            /\ call.preferred # <<>> => args.preferred = <<call.preferred[1]>>
    BY <2>3, <2>4, <2>5, ReservedAsTyped, Zenon
  <2> QED  BY <2>1, <2>2, <2>4, <2>6, Zenon
<1> QED
  BY <1>1, CallsAnswered, PTL

\* The rows of the tables.
LEMMA RowRecord ==
  \A o, p, s, row : row = [owner |-> o, port |-> p, state |-> s] =>
                    "state" \in DOMAIN row /\ row.owner = o /\ row.port = p /\ row.state = s
  OBVIOUS

LEMMA TableRows ==
  ASSUME NEW owners, NEW rows \in Tables(owners)
  PROVE  /\ DOMAIN rows = {1, 2} /\ rows[1].port # rows[2].port
         /\ \A r \in {1, 2} :
              /\ "state" \in DOMAIN rows[r] /\ rows[r].port \in {1, 2, U16 - 1}
              /\ rows[r].owner \in owners /\ rows[r].state \in {StateNames[n] : n \in 1..4}
<1> DEFINE States == {StateNames[n] : n \in 1..4}
           Ports == {q \in [{1, 2} -> {1, 2, 65535}] : q[1] # q[2]}
           Row(o, p, s, r) == [owner |-> o[r], port |-> p[r], state |-> s[r]]
<1>1. PICK o \in [{1, 2} -> owners], s \in [{1, 2} -> States], p \in Ports :
        rows = [r \in {1, 2} |-> [owner |-> o[r], port |-> p[r], state |-> s[r]]]
  <2> HIDE DEF States, Ports
  <2>1. rows \in {[r \in {1, 2} |-> [owner |-> o[r], port |-> p[r], state |-> s[r]]] :
                    o \in [{1, 2} -> owners], s \in [{1, 2} -> States], p \in Ports}
    BY SMT DEF Tables, States, Ports
  <2> QED  BY <2>1, SMT
<1>4. p[1] # p[2] /\ \A r \in {1, 2} : p[r] \in {1, 2, U16 - 1}
  <2>1. U16 - 1 = 65535
    BY DEF U16
  <2> QED  BY <2>1
<1> HIDE DEF States, Ports
<1>2. DOMAIN rows = {1, 2} /\ \A r \in {1, 2} : rows[r] = Row(o, p, s, r)
  BY <1>1, Zenon
<1>3. \A r \in {1, 2} : /\ "state" \in DOMAIN rows[r] /\ rows[r].owner = o[r]
                        /\ rows[r].port = p[r] /\ rows[r].state = s[r]
  <2> SUFFICES ASSUME NEW r \in {1, 2}
               PROVE  /\ "state" \in DOMAIN rows[r] /\ rows[r].owner = o[r]
                      /\ rows[r].port = p[r] /\ rows[r].state = s[r]
    OBVIOUS
  <2> DEFINE row == rows[r]
             a == o[r]
             b == p[r]
             c == s[r]
  <2>1. row = [owner |-> a, port |-> b, state |-> c]
    BY <1>2, Zenon
  <2> HIDE DEF row, a, b, c
  <2>2. "state" \in DOMAIN row /\ row.owner = a /\ row.port = b /\ row.state = c
    BY <2>1, RowRecord, Zenon
  <2> QED  BY <2>2, Zenon DEF row, a, b, c
<1>5. \A r \in {1, 2} : o[r] \in owners /\ s[r] \in States
  OBVIOUS
<1>6. 1 \in {1, 2} /\ 2 \in {1, 2}
  OBVIOUS
<1>7. rows[1].port = p[1] /\ rows[2].port = p[2]
  BY <1>3, <1>6, Zenon
<1>8. rows[1].port # rows[2].port
  BY <1>4, <1>7, Zenon
<1> QED
  BY <1>2, <1>3, <1>4, <1>5, <1>8, Zenon DEF States

\* Without a port and an id nothing is released.
LEMMA ReleasesNothing ==
  ASSUME NEW rows, NEW r \in DOMAIN rows
  PROVE  Release(rows, Identifier(<<>>, <<>>))[r] = rows[r]
<1>1. Identifier(<<>>, <<>>) = [by |-> "none", val |-> 0]
  BY DEF Identifier
<1> DEFINE ident == Identifier(<<>>, <<>>)
<1> HIDE DEF ident
<1>2. ident.by = "none"
  BY <1>1, IdentRecord, Zenon DEF ident
<1>3. r \notin Found(rows, ident)
  BY <1>2 DEF Found
<1> QED
  BY <1>3, Zenon DEF Release, ident

\* A release changes the row that was named, as MCPure calls portctl's release.
THEOREM ReleasesOnlyNamed == Spec => []ActsOnNamed
<1>1. Answered => ActsOnNamed
  <2> SUFFICES ASSUME Answered, Returned("release"), NEW r \in DOMAIN call.rows
               PROVE  LET named == IF call.port # <<>> THEN call.rows[r].port = call.port[1]
                                   ELSE call.id = <<r>>
                          wraps == call.port # <<>> /\ call.port[1] >= U16
                      IN  /\ result[1][r] # call.rows[r] => named \/ wraps
                          /\ named => result[1][r].state = "released"
    BY Zenon DEF ActsOnNamed
  <2>1. call.fn = "release" /\ CallMade /\ result[1] = Value(call)
    BY ReturnedValue
  <2>2. Value(call) = Release(call.rows, Identifier(call.port, call.id))
    BY <2>1 DEF Value
  <2>3. /\ call.rows \in Tables({<<"vm", ":", "a">>})
        /\ call.port \in Options(PortNumbers) /\ call.id \in Options(1..3)
    BY <2>1, RequestsMade, Zenon DEF ReleaseMade
  <2>4. "state" \in DOMAIN call.rows[r] /\ call.rows[r].port \in 1..(U16 - 1)
    <3>1. "state" \in DOMAIN call.rows[r] /\ call.rows[r].port \in {1, 2, U16 - 1}
      <4>1. DOMAIN call.rows = {1, 2}
        BY <2>3, TableRows
      <4> QED  BY <2>3, <4>1, TableRows
    <3>2. {1, 2, U16 - 1} \subseteq 1..(U16 - 1)
      BY DEF U16
    <3> QED  BY <3>1, <3>2, Zenon
  <2>5. CASE call.port # <<>>
    <3>1. PICK n \in PortNumbers : call.port = <<n>> /\ call.port[1] = n
      BY <2>3, <2>5, OptionOf, Zenon
    <3>2. n \in Nat
      BY NumbersAreNat, Zenon
    <3> DEFINE after == Release(call.rows, Identifier(<<n>>, call.id))[r]
    <3>3. /\ after # call.rows[r] => call.rows[r].port = n \/ n >= U16
          /\ call.rows[r].port = n => after.state = "released"
      BY <2>4, <3>2, ReleasesNamed
    <3>4. result[1][r] = after
      BY <2>1, <2>2, <3>1, Zenon
    <3> QED  BY <2>5, <3>1, <3>3, <3>4, Zenon
  <2>6. CASE call.port = <<>> /\ call.id # <<>>
    <3>1. PICK i \in 1..3 : call.id = <<i>> /\ call.id[1] = i
      BY <2>3, <2>6, OptionOf, Zenon
    <3> DEFINE after == Release(call.rows, Identifier(<<>>, <<i>>))[r]
    <3>2. /\ after # call.rows[r] => r = i
          /\ r = i => after.state = "released"
      BY <2>4, ReleaseById
    <3>3. result[1][r] = after
      BY <2>1, <2>2, <2>6, <3>1, Zenon
    <3>4. call.id = <<r>> <=> r = i
      <4>1. \A x, y : <<x>> = <<y>> => x = y
        OBVIOUS
      <4> QED  BY <3>1, <4>1, Zenon
    <3> QED  BY <2>6, <3>2, <3>3, <3>4, Zenon
  <2>7. CASE call.port = <<>> /\ call.id = <<>>
    <3>1. result[1][r] = call.rows[r]
      BY <2>1, <2>2, <2>7, ReleasesNothing, Zenon
    <3>2. call.id # <<r>>
      <4>1. \A x : <<>> # <<x>>
        OBVIOUS
      <4> QED  BY <2>7, <4>1, Zenon
    <3> QED  BY <2>7, <3>1, <3>2, Zenon
  <2> QED  BY <2>5, <2>6, <2>7, Zenon
<1> QED
  BY <1>1, CallsAnswered, PTL

-----------------------------------------------------------------------------
(* Errors, as the handlers answer with them. *)

\* No error that a handler passes on looks to the web UI like a daemon that is
\* not there: start_tunnel's, the only one with that status, never is.
THEOREM NoHandlerSaysUnavailable == Spec => []UnavailableMeansDown
<1>1. ASSUME NEW h \in {"reserve", "release", "inspect", "list"}, NEW e \in HandlerErrors(h)
      PROVE  ~IsConnectionError(StatusOf(e))
  <2>1. e \in PortErrors \ TunnelErrors /\ e # "InvalidTransition"
    BY <1>1 DEF HandlerErrors, BrokerErrors, PortErrors, TunnelErrors
  <2> QED  BY <2>1 DEF StatusOf, IsConnectionError, PortErrors, TunnelErrors
<1>2. Answered => UnavailableMeansDown
  <2> SUFFICES ASSUME Answered, Returned("error")
               PROVE  ~IsConnectionError(result[1])
    BY Zenon DEF UnavailableMeansDown
  <2>1. call.fn = "error" /\ CallMade /\ result[1] = Value(call)
    BY ReturnedValue
  <2>2. Value(call) = StatusOf(call.error)
    BY <2>1 DEF Value
  <2>3. /\ call.handler \in {"reserve", "release", "inspect", "list"}
        /\ call.error \in HandlerErrors(call.handler)
    BY <2>1, RequestsMade, Zenon DEF ErrorMade
  <2> QED  BY <1>1, <2>1, <2>2, <2>3, Zenon
<1> QED
  BY <1>2, CallsAnswered, PTL

-----------------------------------------------------------------------------
(* The SSH session. *)

\* With an expected fingerprint, with or without "SHA256:", a session comes up
\* with the host of that key and with no other, for any keys.
THEOREM SessionsWithExpectedHost == Spec => []SessionWithExpectedHost
<1>1. ASSUME NEW fp, NEW digest, fp # <<>>
      PROVE  ConnectAndAuthenticate(TRUE, fp, digest, TRUE) = "session"
               <=> digest = fp[1].digest
  <2>1. \A x, y : <<FALSE, x>> = <<FALSE, y>> <=> x = y
    OBVIOUS
  <2>2. CheckServerKey(fp, digest) <=> digest = fp[1].digest
    BY <1>1, <2>1, Zenon DEF CheckServerKey, Bare
  <2>3. "session" # "SshConnectionFailed"
    OBVIOUS
  <2> QED  BY <2>2, <2>3, Zenon DEF ConnectAndAuthenticate
<1>2. Answered => SessionWithExpectedHost
  <2> SUFFICES ASSUME Answered, Returned("connect"), call.loads, call.authed, call.fp # <<>>
               PROVE  result[1] = "session" <=> call.digest = call.fp[1].digest
    BY Zenon DEF SessionWithExpectedHost
  <2>1. call.fn = "connect" /\ CallMade /\ result[1] = Value(call)
    BY ReturnedValue
  <2>2. Value(call) = ConnectAndAuthenticate(call.loads, call.fp, call.digest, call.authed)
    BY <2>1 DEF Value
  <2>3. ConnectAndAuthenticate(call.loads, call.fp, call.digest, call.authed)
          = ConnectAndAuthenticate(TRUE, call.fp, call.digest, TRUE)
    BY Zenon DEF ConnectAndAuthenticate
  <2> QED  BY <1>1, <2>1, <2>2, <2>3, Zenon
<1> QED
  BY <1>2, CallsAnswered, PTL

-----------------------------------------------------------------------------
(* Settings. *)

\* The daemon, portctl and the web UI compute the same socket path from any
\* environment in which XDG_RUNTIME_DIR or HOME is set and neither is the
\* empty string.
THEOREM ClientsMeetDaemon ==
  ASSUME NEW env, NEW userHome,
         env.XDG = <<>> \/ (\E d : env.XDG = <<d>> /\ d # <<"">>),
         env.HOME = <<>> \/ (\E d : env.HOME = <<d>> /\ d # <<"">>),
         env.XDG # <<>> \/ env.HOME # <<>>
  PROVE  DaemonSocket(env) = PortctlSocket(env) /\ PortctlSocket(env) = UiSocket(env, userHome)
<1>1. \A d : <<d>>[1] = d
  BY Zenon
<1>2. env.XDG # <<>> => env.XDG[1] # <<"">> /\ env.XDG # <<<<"">>>>
  BY <1>1, Zenon
<1>3. env.HOME # <<>> => env.HOME[1] # <<"">>
  BY <1>1, Zenon
<1> QED
  BY <1>2, <1>3, Zenon DEF DaemonSocket, PortctlSocket, UiSocket, Joined

\* A setting has the value that the file gives it, and its default when the
\* key, its section or the file is missing: for any file.
LEMMA MissingMeansDefault ==
  ASSUME NEW file, NEW s \in DOMAIN Sections, NEW k \in Sections[s]
  PROVE  Load(file)[s][k] =
           IF file # <<>> /\ s \in DOMAIN file[1] /\ k \in DOMAIN file[1][s]
           THEN file[1][s][k] ELSE KeyDefault[k]
<1>1. Load(file)[s][k] =
        IF file = <<>> \/ (file # <<>> /\ s \notin DOMAIN file[1]) THEN SectionDefault(s, k)
        ELSE IF k \in DOMAIN file[1][s] THEN file[1][s][k] ELSE KeyDefault[k]
  BY Zenon DEF Load
<1> QED
  BY <1>1, Zenon DEF SectionDefault

LEMMA SocketRecord ==
  ASSUME NEW x, NEW h, NEW c, c = [fn |-> "socket", env |-> [XDG |-> x, HOME |-> h]]
  PROVE  c.fn = "socket" /\ c.env.XDG = x /\ c.env.HOME = h
  OBVIOUS

\* The environments of MCPure.
LEMMA EnvironmentsMade ==
  ASSUME CallMade, call.fn = "socket"
  PROVE  /\ call.env.XDG \in {<<>>, <<<<"">>>>, <<<<"", "run">>>>}
         /\ call.env.HOME \in {<<>>, <<<<"", "home">>>>}
<1>1. SettingsCall
  BY CallsByName, Zenon
<1>2. PICK xdg \in {<<>>, <<<<"">>>>, <<<<"", "run">>>>}, home \in {<<>>, <<<<"", "home">>>>} :
        call = [fn |-> "socket", env |-> [XDG |-> xdg, HOME |-> home]]
  <2>1. ASSUME NEW file, call = [fn |-> "load", file |-> file]
        PROVE  FALSE
    BY <2>1
  <2>2. ASSUME NEW loads, NEW fp, NEW digest, NEW authed,
               call = [fn |-> "connect", loads |-> loads, fp |-> fp, digest |-> digest,
                       authed |-> authed]
        PROVE  FALSE
    BY <2>2
  <2> QED  BY <1>1, <2>1, <2>2, Zenon DEF SettingsCall
<1>3. call.env.XDG = xdg /\ call.env.HOME = home
  BY <1>2, SocketRecord, Zenon
<1> QED
  BY <1>3, Zenon

\* The three programs meet at one socket, and missing settings have their
\* defaults, as MCPure computes both.
THEOREM SettingsAlwaysAgree == Spec => []SettingsAgree
<1>1. ASSUME Answered, Returned("socket"), call.env.XDG # <<<<"">>>>,
             call.env.XDG # <<>> \/ call.env.HOME # <<>>
      PROVE  result[1][1] = result[1][2] /\ result[1][2] = result[1][3]
  <2>1. call.fn = "socket" /\ CallMade /\ result[1] = Value(call)
    BY <1>1, ReturnedValue, Zenon
  <2>2. Value(call) = <<DaemonSocket(call.env), PortctlSocket(call.env),
                        UiSocket(call.env, <<"", "home">>)>>
    BY <2>1, Zenon DEF Value
  <2>3. /\ call.env.XDG \in {<<>>, <<<<"">>>>, <<<<"", "run">>>>}
        /\ call.env.HOME \in {<<>>, <<<<"", "home">>>>}
    BY <2>1, EnvironmentsMade, Zenon
  <2>4. <<"", "run">> # <<"">> /\ <<"", "home">> # <<"">>
    OBVIOUS
  <2>5. /\ call.env.XDG = <<>> \/ (\E d : call.env.XDG = <<d>> /\ d # <<"">>)
        /\ call.env.HOME = <<>> \/ (\E d : call.env.HOME = <<d>> /\ d # <<"">>)
    BY <1>1, <2>3, <2>4, Zenon
  <2>6. /\ DaemonSocket(call.env) = PortctlSocket(call.env)
        /\ PortctlSocket(call.env) = UiSocket(call.env, <<"", "home">>)
    BY <1>1, <2>5, ClientsMeetDaemon, Zenon
  <2> DEFINE a == DaemonSocket(call.env)
             b == PortctlSocket(call.env)
             c == UiSocket(call.env, <<"", "home">>)
             r == result[1]
  <2>7. r = <<a, b, c>> /\ a = b /\ b = c
    BY <2>1, <2>2, <2>6, Zenon
  <2> HIDE DEF a, b, c, r
  <2>8. r[1] = r[2] /\ r[2] = r[3]
    BY <2>7
  <2> QED  BY <2>8, Zenon DEF r
<1>2. ASSUME Answered, Returned("load"), NEW s \in DOMAIN Sections, NEW k \in Sections[s]
      PROVE  result[1][s][k] = IF call.file # <<>> /\ s \in DOMAIN call.file[1]
                                    /\ k \in DOMAIN call.file[1][s]
                               THEN call.file[1][s][k] ELSE KeyDefault[k]
  <2>1. call.fn = "load" /\ result[1] = Value(call)
    BY <1>2, ReturnedValue
  <2>2. Value(call) = Load(call.file)
    BY <2>1 DEF Value
  <2>3. Load(call.file)[s][k] = IF call.file # <<>> /\ s \in DOMAIN call.file[1]
                                     /\ k \in DOMAIN call.file[1][s]
                                THEN call.file[1][s][k] ELSE KeyDefault[k]
    BY MissingMeansDefault
  <2> QED  BY <2>1, <2>2, <2>3, Zenon
<1>3. Answered => SettingsAgree
  BY <1>1, <1>2, Zenon DEF SettingsAgree
<1> QED
  BY <1>3, CallsAnswered, PTL

-----------------------------------------------------------------------------
(* Timestamps read and shown. *)

\* The body of the function in Numbers.
Kept(f, parts, i) ==
  IF i = 0 THEN <<>>
  ELSE IF parts[i] = NotANumber THEN f[i - 1] ELSE Append(f[i - 1], parts[i])

\* The equation of Numbers has a solution.
LEMMA NumbersSolution ==
  ASSUME NEW parts, NEW n \in Nat
  PROVE  \E f : f = [i \in 0..n |-> Kept(f, parts, i)]
<1> DEFINE Solves(f, k) == f = [i \in 0..k |-> Kept(f, parts, i)]
           Solved == {k \in Nat : \E f : Solves(f, k)}
<1>1. 0 \in Solved
  <2>1. Solves([i \in 0..0 |-> <<>>], 0)
    BY DEF Kept
  <2> HIDE DEF Solves
  <2> QED  BY <2>1
<1>2. ASSUME NEW k \in Nat, k \in Solved
      PROVE  k + 1 \in Solved
  <2>1. PICK f : Solves(f, k)
    BY <1>2
  <2> DEFINE g == [i \in 0..(k + 1) |-> IF i = k + 1 THEN Kept(f, parts, i) ELSE f[i]]
  <2>2. ASSUME NEW i \in 0..(k + 1)
        PROVE  g[i] = Kept(g, parts, i)
    <3>1. i # 0 => i - 1 \in 0..k /\ i - 1 \in 0..(k + 1) /\ i - 1 # k + 1
      OBVIOUS
    <3>2. i # 0 => g[i - 1] = f[i - 1]
      BY <3>1
    <3>3. g[i] = Kept(f, parts, i)
      <4>1. CASE i = k + 1
        BY <4>1
      <4>2. CASE i # k + 1
        <5>1. i \in 0..k
          BY <4>2
        <5>2. f[i] = Kept(f, parts, i)
          BY <2>1, <5>1
        <5> QED  BY <4>2, <5>2
      <4> QED  BY <4>1, <4>2
    <3> HIDE DEF g
    <3> QED  BY <3>2, <3>3, Zenon DEF Kept
  <2>3. g = [i \in 0..(k + 1) |-> g[i]]
    OBVIOUS
  <2> HIDE DEF g
  <2>4. Solves(g, k + 1)
    BY <2>2, <2>3
  <2> HIDE DEF Solves
  <2> QED  BY <2>4
<1>3. \A k \in Nat : k \in Solved
  <2> HIDE DEF Solved
  <2> QED  BY <1>1, <1>2, SetInduction
<1>4. n \in Solved
  <2> HIDE DEF Solved
  <2> QED  BY <1>3
<1> QED
  BY <1>4

\* Numbers returns a text that has only numbers as it is, and a shorter one for
\* a text with a part that is none.
LEMMA NumbersIs ==
  ASSUME NEW parts \in Seq(Int)
  PROVE  /\ (\A i \in 1..Len(parts) : parts[i] # NotANumber) => Numbers(parts) = parts
         /\ (\E i \in 1..Len(parts) : parts[i] = NotANumber) => Len(Numbers(parts)) < Len(parts)
         /\ Len(Numbers(parts)) \in Nat /\ Len(Numbers(parts)) <= Len(parts)
<1> DEFINE n == Len(parts)
           kept == CHOOSE f : f = [i \in 0..n |-> Kept(f, parts, i)]
<1>0. n \in Nat /\ \A i \in 1..n : parts[i] \in Int
  BY LenProperties, ElementOfSeq
<1>1. kept = [i \in 0..n |-> Kept(kept, parts, i)]
  BY <1>0, NumbersSolution
<1>2. Numbers(parts) = kept[n]
  BY DEF Numbers, Kept
<1> HIDE DEF kept
<1>3. \A i \in 0..n : kept[i] = Kept(kept, parts, i)
  BY <1>1
<1> DEFINE All(i) == \A k \in 1..i : parts[k] # NotANumber
           Good(i) == /\ kept[i] \in Seq(Int) /\ Len(kept[i]) <= i
                      /\ All(i) => Len(kept[i]) = i /\ \A k \in 1..i : kept[i][k] = parts[k]
                      /\ ~All(i) => Len(kept[i]) < i
           S == {i \in Nat : i <= n => Good(i)}
<1>4. Good(0)
  <2>1. kept[0] = <<>>
    BY <1>0, <1>3 DEF Kept
  <2>2. <<>> \in Seq(Int) /\ Len(<<>>) = 0
    BY EmptySeq
  <2>3. All(0)
    OBVIOUS
  <2> QED  BY <2>1, <2>2, <2>3
<1>5. ASSUME NEW i \in 0..(n - 1), Good(i)
      PROVE  Good(i + 1)
  <2>1. i + 1 \in 0..n /\ i + 1 # 0 /\ (i + 1) - 1 = i /\ i + 1 \in 1..n /\ i \in Nat
    BY <1>0
  <2>2. kept[i + 1] = IF parts[i + 1] = NotANumber THEN kept[i]
                      ELSE Append(kept[i], parts[i + 1])
    <3>1. kept[i + 1] = Kept(kept, parts, i + 1)
      BY <1>3, <2>1
    <3> QED  BY <2>1, <3>1, Zenon DEF Kept
  <2>3. Len(kept[i]) \in Nat /\ kept[i] \in Seq(Int) /\ Len(kept[i]) <= i /\ parts[i + 1] \in Int
    BY <1>0, <1>5, <2>1, LenProperties
  <2>4. All(i + 1) <=> All(i) /\ parts[i + 1] # NotANumber
    BY <2>1
  <2>5. CASE parts[i + 1] = NotANumber
    <3>1. kept[i + 1] = kept[i] /\ ~All(i + 1)
      BY <2>2, <2>4, <2>5
    <3> HIDE DEF All
    <3> QED  BY <2>1, <2>3, <3>1
  <2>6. CASE parts[i + 1] # NotANumber
    <3> DEFINE old == kept[i]
               new == kept[i + 1]
               x == parts[i + 1]
    <3>1. new = Append(old, x) /\ old \in Seq(Int) /\ x \in Int
      BY <2>2, <2>3, <2>6
    <3>2. /\ new \in Seq(Int) /\ Len(new) = Len(old) + 1
          /\ (\A k \in 1..Len(old) : new[k] = old[k]) /\ new[Len(old) + 1] = x
      <4> HIDE DEF old, new, x
      <4> QED  BY <3>1, AppendProperties
    <3>3. All(i + 1) <=> All(i)
      BY <2>4, <2>6
    <3>4. ASSUME All(i)
          PROVE  Len(new) = i + 1 /\ \A k \in 1..(i + 1) : new[k] = parts[k]
      <4>1. Len(old) = i /\ \A k \in 1..i : old[k] = parts[k]
        BY <1>5, <3>4
      <4> HIDE DEF old, new
      <4> QED  BY <2>1, <3>2, <4>1
    <3>5. ASSUME ~All(i)
          PROVE  Len(new) < i + 1
      <4>1. Len(old) < i /\ Len(old) \in Nat
        BY <1>5, <2>3, <3>5
      <4> HIDE DEF old, new
      <4> QED  BY <2>1, <3>2, <4>1
    <3>6. Len(new) <= i + 1
      <4>1. Len(old) <= i /\ Len(old) \in Nat
        BY <2>3
      <4> HIDE DEF old, new
      <4> QED  BY <2>1, <3>2, <4>1
    <3> HIDE DEF All
    <3> QED  BY <3>2, <3>3, <3>4, <3>5, <3>6
  <2> QED  BY <2>5, <2>6
<1> HIDE DEF Good
<1>6. 0 \in S
  BY <1>4
<1>7. ASSUME NEW i \in Nat, i \in S
      PROVE  i + 1 \in S
  <2>1. CASE i + 1 <= n
    <3>1. i \in 0..(n - 1) /\ Good(i)
      BY <1>0, <1>7, <2>1
    <3> QED  BY <1>5, <3>1
  <2>2. CASE ~(i + 1 <= n)
    BY <2>2
  <2> QED  BY <2>1, <2>2
<1>8. \A i \in Nat : i \in S
  <2> HIDE DEF S
  <2> QED  BY <1>6, <1>7, SetInduction
<1>9. Good(n)
  <2>1. n \in S
    <3> HIDE DEF S
    <3> QED  BY <1>0, <1>8
  <2> QED  BY <1>0, <2>1
<1>10. All(n) => Numbers(parts) = parts
  <2> SUFFICES ASSUME All(n) PROVE kept[n] = parts
    BY <1>2
  <2>1. kept[n] \in Seq(Int) /\ Len(kept[n]) = n /\ \A k \in 1..n : kept[n][k] = parts[k]
    BY <1>9 DEF Good
  <2> QED  BY <2>1, SeqEqual
<1>11. ~All(n) => Len(Numbers(parts)) < n
  BY <1>2, <1>9 DEF Good
<1>12. Len(Numbers(parts)) \in Nat /\ Len(Numbers(parts)) <= n
  <2>1. kept[n] \in Seq(Int) /\ Len(kept[n]) <= n
    BY <1>9 DEF Good
  <2> QED  BY <1>2, <2>1, LenProperties
<1> QED
  BY <1>10, <1>11, <1>12

\* Three parts, and each a number.
WellFormed(parts) == Len(parts) = 3 /\ \A i \in 1..3 : parts[i] # NotANumber

LEMMA WellFormedNumbers ==
  ASSUME NEW parts \in Seq(Int), Len(parts) <= 3
  PROVE  /\ WellFormed(parts) => Numbers(parts) = parts
         /\ WellFormed(parts) <=> Len(Numbers(parts)) = 3
<1>1. Len(parts) \in Nat
  BY LenProperties
<1>2. WellFormed(parts) => Numbers(parts) = parts
  BY NumbersIs, Zenon DEF WellFormed
<1>3. Len(Numbers(parts)) = 3 => WellFormed(parts)
  <2> SUFFICES ASSUME Len(Numbers(parts)) = 3
               PROVE  WellFormed(parts)
    OBVIOUS
  <2>1. Len(Numbers(parts)) <= Len(parts)
    BY NumbersIs
  <2>2. Len(parts) = 3
    <3> DEFINE a == Len(Numbers(parts))
               b == Len(parts)
    <3>1. a = 3 /\ a <= b /\ b <= 3 /\ b \in Nat
      BY <1>1, <2>1, Zenon
    <3> HIDE DEF a, b
    <3>2. b = 3
      BY <3>1
    <3> QED  BY <3>2 DEF b
  <2>3. ~(Len(Numbers(parts)) < Len(parts))
    BY <2>2
  <2>4. \A i \in 1..Len(parts) : parts[i] # NotANumber
    BY <2>3, NumbersIs, Zenon
  <2> QED  BY <2>2, <2>4, Zenon DEF WellFormed
<1> QED
  BY <1>2, <1>3, Zenon DEF WellFormed

\* chrono_parse_naive, for any two texts of up to three parts: a text with a
\* part missing or a part that is no number has no timestamp, and every date
\* from 1970 on has the day number that the calendar gives it.
THEOREM ParsesByCalendar ==
  ASSUME NEW d \in Seq(Int), NEW t \in Seq(Int), Len(d) <= 3, Len(t) <= 3
  PROVE  /\ ~WellFormed(d) \/ ~WellFormed(t) => ChronoParseNaive(d, t) = None
         /\ /\ WellFormed(d) /\ WellFormed(t)
            /\ d[1] >= 1970 /\ d[2] \in 1..12 /\ d[3] \in Nat
            => ChronoParseNaive(d, t) =
                 <<Calendar(d), t[1] * 3600 + t[2] * 60 + t[3]>>
<1>1. /\ WellFormed(d) <=> Len(Numbers(d)) = 3
      /\ WellFormed(t) <=> Len(Numbers(t)) = 3
      /\ WellFormed(d) => Numbers(d) = d
      /\ WellFormed(t) => Numbers(t) = t
  BY WellFormedNumbers
<1>2. ~WellFormed(d) \/ ~WellFormed(t) => ChronoParseNaive(d, t) = None
  BY <1>1, SMT DEF ChronoParseNaive
<1>3. ASSUME WellFormed(d), WellFormed(t), d[1] >= 1970, d[2] \in 1..12, d[3] \in Nat
      PROVE  ChronoParseNaive(d, t) = <<Calendar(d), t[1] * 3600 + t[2] * 60 + t[3]>>
  <2> DEFINE days == DaysBeforeYear(d[1]) + DaysBeforeMonth(d[1], d[2]) + d[3] - 1
             secs == t[1] * 3600 + t[2] * 60 + t[3]
  <2>1. ChronoParseNaive(d, t) = <<days, secs>>
    BY <1>1, <1>3, SMT DEF ChronoParseNaive
  <2>2. d[1] \in Nat
    <3>1. 1 \in 1..Len(d)
      BY <1>3 DEF WellFormed
    <3>2. d[1] \in Int
      BY <3>1, ElementOfSeq
    <3> QED  BY <1>3, <3>2
  <2>3. days = Calendar(<<d[1], d[2], d[3]>>)
    <3> DEFINE year == d[1]
               month == d[2]
               day == d[3]
    <3>1. year \in Nat /\ year >= 1970 /\ month \in 1..12 /\ day \in Nat
      BY <1>3, <2>2
    <3> HIDE DEF year, month, day
    <3>2. DaysBeforeYear(year) + DaysBeforeMonth(year, month) + day - 1
            = Calendar(<<year, month, day>>)
      BY <3>1, DaysMatchCalendar
    <3> QED  BY <3>2 DEF year, month, day
  <2>4. <<d[1], d[2], d[3]>> = d
    BY <1>3 DEF WellFormed
  <2> HIDE DEF days, secs
  <2>5. days = Calendar(d)
    BY <2>3, <2>4, Zenon
  <2>6. ChronoParseNaive(d, t) = <<Calendar(d), secs>>
    BY <2>1, <2>5, Zenon
  <2> QED  BY <2>6 DEF secs
<1> QED
  BY <1>2, <1>3

\* The body of the function in StopsAt.
Turn(f, first, length, days, y) ==
  IF y = first THEN <<first, days>>
  ELSE LET p == f[y - 1]
       IN  IF p[2] < length[p[1]] THEN p ELSE <<y, p[2] - length[p[1]]>>

\* The equation of StopsAt has a solution.
LEMMA StopsAtSolution ==
  ASSUME NEW first \in Nat, NEW last \in Nat, first <= last, NEW length, NEW days
  PROVE  \E f : f = [y \in first..last |-> Turn(f, first, length, days, y)]
<1> DEFINE Solves(f, k) == f = [y \in first..(first + k) |-> Turn(f, first, length, days, y)]
           Solved == {k \in Nat : \E f : Solves(f, k)}
<1>1. 0 \in Solved
  <2> DEFINE f == [y \in first..(first + 0) |-> <<first, days>>]
  <2>1. \A y \in first..(first + 0) : Turn(f, first, length, days, y) = <<first, days>>
    BY DEF Turn
  <2>2. f = [y \in first..(first + 0) |-> Turn(f, first, length, days, y)]
    BY <2>1
  <2> HIDE DEF f
  <2> QED  BY <2>2
<1>2. ASSUME NEW k \in Nat, k \in Solved
      PROVE  k + 1 \in Solved
  <2> DEFINE new == first + (k + 1)
  <2>0. new \in Nat /\ new = first + k + 1
    OBVIOUS
  <2>1. PICK f : Solves(f, k)
    BY <1>2
  <2> DEFINE g == [y \in first..new |-> IF y = new THEN Turn(f, first, length, days, y) ELSE f[y]]
  <2> HIDE DEF new
  <2>2. ASSUME NEW y \in first..new
        PROVE  g[y] = Turn(g, first, length, days, y)
    <3>1. y # first => y - 1 \in first..(first + k) /\ y - 1 \in first..new /\ y - 1 # new
      BY <2>0
    <3>2. y # first => g[y - 1] = f[y - 1]
      BY <3>1
    <3>3. g[y] = Turn(f, first, length, days, y)
      <4>1. CASE y = new
        BY <4>1
      <4>2. CASE y # new
        <5>1. y \in first..(first + k)
          BY <2>0, <4>2
        <5>2. f[y] = Turn(f, first, length, days, y)
          BY <2>1, <5>1
        <5> QED  BY <4>2, <5>2
      <4> QED  BY <4>1, <4>2
    <3> HIDE DEF g
    <3> QED  BY <3>2, <3>3, Zenon DEF Turn
  <2>3. g = [y \in first..new |-> g[y]]
    OBVIOUS
  <2> HIDE DEF g
  <2>4. g = [y \in first..new |-> Turn(g, first, length, days, y)]
    BY <2>2, <2>3
  <2>5. Solves(g, k + 1)
    BY <2>4 DEF new
  <2> HIDE DEF Solves
  <2> QED  BY <2>5
<1>3. \A k \in Nat : k \in Solved
  <2> HIDE DEF Solved
  <2> QED  BY <1>1, <1>2, SetInduction
<1>4. last - first \in Nat /\ first + (last - first) = last
  OBVIOUS
<1>5. last - first \in Solved
  <2> HIDE DEF Solved
  <2> QED  BY <1>3, <1>4
<1> QED
  BY <1>4, <1>5

\* What StopsAt computes, turn by turn.
LEMMA StopsAtIs ==
  ASSUME NEW first \in Nat, NEW last \in Nat, first <= last, NEW length, NEW days
  PROVE  \E f : /\ \A y \in first..last : f[y] = Turn(f, first, length, days, y)
                /\ StopsAt(first, last, length, days) = f[last]
<1> DEFINE f == CHOOSE g : g = [y \in first..last |-> Turn(g, first, length, days, y)]
<1>1. f = [y \in first..last |-> Turn(f, first, length, days, y)]
  BY StopsAtSolution
<1>2. StopsAt(first, last, length, days) = f[last]
  BY DEF StopsAt, Turn
<1> HIDE DEF f
<1>3. \A y \in first..last : f[y] = Turn(f, first, length, days, y)
  BY <1>1
<1> QED
  BY <1>2, <1>3

\* B[y] days lie before year or month y.
Starts(first, last, length, B) ==
  /\ B[first] = 0 /\ \A y \in first..last : B[y] \in Nat
  /\ \A y \in first..(last - 1) : length[y] \in Nat /\ B[y + 1] = B[y] + length[y]

\* The loops of days_to_date stop at the year or month in which the day falls,
\* with the days since its start.
LEMMA StopsWhereDayFalls ==
  ASSUME NEW first \in Nat, NEW last \in Nat, NEW days \in Nat, NEW at \in first..(last - 1),
         NEW length, NEW B, Starts(first, last, length, B), B[at] <= days, days < B[at + 1]
  PROVE  StopsAt(first, last, length, days) = <<at, days - B[at]>>
<1> USE DEF Starts
<1>0. first <= last /\ at \in first..last /\ at + 1 \in first..last
  OBVIOUS
<1>1. PICK f : /\ \A y \in first..last : f[y] = Turn(f, first, length, days, y)
               /\ StopsAt(first, last, length, days) = f[last]
  BY <1>0, StopsAtIs
<1>2. StopsAt(first, last, length, days) = f[last]
  BY <1>1
<1>3. \A y \in first..last : f[y] = Turn(f, first, length, days, y)
  BY <1>1
\* B grows.
<1>4. \A k \in Nat : k \in {d \in Nat : at - d >= first => B[at - d] <= B[at]}
  <2> DEFINE S == {d \in Nat : at - d >= first => B[at - d] <= B[at]}
  <2>1. 0 \in S
    BY <1>0
  <2>2. ASSUME NEW d \in Nat, d \in S
        PROVE  d + 1 \in S
    <3> SUFFICES ASSUME at - (d + 1) >= first
                 PROVE  B[at - (d + 1)] <= B[at]
      OBVIOUS
    <3> DEFINE y == at - (d + 1)
    <3>1. y \in first..(last - 1) /\ y + 1 = at - d /\ at - d >= first /\ y + 1 \in first..last
          /\ y \in first..last
      BY <1>0
    <3>2. B[y + 1] = B[y] + length[y] /\ B[y] \in Nat /\ B[y + 1] \in Nat /\ length[y] \in Nat
          /\ B[at] \in Nat
      BY <1>0, <3>1
    <3>3. B[at - d] <= B[at]
      BY <2>2, <3>1
    <3> HIDE DEF y
    <3> QED  BY <3>1, <3>2, <3>3 DEF y
  <2>3. \A k \in Nat : k \in S
    <3> HIDE DEF S
    <3> QED  BY <2>1, <2>2, SetInduction
  <2> QED  BY <2>3
<1>5. \A y \in first..at : B[y] <= B[at]
  <2> SUFFICES ASSUME NEW y \in first..at PROVE B[y] <= B[at]
    OBVIOUS
  <2>1. at - y \in Nat /\ at - (at - y) = y /\ y >= first
    BY <1>0
  <2> QED  BY <1>4, <2>1
\* The turns of the loop.
<1> DEFINE Good(y) == f[y] = IF y <= at THEN <<y, days - B[y]>> ELSE <<at, days - B[at]>>
           T == {k \in Nat : first + k <= last => Good(first + k)}
<1>6. 0 \in T
  <2>1. f[first] = <<first, days>>
    <3>1. first \in first..last
      BY <1>0
    <3>2. f[first] = Turn(f, first, length, days, first)
      BY <1>3, <3>1, Zenon
    <3> QED  BY <3>2, Zenon DEF Turn
  <2>2. days - B[first] = days /\ first + 0 = first /\ first <= at
    OBVIOUS
  <2> QED  BY <2>1, <2>2
<1>7. ASSUME NEW k \in Nat, k \in T
      PROVE  k + 1 \in T
  <2> SUFFICES ASSUME first + (k + 1) <= last
               PROVE  Good(first + (k + 1))
    OBVIOUS
  <2> DEFINE y == first + k
  <2>1. y \in first..(last - 1) /\ y \in first..last /\ y + 1 \in first..last
        /\ first + (k + 1) = y + 1 /\ y + 1 # first /\ (y + 1) - 1 = y
    OBVIOUS
  <2>2. Good(y)
    BY <1>7
  <2> HIDE DEF y
  <2>3. f[y + 1] = LET p == f[y]
                   IN  IF p[2] < length[p[1]] THEN p ELSE <<y + 1, p[2] - length[p[1]]>>
    <3>1. f[y + 1] = Turn(f, first, length, days, y + 1)
      BY <1>3, <2>1, Zenon
    <3> QED  BY <2>1, <3>1, Zenon DEF Turn
  <2>4. B[at] \in Nat /\ length[at] \in Nat /\ B[at + 1] = B[at] + length[at]
    BY <1>0
  <2>5. CASE y < at
    <3>1. f[y] = <<y, days - B[y]>>
      BY <2>1, <2>2, <2>5
    <3>2. f[y][1] = y /\ f[y][2] = days - B[y]
      BY <3>1
    <3>3. B[y] \in Nat /\ B[y + 1] = B[y] + length[y] /\ length[y] \in Nat /\ B[y + 1] \in Nat
      BY <2>1
    <3>4. B[y + 1] <= B[at]
      <4>1. y + 1 \in first..at
        BY <2>1, <2>5
      <4> QED  BY <1>5, <4>1
    <3>5. ~(days - B[y] < length[y]) /\ days - B[y] - length[y] = days - B[y + 1]
      BY <2>4, <3>3, <3>4
    <3>6. f[y + 1] = <<y + 1, days - B[y + 1]>>
      BY <2>3, <3>2, <3>5
    <3>7. y + 1 <= at
      BY <2>1, <2>5
    <3> QED  BY <2>1, <3>6, <3>7
  <2>6. CASE y >= at
    <3>1. f[y] = <<at, days - B[at]>>
      <4>1. CASE y = at
        BY <2>1, <2>2, <4>1
      <4>2. CASE y # at
        <5>1. ~(y <= at)
          BY <2>1, <2>6, <4>2
        <5> QED  BY <2>2, <5>1
      <4> QED  BY <4>1, <4>2
    <3>2. f[y][1] = at /\ f[y][2] = days - B[at]
      BY <3>1
    <3>3. days - B[at] < length[at]
      BY <2>4
    <3>4. f[y + 1] = <<at, days - B[at]>>
      BY <2>3, <3>1, <3>2, <3>3
    <3>5. ~(y + 1 <= at)
      BY <2>1, <2>6
    <3> QED  BY <2>1, <3>4, <3>5
  <2> QED  BY <2>1, <2>5, <2>6
<1>8. \A k \in Nat : k \in T
  <2> HIDE DEF T
  <2> QED  BY <1>6, <1>7, SetInduction
<1>9. Good(last)
  <2>1. last - first \in Nat /\ first + (last - first) = last
    BY <1>0
  <2>2. last - first \in T
    <3> HIDE DEF T
    <3> QED  BY <1>8, <2>1
  <2> HIDE DEF Good
  <2> QED  BY <2>1, <2>2
<1>10. ~(last <= at)
  OBVIOUS
<1> QED
  BY <1>2, <1>9, <1>10

\* Days of a year before a month, the month after the last one included.
StartOf(year) ==
  [m \in 1..13 |-> <<0, 31, 59, 90, 120, 151, 181, 212, 243, 273, 304, 334, 365>>[m]
                     + (IF Leap(year) /\ m > 2 THEN 1 ELSE 0)]

\* The month lengths portctl uses.
LengthsOf(year) == IF IsLeapYear(year) THEN [MonthDays EXCEPT ![2] = 29] ELSE MonthDays

\* The months follow each other.
LEMMA MonthTable ==
  ASSUME NEW year, NEW m \in 1..12
  PROVE  /\ LengthsOf(year)[m] = MonthDays[m] + (IF m = 2 /\ Leap(year) THEN 1 ELSE 0)
         /\ LengthsOf(year)[m] \in Nat /\ StartOf(year)[m] \in Nat /\ StartOf(year)[m + 1] \in Nat
         /\ StartOf(year)[m + 1] = StartOf(year)[m] + LengthsOf(year)[m]
         /\ StartOf(year)[m] = DaysBefore(year, m)
         /\ StartOf(year)[m + 1] <= IF Leap(year) THEN 366 ELSE 365
<1>1. \/ m = 1 \/ m = 2 \/ m = 3 \/ m = 4 \/ m = 5 \/ m = 6 \/ m = 7 \/ m = 8
      \/ m = 9 \/ m = 10 \/ m = 11 \/ m = 12
  OBVIOUS
<1>2. CASE Leap(year)
  <2>1. LengthsOf(year) = <<31, 29, 31, 30, 31, 30, 31, 31, 30, 31, 30, 31>>
    BY <1>2 DEF LengthsOf, IsLeapYear, MonthDays
  <2>2. /\ StartOf(year)[m] = <<0, 31, 60, 91, 121, 152, 182, 213, 244, 274, 305, 335, 366>>[m]
        /\ StartOf(year)[m + 1] =
             <<0, 31, 60, 91, 121, 152, 182, 213, 244, 274, 305, 335, 366>>[m + 1]
    BY <1>1, <1>2 DEF StartOf
  <2>3. DaysBefore(year, m) = <<0, 31, 60, 91, 121, 152, 182, 213, 244, 274, 305, 335, 366>>[m]
    BY <1>1, <1>2 DEF DaysBefore
  <2> QED  BY <1>1, <1>2, <2>1, <2>2, <2>3 DEF MonthDays
<1>3. CASE ~Leap(year)
  <2>1. LengthsOf(year) = <<31, 28, 31, 30, 31, 30, 31, 31, 30, 31, 30, 31>>
    BY <1>3 DEF LengthsOf, IsLeapYear, MonthDays
  <2>2. /\ StartOf(year)[m] = <<0, 31, 59, 90, 120, 151, 181, 212, 243, 273, 304, 334, 365>>[m]
        /\ StartOf(year)[m + 1] =
             <<0, 31, 59, 90, 120, 151, 181, 212, 243, 273, 304, 334, 365>>[m + 1]
    BY <1>1, <1>3 DEF StartOf
  <2>3. DaysBefore(year, m) = <<0, 31, 59, 90, 120, 151, 181, 212, 243, 273, 304, 334, 365>>[m]
    BY <1>1, <1>3 DEF DaysBefore
  <2> QED  BY <1>1, <1>3, <2>1, <2>2, <2>3 DEF MonthDays
<1> QED
  BY <1>2, <1>3

\* portctl's loop over the months finds the month of a day of the year.
LEMMA MonthFound ==
  ASSUME NEW year, NEW month \in 1..12, NEW day \in Nat \ {0}, day <= LengthsOf(year)[month]
  PROVE  MonthOf(DaysBefore(year, month) + day - 1, LengthsOf(year)) = <<month, day>>
<1> DEFINE length == LengthsOf(year)
           B == StartOf(year)
           days == DaysBefore(year, month) + day - 1
<1>1. \A m \in 1..12 : /\ length[m] \in Nat /\ B[m] \in Nat /\ B[m + 1] \in Nat
                       /\ B[m + 1] = B[m] + length[m]
  BY MonthTable
<1>2. B[1] = 0
  BY DEF StartOf
<1>3. \A m \in 1..13 : B[m] \in Nat
  <2> SUFFICES ASSUME NEW m \in 1..13 PROVE B[m] \in Nat
    OBVIOUS
  <2>1. m \in 1..12 \/ (12 \in 1..12 /\ 12 + 1 = m)
    OBVIOUS
  <2> HIDE DEF B, length
  <2> QED  BY <1>1, <2>1
<1>4. B[month] = DaysBefore(year, month) /\ B[month] \in Nat /\ B[month + 1] = B[month] + length[month]
  BY MonthTable
<1> HIDE DEF B, length
<1>5. /\ days \in Nat /\ B[month] <= days /\ days < B[month + 1] /\ days - B[month] = day - 1
      /\ month \in 1..(13 - 1)
  <2>1. day <= length[month] /\ length[month] \in Nat
    BY <1>1 DEF length
  <2> QED  BY <1>4, <2>1
<1> HIDE DEF days
<1>6. /\ \A m \in 1..(13 - 1) : length[m] \in Nat /\ B[m + 1] = B[m] + length[m]
      /\ 1 \in Nat /\ 13 \in Nat
  <2>1. 13 - 1 = 12
    OBVIOUS
  <2> QED  BY <1>1, <2>1
<1>7. StopsAt(1, 13, length, days) = <<month, days - B[month]>>
  <2>1. Starts(1, 13, length, B)
    BY <1>2, <1>3, <1>6 DEF Starts
  <2> DEFINE last == 13
             first == 1
  <2>2. /\ first \in Nat /\ last \in Nat /\ month \in first..(last - 1)
        /\ Starts(first, last, length, B)
    BY <2>1
  <2> HIDE DEF last, first
  <2>3. StopsAt(first, last, length, days) = <<month, days - B[month]>>
    BY <1>5, <2>2, StopsWhereDayFalls
  <2> QED  BY <2>3 DEF last, first
<1>8. MonthOf(days, length) = <<month, (days - B[month]) + 1>>
  BY <1>7 DEF MonthOf
<1>9. (days - B[month]) + 1 = day
  BY <1>5
<1> QED
  BY <1>8, <1>9 DEF days, length

\* portctl's loop over the years finds the year of a day.
LEMMA YearFound ==
  ASSUME NEW year \in Nat, year >= 1970, NEW lastYear \in Nat, year < lastYear,
         NEW left \in Nat, left < IF IsLeap(year) THEN 366 ELSE 365
  PROVE  YearOf(DaysUntil(year - 1) - DaysUntil(1969) + left, lastYear) = <<year, left>>
<1> DEFINE length == [y \in 1970..lastYear |-> IF IsLeapYear(y) THEN 366 ELSE 365]
           B == [y \in 1970..lastYear |-> DaysUntil(y - 1) - DaysUntil(1969)]
           days == DaysUntil(year - 1) - DaysUntil(1969) + left
<1>1. \A y \in 1970..(lastYear - 1) :
        y \in 1970..lastYear /\ y + 1 \in 1970..lastYear /\ y \in Nat \ {0} /\ (y + 1) - 1 = y
  OBVIOUS
<1>2. ASSUME NEW y \in 1970..(lastYear - 1)
      PROVE  length[y] \in Nat /\ B[y + 1] = B[y] + length[y]
  <2>1. y \in 1970..lastYear /\ y + 1 \in 1970..lastYear /\ y \in Nat \ {0} /\ (y + 1) - 1 = y
    BY <1>1
  <2>2. DaysUntil(y) - DaysUntil(y - 1) = IF IsLeap(y) THEN 366 ELSE 365
    BY <2>1, YearLength
  <2>3. length[y] = IF IsLeap(y) THEN 366 ELSE 365
    BY <2>1 DEF IsLeap, IsLeapYear
  <2>4. B[y] = DaysUntil(y - 1) - DaysUntil(1969) /\ B[y + 1] = DaysUntil(y) - DaysUntil(1969)
    BY <2>1
  <2>5. DaysUntil(y) \in Int /\ DaysUntil(y - 1) \in Int /\ DaysUntil(1969) \in Int
    BY DEF DaysUntil
  <2> HIDE DEF length, B
  <2> QED  BY <2>2, <2>3, <2>4, <2>5
<1>3. ASSUME NEW y \in 1970..lastYear
      PROVE  B[y] \in Nat
  <2>1. B[y] = DaysUntil(y - 1) - DaysUntil(1969)
    OBVIOUS
  <2>2. DaysUntil(y - 1) - DaysUntil(1969) \in Nat
    BY DEF DaysUntil
  <2> QED  BY <2>1, <2>2
<1>4. B[1970] = 0
  <2>1. 1970 \in 1970..lastYear /\ 1970 - 1 = 1969
    OBVIOUS
  <2>2. B[1970] = DaysUntil(1970 - 1) - DaysUntil(1969) /\ DaysUntil(1969) \in Int
    BY <2>1 DEF DaysUntil
  <2> HIDE DEF B
  <2> QED  BY <2>1, <2>2
<1>5. year \in 1970..(lastYear - 1) /\ year \in 1970..lastYear
  OBVIOUS
<1>6. days = B[year] + left
  BY <1>5
<1>7. length[year] = IF IsLeap(year) THEN 366 ELSE 365
  BY <1>5 DEF IsLeap, IsLeapYear
<1>8. YearOf(days, lastYear) = StopsAt(1970, lastYear, length, days)
  BY DEF YearOf
<1> HIDE DEF length, B, days
<1>9. days \in Nat /\ B[year] <= days /\ days < B[year + 1] /\ days - B[year] = left
  <2>1. B[year] \in Nat /\ B[year + 1] = B[year] + length[year] /\ left < length[year]
        /\ length[year] \in Nat
    BY <1>2, <1>3, <1>5, <1>7
  <2> QED  BY <1>6, <2>1
<1>10. StopsAt(1970, lastYear, length, days) = <<year, days - B[year]>>
  <2>1. Starts(1970, lastYear, length, B)
    BY <1>2, <1>3, <1>4 DEF Starts
  <2> QED  BY <1>5, <1>9, <2>1, StopsWhereDayFalls
<1> QED
  BY <1>8, <1>9, <1>10 DEF days

\* portctl's arithmetic on the seconds of a day.
LEMMA TimeOfDay ==
  ASSUME NEW h \in 0..23, NEW m \in 0..59, NEW s \in 0..59
  PROVE  LET secs == h * 3600 + m * 60 + s
         IN  secs \div 3600 = h /\ (secs % 3600) \div 60 = m /\ secs % 60 = s
<1> DEFINE secs == h * 3600 + m * 60 + s
           rest == m * 60 + s
<1>1. rest \in 0..3599 /\ secs = h * 3600 + rest
  OBVIOUS
<1>2. rest \div 60 = m /\ rest % 60 = s
  OBVIOUS
<1>3. secs \div 3600 = h /\ secs % 3600 = rest
  <2> HIDE DEF rest
  <2> QED  BY <1>1
<1>4. secs % 60 = s
  <2>1. secs = (h * 60 + m) * 60 + s /\ h * 60 + m \in Nat
    OBVIOUS
  <2> QED  BY <2>1
<1> QED
  BY <1>2, <1>3, <1>4

\* A date of the calendar, from 1970 on.
IsDate(d) ==
  /\ d = <<d[1], d[2], d[3]>> /\ d[1] \in Nat /\ d[1] >= 1970 /\ d[2] \in 1..12
  /\ d[3] \in Nat \ {0} /\ d[3] <= MonthDays[d[2]] + (IF d[2] = 2 /\ Leap(d[1]) THEN 1 ELSE 0)

\* A time of day, and its seconds.
IsTime(t) == t = <<t[1], t[2], t[3]>> /\ t[1] \in 0..23 /\ t[2] \in 0..59 /\ t[3] \in 0..59

SecondOfDay(t) == t[1] * 3600 + t[2] * 60 + t[3]

\* portctl shows the date and the time of day that the daemon made the
\* timestamp from: for every date of the calendar from 1970 on.
THEOREM ShowsDateStored ==
  ASSUME NEW date, IsDate(date), NEW time, IsTime(time),
         NEW lastYear \in Nat, date[1] < lastYear
  PROVE  FormatTimestamp(<<Calendar(date), SecondOfDay(time)>>, lastYear) = <<date, time>>
<1> DEFINE year == date[1]
           month == date[2]
           day == date[3]
           h == time[1]
           m == time[2]
           s == time[3]
<1>0. /\ year \in Nat /\ year >= 1970 /\ year < lastYear /\ month \in 1..12 /\ day \in Nat \ {0}
      /\ day <= MonthDays[month] + (IF month = 2 /\ Leap(year) THEN 1 ELSE 0)
      /\ h \in 0..23 /\ m \in 0..59 /\ s \in 0..59
      /\ date = <<year, month, day>> /\ time = <<h, m, s>>
      /\ SecondOfDay(time) = h * 3600 + m * 60 + s
  BY DEF IsDate, IsTime, SecondOfDay
<1> HIDE DEF year, month, day, h, m, s
<1> DEFINE left == DaysBefore(year, month) + day - 1
           days == DaysUntil(year - 1) - DaysUntil(1969) + left
           secs == h * 3600 + m * 60 + s
           t == <<days, secs>>
<1>1. day <= LengthsOf(year)[month] /\ LengthsOf(year)[month] \in Nat
  BY <1>0, MonthTable
<1>2. left \in Nat /\ left < IF IsLeap(year) THEN 366 ELSE 365
  <2> DEFINE a == StartOf(year)[month]
             b == StartOf(year)[month + 1]
             l == LengthsOf(year)[month]
  <2>1. /\ a \in Nat /\ b \in Nat /\ b = a + l /\ a = DaysBefore(year, month)
        /\ b <= IF IsLeap(year) THEN 366 ELSE 365
    BY <1>0, MonthTable DEF IsLeap
  <2>2. l \in Nat /\ day <= l
    BY <1>1
  <2> HIDE DEF a, b, l
  <2> QED  BY <1>0, <2>1, <2>2
<1>3. Calendar(<<year, month, day>>) = days
  <2>1. DaysBeforeYear(year) + DaysBeforeMonth(year, month) + day - 1
          = Calendar(<<year, month, day>>)
    BY <1>0, DaysMatchCalendar
  <2>2. DaysBeforeYear(year) = DaysUntil(year - 1) - DaysUntil(1969)
    BY <1>0, YearLoop
  <2>3. DaysBeforeMonth(year, month) = DaysBefore(year, month)
    BY <1>0, MonthLoop
  <2>4. DaysUntil(year - 1) \in Int /\ DaysUntil(1969) \in Int /\ DaysBefore(year, month) \in Int
    <3>1. DaysUntil(year - 1) \in Int /\ DaysUntil(1969) \in Int
      BY <1>0 DEF DaysUntil
    <3>2. StartOf(year)[month] \in Nat /\ StartOf(year)[month] = DaysBefore(year, month)
      BY <1>0, MonthTable
    <3> QED  BY <3>1, <3>2
  <2> QED  BY <1>0, <2>1, <2>2, <2>3, <2>4
<1>4. YearOf(days, lastYear) = <<year, left>>
  <2> HIDE DEF left
  <2> QED  BY <1>0, <1>2, YearFound
<1>5. MonthOf(left, LengthsOf(year)) = <<month, day>>
  BY <1>0, <1>1, MonthFound
<1>6. secs \div 3600 = h /\ (secs % 3600) \div 60 = m /\ secs % 60 = s
  BY <1>0, TimeOfDay
<1> HIDE DEF left, days, secs
<1>7. t[1] = days /\ t[2] = secs
  OBVIOUS
<1> HIDE DEF t
<1> DEFINE y == YearOf(t[1], lastYear)
           lengths == IF IsLeapYear(y[1]) THEN [MonthDays EXCEPT ![2] = 29] ELSE MonthDays
           mo == MonthOf(y[2], lengths)
<1>8. y = <<year, left>>
  BY <1>4, <1>7
<1>9. y[1] = year /\ y[2] = left
  BY <1>8
<1>10. lengths = LengthsOf(year)
  <2> HIDE DEF y
  <2> QED  BY <1>9 DEF LengthsOf
<1>11. mo = <<month, day>>
  <2> HIDE DEF y, lengths
  <2> QED  BY <1>5, <1>9, <1>10
<1>12. mo[1] = month /\ mo[2] = day
  <2> HIDE DEF mo
  <2> QED  BY <1>11
<1>13. FormatTimestamp(t, lastYear) =
         <<<<y[1], mo[1], mo[2]>>, <<t[2] \div 3600, (t[2] % 3600) \div 60, t[2] % 60>>>>
  BY DEF FormatTimestamp
<1> HIDE DEF y, lengths, mo
<1>14. FormatTimestamp(t, lastYear) = <<<<year, month, day>>, <<h, m, s>>>>
  BY <1>6, <1>7, <1>9, <1>12, <1>13
<1> QED
  BY <1>0, <1>3, <1>14 DEF t, secs

-----------------------------------------------------------------------------
(* Times, as MCPure calls their functions. *)

LEMMA TimestampRecord ==
  \A d, t, c : c = [fn |-> "timestamp", d |-> d, t |-> t] =>
               c.fn = "timestamp" /\ c.d = d /\ c.t = t
  OBVIOUS

LEMMA AgeRecord ==
  \A a, b, c : c = [fn |-> "age", created |-> a, now |-> b] =>
               c.fn = "age" /\ c.created = a /\ c.now = b
  OBVIOUS

\* Texts that are no dates.
Malformed == {<<2026, NotANumber, 1>>, <<2026, 3>>}

TimestampMade == /\ call.fn = "timestamp" /\ call.t \in Times
                 /\ (call.d \in Dates /\ Valid(call.d)) \/ call.d \in Malformed
AgeMade       == call.fn = "age" /\ call.created \in Seconds /\ call.now \in Seconds

\* The arguments of each.
LEMMA TimesMade ==
  ASSUME CallMade
  PROVE  /\ call.fn = "timestamp" => TimestampMade
         /\ call.fn = "age" => AgeMade
<1>1. call.fn \in {"timestamp", "age"} => TimeCall
  BY CallsByName, Zenon
<1>2. TimeCall => TimestampMade \/ AgeMade
  <2>1. ASSUME NEW d, NEW t \in Times, (d \in Dates /\ Valid(d)) \/ d \in Malformed,
               call = [fn |-> "timestamp", d |-> d, t |-> t]
        PROVE  TimestampMade
    BY <2>1, TimestampRecord, Zenon DEF TimestampMade
  <2>2. ASSUME NEW a \in Seconds, NEW b \in Seconds,
               call = [fn |-> "age", created |-> a, now |-> b]
        PROVE  AgeMade
    BY <2>2, AgeRecord, Zenon DEF AgeMade
  <2>3. TimeCall =>
          \/ \E d \in Dates, t \in Times : Valid(d) /\ call = [fn |-> "timestamp", d |-> d, t |-> t]
          \/ \E d \in Malformed, t \in Times : call = [fn |-> "timestamp", d |-> d, t |-> t]
          \/ \E a \in Seconds, b \in Seconds : call = [fn |-> "age", created |-> a, now |-> b]
    BY SMT DEF TimeCall, Malformed
  <2> QED  BY <2>1, <2>2, <2>3, Zenon
<1>3. (TimestampMade => call.fn = "timestamp") /\ (AgeMade => call.fn = "age")
  BY Zenon DEF TimestampMade, AgeMade
<1> QED
  BY <1>1, <1>2, <1>3, Zenon

\* The times of day.
LEMMA TimesAre ==
  ASSUME NEW t \in Times
  PROVE  /\ t \in Seq(Int) /\ Len(t) = 3 /\ WellFormed(t)
         /\ IsTime(t)
<1>1. PICK h \in 0..23, m \in 0..59, s \in 0..59 : t = <<h, m, s>>
  <2>1. t = <<0, 0, 0>> \/ t = <<12, 34, 56>> \/ t = <<23, 59, 59>>
    BY DEF Times
  <2>2. /\ 0 \in 0..23 /\ 12 \in 0..23 /\ 23 \in 0..23
        /\ 0 \in 0..59 /\ 34 \in 0..59 /\ 56 \in 0..59 /\ 59 \in 0..59
    OBVIOUS
  <2> QED  BY <2>1, <2>2, Zenon
<1>2. h \in Int /\ m \in Int /\ s \in Int /\ h # NotANumber /\ m # NotANumber /\ s # NotANumber
  BY DEF NotANumber
<1>3. t \in Seq(Int) /\ Len(t) = 3 /\ t[1] = h /\ t[2] = m /\ t[3] = s
  BY <1>1, <1>2
<1>4. WellFormed(t)
  <2>1. \A i \in 1..3 : i = 1 \/ i = 2 \/ i = 3
    OBVIOUS
  <2> QED  BY <1>2, <1>3, <2>1, Zenon DEF WellFormed
<1>5. IsTime(t)
  BY <1>1, <1>3 DEF IsTime
<1> QED
  BY <1>3, <1>4, <1>5

\* The dates.
LEMMA DatesAre ==
  ASSUME NEW d \in Dates, Valid(d)
  PROVE  /\ d \in Seq(Int) /\ Len(d) = 3 /\ WellFormed(d)
         /\ IsDate(d) /\ d[1] < LastYear
<1>1. PICK y \in Years, m \in 1..12, k \in 1..31 : d = <<y, m, k>>
  BY DEF Dates
<1>2. y \in 1970..(LastYear - 1)
  BY PureAssumption
<1>3. y \in Int /\ m \in Int /\ k \in Int /\ y # NotANumber /\ m # NotANumber /\ k # NotANumber
  BY <1>2, PureAssumption DEF NotANumber
<1>4. d \in Seq(Int) /\ Len(d) = 3 /\ d[1] = y /\ d[2] = m /\ d[3] = k
  BY <1>1, <1>3
<1>5. WellFormed(d)
  <2>1. \A i \in 1..3 : i = 1 \/ i = 2 \/ i = 3
    OBVIOUS
  <2>2. y # NotANumber /\ m # NotANumber /\ k # NotANumber
    BY <1>3
  <2>3. Len(d) = 3 /\ d[1] = y /\ d[2] = m /\ d[3] = k
    BY <1>4
  <2> QED  BY <2>1, <2>2, <2>3, SMT DEF WellFormed
<1>6. d[3] <= MonthDays[d[2]] + (IF d[2] = 2 /\ Leap(d[1]) THEN 1 ELSE 0)
  BY SMT DEF Valid
<1>7. d = <<d[1], d[2], d[3]>>
  BY <1>1, <1>4
<1>8. /\ d[1] \in Nat /\ d[1] >= 1970 /\ d[1] < LastYear
      /\ d[2] \in 1..12 /\ d[3] \in Nat \ {0}
  BY <1>2, <1>4, PureAssumption
<1> QED
  BY <1>4, <1>5, <1>6, <1>7, <1>8 DEF IsDate

\* The others.
LEMMA MalformedAre ==
  ASSUME NEW d \in Malformed
  PROVE  d \in Seq(Int) /\ Len(d) \in Nat /\ Len(d) <= 3 /\ ~WellFormed(d)
<1>1. CASE d = <<2026, NotANumber, 1>>
  <2>1. NotANumber \in Int
    BY DEF NotANumber
  <2>2. d \in Seq(Int) /\ Len(d) = 3 /\ d[2] = NotANumber /\ 2 \in 1..3
    BY <1>1, <2>1
  <2> QED  BY <2>2, SMT DEF WellFormed
<1>2. CASE d = <<2026, 3>>
  <2>1. d \in Seq(Int) /\ Len(d) = 2
    BY <1>2
  <2> QED  BY <2>1, SMT DEF WellFormed
<1> QED
  BY <1>1, <1>2, SMT DEF Malformed

\* What a call of chrono_parse_naive returns.
LEMMA TimestampReturned ==
  ASSUME Answered, Returned("timestamp")
  PROVE  \/ /\ call.d \in Dates /\ Valid(call.d) /\ call.t \in Times
            /\ Len(Numbers(call.d)) = 3
            /\ result[1] = <<Calendar(call.d), call.t[1] * 3600 + call.t[2] * 60 + call.t[3]>>
         \/ Len(Numbers(call.d)) # 3 /\ result[1] = None
<1> DEFINE d == call.d
           t == call.t
<1>1. call.fn = "timestamp" /\ CallMade /\ result[1] = Value(call)
  BY ReturnedValue
<1>2. Value(call) = ChronoParseNaive(d, t)
  BY <1>1 DEF Value
<1>3. t \in Times /\ ((d \in Dates /\ Valid(d)) \/ d \in Malformed)
  BY <1>1, TimesMade, Zenon DEF TimestampMade
<1>4. result[1] = ChronoParseNaive(d, t)
  BY <1>1, <1>2
<1> HIDE DEF d, t
<1>5. t \in Seq(Int) /\ Len(t) <= 3 /\ WellFormed(t)
  <2>1. t \in Seq(Int) /\ Len(t) = 3 /\ WellFormed(t)
    BY <1>3, TimesAre, Zenon
  <2> QED  BY <2>1
<1>6. CASE d \in Dates /\ Valid(d)
  <2>1. /\ d \in Seq(Int) /\ Len(d) <= 3 /\ WellFormed(d)
        /\ d[1] >= 1970 /\ d[2] \in 1..12 /\ d[3] \in Nat
    <3>1. d \in Seq(Int) /\ Len(d) = 3 /\ WellFormed(d) /\ IsDate(d)
      BY <1>6, DatesAre, Zenon
    <3>2. d[1] >= 1970 /\ d[2] \in 1..12 /\ d[3] \in Nat
      BY <3>1 DEF IsDate
    <3> QED  BY <3>1, <3>2
  <2>2. Len(Numbers(d)) = 3
    BY <2>1, WellFormedNumbers
  <2>3. ChronoParseNaive(d, t) = <<Calendar(d), t[1] * 3600 + t[2] * 60 + t[3]>>
    BY <1>5, <2>1, ParsesByCalendar
  <2> QED  BY <1>3, <1>4, <1>6, <2>2, <2>3 DEF d, t
<1>7. CASE d \in Malformed
  <2>1. d \in Seq(Int) /\ Len(d) <= 3 /\ ~WellFormed(d)
    BY <1>7, MalformedAre
  <2>2. Len(Numbers(d)) # 3
    BY <2>1, WellFormedNumbers
  <2>3. ChronoParseNaive(d, t) = None
    BY <1>5, <2>1, ParsesByCalendar
  <2> QED  BY <1>4, <2>2, <2>3 DEF d
<1> QED
  BY <1>3, <1>6, <1>7

\* The daemon's timestamps are the calendar's, as MCPure calls
\* chrono_parse_naive, for any years.
THEOREM ParseAlwaysMatches == Spec => []ParseMatchesCalendar
<1>1. Answered => ParseMatchesCalendar
  BY TimestampReturned DEF ParseMatchesCalendar
<1> QED
  BY <1>1, CallsAnswered, PTL

\* portctl shows the dates the daemon stored and ages rounded down, as MCPure
\* calls format_timestamp and format_age, for any years.
THEOREM AlwaysShownAsStored == Spec => []ShownAsStored
<1>1. ASSUME Answered, Returned("timestamp"), result[1] # None
      PROVE  FormatTimestamp(result[1], LastYear) = <<call.d, call.t>>
  <2> DEFINE d == call.d
             t == call.t
             stamp == result[1]
  <2>1. /\ d \in Dates /\ Valid(d) /\ t \in Times
        /\ stamp = <<Calendar(d), t[1] * 3600 + t[2] * 60 + t[3]>>
    BY <1>1, TimestampReturned
  <2> HIDE DEF d, t, stamp
  <2>2. IsDate(d) /\ IsTime(t) /\ d[1] < LastYear
    BY <2>1, DatesAre, TimesAre, Zenon
  <2>3. LastYear \in Nat
    BY PureAssumption
  <2>4. stamp = <<Calendar(d), SecondOfDay(t)>>
    BY <2>1 DEF SecondOfDay
  <2>5. FormatTimestamp(stamp, LastYear) = <<d, t>>
    BY <2>2, <2>3, <2>4, ShowsDateStored, Zenon
  <2> QED  BY <2>5 DEF d, t, stamp
<1>2. ASSUME Answered, Returned("age"), call.now >= call.created
      PROVE  LET age   == call.now - call.created
                 parts == result[1]
                 last  == parts[Len(parts)]
                 shown == last[1] * last[2]
                            + (IF Len(parts) = 2 THEN parts[1][1] * parts[1][2] ELSE 0)
             IN  /\ shown <= age /\ age < shown + last[2]
                 /\ Len(parts) = 2 => last[1] * last[2] < parts[1][2]
  <2>1. call.fn = "age" /\ CallMade /\ result[1] = Value(call)
    BY <1>2, ReturnedValue
  <2>2. Value(call) = FormatAge(call.created, call.now)
    BY <2>1 DEF Value
  <2>3. call.created \in Nat /\ call.now \in Nat
    <3>1. Seconds \subseteq Nat
      BY DEF Seconds
    <3> QED  BY <2>1, <3>1, TimesMade, Zenon DEF AgeMade
  <2>4. result[1] = FormatAge(call.created, call.now) /\ call.created <= call.now
    BY <1>2, <2>1, <2>2, <2>3
  <2> QED  BY <2>3, <2>4, AgesRoundDown
<1>3. Answered => ShownAsStored
  BY <1>1, <1>2 DEF ShownAsStored
<1> QED
  BY <1>3, CallsAnswered, PTL

-----------------------------------------------------------------------------
(* list. *)

\* The first n places of f have different ids, by ascending port.
Sorted(rows, f, n) ==
  \A i, j \in 1..n : i < j => f[i] # f[j] /\ rows[f[i]].port <= rows[f[j]].port

\* An id with a lower or equal port goes before them.
LEMMA SortedStep ==
  ASSUME NEW rows, NEW n \in Nat, NEW T, NEW x \in T, NEW f \in [1..n -> T \ {x}],
         Sorted(rows, f, n), \A r \in T : rows[x].port <= rows[r].port
  PROVE  \E g \in [1..(n + 1) -> T] : Sorted(rows, g, n + 1)
<1> DEFINE g == [i \in 1..(n + 1) |-> IF i = 1 THEN x ELSE f[i - 1]]
<1>1. \A i \in 1..(n + 1) : i # 1 => i - 1 \in 1..n
  OBVIOUS
<1>2. g \in [1..(n + 1) -> T]
  BY <1>1
<1>3. ASSUME NEW i \in 1..(n + 1), NEW j \in 1..(n + 1), i < j
      PROVE  g[i] # g[j] /\ rows[g[i]].port <= rows[g[j]].port
  <2>1. j # 1 /\ j - 1 \in 1..n /\ g[j] = f[j - 1] /\ f[j - 1] \in T \ {x}
    BY <1>1, <1>3
  <2>2. CASE i = 1
    <3>1. g[i] = x
      BY <2>2
    <3> HIDE DEF g
    <3> QED  BY <2>1, <3>1
  <2>3. CASE i # 1
    <3>1. i - 1 \in 1..n /\ g[i] = f[i - 1] /\ i - 1 < j - 1
      BY <1>1, <1>3, <2>3
    <3>2. f[i - 1] # f[j - 1] /\ rows[f[i - 1]].port <= rows[f[j - 1]].port
      BY <2>1, <3>1 DEF Sorted
    <3> HIDE DEF g
    <3> QED  BY <2>1, <3>1, <3>2
  <2> QED  BY <2>2, <2>3
<1> HIDE DEF g
<1>4. Sorted(rows, g, n + 1)
  BY <1>3 DEF Sorted
<1> QED
  BY <1>2, <1>4

\* Every finite set of ids can be sorted by port.
LEMMA SortedExists ==
  ASSUME NEW rows, NEW ids, IsFiniteSet(ids), \A r \in ids : rows[r].port \in Nat
  PROVE  \E f \in [1..Cardinality(ids) -> ids] : Sorted(rows, f, Cardinality(ids))
<1> DEFINE Can(T, n) == \E f \in [1..n -> T] : Sorted(rows, f, n)
           S == {n \in Nat : \A T \in SUBSET ids : IsFiniteSet(T) /\ Cardinality(T) = n => Can(T, n)}
<1>1. 0 \in S
  <2> SUFFICES ASSUME NEW T \in SUBSET ids, IsFiniteSet(T), Cardinality(T) = 0
               PROVE  Can(T, 0)
    OBVIOUS
  <2> DEFINE f == [i \in 1..0 |-> 0]
  <2>1. f \in [1..0 -> T] /\ 1..0 = {}
    OBVIOUS
  <2> HIDE DEF f
  <2>2. Sorted(rows, f, 0)
    BY <2>1, Zenon DEF Sorted
  <2> QED  BY <2>1, <2>2, Zenon
<1>2. ASSUME NEW n \in Nat, n \in S
      PROVE  n + 1 \in S
  <2> SUFFICES ASSUME NEW T \in SUBSET ids, IsFiniteSet(T), Cardinality(T) = n + 1
               PROVE  Can(T, n + 1)
    OBVIOUS
  <2>1. T # {}
    <3>1. n + 1 # 0
      OBVIOUS
    <3> QED  BY <3>1, FS_EmptySet, Zenon
  <2> DEFINE Ports == {rows[r].port : r \in T}
  <2>2. PICK p \in Ports : Lowest(Ports, p)
    <3>1. Ports \in SUBSET Nat /\ Ports # {}
      BY <2>1
    <3> HIDE DEF Ports
    <3> QED  BY <3>1, LowestExists
  <2>3. PICK x \in T : p = rows[x].port
    BY <2>2
  <2>4. \A r \in T : rows[x].port <= rows[r].port
    BY <2>2, <2>3 DEF Lowest
  <2>5. IsFiniteSet(T \ {x}) /\ Cardinality(T \ {x}) = n
    <3>1. IsFiniteSet(T \ {x}) /\ Cardinality(T \ {x}) = Cardinality(T) - 1
      BY FS_RemoveElement
    <3> QED  BY <3>1
  <2>6. Can(T \ {x}, n)
    <3>1. T \ {x} \in SUBSET ids
      OBVIOUS
    <3> HIDE DEF Can
    <3> QED  BY <1>2, <2>5, <3>1
  <2>7. PICK f \in [1..n -> T \ {x}] : Sorted(rows, f, n)
    BY <2>6
  <2> QED  BY <2>4, <2>7, SortedStep
<1>3. \A n \in Nat : n \in S
  <2> HIDE DEF S
  <2> QED  BY <1>1, <1>2, SetInduction
<1>4. Cardinality(ids) \in Nat
  BY FS_CardinalityType
<1>5. Cardinality(ids) \in S
  <2> HIDE DEF S
  <2> QED  BY <1>3, <1>4
<1>6. Can(ids, Cardinality(ids))
  <2> HIDE DEF Can
  <2>1. ids \in SUBSET ids
    OBVIOUS
  <2> QED  BY <1>5, <2>1
<1> QED
  BY <1>6

\* What ByPort returns: each id once, by ascending port.
LEMMA ByPortIs ==
  ASSUME NEW rows, NEW ids, IsFiniteSet(ids), \A r \in ids : rows[r].port \in Nat,
         \A r \in ids, q \in ids : r # q => rows[r].port # rows[q].port
  PROVE  LET f == ByPort(rows, ids)
             n == Cardinality(ids)
         IN  /\ n \in Nat /\ DOMAIN f = 1..n /\ Len(f) = n
             /\ {f[k] : k \in 1..n} = ids
             /\ \A k \in 1..(n - 1) : rows[f[k]].port < rows[f[k + 1]].port
<1> DEFINE n == Cardinality(ids)
           f == ByPort(rows, ids)
<1>0. n \in Nat
  BY FS_CardinalityType
<1>1. f \in [1..n -> ids] /\ Sorted(rows, f, n)
  <2>1. \E g \in [1..n -> ids] : Sorted(rows, g, n)
    BY SortedExists
  <2>2. f = CHOOSE g \in [1..n -> ids] : Sorted(rows, g, n)
    BY Zenon DEF ByPort, Sorted
  <2> HIDE DEF f, n
  <2> QED  BY <2>1, <2>2, Zenon
<1> HIDE DEF f
<1>2. f \in Injection(1..n, ids)
  <2>1. ASSUME NEW i \in 1..n, NEW j \in 1..n, f[i] = f[j]
        PROVE  i = j
    <3>1. ~(i < j) /\ ~(j < i)
      BY <1>1, <2>1 DEF Sorted
    <3> QED  BY <1>0, <3>1
  <2>2. DOMAIN f = 1..n
    BY <1>1
  <2>3. IsInjective(f)
    BY <2>1, <2>2 DEF IsInjective
  <2> QED  BY <1>1, <2>3 DEF Injection
<1>3. f \in Surjection(1..n, ids)
  <2>1. Cardinality(1..n) = n
    BY <1>0, FS_Interval
  <2> QED  BY <1>2, <2>1, FS_Injection
<1>4. {f[k] : k \in 1..n} = ids
  BY <1>1, <1>3 DEF Surjection
<1>5. ASSUME NEW k \in 1..(n - 1)
      PROVE  rows[f[k]].port < rows[f[k + 1]].port
  <2>1. k \in 1..n /\ k + 1 \in 1..n /\ k < k + 1
    BY <1>0
  <2>2. f[k] # f[k + 1] /\ rows[f[k]].port <= rows[f[k + 1]].port
    BY <1>1, <2>1 DEF Sorted
  <2>3. f[k] \in ids /\ f[k + 1] \in ids
    BY <1>1, <2>1
  <2>4. rows[f[k]].port \in Nat /\ rows[f[k + 1]].port \in Nat
        /\ rows[f[k]].port # rows[f[k + 1]].port
    BY <2>2, <2>3
  <2> QED  BY <2>2, <2>4
<1>6. DOMAIN f = 1..n /\ Len(f) = n
  <2>1. f \in Seq(ids)
    BY <1>0, <1>1
  <2> QED  BY <1>0, <1>1, <2>1, LenProperties
<1> QED
  BY <1>0, <1>4, <1>5, <1>6 DEF f

\* The number of a state on the wire is its place in the enum.
LEMMA ProtoNumbers ==
  ASSUME NEW s \in {StateNames[n] : n \in 1..4}, NEW n \in 1..4
  PROVE  ToProto(s) = n <=> s = StateNames[n]
<1>1. \A i \in 1..4, j \in 1..4 : StateNames[i] = StateNames[j] => i = j
  BY DEF StateNames
<1>2. \E i \in 1..4 : StateNames[i] = s
  BY Zenon
<1>3. ToProto(s) \in 1..4 /\ StateNames[ToProto(s)] = s
  BY <1>2, Zenon DEF ToProto
<1> QED
  BY <1>1, <1>3, Zenon

\* Does a list request with this owner filter and this state ask for row r?
AskedFor(rows, owner, state, r) ==
  /\ owner # <<>> => IsPrefix(Folded(owner[1]), Folded(rows[r].owner))
  /\ IF state # <<>> /\ state[1] \in 1..4
     THEN ToProto(rows[r].state) = state[1]
     ELSE rows[r].state # "released"

\* The rows a query of list selects, and that the handler's refusal of other
\* filters leaves only this case.
LEMMA ListIs ==
  ASSUME NEW C, NEW rows, NEW owner, NEW state,
         \A r \in DOMAIN rows : /\ rows[r].owner \in Seq(C)
                                /\ rows[r].state \in {StateNames[n] : n \in 1..4},
         owner = <<>> \/ (owner[1] \in Seq(C) /\ ValidateOwner(owner[1]))
  PROVE  List(rows, owner, state) = ByPort(rows, {r \in DOMAIN rows : AskedFor(rows, owner, state, r)})
<1> DEFINE wanted == IF state = <<>> THEN <<>> ELSE FromProto(state[1])
           Hit(r) == /\ owner = <<>> \/ MatchesList(rows[r].owner, owner[1])
                     /\ IF wanted = <<>> THEN rows[r].state # "released"
                        ELSE rows[r].state = wanted[1]
<1>1. List(rows, owner, state) = ByPort(rows, {r \in DOMAIN rows : Hit(r)})
  BY Zenon DEF List
<1>2. IF state # <<>> /\ state[1] \in 1..4
      THEN wanted # <<>> /\ wanted[1] = StateNames[state[1]] ELSE wanted = <<>>
  <2>1. \A v : <<v>> # <<>> /\ <<v>>[1] = v
    OBVIOUS
  <2> QED  BY <2>1, Zenon DEF FromProto
<1>3. ASSUME NEW r \in DOMAIN rows
      PROVE  Hit(r) <=> AskedFor(rows, owner, state, r)
  <2>1. owner # <<>> => (/\ MatchesList(rows[r].owner, owner[1])
                         <=> IsPrefix(Folded(owner[1]), Folded(rows[r].owner)))
    BY LikeSelectsPrefix, Zenon DEF MatchesList
  <2> HIDE DEF wanted
  <2>2. CASE state # <<>> /\ state[1] \in 1..4
    <3> DEFINE x == rows[r].state
               m == state[1]
    <3>0. x \in {StateNames[i] : i \in 1..4} /\ m \in 1..4
      BY <2>2, Zenon
    <3> HIDE DEF x, m
    <3>2. ToProto(x) = m <=> x = StateNames[m]
      BY <3>0, ProtoNumbers
    <3>1. rows[r].state = wanted[1] <=> ToProto(rows[r].state) = state[1]
      BY <1>2, <2>2, <3>2, Zenon DEF x, m
    <3> QED  BY <1>2, <2>1, <2>2, <3>1, Zenon DEF AskedFor
  <2>3. CASE ~(state # <<>> /\ state[1] \in 1..4)
    BY <1>2, <2>1, <2>3, Zenon DEF AskedFor
  <2> QED  BY <2>2, <2>3, Zenon
<1> HIDE DEF Hit
<1>4. {r \in DOMAIN rows : Hit(r)} = {r \in DOMAIN rows : AskedFor(rows, owner, state, r)}
  BY <1>3, Zenon
<1> QED
  BY <1>1, <1>4, Zenon

\* list answers with each row that was asked for exactly once, by ascending
\* port, for any table without two rows of one port and any filter that the
\* handler accepts: no row is lost by the pattern, by the conversion of the
\* state or by the sorting.
THEOREM ListShowsAll ==
  ASSUME NEW C, NEW rows, NEW owner, NEW state,
         IsFiniteSet(DOMAIN rows),
         \A r \in DOMAIN rows : /\ rows[r].port \in Nat /\ rows[r].owner \in Seq(C)
                                /\ rows[r].state \in {StateNames[n] : n \in 1..4},
         \A r \in DOMAIN rows, q \in DOMAIN rows : r # q => rows[r].port # rows[q].port,
         owner = <<>> \/ (owner[1] \in Seq(C) /\ ValidateOwner(owner[1]))
  PROVE  LET f == List(rows, owner, state)
         IN  /\ {f[k] : k \in DOMAIN f} = {r \in DOMAIN rows : AskedFor(rows, owner, state, r)}
             /\ \A k \in 1..(Len(f) - 1) : rows[f[k]].port < rows[f[k + 1]].port
<1> DEFINE ids == {r \in DOMAIN rows : AskedFor(rows, owner, state, r)}
           f == ByPort(rows, ids)
           n == Cardinality(ids)
<1>1. List(rows, owner, state) = f
  BY ListIs
<1>2. ids \subseteq DOMAIN rows
  OBVIOUS
<1>3. IsFiniteSet(ids)
  BY <1>2, FS_Subset
<1> HIDE DEF ids
<1>4. /\ DOMAIN f = 1..n /\ Len(f) = n
      /\ {f[k] : k \in 1..n} = ids
      /\ \A k \in 1..(n - 1) : rows[f[k]].port < rows[f[k + 1]].port
  BY <1>2, <1>3, ByPortIs
<1> HIDE DEF f, n
<1>5. {f[k] : k \in DOMAIN f} = ids /\ \A k \in 1..(Len(f) - 1) : rows[f[k]].port < rows[f[k + 1]].port
  BY <1>4, Zenon
<1> QED
  BY <1>1, <1>5, Zenon DEF ids

LEMMA PairFinite == IsFiniteSet({1, 2})
<1>1. IsFiniteSet(1..2)
  <2>1. 1 \in Int /\ 2 \in Int
    OBVIOUS
  <2> QED  BY <2>1, FS_Interval, Zenon
<1>2. 1..2 = {1, 2}
  OBVIOUS
<1> QED
  BY <1>1, <1>2, Zenon

\* list shows the rows it should, as MCPure calls it.
THEOREM ListAlwaysComplete == Spec => []ListComplete
<1>1. Answered => ListComplete
  <2> SUFFICES ASSUME Answered, Returned("list"), call.owner # <<<<"%">>>>
               PROVE  /\ {result[1][k] : k \in DOMAIN result[1]}
                           = {r \in DOMAIN call.rows : AskedFor(call.rows, call.owner, call.state, r)}
                      /\ \A k \in 1..(Len(result[1]) - 1) :
                           call.rows[result[1][k]].port < call.rows[result[1][k + 1]].port
    BY Zenon DEF ListComplete, AskedFor
  <2> DEFINE owners == {<<"vm", ":", "a">>, <<"VM", ":", "a">>, <<"host", ":", "a">>}
             rows == call.rows
             C == {"vm", "VM", "host", ":", "a"}
  <2>1. call.fn = "list" /\ CallMade /\ result[1] = Value(call)
    BY ReturnedValue
  <2>2. Value(call) = List(rows, call.owner, call.state)
    BY <2>1 DEF Value
  <2>3. /\ rows \in Tables(owners)
        /\ call.owner \in Options({<<"vm", ":">>, <<"host", ":", "a">>, <<"%">>})
    BY <2>1, RequestsMade, Zenon DEF ListMade
  <2>4. \A o \in owners : o \in Seq(C)
    <3>1. <<"vm", ":", "a">> \in Seq(C) /\ <<"VM", ":", "a">> \in Seq(C)
      OBVIOUS
    <3>2. <<"host", ":", "a">> \in Seq(C)
      OBVIOUS
    <3> HIDE DEF C
    <3> QED  BY <3>1, <3>2, Zenon
  <2>5. call.owner = <<>> \/ (call.owner[1] \in Seq(C) /\ ValidateOwner(call.owner[1]))
    <3>1. <<"vm", ":">> \in Seq(C) /\ <<"host", ":", "a">> \in Seq(C)
      OBVIOUS
    <3>2. ValidateOwner(<<"vm", ":">>) /\ ValidateOwner(<<"host", ":", "a">>)
      <4>1. <<"vm", ":">> # <<>> /\ Len(<<"vm", ":">>) <= MaxOwnerLen
        BY PureAssumption, OwnerAssumption
      <4>2. <<"host", ":", "a">> # <<>> /\ Len(<<"host", ":", "a">>) <= MaxOwnerLen
        BY PureAssumption, OwnerAssumption
      <4>3. \A i \in 1..Len(<<"vm", ":">>) : <<"vm", ":">>[i] \in OwnerChars
        BY PureAssumption
      <4>4. \A i \in 1..Len(<<"host", ":", "a">>) : <<"host", ":", "a">>[i] \in OwnerChars
        BY PureAssumption
      <4> QED  BY <4>1, <4>2, <4>3, <4>4, Zenon DEF ValidateOwner
    <3> HIDE DEF C
    <3>3. \/ call.owner = <<>>
          \/ \E v \in {<<"vm", ":">>, <<"host", ":", "a">>, <<"%">>} :
               call.owner = <<v>> /\ call.owner[1] = v
      BY <2>3, OptionOf, Zenon
    <3>4. ASSUME NEW v \in {<<"vm", ":">>, <<"host", ":", "a">>, <<"%">>}, call.owner = <<v>>
          PROVE  v = <<"vm", ":">> \/ v = <<"host", ":", "a">>
      <4>1. v # <<"%">>
        BY <3>4, Zenon
      <4> QED  BY <4>1, Zenon
    <3>5. ASSUME NEW v, v = <<"vm", ":">> \/ v = <<"host", ":", "a">>
          PROVE  v \in Seq(C) /\ ValidateOwner(v)
      BY <3>1, <3>2, <3>5, Zenon
    <3>6. ASSUME call.owner # <<>>
          PROVE  call.owner[1] \in Seq(C) /\ ValidateOwner(call.owner[1])
      <4>1. PICK v \in {<<"vm", ":">>, <<"host", ":", "a">>, <<"%">>} :
                   call.owner = <<v>> /\ call.owner[1] = v
        BY <3>3, <3>6, Zenon
      <4>2. v = <<"vm", ":">> \/ v = <<"host", ":", "a">>
        BY <3>4, <4>1, Zenon
      <4>3. v \in Seq(C) /\ ValidateOwner(v)
        BY <3>5, <4>2, Zenon
      <4> QED  BY <4>1, <4>3, Zenon
    <3> QED  BY <3>6, Zenon
  <2> HIDE DEF C, owners
  <2>6. DOMAIN rows = {1, 2} /\ IsFiniteSet({1, 2})
    <3> QED  BY <2>3, PairFinite, TableRows, Zenon
  <2>7. \A r \in DOMAIN rows : /\ rows[r].port \in Nat /\ rows[r].owner \in Seq(C)
                               /\ rows[r].state \in {StateNames[n] : n \in 1..4}
    <3>1. {1, 2, U16 - 1} \subseteq Nat
      BY DEF U16
    <3>2. \A r \in {1, 2} : /\ rows[r].port \in {1, 2, U16 - 1} /\ rows[r].owner \in owners
                            /\ rows[r].state \in {StateNames[n] : n \in 1..4}
      BY <2>3, TableRows, Zenon
    <3> QED  BY <2>4, <2>6, <3>1, <3>2, Zenon
  <2>8. \A r \in DOMAIN rows, q \in DOMAIN rows : r # q => rows[r].port # rows[q].port
    <3>1. rows[1].port # rows[2].port
      BY <2>3, TableRows, Zenon
    <3> QED  BY <2>6, <3>1, Zenon
  <2> HIDE DEF rows
  <2>9. LET f == List(rows, call.owner, call.state)
        IN  /\ {f[k] : k \in DOMAIN f}
                 = {r \in DOMAIN rows : AskedFor(rows, call.owner, call.state, r)}
            /\ \A k \in 1..(Len(f) - 1) : rows[f[k]].port < rows[f[k + 1]].port
    BY <2>5, <2>6, <2>7, <2>8, ListShowsAll, Zenon
  <2> QED  BY <2>1, <2>2, <2>9, Zenon DEF rows
<1> QED
  BY <1>1, CallsAnswered, PTL

=============================================================================
