-------------------------------- MODULE MCPure --------------------------------
(***************************************************************************)
(* Every call of the pure functions of PortAlloc, OwnerNames, Timestamps   *)
(* and ApiCalls over small inputs.  A behaviour is one call: Init picks    *)
(* the function and its arguments, the function's action its result.       *)
(***************************************************************************)
EXTENDS PortAlloc, ApiCalls, Timestamps

CONSTANTS
  MaxPort,  \* bound on the port space of allocate_port
  Years,    \* the years of the dates
  LastYear  \* after all of them

ASSUME PureAssumption == /\ MaxPort \in Nat /\ LastYear \in Nat
                         /\ \A y \in Years : y \in 1970..(LastYear - 1)
                         /\ {"vm", "host", ":", "a"} \subseteq OwnerChars /\ MaxOwnerLen >= 3

VARIABLES
  call,     \* a record: fn and the arguments
  result    \* <<>> before the call returns, then <<value>>

vars == <<call, result>>

-----------------------------------------------------------------------------
(* The inputs. *)

Chars   == {"vm", "VM", "host", ":", "a", "_"}

Heads   == {<<>>, <<"vm", ":">>, <<"VM", ":">>, <<"host", ":">>}
Strings(chars, n) == {h \o t : h \in Heads, t \in UNION {[1..k -> chars] : k \in 0..n}}
OwnerSet  == {o \in Strings({"a", "_", ":"}, 3) : ValidateOwner(o)}
FilterSet == {f \in Strings({"a", "_", ":", "%"}, 2) : f # <<>>}

PortNumbers == {1, 2, 65535, 65536, 65537}
Options(S)  == {<<>>} \cup {<<x>> : x \in S}

\* The tables: no two rows have the same port (Portd's OneRowPerPort).
Tables(owners) ==
  {[r \in {1, 2} |-> [owner |-> o[r], port |-> p[r], state |-> s[r]]] :
     o \in [{1, 2} -> owners], s \in [{1, 2} -> {StateNames[n] : n \in 1..4}],
     p \in {q \in [{1, 2} -> {1, 2, 65535}] : q[1] # q[2]}}

\* "80", "a", "a:b", ":80", "a:b:80", "5:80", "a:<n>".
Targets == {<<80>>, <<-2>>, <<-2, -3>>, <<NoText, 80>>, <<-2, -3, 80>>, <<5, 80>>}
             \cup {<<-2, n>> : n \in PortNumbers \cup {0}}

Files == {<<>>, <<<<>>>>, <<[lease |-> <<>>]>>, <<[lease |-> [cleanup_interval_secs |-> 7]]>>,
          <<[tunnel |-> [max_reconnect_attempts |-> 0], allocation |-> <<>>]>>}

Seconds == {0, 1, 59, 60, 61, 119, 120, 3599, 3600, 3601, 7199, 7200, 86399, 86400,
            86401, 90000, 172799, 172800}

Dates  == {<<y, m, d>> : y \in Years, m \in 1..12, d \in 1..31} \* those the calendar has:
Valid(d) == d[3] <= MonthDays[d[2]] + (IF d[2] = 2 /\ Leap(d[1]) THEN 1 ELSE 0)
Times  == {<<0, 0, 0>>, <<12, 34, 56>>, <<23, 59, 59>>}

AllocateCall ==
  \E pref \in 0..MaxPort, exact \in BOOLEAN, avail \in SUBSET (1..MaxPort) :
    call = [fn |-> "allocate_port", pref |-> pref, exact |-> exact, avail |-> avail]

OwnerCall ==
  \/ \E o \in OwnerSet, q \in OwnerSet : call = [fn |-> "count", o |-> o, q |-> q]
  \/ \E o \in OwnerSet, f \in FilterSet : call = [fn |-> "filter", o |-> o, f |-> f]

TimeCall ==
  \/ \E d \in Dates, t \in Times : Valid(d) /\ call = [fn |-> "timestamp", d |-> d, t |-> t]
  \/ \E d \in {<<2026, NotANumber, 1>>, <<2026, 3>>}, t \in Times :
       call = [fn |-> "timestamp", d |-> d, t |-> t]
  \/ \E a \in Seconds, b \in Seconds : call = [fn |-> "age", created |-> a, now |-> b]

ApiCall ==
  \/ \E t \in Targets, p \in Options(PortNumbers \cup {0}) :
       call = [fn |-> "reserve", target |-> t, preferred |-> p]
  \/ \E rows \in Tables({<<"vm", ":", "a">>}), p \in Options(PortNumbers), i \in Options(1..3) :
       call = [fn |-> "release", rows |-> rows, port |-> p, id |-> i]
  \/ \E rows \in Tables({<<"vm", ":", "a">>, <<"VM", ":", "a">>, <<"host", ":", "a">>}),
       o \in Options({<<"vm", ":">>, <<"host", ":", "a">>, <<"%">>}), s \in Options(0..5) :
       call = [fn |-> "list", rows |-> rows, owner |-> o, state |-> s]
  \/ \E h \in {"reserve", "release", "inspect", "list"} : \E e \in HandlerErrors(h) :
       call = [fn |-> "error", handler |-> h, error |-> e]

SettingsCall ==
  \/ \E xdg \in {<<>>, <<<<"">>>>, <<<<"", "run">>>>}, home \in {<<>>, <<<<"", "home">>>>} :
       call = [fn |-> "socket", env |-> [XDG |-> xdg, HOME |-> home]]
  \/ \E f \in Files : call = [fn |-> "load", file |-> f]
  \/ \E loads \in BOOLEAN, authed \in BOOLEAN, digest \in {1, 2},
       fp \in Options([prefixed : BOOLEAN, digest : {1, 2}]) :
       call = [fn |-> "connect", loads |-> loads, fp |-> fp, digest |-> digest,
               authed |-> authed]

Init == /\ result = <<>>
        /\ AllocateCall \/ OwnerCall \/ TimeCall \/ ApiCall \/ SettingsCall

-----------------------------------------------------------------------------
(* The calls. *)

Returns(fn, value) == /\ call.fn = fn /\ result = <<>>
                      /\ result' = <<value>> /\ UNCHANGED call

AllocateReturns  == Returns("allocate_port", AllocatePort(call.pref, call.exact, call.avail))
CountReturns     == Returns("count", CountsTowards(call.o, call.q))
FilterReturns    == Returns("filter", [list  |-> MatchesList(call.o, call.f),
                                       watch |-> MatchesWatch(call.o, call.f)])
TimestampReturns == Returns("timestamp", ChronoParseNaive(call.d, call.t))
AgeReturns       == Returns("age", FormatAge(call.created, call.now))
ReserveReturns   == Returns("reserve", ReserveArgs(call.target, call.preferred))
ReleaseReturns   == Returns("release", Release(call.rows, Identifier(call.port, call.id)))
ListReturns      == Returns("list", List(call.rows, call.owner, call.state))
ErrorReturns     == Returns("error", StatusOf(call.error))
SocketReturns    == Returns("socket", <<DaemonSocket(call.env), PortctlSocket(call.env),
                                        UiSocket(call.env, <<"", "home">>)>>)
LoadReturns      == Returns("load", Load(call.file))
ConnectReturns   == Returns("connect", ConnectAndAuthenticate(call.loads, call.fp,
                                                              call.digest, call.authed))

Next == \/ AllocateReturns \/ CountReturns \/ FilterReturns \/ TimestampReturns
        \/ AgeReturns \/ ReserveReturns \/ ReleaseReturns \/ ListReturns
        \/ ErrorReturns \/ SocketReturns \/ LoadReturns \/ ConnectReturns

Spec == Init /\ [][Next]_vars

Returned(fn) == call.fn = fn /\ result # <<>>

-----------------------------------------------------------------------------
(* allocate_port. *)

\* The loops of allocate_port return p exactly when p is the port the
\* relation names, and an error exactly when the relation names none: a free
\* preferred port is taken, otherwise the lowest free port at or above it,
\* and only when there is none the lowest one from the start of the range.
ScanMatchesRelation ==
  Returned("allocate_port") =>
    \A p \in 1..MaxPort : (result[1] = p) <=> Allocates(call.pref, call.exact, call.avail, p)

\* What a caller of allocate_port relies on.  With exact_only it gets the
\* port it named or an error, never a neighbour.  PortRangeExhausted is not
\* reported while a port of the range is free.  Without a preference, or with
\* one inside the configured range, the port lies inside the range.  (With a
\* preference outside, "start..preferred" and "preferred..=end" leave it.)
AllocationHonoursRequest ==
  Returned("allocate_port") =>
    LET port  == result[1]
        range == RangeStart..RangeEnd
        exact == call.exact /\ call.pref # NoPort
    IN  /\ exact => port \in {call.pref, NoPort}
        /\ port = NoPort /\ ~exact => range \cap call.avail = {}
        /\ call.pref \in range \cup {NoPort} => port \in range \cup {NoPort}

-----------------------------------------------------------------------------
(* Owners. *)

\* A row counts towards the caller's limit exactly when its owner starts with
\* the caller's prefix, letter case aside: no character of an owner works as
\* a wildcard (broker.rs reserve, escape_like).  So vm:a also pays for vm:aa
\* and for VM:a, and for nothing else; and all services of one VM share one
\* limit, each counting the other's rows.
CountedExactly ==
  Returned("count") =>
    /\ result[1] <=> IsPrefix(Folded(OwnerCountPrefix(call.o)), Folded(call.q))
    /\ IsVm(call.o) /\ IsVm(call.q) /\ VmName(call.o) = VmName(call.q) => result[1]

\* list and watch with the same owner filter agree except about letter case:
\* what watch announces, list shows.
WatchWithinList ==
  Returned("filter") =>
    /\ result[1].watch => result[1].list
    /\ result[1].list /\ Folded(call.o) = call.o /\ Folded(call.f) = call.f => result[1].watch

-----------------------------------------------------------------------------
(* Times. *)

\* Days since 1970-01-01 by the rules of the Gregorian calendar.
Calendar(d) ==
  LET y == d[1] - 1
      before(year) == 365 * year + year \div 4 - year \div 100 + year \div 400
      leapDay == IF Leap(d[1]) /\ d[2] > 2 THEN 1 ELSE 0
      months == <<0, 31, 59, 90, 120, 151, 181, 212, 243, 273, 304, 334>>
  IN  before(y) - before(1969) + months[d[2]] + leapDay + d[3] - 1

\* The daemon's timestamp of a date is the calendar's, over leap years and
\* century years; a text with a part missing has none.
ParseMatchesCalendar ==
  Returned("timestamp") =>
    result[1] = IF Len(Numbers(call.d)) # 3 THEN None
                ELSE <<Calendar(call.d), call.t[1] * 3600 + call.t[2] * 60 + call.t[3]>>

\* portctl shows the very date and time the daemon read from its database,
\* and an age rounded down to the smallest unit shown, no part of it larger
\* than the next unit.
ShownAsStored ==
  /\ Returned("timestamp") /\ result[1] # None
       => FormatTimestamp(result[1], LastYear) = <<call.d, call.t>>
  /\ Returned("age") /\ call.now >= call.created =>
       LET age   == call.now - call.created
           parts == result[1]
           last  == parts[Len(parts)]
           shown == last[1] * last[2] + (IF Len(parts) = 2 THEN parts[1][1] * parts[1][2] ELSE 0)
       IN  /\ shown <= age /\ age < shown + last[2]
           /\ Len(parts) = 2 => last[1] * last[2] < parts[1][2]

-----------------------------------------------------------------------------
(* Calls. *)

\* The target and the preferred port the broker works with are those the user
\* typed: no accepted number changes when it is cut to 16 bits, and a host
\* with colons in it keeps them.
ReserveAsTyped ==
  Returned("reserve") /\ result[1] # <<>> =>
    LET args == result[1][1] IN
    Append(args.host, args.port) = call.target /\ args.preferred = call.preferred

\* A release changes no row but the one named, --port before --id, and by
\* port never a row of another port unless the number exceeds 16 bits; after
\* it the named row is not live.
ActsOnNamed ==
  Returned("release") => \A r \in DOMAIN call.rows :
    LET named == IF call.port # <<>> THEN call.rows[r].port = call.port[1] ELSE call.id = <<r>>
        wraps == call.port # <<>> /\ call.port[1] >= U16
    IN  /\ result[1][r] # call.rows[r] => named \/ wraps
        /\ named => result[1][r].state = "released"

\* list shows each row it should exactly once, by ascending port: all that
\* are not released, or those of the requested state; a state number that is
\* no state counts as none requested.
ListComplete ==
  Returned("list") /\ call.owner # <<<<"%">>>> =>
    LET shown(r) ==
          /\ call.owner # <<>> => IsPrefix(Folded(call.owner[1]), Folded(call.rows[r].owner))
          /\ IF call.state # <<>> /\ call.state[1] \in 1..4
             THEN ToProto(call.rows[r].state) = call.state[1]
             ELSE call.rows[r].state # "released"
    IN  /\ {result[1][k] : k \in DOMAIN result[1]} = {r \in DOMAIN call.rows : shown(r)}
        /\ \A k \in 1..(Len(result[1]) - 1) :
             call.rows[result[1][k]].port < call.rows[result[1][k + 1]].port

\* The web UI takes the status "unavailable" for a daemon that is not there:
\* no error that a handler passes on has it.
UnavailableMeansDown == Returned("error") => ~IsConnectionError(result[1])

\* Without an override the daemon, portctl and the web UI meet at the same
\* socket, as long as XDG_RUNTIME_DIR is not empty and one of it and HOME is
\* set (where neither is, portctl looks in /tmp itself); and a setting that
\* the file does not give has the same value whether the key, its section or
\* the file is missing.
SettingsAgree ==
  /\ /\ Returned("socket") /\ call.env.XDG # <<<<"">>>>
     /\ call.env.XDG # <<>> \/ call.env.HOME # <<>>
     => result[1][1] = result[1][2] /\ result[1][2] = result[1][3]
  /\ Returned("load") => \A s \in DOMAIN Sections : \A k \in Sections[s] :
       result[1][s][k] = IF call.file # <<>> /\ s \in DOMAIN call.file[1]
                              /\ k \in DOMAIN call.file[1][s]
                         THEN call.file[1][s][k] ELSE KeyDefault[k]

\* With a fingerprint in ssh.toml, in either of the forms users paste, a
\* session comes up with the host of that key and with no other.
SessionWithExpectedHost ==
  Returned("connect") /\ call.loads /\ call.authed /\ call.fp # <<>>
    => (result[1] = "session" <=> call.digest = call.fp[1].digest)
=============================================================================
