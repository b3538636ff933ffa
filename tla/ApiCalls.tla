------------------------------- MODULE ApiCalls -------------------------------
(***************************************************************************)
(* What travels between portctl, the web UI and the daemon: the requests   *)
(* portctl builds (cli main.rs), the daemon's checks and conversions       *)
(* (grpc.rs, types.rs), the queries behind list, inspect and release       *)
(* (broker.rs), the mapping of errors (error.rs, ui errors.ts), and the    *)
(* settings each of them computes for itself (config.rs, cli main.rs, ui   *)
(* grpc.ts).  An Option is <<>> or <<value>>.                              *)
(*                                                                         *)
(* rows is the reservations table: a function from ids to records with     *)
(* owner, port and state.                                                  *)
(***************************************************************************)
EXTENDS Integers, OwnerNames

U16 == 65536                        \* "as u16" keeps the remainder

-----------------------------------------------------------------------------
(* States on the wire. *)

StateNames == <<"pending", "active", "failed", "released">>

ToProto(s) == CHOOSE n \in 1..4 : StateNames[n] = s

\* Mutant: an enum numbered from zero.
FromProtoFromZero(n) == IF n \in 0..3 THEN <<StateNames[n + 1]>> ELSE <<>>

FromProto(n) == IF n \in 1..4 THEN <<StateNames[n]>> ELSE <<>>

-----------------------------------------------------------------------------
(* reserve. *)

\* portctl's parse_target: the last colon separates host and port.  A target
\* is the sequence of its parts between colons: a number for a part that
\* parses as one, a negative one for a part that does not.
NoText == -1                        \* the empty part

ParseTarget(target) ==
  IF Len(target) < 2 \/ target[Len(target)] < 0 THEN <<>>
  ELSE <<[host |-> Front(target), port |-> Last(target)]>>

\* Mutant: the comparison is off by one.
PortAcceptedLoose(port) == ~(port = 0 \/ port > U16)

\* "if port == 0 || port > 65535 { return Err }".
PortAccepted(port) == ~(port = 0 \/ port > U16 - 1)

\* What Broker::reserve is called with; <<>> when portctl or the daemon
\* refuses the arguments.
ReserveArgs(target, preferred) ==
  LET t == ParseTarget(target) IN
  IF \/ t = <<>>
     \/ t # <<>> /\ (t[1].host = <<NoText>> \/ ~PortAccepted(t[1].port))
     \/ preferred # <<>> /\ ~PortAccepted(preferred[1])
  THEN <<>>
  ELSE <<[host |-> t[1].host, port |-> t[1].port % U16,
          preferred |-> IF preferred = <<>> THEN <<>> ELSE <<preferred[1] % U16>>]>>

-----------------------------------------------------------------------------
(* release and inspect. *)

\* Mutant: --id wins over --port.
IdentifierIdFirst(port, id) ==
  IF id # <<>> THEN [by |-> "id", val |-> id[1]]
  ELSE IF port # <<>> THEN [by |-> "port", val |-> port[1]]
  ELSE [by |-> "none", val |-> 0]

\* portctl: "match (port, id)".
Identifier(port, id) ==
  IF port # <<>> THEN [by |-> "port", val |-> port[1]]
  ELSE IF id # <<>> THEN [by |-> "id", val |-> id[1]]
  ELSE [by |-> "none", val |-> 0]

\* get_reservation_by_id finds released rows too, get_reservation_by_port
\* does not; the port is cut to 16 bits without a check.
Found(rows, ident) ==
  IF ident.by = "id" THEN {r \in DOMAIN rows : r = ident.val}
  ELSE {r \in DOMAIN rows : ident.by = "port" /\ rows[r].port = ident.val % U16
                              /\ rows[r].state # "released"}

\* release_by_id, release_by_port and do_release on the table.
Release(rows, ident) ==
  [r \in DOMAIN rows |-> IF r \in Found(rows, ident)
                         THEN [rows[r] EXCEPT !.state = "released"] ELSE rows[r]]

-----------------------------------------------------------------------------
(* list. *)

\* "ORDER BY assigned_port": each of the ids once, by ascending port.
ByPort(rows, ids) ==
  CHOOSE f \in [1..Cardinality(ids) -> ids] :
    \A i, j \in 1..Cardinality(ids) : i < j => f[i] # f[j] /\ rows[f[i]].port <= rows[f[j]].port

\* The handler and Broker::list: ids in the order of ports, or an error.
List(rows, owner, state) ==
  LET wanted == IF state = <<>> THEN <<>> ELSE FromProto(state[1])
      hits == {r \in DOMAIN rows :
                 /\ owner = <<>> \/ MatchesList(rows[r].owner, owner[1])
                 /\ IF wanted = <<>> THEN rows[r].state # "released"
                    ELSE rows[r].state = wanted[1]}
  IN  IF owner # <<>> /\ ~ValidateOwner(owner[1]) THEN <<"invalid_argument">>
      ELSE ByPort(rows, hits)

-----------------------------------------------------------------------------
(* Errors. *)

PortErrors == {"PortUnavailable", "ExactPortUnavailable", "PortRangeExhausted",
  "ReservationNotFound", "VmNotConfigured", "SshConnectionFailed",
  "OwnerLimitExceeded", "Database", "InvalidTransition"}

\* impl From<PortError> for Status.
StatusOf(e) ==
  CASE e \in {"PortUnavailable", "ExactPortUnavailable"}   -> "already_exists"
    [] e \in {"PortRangeExhausted", "OwnerLimitExceeded"}  -> "resource_exhausted"
    [] e = "ReservationNotFound"                           -> "not_found"
    [] e \in {"VmNotConfigured", "InvalidTransition"}      -> "failed_precondition"
    [] e = "SshConnectionFailed"                           -> "unavailable"
    [] e = "Database"                                      -> "internal"

\* start_tunnel's errors; a port it cannot bind is an SSH failure, too.
TunnelErrors == {"VmNotConfigured", "SshConnectionFailed"}

BrokerErrors(fn) ==
  CASE fn = "reserve" -> {"PortUnavailable", "ExactPortUnavailable", "PortRangeExhausted",
                          "OwnerLimitExceeded", "ReservationNotFound", "Database"}
    [] fn \in {"release", "inspect"} -> {"ReservationNotFound", "Database"}
    [] fn = "list" -> {"Database"}

\* Mutant: "start_tunnel(...).await?".
HandlerErrorsWithTunnel(fn) ==
  BrokerErrors(fn) \cup (IF fn = "reserve" THEN TunnelErrors ELSE {})

\* The errors a handler passes on: reserve keeps those of start_tunnel, which
\* make the reservation failed and the answer a success.
HandlerErrors(fn) == BrokerErrors(fn)

\* isConnectionError in the web UI, for an error status.
IsConnectionError(status) == status = "unavailable"

-----------------------------------------------------------------------------
(* The SSH session (tunnel.rs).  A fingerprint in ssh.toml is <<>>, or the  *)
(* digest with or without the prefix "SHA256:".                             *)

\* Mutant: the prefix stays.
BareAsWritten(fp) == <<fp.prefixed, fp.digest>>

\* "strip_prefix("SHA256:").unwrap_or(expected)".
Bare(fp) == <<FALSE, fp.digest>>

\* key::PublicKey::fingerprint has no prefix.
CheckServerKey(expected, digest) ==
  expected # <<>> => Bare(expected[1]) = <<FALSE, digest>>

\* connect_and_authenticate: the key file, the server's key, the user's key.
ConnectAndAuthenticate(keyLoads, expected, digest, authed) ==
  IF keyLoads /\ CheckServerKey(expected, digest) /\ authed THEN "session"
  ELSE "SshConnectionFailed"

-----------------------------------------------------------------------------
(* Settings.  env maps XDG and HOME to <<>> (unset) or <<dir>>; a path is the *)
(* sequence of its components, <<"">> at the front being the root.            *)

Share == <<".local", "share", "portd">>

\* PathBuf::join drops an empty first part, format! keeps the slash.
Joined(dir, rest) == IF dir = <<"">> THEN rest ELSE dir \o rest

\* config.rs default_socket_path.
DaemonSocket(env) ==
  IF env.XDG # <<>> THEN Joined(env.XDG[1], <<"portd.sock">>)
  ELSE (IF env.HOME # <<>> THEN Joined(env.HOME[1], Share) ELSE <<"", "tmp">> \o Share)
         \o <<"portd.sock">>

\* Mutant: the socket directly in the home directory.
PortctlSocketInHome(env) ==
  IF env.XDG # <<>> THEN env.XDG[1] \o <<"portd.sock">>
  ELSE IF env.HOME # <<>> THEN env.HOME[1] \o <<"portd.sock">>
  ELSE <<"", "tmp", "portd.sock">>

\* cli main.rs default_socket_path.
PortctlSocket(env) ==
  IF env.XDG # <<>> THEN env.XDG[1] \o <<"portd.sock">>
  ELSE IF env.HOME # <<>> THEN env.HOME[1] \o Share \o <<"portd.sock">>
  ELSE <<"", "tmp", "portd.sock">>

\* ui grpc.ts resolveSocketPath: an empty variable counts as unset, and
\* homedir() asks the user database when HOME is unset.
UiSocket(env, userHome) ==
  IF env.XDG # <<>> /\ env.XDG # <<<<"">>>> THEN env.XDG[1] \o <<"portd.sock">>
  ELSE (IF env.HOME # <<>> THEN env.HOME[1] ELSE userHome) \o Share \o <<"portd.sock">>

Sections ==
  [allocation |-> {"port_range_start", "port_range_end", "max_reservations_per_owner"},
   tunnel |-> {"health_check_interval_secs", "health_check_timeout_secs",
               "max_reconnect_attempts", "max_connections_per_tunnel",
               "ssh_keepalive_interval_secs"},
   lease |-> {"default_lease_secs", "cleanup_interval_secs", "released_ttl_secs"}]

\* The defaults serde uses for a key that is missing in its section.
KeyDefault ==
  [port_range_start |-> 10000, port_range_end |-> 60000, max_reservations_per_owner |-> 100,
   health_check_interval_secs |-> 30, health_check_timeout_secs |-> 5,
   max_reconnect_attempts |-> 5, max_connections_per_tunnel |-> 100,
   ssh_keepalive_interval_secs |-> 30,
   default_lease_secs |-> 0, cleanup_interval_secs |-> 60, released_ttl_secs |-> 86400]

\* impl Default of each section, for a section that is missing.
SectionDefault(s, k) == KeyDefault[k]

\* load_from, for a file that is absent (<<>>) or maps the sections it has to
\* the keys they give a value.
Load(file) ==
  [s \in DOMAIN Sections |-> [k \in Sections[s] |->
     IF file = <<>> \/ (file # <<>> /\ s \notin DOMAIN file[1]) THEN SectionDefault(s, k)
     ELSE IF k \in DOMAIN file[1][s] THEN file[1][s][k] ELSE KeyDefault[k]]]
=============================================================================
