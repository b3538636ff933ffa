------------------------------- MODULE MCPortd -------------------------------
(***************************************************************************)
(* Small instances of Portd.  The owners: h = "host:web", g = "grader" (no *)
(* prefix: validate_owner accepts it, the row stays pending and held), and *)
(* v = "vm:smith:web", w = "vm:smith:api", counted together as "vm:smith". *)
(***************************************************************************)
EXTENDS Portd, TLC

CONSTANTS h, g, v, w, t

MCOwners      == {h, g, v, w}
MCHostOwners  == {h}
MCVmOwners    == {v, w}
MCCountedWith == [o \in MCOwners |-> IF o \in {v, w} THEN {v, w} ELSE {o}]

Ask(o, p, x, l) ==
  [owner |-> o, target |-> t, pref |-> p, exact |-> x, leased |-> l]

\* The reserve calls of the runs: port wanted, exact_only, with a lease?
VmCalls     == {Ask(v, 1, TRUE, FALSE), Ask(w, NoPort, FALSE, FALSE)}
Mixed       == {Ask(h, NoPort, FALSE, FALSE), Ask(v, 1, TRUE, FALSE)}
MixedLeased == {Ask(h, NoPort, FALSE, FALSE), Ask(v, 1, TRUE, TRUE)}
CoreCalls   == {Ask(h, NoPort, FALSE, TRUE), Ask(v, 1, TRUE, TRUE)}
LiveCalls   == {Ask(g, 1, FALSE, TRUE), Ask(v, 1, TRUE, TRUE)}

ClientSymmetry == Permutations(Clients)
=============================================================================
