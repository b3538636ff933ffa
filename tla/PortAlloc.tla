------------------------------ MODULE PortAlloc ------------------------------
(***************************************************************************)
(* Port selection: Broker::allocate_port (crates/daemon/src/broker.rs).    *)
(*                                                                         *)
(* allocate_port takes an optional preferred port, an exact_only flag, and *)
(* the ports that are neither assigned to a live row nor bound by anybody  *)
(* ("avail").  It is given twice: AllocatePort follows the loops of the    *)
(* code, Allocates states the result as a relation without a scan.  The    *)
(* daemon's specification and its proofs use the relation; MCPure          *)
(* checks that the two agree.                                              *)
(***************************************************************************)
EXTENDS Naturals

CONSTANTS RangeStart, RangeEnd      \* AllocationConfig.port_range_{start,end}

ASSUME RangeAssumption == RangeStart \in Nat \ {0} /\ RangeEnd \in Nat

NoPort == 0                         \* Option::None; 0 is rejected by the API

-----------------------------------------------------------------------------
(* The code's scans. *)

\* Mutant: "lo..hi", the last port of the scan is never tried.
FirstFreeHalfOpen(lo, hi, avail) ==
  LET scan[port \in lo..hi] ==
        IF port = hi THEN NoPort
        ELSE IF port \in avail THEN port
        ELSE scan[port + 1]
  IN  IF lo > hi THEN NoPort ELSE scan[lo]

\* "for port in lo..=hi { if free { return port } }", NoPort when it runs out.
FirstFree(lo, hi, avail) ==
  LET scan[port \in lo..(hi + 1)] ==
        IF port > hi THEN NoPort
        ELSE IF port \in avail THEN port
        ELSE scan[port + 1]
  IN  IF lo > hi THEN NoPort ELSE scan[lo]

\* Mutant: the wrapped scan starts one port too late.
FallbackSkipsStart(pref, avail) ==
  LET up == FirstFree(pref, RangeEnd, avail)
  IN  IF up # NoPort THEN up ELSE FirstFree(RangeStart + 1, pref - 1, avail)

\* Upward from the preferred port, then from the start of the range.
Fallback(pref, avail) ==
  LET up == FirstFree(pref, RangeEnd, avail)
  IN  IF up # NoPort THEN up ELSE FirstFree(RangeStart, pref - 1, avail)

\* The port allocate_port returns; NoPort stands for each of its errors.
AllocatePort(pref, exact, avail) ==
  IF pref = NoPort THEN FirstFree(RangeStart, RangeEnd, avail)
  ELSE IF pref \in avail THEN pref
  ELSE IF exact THEN NoPort
  ELSE Fallback(pref, avail)

-----------------------------------------------------------------------------
(* The same choice as a relation. *)

Lowest(S, p) == p \in S /\ \A q \in S : p <= q

Above(pref, avail) == (pref..RangeEnd) \cap avail

Allocates(pref, exact, avail, p) ==
  \/ pref = NoPort /\ Lowest((RangeStart..RangeEnd) \cap avail, p)
  \/ pref # NoPort /\ pref \in avail /\ p = pref
  \/ /\ pref # NoPort /\ pref \notin avail /\ ~exact
     /\ \/ Lowest(Above(pref, avail), p)
        \/ /\ Above(pref, avail) = {}
           /\ Lowest((RangeStart..(pref - 1)) \cap avail, p)
=============================================================================
