--------------------------- MODULE PortAllocProofs ---------------------------
(***************************************************************************)
(* The loops of allocate_port compute the relation that the daemon's       *)
(* specification is written with, for every port range and every set of    *)
(* free ports.                                                             *)
(*                                                                         *)
(* The loops are recursive functions, which are reasoned about without an  *)
(* induction rule: a function given in closed form satisfies the recursive *)
(* equation, and where two functions that satisfy it differ there is a     *)
(* last port where they do (the numbers are well-ordered).                 *)
(***************************************************************************)
EXTENDS PortAlloc, WellFoundedInduction, TLAPS

\* Every nonempty set of numbers has a lowest one.
LEMMA LowestExists ==
  ASSUME NEW S \in SUBSET Nat, S # {}
  PROVE  \E p \in S : Lowest(S, p)
<1> DEFINE R == OpToRel(<, Nat)
<1>1. IsWellFoundedOn(R, Nat)
  BY NatLessThanWellFounded, Zenon
<1>2. PICK x \in S : \A y \in S : ~(<<y, x>> \in R)
  <2> HIDE DEF R
  <2> QED  BY <1>1, WFMin
<1>3. \A y \in S : ~(y < x)
  BY <1>2 DEF OpToRel
<1> QED
  BY <1>3 DEF Lowest

\* There is only one.
LEMMA LowestUnique ==
  ASSUME NEW S \in SUBSET Nat, NEW p, NEW q, Lowest(S, p), Lowest(S, q)
  PROVE  p = q
  BY DEF Lowest

\* Induction over the numbers, for a set: the form of the rule that needs no
\* predicate as a parameter.
LEMMA SetInduction ==
  ASSUME NEW S, 0 \in S, \A n \in Nat : n \in S => n + 1 \in S
  PROVE  \A n \in Nat : n \in S
<1> DEFINE Missing == {n \in Nat : n \notin S}
<1>1. SUFFICES ASSUME Missing # {} PROVE FALSE
  OBVIOUS
<1>2. PICK n \in Missing : Lowest(Missing, n)
  BY <1>1, LowestExists
<1>3. n \in Nat /\ n # 0 /\ n \notin S
  OBVIOUS
<1>4. n - 1 \in Nat /\ (n - 1) + 1 = n
  BY <1>3
<1>5. n - 1 \in Missing
  BY <1>3, <1>4
<1> QED
  BY <1>2, <1>3, <1>5 DEF Lowest

\* The body of the scan of FirstFree, as an operator on functions.
ScanBody(f, lo, hi, avail) ==
  [port \in lo..(hi + 1) |->
     IF port > hi THEN NoPort ELSE IF port \in avail THEN port ELSE f[port + 1]]

\* The scan from a port on in closed form.
FirstFrom(port, hi, avail) ==
  IF (port..hi) \cap avail = {} THEN NoPort
  ELSE CHOOSE p \in Nat : Lowest((port..hi) \cap avail, p)

\* What the closed form is.
LEMMA FirstFromIs ==
  ASSUME NEW port \in Nat, NEW hi \in Nat, NEW avail \in SUBSET (Nat \ {0})
  PROVE  /\ (port..hi) \cap avail = {} => FirstFrom(port, hi, avail) = NoPort
         /\ (port..hi) \cap avail # {} =>
              /\ Lowest((port..hi) \cap avail, FirstFrom(port, hi, avail))
              /\ FirstFrom(port, hi, avail) \in Nat \ {0}
<1> DEFINE S == (port..hi) \cap avail
<1>1. S \in SUBSET Nat
  OBVIOUS
<1>2. ASSUME S # {}
      PROVE  Lowest(S, FirstFrom(port, hi, avail)) /\ FirstFrom(port, hi, avail) \in Nat
  <2>1. \E p \in Nat : Lowest(S, p)
    BY <1>1, <1>2, LowestExists
  <2>2. FirstFrom(port, hi, avail) = CHOOSE p \in Nat : Lowest(S, p)
    BY <1>2 DEF FirstFrom
  <2> HIDE DEF S
  <2> QED  BY <2>1, <2>2
<1>3. ASSUME S = {}
      PROVE  FirstFrom(port, hi, avail) = NoPort
  BY <1>3 DEF FirstFrom
<1> QED
  BY <1>2, <1>3 DEF Lowest

\* The closed form satisfies the equation of the scan.
LEMMA ClosedFormScans ==
  ASSUME NEW lo \in Nat, NEW hi \in Nat, NEW avail \in SUBSET (Nat \ {0}),
         NEW g, g = [port \in lo..(hi + 1) |-> FirstFrom(port, hi, avail)]
  PROVE  g = ScanBody(g, lo, hi, avail)
<1>1. ASSUME NEW port \in lo..(hi + 1)
      PROVE  FirstFrom(port, hi, avail) =
               IF port > hi THEN NoPort ELSE IF port \in avail THEN port ELSE g[port + 1]
  <2>1. CASE port > hi
    <3>1. (port..hi) \cap avail = {} /\ port \in Nat
      BY <2>1
    <3> QED  BY <2>1, <3>1, FirstFromIs
  <2>2. CASE port <= hi /\ port \in avail
    <3>1. port \in Nat /\ port \in (port..hi) \cap avail
      BY <2>2
    <3>2. Lowest((port..hi) \cap avail, FirstFrom(port, hi, avail))
      BY <3>1, FirstFromIs
    <3>3. FirstFrom(port, hi, avail) = port
      BY <3>1, <3>2 DEF Lowest
    <3> QED  BY <2>2, <3>3
  <2>3. CASE port <= hi /\ port \notin avail
    <3>1. (port..hi) \cap avail = ((port + 1)..hi) \cap avail
      BY <2>3
    <3>2. FirstFrom(port, hi, avail) = FirstFrom(port + 1, hi, avail)
      <4>1. port \in Nat /\ port + 1 \in Nat
        OBVIOUS
      <4>2. CASE (port..hi) \cap avail = {}
        BY <3>1, <4>1, <4>2, FirstFromIs
      <4>3. CASE (port..hi) \cap avail # {}
        <5> DEFINE S == (port..hi) \cap avail
        <5>1. Lowest(S, FirstFrom(port, hi, avail)) /\ S \subseteq Nat
          BY <4>1, <4>3, FirstFromIs
        <5>2. Lowest(S, FirstFrom(port + 1, hi, avail))
          BY <3>1, <4>1, <4>3, FirstFromIs
        <5> HIDE DEF S
        <5> QED  BY <5>1, <5>2, LowestUnique
      <4> QED  BY <4>2, <4>3
    <3>3. g[port + 1] = FirstFrom(port + 1, hi, avail)
      BY <2>3
    <3> QED  BY <2>3, <3>2, <3>3
  <2> QED  BY <2>1, <2>2, <2>3
<1> QED
  BY <1>1 DEF ScanBody

\* The equation has one solution.
LEMMA ScanUnique ==
  ASSUME NEW lo \in Nat, NEW hi \in Nat, NEW avail,
         NEW f, f = ScanBody(f, lo, hi, avail),
         NEW g, g = ScanBody(g, lo, hi, avail)
  PROVE  \A port \in lo..(hi + 1) : f[port] = g[port]
<1> DEFINE Differ == {n \in Nat : \E port \in lo..(hi + 1) :
                                    n = hi + 1 - port /\ f[port] # g[port]}
<1>1. SUFFICES ASSUME Differ # {} PROVE FALSE
  <2>1. ASSUME NEW port \in lo..(hi + 1), f[port] # g[port]
        PROVE  hi + 1 - port \in Differ
    BY <2>1
  <2> QED  BY <1>1, <2>1
<1>2. PICK n \in Differ : Lowest(Differ, n)
  BY <1>1, LowestExists
<1>3. PICK port \in lo..(hi + 1) : n = hi + 1 - port /\ f[port] # g[port]
  BY <1>2
<1>4. \A h : h = ScanBody(h, lo, hi, avail) =>
        h[port] = IF port > hi THEN NoPort ELSE IF port \in avail THEN port ELSE h[port + 1]
  BY DEF ScanBody
<1>5. port <= hi /\ f[port + 1] # g[port + 1]
  BY <1>3, <1>4
<1>6. n - 1 \in Differ
  BY <1>3, <1>5
<1> QED
  BY <1>2, <1>3, <1>6 DEF Lowest

\* What the for loop returns: the lowest free port of lo..hi, or nothing when
\* there is none.
LEMMA FirstFreeIs ==
  ASSUME NEW lo \in Nat, NEW hi \in Nat, NEW avail \in SUBSET (Nat \ {0})
  PROVE  FirstFree(lo, hi, avail) = FirstFrom(lo, hi, avail)
<1>1. CASE lo > hi
  <2>1. (lo..hi) \cap avail = {}
    BY <1>1
  <2> QED  BY <1>1, <2>1 DEF FirstFree, FirstFrom
<1>2. CASE lo <= hi
  <2> DEFINE scan == CHOOSE f : f = ScanBody(f, lo, hi, avail)
             g == [port \in lo..(hi + 1) |-> FirstFrom(port, hi, avail)]
  <2>1. g = ScanBody(g, lo, hi, avail)
    BY ClosedFormScans
  <2>2. scan = ScanBody(scan, lo, hi, avail)
    <3> HIDE DEF g
    <3> QED  BY <2>1
  <2>3. FirstFree(lo, hi, avail) = scan[lo]
    BY <1>2 DEF FirstFree, ScanBody
  <2>4. scan[lo] = g[lo]
    <3> HIDE DEF g, scan
    <3> QED  BY <1>2, <2>1, <2>2, ScanUnique
  <2> QED  BY <1>2, <2>3, <2>4
<1> QED
  BY <1>1, <1>2

\* The loops and the relation: allocate_port returns port p exactly when the
\* relation of the daemon's specification names p, whatever the range, the
\* preference and the free ports; so what is proved of the daemon with the
\* relation holds of it with the loops.
THEOREM ScansComputeRelation ==
  ASSUME NEW pref \in Nat, NEW exact \in BOOLEAN, NEW avail \in SUBSET (Nat \ {0}),
         NEW p \in Nat \ {0}
  PROVE  AllocatePort(pref, exact, avail) = p <=> Allocates(pref, exact, avail, p)
<1> USE RangeAssumption
<1>1. ASSUME NEW lo \in Nat, NEW hi \in Nat
      PROVE  /\ FirstFree(lo, hi, avail) = p <=> Lowest((lo..hi) \cap avail, p)
             /\ FirstFree(lo, hi, avail) = NoPort <=> (lo..hi) \cap avail = {}
  <2> DEFINE S == (lo..hi) \cap avail
  <2>1. S \subseteq Nat
    OBVIOUS
  <2>2. /\ S = {} => FirstFrom(lo, hi, avail) = NoPort
        /\ S # {} => /\ Lowest(S, FirstFrom(lo, hi, avail))
                     /\ FirstFrom(lo, hi, avail) \in Nat \ {0}
    BY FirstFromIs
  <2>3. FirstFree(lo, hi, avail) = FirstFrom(lo, hi, avail)
    BY FirstFreeIs
  <2> HIDE DEF S
  <2>4. /\ FirstFree(lo, hi, avail) = p <=> Lowest(S, p)
        /\ FirstFree(lo, hi, avail) = NoPort <=> S = {}
    BY <2>1, <2>2, <2>3 DEF Lowest, NoPort
  <2> QED  BY <2>4 DEF S
<1>2. CASE pref = NoPort
  BY <1>1, <1>2 DEF AllocatePort, Allocates
<1>3. CASE pref # NoPort /\ pref \in avail
  BY <1>3 DEF AllocatePort, Allocates
<1>4. CASE pref # NoPort /\ pref \notin avail /\ exact
  BY <1>4 DEF AllocatePort, Allocates, NoPort
<1>5. CASE pref # NoPort /\ pref \notin avail /\ ~exact
  <2>1. pref - 1 \in Nat
    BY <1>5 DEF NoPort
  <2>2. /\ FirstFree(pref, RangeEnd, avail) = p <=> Lowest(Above(pref, avail), p)
        /\ FirstFree(pref, RangeEnd, avail) = NoPort <=> Above(pref, avail) = {}
    BY <1>1 DEF Above
  <2>3. FirstFree(RangeStart, pref - 1, avail) = p
          <=> Lowest((RangeStart..(pref - 1)) \cap avail, p)
    BY <1>1, <2>1
  <2>4. AllocatePort(pref, exact, avail) = Fallback(pref, avail)
    BY <1>5 DEF AllocatePort
  <2>5. Allocates(pref, exact, avail, p) <=>
          \/ Lowest(Above(pref, avail), p)
          \/ /\ Above(pref, avail) = {}
             /\ Lowest((RangeStart..(pref - 1)) \cap avail, p)
    BY <1>5 DEF Allocates
  <2>6. Above(pref, avail) = {} => ~Lowest(Above(pref, avail), p)
    BY DEF Lowest
  <2>7. CASE FirstFree(pref, RangeEnd, avail) = NoPort
    BY <2>2, <2>3, <2>4, <2>5, <2>6, <2>7 DEF Fallback
  <2>8. CASE FirstFree(pref, RangeEnd, avail) # NoPort
    BY <2>2, <2>4, <2>5, <2>8 DEF Fallback
  <2> QED  BY <2>7, <2>8
<1> QED
  BY <1>2, <1>3, <1>4, <1>5

\* The result is a port number or NoPort.
LEMMA AllocatePortType ==
  ASSUME NEW pref \in Nat, NEW exact \in BOOLEAN, NEW avail \in SUBSET (Nat \ {0})
  PROVE  AllocatePort(pref, exact, avail) \in Nat
<1> USE RangeAssumption
<1>1. ASSUME NEW lo \in Nat, NEW hi \in Nat
      PROVE  FirstFree(lo, hi, avail) \in Nat
  <2>1. FirstFree(lo, hi, avail) = FirstFrom(lo, hi, avail)
    BY FirstFreeIs
  <2>2. FirstFrom(lo, hi, avail) \in Nat
    <3>1. CASE (lo..hi) \cap avail = {}
      <4>1. FirstFrom(lo, hi, avail) = NoPort
        BY <3>1, FirstFromIs
      <4> QED  BY <4>1 DEF NoPort
    <3>2. CASE (lo..hi) \cap avail # {}
      BY <3>2, FirstFromIs
    <3> QED  BY <3>1, <3>2
  <2> QED  BY <2>1, <2>2
<1>2. pref # NoPort => pref - 1 \in Nat
  BY DEF NoPort
<1>3. FirstFree(RangeStart, RangeEnd, avail) \in Nat /\ NoPort \in Nat
  BY <1>1 DEF NoPort
<1>4. pref # NoPort => Fallback(pref, avail) \in Nat
  BY <1>1, <1>2 DEF Fallback
<1> QED
  BY <1>3, <1>4 DEF AllocatePort

\* What a caller of allocate_port relies on: with exact_only the very port or
\* an error; no "exhausted" while a port of the range is free; and a port of
\* the range unless the preference lies outside it.
THEOREM AllocationHonoursAnyRequest ==
  ASSUME NEW pref \in Nat, NEW exact \in BOOLEAN, NEW avail \in SUBSET (Nat \ {0})
  PROVE  LET port  == AllocatePort(pref, exact, avail)
             range == RangeStart..RangeEnd
             only  == exact /\ pref # NoPort
         IN  /\ only => port \in {pref, NoPort}
             /\ port = NoPort /\ ~only => range \cap avail = {}
             /\ pref \in range \cup {NoPort} => port \in range \cup {NoPort}
<1> USE RangeAssumption
<1> DEFINE port  == AllocatePort(pref, exact, avail)
           range == RangeStart..RangeEnd
           only  == exact /\ pref # NoPort
<1>0. port \in Nat
  BY AllocatePortType
<1>1. only => port \in {pref, NoPort}
  BY DEF AllocatePort
<1>2. ASSUME port = NoPort, ~only
      PROVE  range \cap avail = {}
  <2>1. SUFFICES ASSUME range \cap avail # {} PROVE FALSE
    OBVIOUS
  <2>2. \A q \in Nat \ {0} : ~Allocates(pref, exact, avail, q)
    BY <1>2, ScansComputeRelation DEF NoPort
  <2>3. ASSUME NEW S \in SUBSET (Nat \ {0}), S # {}
        PROVE  \E q \in Nat \ {0} : Lowest(S, q)
    BY <2>3, LowestExists
  <2>4. CASE pref = NoPort
    BY <2>1, <2>2, <2>3, <2>4 DEF Allocates
  <2>5. CASE pref # NoPort
    <3>1. pref \notin avail /\ ~exact /\ pref \in Nat \ {0}
      BY <1>2, <2>2, <2>5 DEF Allocates, NoPort
    <3>2. Above(pref, avail) = {}
      <4>1. Above(pref, avail) \in SUBSET (Nat \ {0})
        BY DEF Above
      <4> QED  BY <2>2, <2>3, <2>5, <3>1, <4>1 DEF Allocates
    <3>3. (RangeStart..(pref - 1)) \cap avail = {}
      <4>1. (RangeStart..(pref - 1)) \cap avail \in SUBSET (Nat \ {0})
        OBVIOUS
      <4> QED  BY <2>2, <2>3, <2>5, <3>1, <3>2, <4>1 DEF Allocates
    <3> QED  BY <2>1, <3>1, <3>2, <3>3 DEF Above
  <2> QED  BY <2>4, <2>5
<1>3. ASSUME pref \in range \cup {NoPort}, port # NoPort
      PROVE  port \in range
  <2>1. port \in Nat \ {0}
    BY <1>0, <1>3 DEF NoPort
  <2>2. Allocates(pref, exact, avail, port)
    BY <2>1, ScansComputeRelation
  <2> HIDE DEF port
  <2> QED  BY <1>3, <2>2 DEF Allocates, Lowest, Above
<1> QED
  BY <1>1, <1>2, <1>3

=============================================================================
