----------------------------- MODULE OwnerProofs -----------------------------
(***************************************************************************)
(* What the LIKE patterns of the broker select, for owners and filters of  *)
(* any length over any characters: the rows whose owner starts with the    *)
(* text the pattern was made from, letter case aside.                      *)
(*                                                                         *)
(* LIKE and escape_like are recursive functions.  That the equation of one *)
(* has a solution, and what its values are, is proved by SetInduction.     *)
(***************************************************************************)
EXTENDS OwnerNames, PortAllocProofs, SequenceTheorems

-----------------------------------------------------------------------------
(* LIKE. *)

\* The body of the function in Like.
Places(f, s, pattern, i) ==
  LET n == Len(pattern)
      m == Len(s)
  IN  IF i > n THEN {m + 1}
      ELSE CASE pattern[i] = "%" -> {j \in 1..(m + 1) : \E k \in f[i + 1] : j <= k}
             [] pattern[i] = "_" -> {j \in 1..m : j + 1 \in f[i + 1]}
             [] pattern[i] = Backslash ->
                  {j \in 1..m : i < n /\ Fold(pattern[i + 1]) = Fold(s[j]) /\ j + 1 \in f[i + 2]}
             [] OTHER -> {j \in 1..m : Fold(pattern[i]) = Fold(s[j]) /\ j + 1 \in f[i + 1]}

\* The places of one character of the pattern depend on the two after it only.
LEMMA PlacesLocal ==
  ASSUME NEW f, NEW g, NEW s, NEW pattern, NEW i, f[i + 1] = g[i + 1], f[i + 2] = g[i + 2]
  PROVE  Places(f, s, pattern, i) = Places(g, s, pattern, i)
  BY DEF Places

\* The equation of Like has a solution.
LEMMA LikeSolution ==
  ASSUME NEW s, NEW pattern, Len(pattern) \in Nat
  PROVE  \E f : f = [i \in 1..(Len(pattern) + 2) |-> Places(f, s, pattern, i)]
<1> DEFINE n == Len(pattern)
           D == 1..(n + 2)
           Solves(f, k) == /\ f = [i \in D |-> f[i]]
                           /\ \A i \in D : n + 2 - i < k => f[i] = Places(f, s, pattern, i)
           Solved == {k \in Nat : \E f : Solves(f, k)}
<1>1. 0 \in Solved
  <2>1. Solves([i \in D |-> 0], 0)
    OBVIOUS
  <2> QED  BY <2>1
<1>2. ASSUME NEW k \in Nat, k \in Solved
      PROVE  k + 1 \in Solved
  <2>1. PICK f : Solves(f, k)
    BY <1>2
  <2> DEFINE at == n + 2 - k
             g == [i \in D |-> IF i = at THEN Places(f, s, pattern, i) ELSE f[i]]
  <2>2. ASSUME NEW i \in D, n + 2 - i < k + 1
        PROVE  g[i] = Places(g, s, pattern, i)
    <3>1. CASE i = at
      <4>1. g[i] = Places(f, s, pattern, i)
        BY <3>1
      <4>2. Places(f, s, pattern, i) = Places(g, s, pattern, i)
        <5>1. CASE i > n
          BY <5>1 DEF Places
        <5>2. CASE i <= n
          <6>1. i + 1 \in D /\ i + 2 \in D /\ i + 1 # at /\ i + 2 # at
            BY <3>1, <5>2
          <6>2. g[i + 1] = f[i + 1] /\ g[i + 2] = f[i + 2]
            BY <6>1
          <6> HIDE DEF g
          <6> QED  BY <6>2, PlacesLocal
        <5> QED  BY <5>1, <5>2
      <4> QED  BY <4>1, <4>2
    <3>2. CASE i # at
      <4>1. n + 2 - i < k
        BY <2>2, <3>2
      <4>2. g[i] = f[i] /\ f[i] = Places(f, s, pattern, i)
        BY <2>1, <3>2, <4>1
      <4>3. Places(f, s, pattern, i) = Places(g, s, pattern, i)
        <5>1. CASE i > n
          BY <5>1 DEF Places
        <5>2. CASE i <= n
          <6>1. i + 1 \in D /\ i + 2 \in D /\ i + 1 # at /\ i + 2 # at
            BY <4>1, <5>2
          <6>2. g[i + 1] = f[i + 1] /\ g[i + 2] = f[i + 2]
            BY <6>1
          <6> HIDE DEF g
          <6> QED  BY <6>2, PlacesLocal
        <5> QED  BY <5>1, <5>2
      <4> QED  BY <4>2, <4>3
    <3> QED  BY <3>1, <3>2
  <2>3. g = [i \in D |-> g[i]]
    OBVIOUS
  <2> HIDE DEF g
  <2>4. Solves(g, k + 1)
    BY <2>2, <2>3
  <2> QED  BY <2>4
<1>3. \A k \in Nat : k \in Solved
  <2> HIDE DEF Solved
  <2> QED  BY <1>1, <1>2, SetInduction
<1>4. PICK f : Solves(f, n + 2)
  <2>1. n + 2 \in Solved
    <3> HIDE DEF Solved
    <3> QED  BY <1>3
  <2> QED  BY <2>1
<1>5. \A i \in D : f[i] = Places(f, s, pattern, i)
  BY <1>4
<1>6. f = [i \in D |-> Places(f, s, pattern, i)]
  BY <1>4, <1>5
<1> QED
  BY <1>6

\* What Like computes: a function of which all that matters is its equation.
LEMMA LikeIs ==
  ASSUME NEW s, NEW pattern, Len(pattern) \in Nat
  PROVE  \E f : /\ \A i \in 1..(Len(pattern) + 2) : f[i] = Places(f, s, pattern, i)
                /\ Like(s, pattern) <=> 1 \in f[1]
<1> DEFINE from == CHOOSE f : f = [i \in 1..(Len(pattern) + 2) |-> Places(f, s, pattern, i)]
<1>1. from = [i \in 1..(Len(pattern) + 2) |-> Places(from, s, pattern, i)]
  BY LikeSolution
<1>2. Like(s, pattern) <=> 1 \in from[1]
  BY DEF Like, Places
<1> HIDE DEF from
<1>3. \A i \in 1..(Len(pattern) + 2) : from[i] = Places(from, s, pattern, i)
  BY <1>1
<1> QED
  BY <1>2, <1>3

-----------------------------------------------------------------------------
(* escape_like. *)

Special == {Backslash, "%", "_"}

\* One character, escaped.
Escaped(c) == IF c \in Special THEN <<Backslash, c>> ELSE <<c>>

\* The equation of FlattenSeq has a solution.
LEMMA FlattenSolution ==
  ASSUME NEW seqs, NEW n \in Nat
  PROVE  \E f : f = [i \in 1..n |-> IF i = 1 THEN seqs[i] ELSE f[i - 1] \o seqs[i]]
<1> DEFINE Solves(f, k) == f = [i \in 1..k |-> IF i = 1 THEN seqs[i] ELSE f[i - 1] \o seqs[i]]
           Solved == {k \in Nat : \E f : Solves(f, k)}
<1>1. 0 \in Solved
  <2>1. Solves([i \in 1..0 |-> 0], 0)
    OBVIOUS
  <2> QED  BY <2>1
<1>2. ASSUME NEW k \in Nat, k \in Solved
      PROVE  k + 1 \in Solved
  <2>1. PICK f : Solves(f, k)
    BY <1>2
  <2> DEFINE last == IF k = 0 THEN seqs[1] ELSE f[k] \o seqs[k + 1]
             g == [i \in 1..(k + 1) |-> IF i = k + 1 THEN last ELSE f[i]]
  <2>2. ASSUME NEW i \in 1..(k + 1)
        PROVE  g[i] = IF i = 1 THEN seqs[i] ELSE g[i - 1] \o seqs[i]
    <3>1. CASE i = k + 1 /\ i = 1
      BY <3>1
    <3>2. CASE i = k + 1 /\ i # 1
      <4>1. k # 0 /\ i - 1 = k /\ k \in 1..(k + 1) /\ k # k + 1
        BY <3>2
      <4>2. g[i] = f[k] \o seqs[i] /\ g[i - 1] = f[k]
        BY <3>2, <4>1
      <4> HIDE DEF g
      <4> QED  BY <3>2, <4>2
    <3>3. CASE i # k + 1
      <4>1. i \in 1..k /\ (i # 1 => i - 1 \in 1..k)
        BY <3>3
      <4>2. f[i] = IF i = 1 THEN seqs[i] ELSE f[i - 1] \o seqs[i]
        BY <2>1, <4>1
      <4>3. g[i] = f[i] /\ (i # 1 => g[i - 1] = f[i - 1])
        BY <3>3, <4>1
      <4> HIDE DEF g
      <4> QED  BY <4>2, <4>3
    <3> QED  BY <3>1, <3>2, <3>3
  <2>3. g = [i \in 1..(k + 1) |-> g[i]]
    OBVIOUS
  <2> HIDE DEF g
  <2>4. Solves(g, k + 1)
    BY <2>2, <2>3
  <2> HIDE DEF Solves
  <2> QED  BY <2>4
<1>3. \A k \in Nat : k \in Solved
  <2> HIDE DEF Solved
  <2> QED  BY <1>1, <1>2, SetInduction
<1>4. n \in Solved
  <2> HIDE DEF Solved
  <2> QED  BY <1>3
<1> QED
  BY <1>4

\* What escape_like computes, character by character: f[i] is the escaped
\* form of the first i characters.
LEMMA EscapeLikeIs ==
  ASSUME NEW p, Len(p) \in Nat \ {0}
  PROVE  \E f : /\ f[1] = Escaped(p[1])
                /\ \A i \in 2..Len(p) : f[i] = f[i - 1] \o Escaped(p[i])
                /\ EscapeLike(p) = f[Len(p)]
<1> DEFINE n == Len(p)
           seqs == [i \in 1..n |-> Escaped(p[i])]
           f == CHOOSE g : g = [i \in 1..n |-> IF i = 1 THEN seqs[i] ELSE g[i - 1] \o seqs[i]]
<1>0. n \in Nat /\ n # 0
  OBVIOUS
<1>1. EscapeLike(p) = FlattenSeq(seqs)
  BY DEF EscapeLike, Escaped, Special
<1>2. Len(seqs) = n
  BY <1>0
<1>3. f = [i \in 1..n |-> IF i = 1 THEN seqs[i] ELSE f[i - 1] \o seqs[i]]
  <2> HIDE DEF seqs
  <2> QED  BY <1>0, FlattenSolution, Zenon
<1>4. FlattenSeq(seqs) = f[n]
  <2> HIDE DEF seqs
  <2> QED  BY <1>0, <1>2 DEF FlattenSeq
<1>5. \A i \in 1..n : seqs[i] = Escaped(p[i])
  OBVIOUS
<1> HIDE DEF f, seqs
<1>6. \A i \in 1..n : f[i] = IF i = 1 THEN Escaped(p[i]) ELSE f[i - 1] \o Escaped(p[i])
  BY <1>3, <1>5
<1>7. /\ f[1] = Escaped(p[1])
      /\ \A i \in 2..n : f[i] = f[i - 1] \o Escaped(p[i])
  <2>1. 1 \in 1..n /\ \A i \in 2..n : i \in 1..n /\ i # 1
    BY <1>0
  <2> QED  BY <1>6, <2>1, Zenon
<1> QED
  BY <1>1, <1>4, <1>7, Zenon

\* What escape_like appends for one character.
LEMMA EscapedIs ==
  ASSUME NEW C, NEW c \in C
  PROVE  /\ Escaped(c) \in Seq(C \cup Special)
         /\ c \in Special => /\ Len(Escaped(c)) = 2
                             /\ Escaped(c)[1] = Backslash /\ Escaped(c)[2] = c
         /\ c \notin Special => Len(Escaped(c)) = 1 /\ Escaped(c)[1] = c
<1>1. CASE c \in Special
  <2>1. Escaped(c) = <<Backslash, c>> /\ Backslash \in C \cup Special /\ c \in C \cup Special
    BY <1>1, Zenon DEF Escaped, Special
  <2> QED  BY <1>1, <2>1
<1>2. CASE c \notin Special
  <2>1. Escaped(c) = <<c>> /\ c \in C \cup Special
    BY <1>2 DEF Escaped
  <2> QED  BY <1>2, <2>1
<1> QED
  BY <1>1, <1>2

\* escape_like from the empty text on: e[i] is the escaped form of the first i
\* characters.
Builds(e, p) == /\ e[0] = <<>>
                /\ \A i \in 1..Len(p) : e[i] = e[i - 1] \o Escaped(p[i])

\* EscapeLike is built that way.
LEMMA EscapeSteps ==
  ASSUME NEW C, NEW p \in Seq(C)
  PROVE  \E e : Builds(e, p) /\ EscapeLike(p) = e[Len(p)]
<1> DEFINE n == Len(p)
<1>0. n \in Nat
  BY LenProperties
<1>1. CASE n = 0
  <2> DEFINE e == [i \in 0..0 |-> <<>>]
  <2>1. EscapeLike(p) = <<>>
    <3> DEFINE seqs == [i \in 1..n |-> Escaped(p[i])]
    <3>1. EscapeLike(p) = FlattenSeq(seqs)
      BY DEF EscapeLike, Escaped, Special
    <3>2. seqs = <<>> /\ Len(seqs) = 0
      BY <1>1
    <3> HIDE DEF seqs
    <3> QED  BY <3>1, <3>2 DEF FlattenSeq
  <2>2. e[0] = <<>> /\ 1..n = {}
    BY <1>1
  <2> HIDE DEF e
  <2> QED  BY <1>1, <2>1, <2>2, Zenon DEF Builds
<1>2. CASE n # 0
  <2>1. n \in Nat \ {0}
    BY <1>0, <1>2
  <2>2. PICK f : /\ f[1] = Escaped(p[1])
                 /\ \A i \in 2..n : f[i] = f[i - 1] \o Escaped(p[i])
                 /\ EscapeLike(p) = f[n]
    BY <2>1, EscapeLikeIs
  <2> DEFINE e == [i \in 0..n |-> IF i = 0 THEN <<>> ELSE f[i]]
  <2>3. e[0] = <<>> /\ \A i \in 1..n : e[i] = f[i]
    BY <1>0
  <2> HIDE DEF e
  <2>4. p[1] \in C
    BY <2>1, ElementOfSeq
  <2>5. e[1] = e[0] \o Escaped(p[1])
    <3>1. <<>> \o Escaped(p[1]) = Escaped(p[1])
      BY <2>4, EscapedIs, ConcatEmptySeq
    <3>2. 1 \in 1..n
      BY <2>1
    <3> QED  BY <2>2, <2>3, <3>1, <3>2, Zenon
  <2>6. ASSUME NEW i \in 2..n
        PROVE  e[i] = e[i - 1] \o Escaped(p[i])
    <3>1. i \in 1..n /\ i - 1 \in 1..n
      BY <1>0
    <3> QED  BY <2>2, <2>3, <3>1, Zenon
  <2>7. ASSUME NEW i \in 1..n
        PROVE  e[i] = e[i - 1] \o Escaped(p[i])
    <3>1. CASE i = 1
      <4>1. 1 - 1 = 0
        OBVIOUS
      <4> QED  BY <2>5, <3>1, <4>1, Zenon
    <3>2. CASE i # 1
      <4>1. i \in 2..n
        BY <3>2
      <4> QED  BY <2>6, <4>1, Zenon
    <3> QED  BY <3>1, <3>2
  <2>8. EscapeLike(p) = e[n]
    <3>1. n \in 1..n
      BY <2>1
    <3> QED  BY <2>2, <2>3, <3>1, Zenon
  <2> QED  BY <2>3, <2>7, <2>8, Zenon DEF Builds
<1> QED
  BY <1>1, <1>2

\* The escaped forms are sequences, each the beginning of the next.
LEMMA EscapeGrows ==
  ASSUME NEW C, NEW p \in Seq(C), NEW e, Builds(e, p)
  PROVE  /\ \A i \in 0..Len(p) : e[i] \in Seq(C \cup Special)
         /\ \A i \in 1..Len(p) :
              /\ Len(e[i - 1]) <= Len(e[i])
              /\ \A k \in 1..Len(e[i - 1]) : e[i][k] = e[i - 1][k]
<1> DEFINE n == Len(p)
           A == C \cup Special
<1>0. n \in Nat /\ \A i \in 1..n : p[i] \in C
  BY LenProperties, ElementOfSeq
<1>b. e[0] = <<>> /\ \A i \in 1..n : e[i] = e[i - 1] \o Escaped(p[i])
  BY DEF Builds
<1>1. ASSUME NEW i \in 1..n, e[i - 1] \in Seq(A)
      PROVE  /\ e[i] \in Seq(A) /\ Len(e[i - 1]) <= Len(e[i])
             /\ \A k \in 1..Len(e[i - 1]) : e[i][k] = e[i - 1][k]
  <2> DEFINE old == e[i - 1]
             new == Escaped(p[i])
  <2>1. old \in Seq(A) /\ new \in Seq(A) /\ e[i] = old \o new
    BY <1>0, <1>1, <1>b, EscapedIs
  <2> HIDE DEF old, new, A
  <2>2. Len(old) \in Nat /\ Len(new) \in Nat
    BY <2>1, LenProperties
  <2>3. /\ e[i] \in Seq(A) /\ Len(e[i]) = Len(old) + Len(new)
        /\ \A k \in 1..(Len(old) + Len(new)) :
             e[i][k] = IF k <= Len(old) THEN old[k] ELSE new[k - Len(old)]
    BY <2>1, ConcatProperties
  <2>4. Len(old) <= Len(e[i]) /\ \A k \in 1..Len(old) : e[i][k] = old[k]
    BY <2>2, <2>3
  <2> QED  BY <2>3, <2>4 DEF old
<1>2. ASSUME NEW i \in 0..n
      PROVE  e[i] \in Seq(A)
  <2> DEFINE S == {k \in Nat : k <= n => e[k] \in Seq(A)}
  <2>1. 0 \in S
    BY <1>b, EmptySeq
  <2>2. ASSUME NEW k \in Nat, k \in S
        PROVE  k + 1 \in S
    <3>1. CASE k + 1 <= n
      <4>1. k + 1 \in 1..n /\ (k + 1) - 1 = k /\ e[k] \in Seq(A)
        BY <1>0, <2>2, <3>1
      <4>2. e[k + 1] \in Seq(A)
        BY <1>1, <4>1
      <4> QED  BY <4>2
    <3>2. CASE ~(k + 1 <= n)
      BY <3>2
    <3> QED  BY <3>1, <3>2
  <2>3. \A k \in Nat : k \in S
    <3> HIDE DEF S
    <3> QED  BY <2>1, <2>2, SetInduction
  <2> QED  BY <1>0, <2>3
<1>3. \A i \in 1..n : i - 1 \in 0..n
  BY <1>0
<1> QED
  BY <1>1, <1>2, <1>3

\* Each is the beginning of the whole.
LEMMA EscapeBegins ==
  ASSUME NEW C, NEW p \in Seq(C), NEW e, Builds(e, p), NEW i \in 0..Len(p)
  PROVE  /\ Len(e[i]) <= Len(e[Len(p)])
         /\ \A k \in 1..Len(e[i]) : e[Len(p)][k] = e[i][k]
<1> DEFINE n == Len(p)
<1>a. n \in Nat
  BY LenProperties
<1>c. /\ \A h \in 0..n : e[h] \in Seq(C \cup Special)
      /\ \A h \in 1..n : /\ Len(e[h - 1]) <= Len(e[h])
                         /\ \A k \in 1..Len(e[h - 1]) : e[h][k] = e[h - 1][k]
  BY EscapeGrows
<1> DEFINE Begins(h) == Len(e[i]) <= Len(e[h]) /\ \A k \in 1..Len(e[i]) : e[h][k] = e[i][k]
           S == {d \in Nat : i + d <= n => Begins(i + d)}
<1>0. \A h \in 0..n : Len(e[h]) \in Nat
  BY <1>c, LenProperties
<1>1. 0 \in S
  <2>1. i + 0 = i /\ i \in Nat
    BY <1>a
  <2>2. Begins(i)
    BY <1>0
  <2> QED  BY <2>1, <2>2
<1>2. ASSUME NEW d \in Nat, d \in S
      PROVE  d + 1 \in S
  <2>1. CASE i + (d + 1) <= n
    <3> DEFINE h == i + d
    <3>1. h \in 0..n /\ h + 1 \in 1..n /\ (h + 1) - 1 = h /\ i + (d + 1) = h + 1
      BY <1>a, <2>1
    <3>2. Begins(h)
      BY <1>a, <1>2, <2>1
    <3>3. /\ Len(e[h]) <= Len(e[h + 1])
          /\ \A k \in 1..Len(e[h]) : e[h + 1][k] = e[h][k]
      BY <1>c, <3>1
    <3> HIDE DEF h
    <3>4. Len(e[i]) \in Nat /\ Len(e[h]) \in Nat /\ Len(e[h + 1]) \in Nat
      BY <1>a, <1>0, <3>1
    <3>5. Begins(h + 1)
      BY <3>2, <3>3, <3>4
    <3> HIDE DEF Begins
    <3> QED  BY <3>1, <3>5
  <2>2. CASE ~(i + (d + 1) <= n)
    BY <2>2
  <2> QED  BY <2>1, <2>2
<1>3. \A d \in Nat : d \in S
  <2> HIDE DEF S
  <2> QED  BY <1>1, <1>2, SetInduction
<1>4. n - i \in Nat /\ i + (n - i) = n
  BY <1>a
<1>5. n - i \in S
  <2> HIDE DEF S
  <2> QED  BY <1>3, <1>4
<1> HIDE DEF Begins
<1>6. Begins(n)
  BY <1>4, <1>5
<1> QED  BY <1>6 DEF Begins

\* Where the characters of p are in the pattern made from it: pos[i] is the
\* length of the first i characters, escaped.
At(p, pos, i) ==
  LET P == PrefixPattern(p) IN
  IF p[i] \in Special
  THEN pos[i] = pos[i - 1] + 2 /\ P[pos[i - 1] + 1] = Backslash /\ P[pos[i - 1] + 2] = p[i]
  ELSE pos[i] = pos[i - 1] + 1 /\ P[pos[i - 1] + 1] = p[i]

\* The pattern is p, escaped, and a "%".
LEMMA PatternIs ==
  ASSUME NEW C, NEW p \in Seq(C)
  PROVE  \E pos : /\ pos \in [0..Len(p) -> Nat] /\ pos[0] = 0
                  /\ \A i \in 1..Len(p) : At(p, pos, i)
                  /\ \A i \in 0..Len(p) : pos[i] <= pos[Len(p)]
                  /\ Len(PrefixPattern(p)) = pos[Len(p)] + 1
                  /\ PrefixPattern(p)[pos[Len(p)] + 1] = "%"
<1> DEFINE n == Len(p)
           A == C \cup Special
           P == PrefixPattern(p)
<1>0. n \in Nat /\ \A i \in 1..n : p[i] \in C
  BY LenProperties, ElementOfSeq
<1>1. PICK e : Builds(e, p) /\ EscapeLike(p) = e[n]
  BY EscapeSteps
<1>b. e[0] = <<>> /\ \A i \in 1..n : e[i] = e[i - 1] \o Escaped(p[i])
  BY <1>1 DEF Builds
<1> DEFINE pos == [i \in 0..n |-> Len(e[i])]
<1>2. \A i \in 0..n : e[i] \in Seq(A) /\ Len(e[i]) \in Nat
  BY <1>1, EscapeGrows, LenProperties
<1>3. \A i \in 0..n : /\ Len(e[i]) <= Len(e[n])
                      /\ \A k \in 1..Len(e[i]) : e[n][k] = e[i][k]
  BY <1>1, EscapeBegins
<1>4. /\ Len(P) = Len(e[n]) + 1 /\ P[Len(e[n]) + 1] = "%"
      /\ \A k \in 1..Len(e[n]) : P[k] = e[n][k]
  <2>1. P = Append(e[n], "%")
    BY <1>1 DEF PrefixPattern
  <2>2. e[n] \in Seq(A) /\ "%" \in A
    <3>1. n \in 0..n
      BY <1>0
    <3>2. "%" \in A
      BY DEF Special
    <3> QED  BY <1>2, <3>1, <3>2, Zenon
  <2> HIDE DEF P, A
  <2> QED  BY <2>1, <2>2, AppendProperties
<1>5. ASSUME NEW i \in 1..n
      PROVE  At(p, pos, i)
  <2> DEFINE old == e[i - 1]
             new == Escaped(p[i])
  <2>1. i \in 0..n /\ i - 1 \in 0..n /\ p[i] \in C
    BY <1>0
  <2>2. /\ old \in Seq(A) /\ new \in Seq(A) /\ e[i] = old \o new
        /\ Len(old) \in Nat /\ Len(e[i]) \in Nat /\ Len(e[n]) \in Nat /\ Len(e[i]) <= Len(e[n])
    <3>1. n \in 0..n
      BY <1>0
    <3>2. /\ old \in Seq(A) /\ Len(old) \in Nat /\ Len(e[i]) \in Nat /\ Len(e[n]) \in Nat
          /\ Len(e[i]) <= Len(e[n])
      BY <1>2, <1>3, <2>1, <3>1, Zenon
    <3>3. e[i] = old \o new
      BY <1>b, Zenon
    <3>4. new \in Seq(A)
      BY <2>1, EscapedIs, Zenon
    <3> QED  BY <3>2, <3>3, <3>4, Zenon
  <2>3. pos[i] = Len(e[i]) /\ pos[i - 1] = Len(old)
    BY <2>1
  <2>4. /\ p[i] \in Special => Len(new) = 2 /\ new[1] = Backslash /\ new[2] = p[i]
        /\ p[i] \notin Special => Len(new) = 1 /\ new[1] = p[i]
    BY <2>1, EscapedIs
  <2>5. \A k \in 1..Len(e[i]) : P[k] = e[i][k]
    <3>1. \A k \in 1..Len(e[i]) : k \in 1..Len(e[n])
      <4> DEFINE a == Len(e[i])
                 b == Len(e[n])
      <4>1. a \in Nat /\ b \in Nat /\ a <= b
        BY <2>2, Zenon
      <4> HIDE DEF a, b
      <4>2. \A k \in 1..a : k \in 1..b
        BY <4>1
      <4> QED  BY <4>2 DEF a, b
    <3> QED  BY <1>3, <1>4, <2>1, <3>1, Zenon
  <2> HIDE DEF old, new, A, pos, P
  <2>6. /\ Len(e[i]) = Len(old) + Len(new)
        /\ \A k \in 1..(Len(old) + Len(new)) :
             e[i][k] = IF k <= Len(old) THEN old[k] ELSE new[k - Len(old)]
    BY <2>2, ConcatProperties
  <2>7. CASE p[i] \in Special
    <3>1. /\ Len(old) + 1 \in 1..Len(e[i]) /\ Len(old) + 2 \in 1..Len(e[i])
          /\ Len(e[i]) = Len(old) + 2
          /\ (Len(old) + 1) - Len(old) = 1 /\ (Len(old) + 2) - Len(old) = 2
      <4>1. Len(e[i]) = Len(old) + 2 /\ Len(old) \in Nat
        BY <2>2, <2>4, <2>6, <2>7, Zenon
      <4> QED  BY <4>1
    <3>2. e[i][Len(old) + 1] = new[1] /\ e[i][Len(old) + 2] = new[2]
      BY <2>2, <2>6, <3>1
    <3>3. P[Len(old) + 1] = Backslash /\ P[Len(old) + 2] = p[i]
      BY <2>4, <2>5, <2>7, <3>1, <3>2
    <3> QED  BY <2>3, <2>7, <3>1, <3>3 DEF At, P
  <2>8. CASE p[i] \notin Special
    <3>1. /\ Len(old) + 1 \in 1..Len(e[i]) /\ Len(e[i]) = Len(old) + 1
          /\ (Len(old) + 1) - Len(old) = 1
      BY <2>2, <2>4, <2>6, <2>8
    <3>2. e[i][Len(old) + 1] = new[1]
      BY <2>2, <2>6, <3>1
    <3>3. P[Len(old) + 1] = p[i]
      BY <2>4, <2>5, <2>8, <3>1, <3>2
    <3> QED  BY <2>3, <2>8, <3>1, <3>3 DEF At, P
  <2> QED  BY <2>7, <2>8
<1>6. /\ pos \in [0..n -> Nat] /\ pos[0] = 0 /\ pos[n] = Len(e[n])
      /\ \A i \in 0..n : pos[i] <= pos[n]
  <2>1. Len(e[0]) = 0 /\ 0 \in 0..n /\ n \in 0..n
    BY <1>0, <1>b, EmptySeq
  <2> QED  BY <1>2, <1>3, <2>1
<1> HIDE DEF pos
<1> QED
  BY <1>4, <1>5, <1>6

-----------------------------------------------------------------------------
(* LIKE of such a pattern. *)

\* The places of the three kinds of characters such a pattern has.
LEMMA PlacesAny ==
  ASSUME NEW f, NEW s, NEW P, NEW i \in Nat, Len(P) \in Nat, i <= Len(P), P[i] = "%"
  PROVE  Places(f, s, P, i) = {j \in 1..(Len(s) + 1) : \E k \in f[i + 1] : j <= k}
  BY DEF Places, Backslash

LEMMA PlacesEscaped ==
  ASSUME NEW f, NEW s, NEW P, NEW i \in Nat, Len(P) \in Nat, i < Len(P), P[i] = Backslash
  PROVE  Places(f, s, P, i) =
           {j \in 1..Len(s) : Fold(P[i + 1]) = Fold(s[j]) /\ j + 1 \in f[i + 2]}
  BY DEF Places, Backslash

LEMMA PlacesPlain ==
  ASSUME NEW f, NEW s, NEW P, NEW i \in Nat, Len(P) \in Nat, i <= Len(P), P[i] \notin Special
  PROVE  Places(f, s, P, i) = {j \in 1..Len(s) : Fold(P[i]) = Fold(s[j]) /\ j + 1 \in f[i + 1]}
<1>1. P[i] # "%" /\ P[i] # "_" /\ P[i] # Backslash
  BY Zenon DEF Special
<1>2. ~(i > Len(P))
  OBVIOUS
<1> QED
  BY <1>1, <1>2, Zenon DEF Places

\* The characters of p from i + 1 on are those of s from j on, case aside.
Continues(p, s, i, j) ==
  /\ j + (Len(p) - i) <= Len(s) + 1
  /\ \A k \in 1..(Len(p) - i) : Fold(p[i + k]) = Fold(s[j + k - 1])

\* One character more.
LEMMA ContinuesStep ==
  ASSUME NEW p, NEW s, Len(p) \in Nat, Len(s) \in Nat, NEW i \in 1..Len(p), NEW j \in Nat \ {0}
  PROVE  Continues(p, s, i - 1, j) <=>
           j \in 1..Len(s) /\ Fold(p[i]) = Fold(s[j]) /\ Continues(p, s, i, j + 1)
<1> DEFINE n == Len(p)
           m == Len(s)
<1>1. ASSUME Continues(p, s, i - 1, j)
      PROVE  j \in 1..m /\ Fold(p[i]) = Fold(s[j]) /\ Continues(p, s, i, j + 1)
  <2>1. j + (n - i) + 1 <= m + 1
    BY <1>1 DEF Continues
  <2>2. \A k \in 1..(n - (i - 1)) : Fold(p[(i - 1) + k]) = Fold(s[j + k - 1])
    BY <1>1 DEF Continues
  <2>3. Fold(p[i]) = Fold(s[j])
    <3>1. 1 \in 1..(n - (i - 1)) /\ (i - 1) + 1 = i /\ j + 1 - 1 = j
      OBVIOUS
    <3> QED  BY <2>2, <3>1
  <2>4. ASSUME NEW k \in 1..(n - i)
        PROVE  Fold(p[i + k]) = Fold(s[(j + 1) + k - 1])
    <3>1. k + 1 \in 1..(n - (i - 1)) /\ (i - 1) + (k + 1) = i + k
          /\ j + (k + 1) - 1 = (j + 1) + k - 1
      OBVIOUS
    <3> QED  BY <2>2, <3>1
  <2> QED  BY <2>1, <2>3, <2>4 DEF Continues
<1>2. ASSUME j \in 1..m, Fold(p[i]) = Fold(s[j]), Continues(p, s, i, j + 1)
      PROVE  Continues(p, s, i - 1, j)
  <2>1. (j + 1) + (n - i) <= m + 1
        /\ \A k \in 1..(n - i) : Fold(p[i + k]) = Fold(s[(j + 1) + k - 1])
    BY <1>2 DEF Continues
  <2>2. ASSUME NEW k \in 1..(n - (i - 1))
        PROVE  Fold(p[(i - 1) + k]) = Fold(s[j + k - 1])
    <3>1. CASE k = 1
      <4>1. (i - 1) + 1 = i /\ j + 1 - 1 = j
        OBVIOUS
      <4> QED  BY <1>2, <3>1, <4>1
    <3>2. CASE k # 1
      <4>1. k - 1 \in 1..(n - i) /\ i + (k - 1) = (i - 1) + k
            /\ (j + 1) + (k - 1) - 1 = j + k - 1
        BY <3>2
      <4> QED  BY <2>1, <4>1
    <3> QED  BY <3>1, <3>2
  <2>3. j + (n - (i - 1)) <= m + 1
    BY <2>1
  <2> QED  BY <2>2, <2>3 DEF Continues
<1> QED
  BY <1>1, <1>2

\* The pattern of p from p[i + 1] on matches s from j on exactly when p goes on
\* as s does.
LEMMA PlacesOfPattern ==
  ASSUME NEW C, NEW p \in Seq(C), NEW s \in Seq(C), NEW f,
         \A i \in 1..(Len(PrefixPattern(p)) + 2) : f[i] = Places(f, s, PrefixPattern(p), i)
  PROVE  \A j \in 1..(Len(s) + 1) : j \in f[1] <=> Continues(p, s, 0, j)
<1> DEFINE n == Len(p)
           m == Len(s)
           P == PrefixPattern(p)
<1>0. n \in Nat /\ m \in Nat
  BY LenProperties
<1>1. PICK pos : /\ pos \in [0..n -> Nat] /\ pos[0] = 0
                 /\ \A i \in 1..n : At(p, pos, i)
                 /\ \A i \in 0..n : pos[i] <= pos[n]
                 /\ Len(P) = pos[n] + 1 /\ P[pos[n] + 1] = "%"
  BY PatternIs
<1> DEFINE Agree(i) == \A j \in 1..(m + 1) : j \in f[pos[i] + 1] <=> Continues(p, s, i, j)
           S == {d \in Nat : d <= n => Agree(n - d)}
<1>2. \A i \in 0..n : pos[i] \in Nat /\ pos[i] <= pos[n]
  BY <1>1
<1>3. Len(P) \in Nat /\ \A i \in Nat \ {0} : i <= pos[n] + 3 => f[i] = Places(f, s, P, i)
  <2>1. Len(P) = pos[n] + 1 /\ pos[n] \in Nat
    BY <1>0, <1>1, <1>2
  <2>2. \A i \in 1..(Len(P) + 2) : f[i] = Places(f, s, P, i)
    OBVIOUS
  <2> HIDE DEF P
  <2> QED  BY <2>1, <2>2
<1> HIDE DEF P
<1>4. Agree(n)
  <2> DEFINE q == pos[n] + 1
  <2>1. q \in Nat \ {0} /\ q = Len(P) /\ P[q] = "%" /\ q + 1 > Len(P) /\ q + 1 <= pos[n] + 3
        /\ q <= pos[n] + 3
    BY <1>0, <1>1, <1>2
  <2>2. f[q + 1] = {m + 1}
    <3>1. f[q + 1] = Places(f, s, P, q + 1)
      BY <1>3, <2>1
    <3> QED  BY <2>1, <3>1, Zenon DEF Places
  <2>3. f[q] = {j \in 1..(m + 1) : \E k \in f[q + 1] : j <= k}
    BY <1>3, <2>1, PlacesAny
  <2>4. \A j \in 1..(m + 1) : j \in f[q] /\ Continues(p, s, n, j)
    BY <1>0, <2>2, <2>3 DEF Continues
  <2> QED  BY <2>4
<1>5. ASSUME NEW i \in 1..n, Agree(i)
      PROVE  Agree(i - 1)
  <2> DEFINE a == pos[i - 1]
  <2>1. a \in Nat /\ pos[i] \in Nat /\ a <= pos[n] /\ pos[i] <= pos[n] /\ pos[n] \in Nat
        /\ i - 1 \in 0..n
    BY <1>0, <1>2
  <2>2. At(p, pos, i)
    BY <1>1
  <2>3. \A j \in 1..(m + 1) :
          j \in f[a + 1] <=> j \in 1..m /\ Fold(p[i]) = Fold(s[j]) /\ j + 1 \in f[pos[i] + 1]
    <3>1. CASE p[i] \in Special
      <4>1. pos[i] = a + 2 /\ P[a + 1] = Backslash /\ P[(a + 1) + 1] = p[i]
        BY <2>1, <2>2, <3>1 DEF At, P
      <4>2. a + 1 < Len(P) /\ a + 1 \in Nat /\ a + 1 \in Nat \ {0} /\ a + 1 <= pos[n] + 3
            /\ (a + 1) + 2 = pos[i] + 1
        <5>1. pos[i] = a + 2 /\ Len(P) = pos[n] + 1
          BY <1>1, <4>1, Zenon
        <5> HIDE DEF a
        <5> QED  BY <2>1, <5>1
      <4>3. f[a + 1] = {j \in 1..m : Fold(p[i]) = Fold(s[j]) /\ j + 1 \in f[pos[i] + 1]}
        <5>1. f[a + 1] = Places(f, s, P, a + 1)
          BY <1>3, <4>2, Zenon
        <5>2. Places(f, s, P, a + 1) =
                {j \in 1..m : Fold(P[(a + 1) + 1]) = Fold(s[j]) /\ j + 1 \in f[(a + 1) + 2]}
          BY <1>3, <4>1, <4>2, PlacesEscaped
        <5> QED  BY <4>1, <4>2, <5>1, <5>2, Zenon
      <4> QED  BY <4>3
    <3>2. CASE p[i] \notin Special
      <4>1. pos[i] = a + 1 /\ P[a + 1] = p[i]
        BY <2>1, <2>2, <3>2 DEF At, P
      <4>2. a + 1 <= Len(P) /\ a + 1 \in Nat /\ a + 1 \in Nat \ {0} /\ a + 1 <= pos[n] + 3
            /\ (a + 1) + 1 = pos[i] + 1
        BY <1>1, <2>1, <4>1
      <4>3. f[a + 1] = {j \in 1..m : Fold(p[i]) = Fold(s[j]) /\ j + 1 \in f[pos[i] + 1]}
        <5>1. f[a + 1] = Places(f, s, P, a + 1)
          BY <1>3, <4>2, Zenon
        <5>2. Places(f, s, P, a + 1) =
                {j \in 1..m : Fold(P[a + 1]) = Fold(s[j]) /\ j + 1 \in f[(a + 1) + 1]}
          <6> DEFINE here == a + 1
          <6>1. here \in Nat /\ Len(P) \in Nat /\ here <= Len(P) /\ P[here] \notin Special
            BY <1>3, <3>2, <4>1, <4>2, Zenon
          <6> HIDE DEF here
          <6>2. Places(f, s, P, here) =
                  {j \in 1..m : Fold(P[here]) = Fold(s[j]) /\ j + 1 \in f[here + 1]}
            BY <6>1, PlacesPlain
          <6> QED  BY <6>2, Zenon DEF here
        <5> QED  BY <4>1, <4>2, <5>1, <5>2, Zenon
      <4> QED  BY <4>3
    <3> QED  BY <3>1, <3>2
  <2> SUFFICES ASSUME NEW j \in 1..(m + 1)
               PROVE  j \in f[a + 1] <=> Continues(p, s, i - 1, j)
    OBVIOUS
  <2>4. j \in 1..m => (j + 1 \in f[pos[i] + 1] <=> Continues(p, s, i, j + 1))
    BY <1>0, <1>5
  <2>5. Continues(p, s, i - 1, j) <=>
          j \in 1..m /\ Fold(p[i]) = Fold(s[j]) /\ Continues(p, s, i, j + 1)
    <3>1. j \in Nat \ {0}
      BY <1>0
    <3> QED  BY <1>0, <3>1, ContinuesStep
  <2> QED  BY <2>3, <2>4, <2>5
<1> HIDE DEF Agree
<1>6. 0 \in S
  BY <1>0, <1>4
<1>7. ASSUME NEW d \in Nat, d \in S
      PROVE  d + 1 \in S
  <2>1. CASE d + 1 <= n
    <3>1. n - d \in 1..n /\ Agree(n - d) /\ (n - d) - 1 = n - (d + 1)
      BY <1>0, <1>7, <2>1
    <3>2. Agree(n - (d + 1))
      BY <1>5, <3>1
    <3> QED  BY <3>2
  <2>2. CASE ~(d + 1 <= n)
    BY <2>2
  <2> QED  BY <2>1, <2>2
<1>8. \A d \in Nat : d \in S
  <2> HIDE DEF S
  <2> QED  BY <1>6, <1>7, SetInduction
<1>9. Agree(0)
  <2>1. n \in S
    <3> HIDE DEF S
    <3> QED  BY <1>0, <1>8
  <2>2. n - n = 0
    BY <1>0
  <2> QED  BY <1>0, <2>1, <2>2
<1> QED
  <2>1. pos[0] + 1 = 1
    BY <1>1
  <2> QED  BY <1>9, <2>1 DEF Agree

\* A text is a prefix of another when it is no longer and has its characters.
LEMMA PrefixIs ==
  ASSUME NEW A, NEW B, NEW p \in Seq(A), NEW s \in Seq(B)
  PROVE  IsPrefix(p, s) <=> Len(p) <= Len(s) /\ \A i \in 1..Len(p) : p[i] = s[i]
<1> DEFINE n == Len(p)
           m == Len(s)
<1>0. n \in Nat /\ m \in Nat
  BY LenProperties
<1>1. IsPrefix(p, s) <=> n <= m /\ SubSeq(p, 1, n) = SubSeq(s, 1, n)
  BY DEF IsPrefix
<1>2. SubSeq(p, 1, n) = [i \in 1..n |-> p[i]]
  BY <1>0
<1>3. SubSeq(s, 1, n) = [i \in 1..n |-> s[i]]
  BY <1>0
<1> QED
  BY <1>1, <1>2, <1>3

\* What Folded does.
LEMMA FoldedIs ==
  ASSUME NEW A, NEW s \in Seq(A)
  PROVE  /\ Folded(s) \in Seq({Fold(c) : c \in A}) /\ Len(Folded(s)) = Len(s)
         /\ \A i \in 1..Len(s) : Folded(s)[i] = Fold(s[i])
<1>0. Len(s) \in Nat /\ \A i \in 1..Len(s) : s[i] \in A
  BY LenProperties, ElementOfSeq
<1> QED
  BY <1>0 DEF Folded

\* One text is a prefix of another, letter case aside.
LEMMA FoldedPrefixIs ==
  ASSUME NEW C, NEW p \in Seq(C), NEW s \in Seq(C)
  PROVE  IsPrefix(Folded(p), Folded(s)) <=>
           Len(p) <= Len(s) /\ \A i \in 1..Len(p) : Fold(p[i]) = Fold(s[i])
<1> DEFINE A == {Fold(c) : c \in C}
           P == Folded(p)
           S == Folded(s)
<1>0. Len(p) \in Nat /\ Len(s) \in Nat
  BY LenProperties
<1>1. /\ P \in Seq(A) /\ Len(P) = Len(p) /\ \A i \in 1..Len(p) : P[i] = Fold(p[i])
      /\ S \in Seq(A) /\ Len(S) = Len(s) /\ \A i \in 1..Len(s) : S[i] = Fold(s[i])
  BY FoldedIs
<1> HIDE DEF A, P, S
<1>2. IsPrefix(P, S) <=> Len(P) <= Len(S) /\ \A i \in 1..Len(P) : P[i] = S[i]
  BY <1>1, PrefixIs
<1> QED
  BY <1>0, <1>1, <1>2 DEF P, S

\* The broker's LIKE queries with an escaped pattern and a "%" select the rows
\* whose text starts with the one the pattern was made from, letter case
\* aside: for texts of any length over any characters, the wildcards and the
\* escape character included.
THEOREM LikeSelectsPrefix ==
  ASSUME NEW C, NEW p \in Seq(C), NEW s \in Seq(C)
  PROVE  Like(s, PrefixPattern(p)) <=> IsPrefix(Folded(p), Folded(s))
<1> DEFINE P == PrefixPattern(p)
<1>0. Len(p) \in Nat /\ Len(s) \in Nat
  BY LenProperties
<1>1. Len(P) \in Nat
  <2>1. PICK pos : /\ pos \in [0..Len(p) -> Nat] /\ Len(P) = pos[Len(p)] + 1
    BY PatternIs
  <2> HIDE DEF P
  <2> QED  BY <1>0, <2>1
<1>2. PICK f : /\ \A i \in 1..(Len(P) + 2) : f[i] = Places(f, s, P, i)
               /\ Like(s, P) <=> 1 \in f[1]
  BY <1>1, LikeIs
<1>3. \A j \in 1..(Len(s) + 1) : j \in f[1] <=> Continues(p, s, 0, j)
  BY <1>2, PlacesOfPattern
<1>4. Like(s, P) <=> Continues(p, s, 0, 1)
  BY <1>0, <1>2, <1>3
<1>5. Continues(p, s, 0, 1) <=>
        Len(p) <= Len(s) /\ \A i \in 1..Len(p) : Fold(p[i]) = Fold(s[i])
  BY <1>0 DEF Continues
<1> QED
  BY <1>4, <1>5, FoldedPrefixIs

-----------------------------------------------------------------------------
(* Counting towards a limit. *)

\* A prefix is one with letter case aside, too.
LEMMA PrefixFolds ==
  ASSUME NEW C, NEW p \in Seq(C), NEW s \in Seq(C), IsPrefix(p, s)
  PROVE  IsPrefix(Folded(p), Folded(s))
<1>1. Len(p) \in Nat /\ Len(s) \in Nat
  BY LenProperties
<1>2. Len(p) <= Len(s) /\ \A i \in 1..Len(p) : p[i] = s[i]
  BY PrefixIs
<1> QED
  BY <1>1, <1>2, FoldedPrefixIs

\* Where the name of a VM ends: before the first colon after it.
LEMMA VmNameIs ==
  ASSUME NEW C, NEW o \in Seq(C), 2 <= Len(o)
  PROVE  \E end \in 3..(Len(o) + 1) : VmName(o) = SubSeq(o, 3, end - 1)
<1> DEFINE ends == {i \in 3..Len(o) : o[i] = ":"}
           end == IF ends = {} THEN Len(o) + 1
                  ELSE CHOOSE i \in ends : \A j \in ends : i <= j
<1>0. Len(o) \in Nat
  BY LenProperties
<1>1. VmName(o) = SubSeq(o, 3, end - 1)
  BY DEF VmName
<1>2. end \in 3..(Len(o) + 1)
  <2>1. CASE ends = {}
    BY <1>0, <2>1
  <2>2. CASE ends # {}
    <3>1. ends \in SUBSET Nat
      BY <1>0
    <3> HIDE DEF ends
    <3>2. \E i \in ends : \A j \in ends : i <= j
      BY <2>2, <3>1, LowestExists DEF Lowest
    <3>3. end \in ends
      BY <2>2, <3>2
    <3> QED  BY <1>0, <3>3, SMTT(30) DEF ends
  <2> QED  BY <2>1, <2>2
<1> HIDE DEF end
<1> QED
  BY <1>1, <1>2

\* What the owner of a VM is counted by is the beginning of that owner.
LEMMA VmCountPrefix ==
  ASSUME NEW C, NEW o \in Seq(C), IsVm(o)
  PROVE  OwnerCountPrefix(o) \in Seq(C) /\ IsPrefix(OwnerCountPrefix(o), o)
<1> DEFINE head == <<"vm", ":">>
<1>0. Len(o) \in Nat /\ \A i \in 1..Len(o) : o[i] \in C
  BY LenProperties, ElementOfSeq
<1>1. head \in Seq({"vm", ":"}) /\ Len(head) = 2 /\ head[1] = "vm" /\ head[2] = ":"
  OBVIOUS
<1> HIDE DEF head
<1>2. 2 <= Len(o) /\ o[1] = head[1] /\ o[2] = head[2]
  <2>1. IsPrefix(head, o)
    BY DEF IsVm, head
  <2>2. Len(head) <= Len(o) /\ \A i \in 1..Len(head) : head[i] = o[i]
    BY <1>1, <2>1, PrefixIs
  <2> QED  BY <1>0, <1>1, <2>2
<1>3. head \in Seq(C)
  <2>1. "vm" \in C /\ ":" \in C
    BY <1>0, <1>1, <1>2
  <2> QED  BY <2>1 DEF head
<1>4. PICK end \in 3..(Len(o) + 1) : VmName(o) = SubSeq(o, 3, end - 1)
  BY <1>2, VmNameIs
<1> DEFINE name == SubSeq(o, 3, end - 1)
           prefix == head \o name
<1>5. OwnerCountPrefix(o) = prefix
  BY <1>4 DEF OwnerCountPrefix, head
<1>6. /\ name \in Seq(C) /\ Len(name) = end - 3
      /\ \A i \in 1..(end - 3) : name[i] = o[i + 2]
  <2>1. name = [i \in 1..(end - 3) |-> o[i + 2]]
    <3>1. end - 1 \in Int /\ 3 \in Int /\ (end - 1) - 3 + 1 = end - 3
      BY <1>0
    <3>2. \A i \in 1..(end - 3) : 3 + i - 1 = i + 2
      BY <1>0
    <3> QED  BY <3>1, <3>2
  <2>2. end - 3 \in Nat /\ \A i \in 1..(end - 3) : o[i + 2] \in C
    BY <1>0
  <2> HIDE DEF name
  <2> QED  BY <2>1, <2>2
<1> HIDE DEF name
<1>7. /\ prefix \in Seq(C) /\ Len(prefix) = end - 1
      /\ \A i \in 1..(end - 1) : prefix[i] = IF i <= 2 THEN head[i] ELSE name[i - 2]
  <2>1. /\ prefix \in Seq(C) /\ Len(prefix) = Len(head) + Len(name)
        /\ \A i \in 1..(Len(head) + Len(name)) :
             prefix[i] = IF i <= Len(head) THEN head[i] ELSE name[i - Len(head)]
    BY <1>3, <1>6, ConcatProperties
  <2>2. Len(head) + Len(name) = end - 1
    BY <1>0, <1>1, <1>6
  <2> QED  BY <1>1, <2>1, <2>2
<1> HIDE DEF prefix
<1>8. Len(prefix) <= Len(o)
  BY <1>0, <1>7
<1>9. ASSUME NEW i \in 1..Len(prefix)
      PROVE  prefix[i] = o[i]
  <2>0. i \in 1..(end - 1)
    BY <1>7
  <2>1. CASE i <= 2
    <3>1. i = 1 \/ i = 2
      BY <1>0, <2>0, <2>1
    <3> QED  BY <1>2, <1>7, <2>0, <2>1, <3>1
  <2>2. CASE i > 2
    <3>1. i - 2 \in 1..(end - 3) /\ (i - 2) + 2 = i /\ ~(i <= 2)
      BY <1>0, <2>0, <2>2
    <3> QED  BY <1>6, <1>7, <2>0, <3>1
  <2> QED  BY <1>0, <2>0, <2>1, <2>2
<1>10. IsPrefix(prefix, o)
  BY <1>7, <1>8, <1>9, PrefixIs
<1> QED
  BY <1>5, <1>7, <1>10

\* For any two owners: a row of q counts towards the limit of o exactly when
\* its owner starts with o's prefix, letter case aside, and the services of
\* one VM count each other's rows (reserve, owner_count_prefix, escape_like).
THEOREM CountsByPrefix ==
  ASSUME NEW C, NEW o \in Seq(C), NEW q \in Seq(C)
  PROVE  /\ CountsTowards(o, q) <=> IsPrefix(Folded(OwnerCountPrefix(o)), Folded(q))
         /\ IsVm(o) /\ IsVm(q) /\ VmName(o) = VmName(q) => CountsTowards(o, q)
<1>1. OwnerCountPrefix(o) \in Seq(C)
  <2>1. CASE IsVm(o)
    BY <2>1, VmCountPrefix
  <2>2. CASE ~IsVm(o)
    BY <2>2, Zenon DEF OwnerCountPrefix
  <2> QED  BY <2>1, <2>2
<1>2. CountsTowards(o, q) <=> IsPrefix(Folded(OwnerCountPrefix(o)), Folded(q))
  BY <1>1, LikeSelectsPrefix DEF CountsTowards
<1>3. ASSUME IsVm(o), IsVm(q), VmName(o) = VmName(q)
      PROVE  CountsTowards(o, q)
  <2>1. OwnerCountPrefix(o) = OwnerCountPrefix(q)
    BY <1>3, Zenon DEF OwnerCountPrefix
  <2>2. IsPrefix(OwnerCountPrefix(o), q)
    BY <1>3, <2>1, VmCountPrefix
  <2> QED  BY <1>1, <1>2, <2>2, PrefixFolds
<1> QED
  BY <1>2, <1>3

-----------------------------------------------------------------------------
(* The owner filters. *)

\* For any owner and filter, of any characters: what watch announces under a
\* filter, list shows under it, and where neither has upper case letters the
\* two select the same owners (list_reservations, watch).
THEOREM WatchSelectsWithinList ==
  ASSUME NEW C, NEW o \in Seq(C), NEW f \in Seq(C)
  PROVE  /\ MatchesWatch(o, f) => MatchesList(o, f)
         /\ MatchesList(o, f) /\ Folded(o) = o /\ Folded(f) = f => MatchesWatch(o, f)
<1>1. MatchesList(o, f) <=> IsPrefix(Folded(f), Folded(o))
  BY LikeSelectsPrefix DEF MatchesList
<1>2. MatchesWatch(o, f) => MatchesList(o, f)
  BY <1>1, PrefixFolds DEF MatchesWatch
<1>3. MatchesList(o, f) /\ Folded(o) = o /\ Folded(f) = f => MatchesWatch(o, f)
  BY <1>1, Zenon DEF MatchesWatch
<1> QED
  BY <1>2, <1>3

=============================================================================
