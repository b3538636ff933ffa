------------------------------ MODULE OwnerNames ------------------------------
(***************************************************************************)
(* Owner strings: how the daemon checks, groups and matches them           *)
(* (grpc.rs validate_owner, broker.rs owner_count_prefix, escape_like and  *)
(* vm_name_from_owner), and SQLite's LIKE, which the broker's queries use. *)
(*                                                                         *)
(* A string is a sequence of characters; "vm", "VM" and "host" each count  *)
(* as one character of the model, since the code only compares them whole. *)
(***************************************************************************)
EXTENDS Naturals, SequencesExt

CONSTANTS
  OwnerChars,   \* characters that are alphanumeric or one of ":-_."
  MaxOwnerLen   \* 128

Backslash == "bs"

ASSUME OwnerAssumption == MaxOwnerLen \in Nat \ {0} /\ {"%", Backslash} \cap OwnerChars = {}

-----------------------------------------------------------------------------
(* SQLite: "s LIKE pattern ESCAPE '\'". *)

\* LIKE ignores the case of ASCII letters.
Fold(c) == IF c = "VM" THEN "vm" ELSE c

Folded(s) == [i \in 1..Len(s) |-> Fold(s[i])]

\* From the end of the pattern to its start: from[i] is the set of places j
\* such that pattern[i..] matches s[j..].
Like(s, pattern) ==
  LET n == Len(pattern)
      m == Len(s)
      from[i \in 1..(n + 2)] ==
        IF i > n THEN {m + 1}
        ELSE CASE pattern[i] = "%" -> {j \in 1..(m + 1) : \E k \in from[i + 1] : j <= k}
               [] pattern[i] = "_" -> {j \in 1..m : j + 1 \in from[i + 1]}
               [] pattern[i] = Backslash ->
                    {j \in 1..m : i < n /\ Fold(pattern[i + 1]) = Fold(s[j]) /\ j + 1 \in from[i + 2]}
               [] OTHER -> {j \in 1..m : Fold(pattern[i]) = Fold(s[j]) /\ j + 1 \in from[i + 1]}
  IN  1 \in from[1]

-----------------------------------------------------------------------------
(* The daemon's functions. *)

ValidateOwner(owner) == /\ owner # <<>> /\ Len(owner) <= MaxOwnerLen
                        /\ \A i \in 1..Len(owner) : owner[i] \in OwnerChars

\* Mutant: the underscore is left out.
EscapeLikeKeepsUnderscore(s) ==
  FlattenSeq([i \in 1..Len(s) |->
    IF s[i] \in {Backslash, "%"} THEN <<Backslash, s[i]>> ELSE <<s[i]>>])

\* The three replacements, backslash first: each special character gets one
\* backslash in front.
EscapeLike(s) ==
  FlattenSeq([i \in 1..Len(s) |->
    IF s[i] \in {Backslash, "%", "_"} THEN <<Backslash, s[i]>> ELSE <<s[i]>>])

PrefixPattern(s) == Append(EscapeLike(s), "%")

IsVm(owner) == IsPrefix(<<"vm", ":">>, owner)

\* The second of the parts that colons separate; only for owners with IsVm.
VmName(owner) ==
  LET ends == {i \in 3..Len(owner) : owner[i] = ":"}
      end  == IF ends = {} THEN Len(owner) + 1
              ELSE CHOOSE i \in ends : \A j \in ends : i <= j
  IN  SubSeq(owner, 3, end - 1)

OwnerCountPrefix(owner) ==
  IF IsVm(owner) THEN <<"vm", ":">> \o VmName(owner) ELSE owner

\* Does a live row of owner q count towards the limit of a caller with owner o?
CountsTowards(o, q) == Like(q, PrefixPattern(OwnerCountPrefix(o)))

\* Mutant: the pattern of list has no trailing "%".
MatchesListWhole(owner, filter) == Like(owner, EscapeLike(filter))

\* The owner filter of list, and that of watch.
MatchesList(owner, filter)  == Like(owner, PrefixPattern(filter))
MatchesWatch(owner, filter) == IsPrefix(filter, owner)
=============================================================================
