------------------------------ MODULE PortLedger ------------------------------
(***************************************************************************)
(* What port-authority promises: a ledger of which reservation owns which  *)
(* port.  A port is granted only while nobody owns it, to a reservation    *)
(* that owns nothing, and any set of grants can be given up.  A port never *)
(* passes from one owner to the next without being unowned in between.     *)
(***************************************************************************)
CONSTANTS LedgerPorts, LedgerIds

VARIABLE claims                     \* the set of pairs <<port, reservation>>

Init == claims = {}

Claim(p, i) ==
  /\ \A c \in claims : c[1] # p /\ c[2] # i
  /\ claims' = claims \cup {<<p, i>>}

Free(S) == claims' = claims \ S

Next == \/ \E p \in LedgerPorts, i \in LedgerIds : Claim(p, i)
        \/ \E S \in SUBSET claims : Free(S)

Spec == Init /\ [][Next]_claims
=============================================================================
