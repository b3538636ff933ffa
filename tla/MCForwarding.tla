---------------------------- MODULE MCForwarding ----------------------------
(***************************************************************************)
(* Small instances of Forwarding.  Two bytes towards the client of c1, so  *)
(* that a buffer can be written in part, and one towards the server; c2    *)
(* transfers nothing, and competes with c1 for a place.                    *)
(***************************************************************************)
EXTENDS Forwarding

CONSTANTS c1, c2

MCWindow == [c \in {c1, c2} |-> [d \in Directions |->
               IF c = c2 THEN 0 ELSE IF d = "up" THEN 1 ELSE 2]]
=============================================================================
