---------------------------- MODULE MCWatchStream ----------------------------
(***************************************************************************)
(* A small instance of WatchStream: a host reservation i and a VM          *)
(* reservation j, a watch of everything and a watch of the owner of j.     *)
(***************************************************************************)
EXTENDS WatchStream

CONSTANTS i, j, h, v

MCOwnerOf == [r \in {i, j} |-> IF r = i THEN h ELSE v]
MCFilters == {{h, v, Blank}, {v}}
=============================================================================
