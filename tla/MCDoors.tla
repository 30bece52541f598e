------------------------------- MODULE MCDoors -------------------------------
(* Doors for TLC: a client and a company, in one browser. *)
EXTENDS Doors

CONSTANTS client, company
MCRoleOf == [u \in Users |-> IF u = client THEN "CLIENT" ELSE "COMPANY"]
=============================================================================
