------------------------------ MODULE MCICCLib ------------------------------
(* ICCLib for TLC: two threads of the application. *)
EXTENDS ICCLib

CONSTANTS u1, u2

Users == {u1, u2}
=============================================================================
