----------------------------- MODULE MCRandPool -----------------------------
(* RandPool for TLC: threads are their identifiers, as in the code. *)
EXTENDS RandPool

CONSTANT nobody

Threads  == 1 .. 2
AnySize  == {"some", "zero", "invalid"}
=============================================================================
