----------------------------- MODULE MCICCStub ------------------------------
(* ICCStub for TLC. *)
EXTENDS ICCStub

CONSTANTS u1, u2, u3

Users == {u1, u2, u3}
=============================================================================
