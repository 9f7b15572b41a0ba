------------------------------- MODULE MCDRBG -------------------------------
(***************************************************************************)
(* DRBG for TLC: which faults the environment may produce is set by the    *)
(* configuration, the rest is named here.                                  *)
(***************************************************************************)
EXTENDS DRBG

CONSTANTS p1, p2, alg, none, zero, a

OneProc    == {p1}
TwoProcs   == {p1, p2}
OneAlg     == {alg}
TwoBlocks  == {zero, a}

AllSizes    == {"pers", "total", "long", "aad"}
SmallOnly   == {}

NoFaults    == {}
AllFaults   == {"katfail", "nomem", "entropy", "gone", "method", "stuck",
               "reuse"}
=============================================================================
