------------------------------- MODULE MCTRNG -------------------------------
(* TRNG for TLC: three block values, one of them refused. *)
EXTENDS TRNG

CONSTANTS low, a, b

Blocks   == {low, a, b}
LowBlock == {low}
=============================================================================
