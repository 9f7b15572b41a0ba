----------------------------- MODULE MCAESGCM -----------------------------
(* AESGCM for TLC: two keys, four IVs of 12 bytes and a longer one. *)
EXTENDS AESGCM, Bitwise, TLC

CONSTANTS k1, k2, s

TwoKeys == {k1, k2}
Keys    == Permutations(TwoKeys)
OneSalt == {s}
OneLong == {1}

XorOf(a, b) == a ^^ b
=============================================================================
