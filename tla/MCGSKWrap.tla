----------------------------- MODULE MCGSKWrap -----------------------------
(* GSKWrap for TLC: two threads, contexts interchangeable. *)
EXTENDS GSKWrap, TLC

CONSTANTS w1, w2

TwoCtx  == {w1, w2}
Threads == Permutations(TwoCtx)
=============================================================================
