----------------------------- MODULE SeedSource -----------------------------
(***************************************************************************)
(* What the users of a TRNG (icc/TRNG) rely on when they ask it for a      *)
(* seed: the request is answered, and either with a seed whose every block *)
(* passed the output check and which differs from the seed before it, or   *)
(* with an error, which is fatal to the library.                           *)
(***************************************************************************)
EXTENDS Integers, Sequences

CONSTANTS
  Block,     \* the values of a conditioned block
  Low,       \* the values the output check refuses
  MaxLen     \* bound: blocks in one request

VARIABLES
  asked,     \* blocks the request in progress asks for, 0 when there is none
  last,      \* the last seed delivered
  fatal      \* the library's error state

vars == <<asked, last, fatal>>

Seeds(n) == [1 .. n -> Block \ Low]

Init == asked = 0 /\ last = <<>> /\ fatal = FALSE

Ask ==
  /\ asked = 0
  /\ asked' \in 1 .. MaxLen
  /\ UNCHANGED <<last, fatal>>

Deliver ==
  /\ asked > 0 /\ asked' = 0
  /\ last' \in Seeds(asked) /\ last' # last
  /\ UNCHANGED fatal

Fail ==
  /\ asked > 0 /\ asked' = 0
  /\ fatal' = TRUE
  /\ UNCHANGED last

Next == Ask \/ Deliver \/ Fail

Spec == Init /\ [][Next]_vars

\* Every request is answered.
FairSpec == Spec /\ WF_vars(Deliver \/ Fail)
=============================================================================
