----------------------------- MODULE PRNGTypes ------------------------------
(***************************************************************************)
(* One generator type (an SP800_90PRNG_t of PRNG_list) shared by the       *)
(* threads of a process, each with contexts of its own: the countdown to   *)
(* the next self test, which RNG_CTX_Init moves under the type's mutex,    *)
(* and the error mark, which get_RNGbyname reads and PRNG_self_test writes *)
(* without it.                                                             *)
(***************************************************************************)
EXTENDS Integers, FiniteSets

CONSTANTS
  Thread,
  TestAt,      \* test_at: the value the countdown is reloaded with
  MaxDebt      \* bound: how far below zero the countdown may go

ASSUME PRNGTypesAssumption == TestAt \in Nat \ {0} /\ MaxDebt \in Nat

VARIABLES
  pc,          \* [Thread -> Pc]
  tested,      \* last_tested_at
  error,       \* the type's error mark
  fatal,       \* error_state of the library
  credit       \* history: instantiations the last completed test still covers

vars == <<pc, tested, error, fatal, credit>>

\* "ctrl" is a self test asked for by RNG_CTX_ctrl; a test that failed goes
\* through "mark" and "failed".
Pc == {"idle", "count", "test", "ctrl", "mark", "failed", "reload", "reloadCtrl",
       "inst"}

TypeOK ==
  /\ pc \in [Thread -> Pc]
  /\ tested \in Int /\ tested <= TestAt
  /\ error \in BOOLEAN /\ fatal \in BOOLEAN
  /\ credit \in Int

Init ==
  /\ pc = [t \in Thread |-> "idle"]
  /\ tested = 0
  /\ error = FALSE /\ fatal = FALSE
  /\ credit = 0

Goto(t, to) == pc' = [pc EXCEPT ![t] = to]

\* get_RNGbyname, and the call of RNG_CTX_Init with the type it returned.
Lookup(t) ==
  /\ pc[t] = "idle" /\ ~fatal /\ ~error
  /\ Goto(t, "count")
  /\ UNCHANGED <<tested, error, fatal, credit>>

\* Mutant: the decrement is not done under the mutex, and may be lost.
Count_Unlocked(t) ==
  /\ pc[t] = "count" /\ tested > -MaxDebt
  /\ tested' \in {tested, tested - 1}
  /\ IF tested - 1 <= 0
     THEN Goto(t, "test") /\ UNCHANGED credit
     ELSE Goto(t, "inst") /\ credit' = credit - 1
  /\ UNCHANGED <<error, fatal>>

\* The countdown, read and moved in one critical section.
Count(t) ==
  /\ pc[t] = "count" /\ tested > -MaxDebt
  /\ tested' = tested - 1
  /\ IF tested' <= 0
     THEN Goto(t, "test") /\ UNCHANGED credit
     ELSE Goto(t, "inst") /\ credit' = credit - 1
  /\ UNCHANGED <<error, fatal>>

\* RNG_CTX_ctrl(SP800_90_SELFTEST) on a context of this type.
SelfTestCtrl(t) ==
  /\ pc[t] = "idle"
  /\ Goto(t, "ctrl")
  /\ UNCHANGED <<tested, error, fatal, credit>>

\* PRNG_self_test: the vectors pass, or one fails, or there is no memory.
SelfTest(t) ==
  /\ pc[t] \in {"test", "ctrl"}
  /\ \/ Goto(t, IF pc[t] = "ctrl" THEN "reloadCtrl" ELSE "reload") /\ UNCHANGED fatal
     \/ Goto(t, "mark") /\ fatal' = TRUE
     \/ Goto(t, "idle") /\ UNCHANGED fatal
  /\ UNCHANGED <<tested, error, credit>>

Mark(t) ==
  /\ pc[t] = "mark"
  /\ error' = TRUE
  /\ Goto(t, "failed")
  /\ UNCHANGED <<tested, fatal, credit>>

\* Mutant: the countdown allows one instantiation too many.
Reloaded_Late == TestAt + 1

Reloaded == TestAt

\* The reload, in a critical section of its own, whatever the test found.
Reload(t) ==
  /\ pc[t] \in {"reload", "reloadCtrl", "failed"}
  /\ tested' = Reloaded
  /\ credit' = TestAt - 1
  /\ Goto(t, IF pc[t] = "reload" THEN "inst" ELSE "idle")
  /\ UNCHANGED <<error, fatal>>

\* Cln, PRNG_Instantiate and Inst.
Instantiate(t) ==
  /\ pc[t] = "inst"
  /\ Goto(t, "idle")
  /\ UNCHANGED <<tested, error, fatal, credit>>

Next ==
  \E t \in Thread :
    \/ Lookup(t) \/ Count(t) \/ SelfTestCtrl(t) \/ SelfTest(t)
    \/ Mark(t) \/ Reload(t) \/ Instantiate(t)

Spec == Init /\ [][Next]_vars

-----------------------------------------------------------------------------
(***************************************************************************)
(* Properties.                                                             *)
(***************************************************************************)
(***************************************************************************)
(* "FIPS SP800-90 automated retest after N instantiations", whatever the   *)
(* threads do: every instantiation either ran the self test itself or is   *)
(* among the TestAt - 1 that follow a completed one; none comes before the *)
(* first (RNG_CTX_Init and PRNG_self_test).                                *)
(***************************************************************************)
Covered == credit >= 0

\* Why: the countdown never promises more than the last test covers.
CountdownInv == TypeOK /\ tested <= credit + 1 /\ credit >= 0
=============================================================================
