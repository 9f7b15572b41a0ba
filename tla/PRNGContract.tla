---------------------------- MODULE PRNGContract ----------------------------
(***************************************************************************)
(* The states of a generator context (SP800-90.h) and where a call may     *)
(* leave one: what the callers of SP800-90.c rely on, and all they see.    *)
(* DRBG is checked to keep to it; RandPool is built on it.                 *)
(*                                                                         *)
(* It is stated of a context used by one process, without prediction       *)
(* resistance, and of requests that are not too long.                      *)
(***************************************************************************)
Usable == {"INIT", "RUN", "RESEED"}
Failed == {"PARAM", "ERROR", "CRIT"}

\* "CRASH" is the state of a process killed by the use of a NULL algorithm
\* context or a NULL TRNG.
State == Usable \cup Failed \cup {"UNINIT", "CRASH"}

\* Where RNG_CTX_Init leaves a new context.
AfterInit == {"INIT", "PARAM", "ERROR", "CRIT"}

\* Where RNG_ReSeed leaves a context in state s.
AfterReSeed(s) ==
  CASE s \in Usable -> {"RUN", "PARAM", "ERROR", "CRIT"}
    [] s \in Failed -> {s, "ERROR"}
    [] s = "UNINIT" -> {"ERROR"}

\* Where one chunk of RNG_Generate leaves a context in state s.
AfterGenerate(s) ==
  CASE s \in Usable -> {"RUN", "RESEED", "ERROR", "CRIT"}
    [] s \in Failed -> {s, "ERROR"}
    [] s = "UNINIT" -> {"ERROR"}

\* The only states a request was answered in.
Answers == {"RUN", "RESEED"}
=============================================================================
