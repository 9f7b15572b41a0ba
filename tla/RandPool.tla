------------------------------ MODULE RandPool ------------------------------
(***************************************************************************)
(* The random callbacks ICC gives OpenSSL (icc/fips-prng/fips-prng-RAND.c):*)
(* two arrays of generator contexts, tctx behind RAND_bytes, RAND_seed and *)
(* key generation, and pctx behind RAND_pseudo_bytes.  A thread uses the   *)
(* slot its identifier falls on, and threads that share a slot take turns  *)
(* under its mutex.  A context is made when its slot is first used.        *)
(*                                                                         *)
(* What a context does is what PRNGContract says of one.  RAND_FIPS_init,  *)
(* fips_rand_cleanup and SetRNGInstances are called while the library is   *)
(* loaded and unloaded, when no other call is in progress.  A fatal error  *)
(* takes the functions of the library from applications and not the        *)
(* callbacks from OpenSSL: calls go on.                                    *)
(***************************************************************************)
EXTENDS Integers, PRNGContract

CONSTANTS
  Thread,      \* the thread identifiers
  Nobody,      \* no thread
  MaxSlots,    \* bound: MAX_rngs
  Faulty,      \* generators, memory and mutexes may fail
  Sizes,       \* the sizes applications pass: "some", "zero", "invalid"
  LongSeed     \* an application may pass more seed data than a generator takes

ASSUME RandPoolAssumption ==
  /\ Thread \subseteq Nat /\ Nobody \notin Thread
  /\ MaxSlots \in Nat \ {0}
  /\ Faulty \in BOOLEAN /\ LongSeed \in BOOLEAN
  /\ Sizes \subseteq {"some", "zero", "invalid"}

VARIABLES
  status,      \* status
  slots,       \* N_rngs
  gen,         \* [Pool -> [Slot -> the state of the context, or NULL]]
  owner,       \* [Pool -> [Slot -> who holds the slot's mutex]]
  pc,          \* [Thread -> Pc]
  op,          \* [Thread -> the callback it is in]
  tid,         \* [Thread -> Slot]
  size,        \* [Thread -> the size it passed]
  bad,         \* [Thread -> rc is not RAND_R_PRNG_OK]
  fatal,       \* SetFatalError was called by this file
  crashed,     \* an uninitialized pointer was used
  key,         \* history: the threads that generate a key and have seeded
  fresh        \* history: those of them whose slot was seeded since then

callvars == <<pc, op, tid, size, bad>>
vars == <<status, slots, gen, owner, callvars, fatal, crashed, key, fresh>>

Pool == {"tctx", "pctx"}
Slot == 0 .. MaxSlots - 1
Op   == {"bytes", "pseudo", "seed"}
Pc   == {"idle", "lock", "make", "use", "unlock", "report"}

TypeOK ==
  /\ status \in {"UNDEF", "INIT", "FAIL"} /\ slots \in 1 .. MaxSlots
  /\ gen \in [Pool -> [Slot -> {"NULL", "INIT", "RUN", "ERROR"}]]
  /\ owner \in [Pool -> [Slot -> Thread \cup {Nobody}]]
  /\ pc \in [Thread -> Pc] /\ op \in [Thread -> Op]
  /\ tid \in [Thread -> Slot]
  /\ size \in [Thread -> {"some", "zero", "invalid"}] /\ bad \in [Thread -> BOOLEAN]
  /\ fatal \in BOOLEAN /\ crashed \in BOOLEAN
  /\ key \subseteq Thread /\ fresh \subseteq key

NoContexts == [p \in Pool |-> [s \in Slot |-> "NULL"]]

Init ==
  /\ status = "UNDEF" /\ slots \in 1 .. MaxSlots
  /\ gen = NoContexts
  /\ owner = [p \in Pool |-> [s \in Slot |-> Nobody]]
  /\ pc = [t \in Thread |-> "idle"] /\ op = [t \in Thread |-> "seed"]
  /\ tid = [t \in Thread |-> 0]
  /\ size = [t \in Thread |-> "zero"] /\ bad = [t \in Thread |-> FALSE]
  /\ fatal = FALSE /\ crashed = FALSE
  /\ key = {} /\ fresh = {}

-----------------------------------------------------------------------------
(***************************************************************************)
(* Load and unload.                                                        *)
(***************************************************************************)
Quiet == ~crashed /\ key = {} /\ \A t \in Thread : pc[t] = "idle"

SetRNGInstances ==
  /\ Quiet /\ status # "INIT"
  /\ slots' \in 1 .. MaxSlots
  /\ UNCHANGED <<status, gen, owner, callvars, fatal, crashed, key, fresh>>

\* Both arrays are made, or what was made is undone.  pctx is not cleared when
\* tctx could not be made, and what it holds is then taken for contexts.
RAND_FIPS_init ==
  /\ Quiet /\ status # "INIT"
  /\ \/ status' = "INIT" /\ UNCHANGED <<fatal, crashed>>
     \/ /\ Faulty
        /\ status' = "FAIL" /\ fatal' = TRUE /\ crashed' \in BOOLEAN
  /\ UNCHANGED <<slots, gen, owner, callvars, key, fresh>>

fips_rand_cleanup ==
  /\ Quiet
  /\ status' = "UNDEF" /\ gen' = NoContexts
  /\ UNCHANGED <<slots, owner, callvars, fatal, crashed, key, fresh>>

-----------------------------------------------------------------------------
(***************************************************************************)
(* The callbacks.                                                          *)
(***************************************************************************)
PoolOf(o) == IF o = "pseudo" THEN "pctx" ELSE "tctx"

\* The context of the slot t uses.
Mine(t) == gen[PoolOf(op[t])][tid[t]]

\* What the callbacks can tell apart: all states a request is answered in are
\* alike, and all it is not.
Seen(s) == CASE s = "INIT" -> "INIT" [] s \in Answers -> "RUN" [] s \in Failed -> "ERROR"
SetMine(t, s) == gen' = [gen EXCEPT ![PoolOf(op[t])][tid[t]] = Seen(s)]

Goto(t, to) == pc' = [pc EXCEPT ![t] = to]
Fails(t, b) == bad' = [bad EXCEPT ![t] = b]

\* The threads that generate their key with the context t is using.
Sharers(t) == {u \in key : PoolOf(op[t]) = "tctx" /\ u % slots = tid[t]}

\* Entry of a callback.  The status is read without a lock; fips_rand_seed does
\* not read it, and is reached only when RAND_FIPS_init has succeeded and its
\* caller has installed the callbacks; the self test calls fips_rand_bytes.
Enter(t, o, n) ==
  /\ ~crashed /\ pc[t] = "idle"
  /\ status # "UNDEF" /\ (o = "seed" => status = "INIT")
  /\ op' = [op EXCEPT ![t] = o] /\ size' = [size EXCEPT ![t] = n]
  /\ tid' = [tid EXCEPT ![t] = t % slots]
  /\ IF o = "seed" \/ (status = "INIT" /\ n # "invalid")
     THEN Goto(t, "lock") /\ Fails(t, FALSE)
     ELSE Goto(t, "report") /\ Fails(t, TRUE)
  /\ UNCHANGED <<status, slots, gen, owner, fatal, crashed>>

\* RAND_bytes, RAND_pseudo_bytes and RAND_seed of an application or of OpenSSL.
Call(t) ==
  /\ t \notin key
  /\ \E o \in Op, n \in Sizes : Enter(t, o, n)
  /\ UNCHANGED <<key, fresh>>

\* Key generation: RAND_seed(NULL, 0), whose failure nobody sees ...
StartKey(t) ==
  /\ Enter(t, "seed", "zero")
  /\ key' = key \cup {t} /\ fresh' = fresh \ {t}

\* ... then RAND_bytes, any number of times ...
DrawKey(t) ==
  /\ t \in key /\ Enter(t, "bytes", "some")
  /\ UNCHANGED <<key, fresh>>

\* ... until the key is found.
EndKey(t) ==
  /\ t \in key /\ pc[t] = "idle"
  /\ key' = key \ {t} /\ fresh' = fresh \ {t}
  /\ UNCHANGED <<status, slots, gen, owner, callvars, fatal, crashed>>

\* Mutant: the slot is locked with a trylock whose result is not looked at.
Lock_Tries(t) ==
  /\ pc[t] = "lock"
  /\ owner' = [owner EXCEPT ![PoolOf(op[t])][tid[t]] = IF @ = Nobody THEN t ELSE @]
  /\ Goto(t, "make")
  /\ UNCHANGED <<status, slots, gen, op, tid, size, bad, fatal, crashed, key, fresh>>

Lock(t) ==
  /\ pc[t] = "lock" /\ owner[PoolOf(op[t])][tid[t]] = Nobody
  /\ owner' = [owner EXCEPT ![PoolOf(op[t])][tid[t]] = t]
  /\ Goto(t, "make")
  /\ UNCHANGED <<status, slots, gen, op, tid, size, bad, fatal, crashed, key, fresh>>

\* Mutant: a slot that could not be made is left locked.
Make_KeepsLock(t) ==
  /\ pc[t] = "make"
  /\ \/ /\ Mine(t) # "NULL"
        /\ Goto(t, "use") /\ UNCHANGED <<gen, bad, fresh>>
     \/ /\ Mine(t) = "NULL"
        /\ SetMine(t, "INIT")
        /\ fresh' = fresh \cup Sharers(t)
        /\ Goto(t, IF op[t] = "seed" THEN "unlock" ELSE "use")
        /\ UNCHANGED bad
     \/ /\ Mine(t) = "NULL" /\ Faulty
        /\ Goto(t, "report") /\ Fails(t, TRUE)
        /\ UNCHANGED <<gen, fresh>>
  /\ UNCHANGED <<status, slots, owner, op, tid, size, fatal, crashed, key>>

\* init_trng, init_prng: a context that did not reach INIT is freed again.  A
\* request without a context fails like its making did.
Make(t) ==
  /\ pc[t] = "make"
  /\ \/ /\ Mine(t) # "NULL"
        /\ Goto(t, "use") /\ UNCHANGED <<gen, bad, fresh>>
     \/ /\ Mine(t) = "NULL"
        /\ SetMine(t, "INIT")
        /\ fresh' = fresh \cup Sharers(t)
        /\ Goto(t, IF op[t] = "seed" THEN "unlock" ELSE "use")
        /\ UNCHANGED bad
     \/ /\ Mine(t) = "NULL" /\ Faulty
        /\ Goto(t, "unlock") /\ Fails(t, TRUE)
        /\ UNCHANGED <<gen, fresh>>
  /\ UNCHANGED <<status, slots, owner, op, tid, size, fatal, crashed, key>>

\* What the contract allows of t's context, less what only a failure explains.
Outcomes(t, after) ==
  {s \in after : Faulty \/ Mine(t) \in Failed \/ s \notin {"ERROR", "CRIT"}}

\* Mutant: fips_rand_seed takes no data for nothing to do.
Reseed_SkipsNone(t) ==
  /\ pc[t] = "use" /\ op[t] = "seed"
  /\ \/ /\ size[t] = "some"
        /\ \E s \in Outcomes(t, AfterReSeed(Mine(t))) :
             /\ s = "PARAM" /\ Mine(t) \in Usable => LongSeed
             /\ SetMine(t, s) /\ Fails(t, s \notin Answers)
             /\ fresh' = IF s \in Answers THEN fresh \cup Sharers(t) ELSE fresh
     \/ size[t] # "some" /\ UNCHANGED <<gen, bad, fresh>>
  /\ Goto(t, "unlock")
  /\ UNCHANGED <<status, slots, owner, op, tid, size, fatal, crashed, key>>

\* fips_rand_seed on a context that exists.  A negative size is ignored.
Reseed(t) ==
  /\ pc[t] = "use" /\ op[t] = "seed"
  /\ \/ /\ size[t] # "invalid"
        /\ \E s \in Outcomes(t, AfterReSeed(Mine(t))) :
             /\ s = "PARAM" /\ Mine(t) \in Usable => LongSeed /\ size[t] = "some"
             /\ SetMine(t, s) /\ Fails(t, s \notin Answers)
             /\ fresh' = IF s \in Answers THEN fresh \cup Sharers(t) ELSE fresh
     \/ size[t] = "invalid" /\ UNCHANGED <<gen, bad, fresh>>
  /\ Goto(t, "unlock")
  /\ UNCHANGED <<status, slots, owner, op, tid, size, fatal, crashed, key>>

\* RNG_Generate: a request for zero bytes leaves the context alone.
Generate(t) ==
  /\ pc[t] = "use" /\ op[t] # "seed"
  /\ \E s \in IF size[t] = "zero" THEN {Mine(t)} ELSE Outcomes(t, AfterGenerate(Mine(t))) :
       SetMine(t, s) /\ Fails(t, s \notin Answers)
  /\ Goto(t, "unlock")
  /\ UNCHANGED <<status, slots, owner, op, tid, size, fatal, crashed, key, fresh>>

\* The call ends, and its local variables with it.
Return(t) ==
  /\ Goto(t, "idle") /\ Fails(t, FALSE)
  /\ op' = [op EXCEPT ![t] = "seed"] /\ size' = [size EXCEPT ![t] = "zero"]
  /\ tid' = [tid EXCEPT ![t] = 0]

\* A failed RAND_seed is only noted in OpenSSL's error queue.
Unlock(t) ==
  /\ pc[t] = "unlock"
  /\ owner' = [owner EXCEPT ![PoolOf(op[t])][tid[t]] = Nobody]
  /\ IF bad[t] /\ op[t] # "seed"
     THEN Goto(t, "report") /\ UNCHANGED <<op, tid, size, bad>>
     ELSE Return(t)
  /\ UNCHANGED <<status, slots, gen, fatal, crashed, key, fresh>>

\* SetFatalError.
Report(t) ==
  /\ pc[t] = "report"
  /\ fatal' = TRUE
  /\ Return(t)
  /\ UNCHANGED <<status, slots, gen, owner, crashed, key, fresh>>

Step(t) ==
  \/ Lock(t) \/ Make(t) \/ Reseed(t) \/ Generate(t) \/ Unlock(t) \/ Report(t)

Next ==
  \/ SetRNGInstances \/ RAND_FIPS_init \/ fips_rand_cleanup
  \/ \E t \in Thread : Call(t) \/ StartKey(t) \/ DrawKey(t) \/ EndKey(t) \/ Step(t)

Spec == Init /\ [][Next]_vars

\* A thread that is in a callback goes on executing it.
FairSpec == Spec /\ \A t \in Thread : WF_vars(Step(t))

-----------------------------------------------------------------------------
(***************************************************************************)
(* Properties.                                                             *)
(***************************************************************************)
\* t is inside the context of its slot.
Inside(t) == pc[t] \in {"make", "use", "unlock"}

(***************************************************************************)
(* No two threads are inside one context, which is not made for it ("Use   *)
(* one/thread", SP800-90.h): the mutexes of the slots, through the failure *)
(* paths too.                                                              *)
(***************************************************************************)
OneInside ==
  \A t, u \in Thread :
    Inside(t) /\ Inside(u) /\ tid[t] = tid[u] /\ PoolOf(op[t]) = PoolOf(op[u])
      => t = u

\* Why: who is inside holds the mutex.
InsideOwns ==
  \A t \in Thread : Inside(t) => owner[PoolOf(op[t])][tid[t]] = t

\* t's call is answered with random bytes.
Answered(t) == pc[t] = "use" /\ pc'[t] = "unlock" /\ ~bad'[t]

(***************************************************************************)
(* A key is generated from a seed drawn since its generation began         *)
(* (RAND_seed(NULL, 0) in icclib.c, whose result is not looked at), with   *)
(* other threads on the same slot and failures of either call.             *)
(***************************************************************************)
KeyFromNewSeed ==
  [][\A t \in key : op[t] = "bytes" /\ Answered(t) => t \in fresh]_vars

(***************************************************************************)
(* A slot that is locked is unlocked again: no failure path of a callback  *)
(* keeps the mutex.                                                        *)
(***************************************************************************)
Released ==
  \A p \in Pool, s \in Slot : owner[p][s] # Nobody ~> owner[p][s] = Nobody
=============================================================================
