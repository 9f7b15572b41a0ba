------------------------------- MODULE ICCLib -------------------------------
(***************************************************************************)
(* The shared library behind the stub (icc/icclib.c, icc/status.c, and the *)
(* self test of icc/fips.c): ICCLoad when it is mapped, the contexts and   *)
(* their call tables, the self test an application may ask for, and the    *)
(* error state that takes the functions out of the table every context     *)
(* uses.                                                                   *)
(*                                                                         *)
(* The self test must repeat known signatures.  For that it replaces the   *)
(* random numbers of the whole process by a constant, and puts them back;  *)
(* the method it uses is then zeroed, and a later self test does without.  *)
(*                                                                         *)
(* The loader runs alone, before any user.  A user makes one call at a     *)
(* time, on a context of its own; what the users share is everything else. *)
(***************************************************************************)
EXTENDS KnownAnswers, Functions

CONSTANTS
  User,     \* threads of the application
  Loader    \* the thread that maps the library

ASSUME ICCLibAssumption == Loader \notin User

Thread == User \cup {Loader}

(***************************************************************************)
(* The call table, by the kinds of function ICCLoad tells apart: those up  *)
(* to SelfTest, those whose name says they create something, the rest.  An *)
(* entry has no name, or a name without a function, or both.               *)
(***************************************************************************)
Func  == {"SelfTest", "generate", "free"}
Entry == {"blank", "named", "call"}

VARIABLES
  fips,         \* NON_FIPS_ICC is 0
  runpost,      \* ICCLoad runs the self test
  pc,           \* [Thread -> Pc]
  stat,         \* [Thread -> Status]: of the call; Global.status for the loader
  errorState,   \* error_state
  copying,      \* [Thread -> the entries its DisableAPI has still to copy]
  default,      \* ICCGlobal_default: [Func -> Entry]
  error,        \* ICCGlobal_Error
  partial,      \* ICCGlobal_Partial
  initialized,  \* Global.initialized
  rng,          \* the random number method of OpenSSL
  method,       \* insecure_rand_meth: the functions it has
  broken,       \* [Thread -> its self test uses the insecure method]
  funcs,        \* [User -> the table its context uses: pcb->funcs]
  drawn,        \* [User -> the random numbers its call was given]
  posted,       \* the self test of ICCLoad passed
  checked       \* the integrity check of ICCLoad passed

build  == <<fips, runpost>>
tables == <<default, error, partial>>
fatal  == <<errorState, copying>>
random == <<rng, method>>
app    == <<funcs, drawn>>
proof  == <<posted, checked>>
vars   == <<build, pc, stat, fatal, tables, initialized, random, broken, app, proof>>

LoadPc == {"env", "files", "openssl", "integrity", "tables", "loaded"}
TestPc == {"enter", "arm", "install", "sign", "restore", "poison", "cycle", "answers", "verdict"}
UserPc == {"idle", "init", "attach", "create", "created"}
Pc     == LoadPc \cup TestPc \cup UserPc

TypeOK ==
  /\ fips \in BOOLEAN /\ runpost \in BOOLEAN
  /\ pc \in [Thread -> Pc] /\ stat \in [Thread -> Status]
  /\ errorState \in BOOLEAN /\ copying \in [Thread -> SUBSET Func]
  /\ default \in [Func -> Entry] /\ error \in [Func -> Entry] /\ partial \in [Func -> Entry]
  /\ initialized \in BOOLEAN
  /\ rng \in {"openssl", "fips", "insecure"} /\ method \in SUBSET {"bytes", "pseudorand"}
  /\ broken \in [Thread -> BOOLEAN]
  /\ funcs \in [User -> {"none", "partial", "full"}]
  /\ drawn \in [User -> {"none", "random", "constant"}]
  /\ posted \in BOOLEAN /\ checked \in BOOLEAN

Init ==
  /\ fips \in BOOLEAN /\ runpost = fips
  /\ pc = [t \in Thread |-> IF t = Loader THEN "env" ELSE "idle"]
  /\ stat = [t \in Thread |-> "ok"]
  /\ errorState = FALSE /\ copying = [t \in Thread |-> {}]
  /\ default = [f \in Func |-> "named"]
  /\ error = [f \in Func |-> "blank"] /\ partial = [f \in Func |-> "blank"]
  /\ initialized = FALSE
  /\ rng = "openssl" /\ method = {"bytes", "pseudorand"}
  /\ broken = [t \in Thread |-> FALSE]
  /\ funcs = [u \in User |-> "none"]
  /\ drawn = [u \in User |-> "none"]
  /\ posted = FALSE /\ checked = FALSE

\* A thread that disables the library does nothing else until it has done so.
At(t, where) == pc[t] = where /\ copying[t] = {}
Goto(t, to)  == pc' = [pc EXCEPT ![t] = to]

-----------------------------------------------------------------------------
(***************************************************************************)
(* The error state.  SetFatalError tests the flag, sets it, and copies the *)
(* error table over the default one, entry by entry, while others call.    *)
(* Two threads that both find the flag unset both copy: the second one     *)
(* here while the first has not begun.                                     *)
(***************************************************************************)
SetFatalError(t) ==
  /\ errorState' = TRUE
  /\ \/ errorState /\ UNCHANGED copying
     \/ /\ errorState => \E other \in Thread : copying[other] = Func
        /\ copying' = [copying EXCEPT ![t] = Func]

\* SetStatusLn and its variants, on the caller's status.
SetStatus(t, s) ==
  /\ stat' = [stat EXCEPT ![t] = s]
  /\ IF s = "fatal" THEN SetFatalError(t) ELSE UNCHANGED fatal

\* Mutant: the copy waits until nobody is in a call.
DisableAPI_Waits(t) ==
  /\ \A u \in User : pc[u] = "idle"
  /\ \E f \in copying[t] :
       /\ default' = [default EXCEPT ![f] = error[f]]
       /\ copying' = [copying EXCEPT ![t] = @ \ {f}]
  /\ UNCHANGED <<build, pc, stat, errorState, error, partial, initialized, random, broken, app, proof>>

DisableAPI(t) ==
  /\ \E f \in copying[t] :
       /\ default' = [default EXCEPT ![f] = error[f]]
       /\ copying' = [copying EXCEPT ![t] = @ \ {f}]
  /\ UNCHANGED <<build, pc, stat, errorState, error, partial, initialized, random, broken, app, proof>>

-----------------------------------------------------------------------------
(***************************************************************************)
(* ICCLoad.                                                                *)
(***************************************************************************)
\* EnvVars: what ICC_RUN_POST and ICC_IGNORE_FIPS say decides in a non-FIPS
\* build whether the self test is run.
EnvVars ==
  /\ At(Loader, "env") /\ Goto(Loader, "files")
  /\ runpost' \in IF fips THEN {TRUE} ELSE BOOLEAN
  /\ UNCHANGED <<fips, stat, fatal, tables, initialized, random, broken, app, proof>>

\* Without the signature file, which also holds the configuration, all is lost.
OpenCheckFiles ==
  /\ At(Loader, "files") /\ Goto(Loader, "openssl")
  /\ \E s \in {"ok", "fatal"} : SetStatus(Loader, s)
  /\ UNCHANGED <<build, tables, initialized, random, broken, app, proof>>

\* OpenSSL_Init with iccSetRNG and iccSetUpRSAFIPS; where ICCLoad goes on.
OpenSSL_Init ==
  /\ At(Loader, "openssl")
  /\ \E s \in IF stat[Loader] = "ok" THEN {"ok", "openssl", "fatal"} ELSE {stat[Loader]} :
       /\ Goto(Loader, IF runpost /\ s = "ok" THEN "enter" ELSE "integrity")
       /\ stat' = [stat EXCEPT ![Loader] = s]
       /\ IF s = "fatal" \/ (runpost /\ s # "ok") THEN SetFatalError(Loader) ELSE UNCHANGED fatal
       /\ rng' \in IF stat[Loader] = "ok"
                   THEN IF s = "ok" THEN {"fips"} ELSE {"openssl", "fips"}
                   ELSE {rng}
  /\ initialized' = (~runpost \/ stat'[Loader] # "ok")
  /\ UNCHANGED <<build, tables, method, broken, app, proof>>

\* Mutant: the result of the check is only a warning.
Integrity_Warns ==
  /\ At(Loader, "integrity") /\ Goto(Loader, "tables")
  /\ IF stat[Loader] = "ok"
     THEN \E s \in {"ok", "fatal"} :
            /\ SetStatus(Loader, IF s = "fatal" THEN "ok" ELSE s)
            /\ checked' = (s = "ok")
     ELSE UNCHANGED <<stat, fatal, checked>>
  /\ UNCHANGED <<build, tables, initialized, random, broken, app, posted>>

\* InternalIntegrityCheck: files that are missing, or no key, or a signature
\* that does not match.
Integrity ==
  /\ At(Loader, "integrity") /\ Goto(Loader, "tables")
  /\ IF stat[Loader] = "ok"
     THEN \E s \in {"ok", "fatal"} : SetStatus(Loader, s) /\ checked' = (s = "ok")
     ELSE UNCHANGED <<stat, fatal, checked>>
  /\ UNCHANGED <<build, tables, initialized, random, broken, app, posted>>

Creates(f) == f = "generate"

\* Mutant: the error table keeps the functions that create.
ErrorTable_Full(table) == table

\* Mutant: what creates is removed from the table, not only its function.
ErrorTable_Short(table) == Restrict(table, {f \in Func : ~Creates(f)})

ErrorTable(table) ==
  [f \in Func |-> IF Creates(f) /\ table[f] = "call" THEN "named" ELSE table[f]]

PartialTable(table) ==
  [f \in Func |-> IF f # "SelfTest" /\ table[f] = "call" THEN "named" ELSE table[f]]

\* LoadTables: an entry without a name ends the table and is an error.
LoadTables ==
  /\ At(Loader, "tables") /\ Goto(Loader, "loaded")
  /\ IF stat[Loader] # "ok"
     THEN UNCHANGED <<stat, tables>>
     ELSE /\ default' = [f \in Func |-> IF default[f] = "blank" THEN "blank" ELSE "call"]
          /\ error' = ErrorTable(default') /\ partial' = PartialTable(default')
          /\ stat' = [stat EXCEPT ![Loader] =
               IF \E f \in Func : default[f] = "blank" THEN "error" ELSE "ok"]
  /\ UNCHANGED <<build, fatal, initialized, random, broken, app, proof>>

-----------------------------------------------------------------------------
(***************************************************************************)
(* SelfTest: iccDoKnownAnswer, first the signatures, then the rest.        *)
(***************************************************************************)
\* What the method that is installed gives its caller.
Numbers ==
  CASE rng # "insecure" -> "random"
    [] rng = "insecure" /\ "pseudorand" \in method -> "constant"
    [] rng = "insecure" /\ "pseudorand" \notin method -> "none"

Enter(t) ==
  /\ At(t, "enter")
  /\ Goto(t, IF "bytes" \in method THEN "arm" ELSE "sign")
  /\ stat' = [stat EXCEPT ![t] = "ok"]
  /\ broken' = [broken EXCEPT ![t] = "bytes" \in method]
  /\ UNCHANGED <<build, fatal, tables, initialized, random, app, proof>>

Arm(t) ==
  /\ At(t, "arm") /\ Goto(t, "install")
  /\ method' = method \cup {"bytes"}
  /\ UNCHANGED <<build, stat, fatal, tables, initialized, rng, broken, app, proof>>

Install(t) ==
  /\ At(t, "install") /\ Goto(t, "sign")
  /\ rng' = "insecure"
  /\ UNCHANGED <<build, stat, fatal, tables, initialized, method, broken, app, proof>>

\* DoVeryBrokenTests or DoSigTests: one key pair after the other, each with
\* something wrong or nothing, until one fails.
SignatureTest(h, alg, oom, t) ==
  IF broken[t] THEN KATest_broken(h, alg, oom, Numbers) ELSE KATest(h, alg, oom, Numbers)

Sign(t) ==
  /\ At(t, "sign") /\ stat[t] = "ok"
  /\ \E alg \in Range(Signatures), oom \in {"out of memory", "none"}, health \in {"good", "wrong"} :
       SetStatus(t, SignatureTest(Ill(<<alg, "sign">>, health), alg,
                                  IF oom = "none" THEN oom ELSE alg, t))
  /\ UNCHANGED <<build, pc, tables, initialized, random, broken, app, proof>>

\* Mutant: a failure skips the end of DoVeryBrokenTests.
Signed_Early(t) ==
  /\ At(t, "sign")
  /\ Goto(t, IF broken[t] /\ stat[t] = "ok" THEN "restore" ELSE "cycle")
  /\ UNCHANGED <<build, stat, fatal, tables, initialized, random, broken, app, proof>>

Signed(t) ==
  /\ At(t, "sign")
  /\ Goto(t, IF broken[t] THEN "restore" ELSE "cycle")
  /\ UNCHANGED <<build, stat, fatal, tables, initialized, random, broken, app, proof>>

Restore(t) ==
  /\ At(t, "restore") /\ Goto(t, "poison")
  /\ rng' = "fips"
  /\ UNCHANGED <<build, stat, fatal, tables, initialized, method, broken, app, proof>>

\* Mutant: the method is left as it is.
Poison_Skipped(t) ==
  /\ At(t, "poison") /\ Goto(t, "cycle")
  /\ UNCHANGED <<build, stat, fatal, tables, initialized, random, broken, app, proof>>

Poison(t) ==
  /\ At(t, "poison") /\ Goto(t, "cycle")
  /\ method' = {}
  /\ UNCHANGED <<build, stat, fatal, tables, initialized, rng, broken, app, proof>>

\* Buffers are allocated and the generators are cycled: their failure goes to
\* Global.status, whoever asked for the test.
Cycle(t) ==
  /\ At(t, "cycle") /\ Goto(t, "answers")
  /\ \/ UNCHANGED <<stat, fatal>>
     \/ SetStatus(t, "fatal")
     \/ /\ stat[t] = "ok"
        /\ stat' = [stat EXCEPT ![Loader] = "fatal"]
        /\ SetFatalError(t)
  /\ UNCHANGED <<build, tables, initialized, random, broken, app, proof>>

\* What the remaining tests may report.
Outcomes ==
  {iccDoKnownAnswer(Ill(op, health), oom) :
     op \in Operation, health \in {"good", "wrong", "fails"}, oom \in {"none", "SHA1"}}

Answers(t) ==
  /\ At(t, "answers") /\ Goto(t, "verdict")
  /\ IF stat[t] = "ok"
     THEN \E s \in Outcomes : SetStatus(t, s)
     ELSE UNCHANGED <<stat, fatal>>
  /\ UNCHANGED <<build, tables, initialized, random, broken, app, proof>>

\* Anything but ICC_OK is fatal.  ICCLoad then cleans OpenSSL up.
Loaded(ok) ==
  /\ Goto(Loader, "integrity")
  /\ initialized' = ok /\ posted' = ok
  /\ stat' = [stat EXCEPT ![Loader] = IF ok THEN "ok" ELSE "fatal"]
  /\ rng' = IF ok THEN rng ELSE "openssl"

Returned(u) ==
  /\ Goto(u, "idle")
  /\ stat' = [stat EXCEPT ![u] = "ok"]
  /\ UNCHANGED <<initialized, posted, rng>>

\* Mutant: a self test that passes ends the error state.
Verdict_Recovers(t) ==
  /\ At(t, "verdict")
  /\ IF stat[t] = "ok" THEN errorState' = FALSE /\ UNCHANGED copying ELSE SetFatalError(t)
  /\ IF t = Loader THEN Loaded(stat[t] = "ok") ELSE Returned(t)
  /\ UNCHANGED <<build, tables, method, broken, app, checked>>

Verdict(t) ==
  /\ At(t, "verdict")
  /\ IF stat[t] = "ok" THEN UNCHANGED fatal ELSE SetFatalError(t)
  /\ IF t = Loader THEN Loaded(stat[t] = "ok") ELSE Returned(t)
  /\ UNCHANGED <<build, tables, method, broken, app, checked>>

SelfTest(t) ==
  \/ Enter(t) \/ Arm(t) \/ Install(t) \/ Sign(t) \/ Signed(t) \/ Restore(t) \/ Poison(t)
  \/ Cycle(t) \/ Answers(t) \/ Verdict(t)

-----------------------------------------------------------------------------
(***************************************************************************)
(* The calls of a user.                                                    *)
(***************************************************************************)
MayCall(u) == pc[Loader] = "loaded" /\ copying[Loader] = {} /\ At(u, "idle")

\* lib_init looks at the error state, then makes the context.
CallInit(u) ==
  /\ MayCall(u) /\ funcs[u] = "none" /\ ~errorState
  /\ Goto(u, "init")
  /\ UNCHANGED <<build, stat, fatal, tables, initialized, random, broken, app, proof>>

lib_init(u) ==
  /\ At(u, "init") /\ Goto(u, "idle")
  /\ funcs' = [funcs EXCEPT ![u] = "partial"]
  /\ UNCHANGED <<build, stat, fatal, tables, initialized, random, broken, drawn, proof>>

CallAttach(u) ==
  /\ MayCall(u) /\ funcs[u] # "none" /\ ~errorState
  /\ Goto(u, "attach")
  /\ UNCHANGED <<build, stat, fatal, tables, initialized, random, broken, app, proof>>

lib_attach(u) ==
  /\ At(u, "attach") /\ Goto(u, "idle")
  /\ IF ~initialized /\ stat[Loader] = "ok"
     THEN SetFatalError(u) /\ UNCHANGED funcs
     ELSE funcs' = [funcs EXCEPT ![u] = "full"] /\ UNCHANGED fatal
  /\ UNCHANGED <<build, stat, tables, initialized, random, broken, drawn, proof>>

lib_cleanup(u) ==
  /\ MayCall(u) /\ funcs[u] # "none"
  /\ funcs' = [funcs EXCEPT ![u] = "none"]
  /\ UNCHANGED <<build, pc, stat, fatal, tables, initialized, random, broken, drawn, proof>>

\* An entry of the table a context uses: the stub reads it once, then calls it.
Callable(u, f) ==
  \/ funcs[u] = "partial" /\ partial[f] = "call"
  \/ funcs[u] = "full" /\ default[f] = "call"

CallSelfTest(u) ==
  /\ MayCall(u) /\ Callable(u, "SelfTest")
  /\ Goto(u, "enter")
  /\ UNCHANGED <<build, stat, fatal, tables, initialized, random, broken, app, proof>>

\* IntegrityCheck: what it finds is fatal, missing files included.
IntegrityCheck(u) ==
  /\ MayCall(u) /\ Callable(u, "SelfTest")
  /\ SetFatalError(u)
  /\ UNCHANGED <<build, pc, stat, tables, initialized, random, broken, app, proof>>

Fetch(u) ==
  /\ MayCall(u) /\ Callable(u, "generate")
  /\ Goto(u, "create")
  /\ UNCHANGED <<build, stat, fatal, tables, initialized, random, broken, app, proof>>

\* A function that creates draws random numbers; its generator may fail.
Create(u) ==
  /\ At(u, "create") /\ Goto(u, "created")
  /\ drawn' = [drawn EXCEPT ![u] = Numbers]
  /\ UNCHANGED fatal \/ SetFatalError(u)
  /\ UNCHANGED <<build, stat, tables, initialized, random, broken, funcs, proof>>

Created(u) ==
  /\ At(u, "created") /\ Goto(u, "idle")
  /\ drawn' = [drawn EXCEPT ![u] = "none"]
  /\ UNCHANGED <<build, stat, fatal, tables, initialized, random, broken, funcs, proof>>

-----------------------------------------------------------------------------
Load == EnvVars \/ OpenCheckFiles \/ OpenSSL_Init \/ Integrity \/ LoadTables

Calls(u) ==
  \/ CallInit(u) \/ CallAttach(u) \/ lib_cleanup(u)
  \/ CallSelfTest(u) \/ IntegrityCheck(u) \/ Fetch(u)

Running(u) == lib_init(u) \/ lib_attach(u) \/ Create(u) \/ Created(u)

Next ==
  \/ Load
  \/ \E t \in Thread : SelfTest(t) \/ DisableAPI(t)
  \/ \E u \in User : Calls(u) \/ Running(u)

Spec == Init /\ [][Next]_vars

\* SetFatalError does not wait for anything.
FairSpec == Spec /\ \A t \in Thread : WF_vars(DisableAPI(t))

-----------------------------------------------------------------------------
(***************************************************************************)
(* Properties.                                                             *)
(***************************************************************************)
\* A thread between the two RAND_set_rand_method of DoVeryBrokenTests.
Inside(t) == broken[t] /\ pc[t] \in {"sign", "restore"}

(***************************************************************************)
(* In a library whose tables were filled, the FIPS random number method is *)
(* back in place whenever no self test is inside DoVeryBrokenTests,        *)
(* however many ran at a time and however they ended.                      *)
(***************************************************************************)
RandomRestored ==
  partial["SelfTest"] = "call" /\ (\A t \in Thread : ~Inside(t)) => rng = "fips"

(***************************************************************************)
(* A library that ran its self test when it was loaded never gives a user  *)
(* the constant of the insecure method, in whatever order self tests and   *)
(* key generation follow (the zeroing of insecure_rand_meth).              *)
(***************************************************************************)
NoConstantKeys == posted => \A u \in User : drawn[u] # "constant"

(***************************************************************************)
(* Once the error state has been entered, and the copy is done, no entry   *)
(* of the default table creates anything, errors while loading included.   *)
(***************************************************************************)
DisabledForGood ==
  errorState /\ (\A t \in Thread : copying[t] = {}) => default["generate"] # "call"

(***************************************************************************)
(* After a fatal error the copy comes to its end, in whichever thread the  *)
(* error was, and whatever the others call meanwhile.                      *)
(***************************************************************************)
EventuallyDisabled == errorState ~> default["generate"] # "call"

(***************************************************************************)
(* The library offers functions that create only after the integrity check *)
(* passed, and in a FIPS build the self test too, whatever the environment *)
(* and the configuration file said.                                        *)
(***************************************************************************)
ServiceAfterPOST == default["generate"] = "call" => checked /\ (fips => posted)

-----------------------------------------------------------------------------
(***************************************************************************)
(* The module an application sees: its phase is told by the error state    *)
(* and the table, a key by the call that makes it.                         *)
(***************************************************************************)
Required == IF fips THEN {"integrity", "answers"} ELSE {"integrity"}
Passed   == (IF checked THEN {"integrity"} ELSE {}) \cup (IF posted THEN {"answers"} ELSE {})

Phase ==
  IF default["generate"] = "call"
  THEN IF errorState THEN "failing" ELSE "operational"
  ELSE IF errorState THEN "disabled" ELSE "off"

Given == [u \in User |->
  CASE pc[u] = "create"  -> "begun"
    [] pc[u] = "created" -> IF drawn[u] = "none" THEN "nothing" ELSE drawn[u]
    [] OTHER             -> "none"]

Module == INSTANCE FIPSModule WITH
  required <- Required, passed <- Passed, phase <- Phase, call <- Given

(***************************************************************************)
(* The library is such a module, whatever threads call, test, fail and     *)
(* disable at a time: off until the tests passed, never back from an       *)
(* error, and no key begun once it is disabled (ICCLoad, SetFatalError,    *)
(* DisableAPI, SelfTest).                                                  *)
(***************************************************************************)
IsFIPSModule == Module!Spec
=============================================================================
