------------------------------ MODULE GSKWrap ------------------------------
(***************************************************************************)
(* GSKit's wrapper around two copies of ICC (iccpkg/gsk_wrap2.c): "C", the *)
(* certified one, and "N", the newer one.  ICC_Init makes an empty wrapper *)
(* context; ICC_Attach initializes one of the two underneath, the one the  *)
(* application asked for, or the other when that one cannot be had.        *)
(*                                                                         *)
(* Each wrapper context belongs to one thread.  The switches hasC, hasN,   *)
(* ignore_fips and the two env_tested are static and unlocked: reading an  *)
(* environment variable for the first time is two steps here.              *)
(***************************************************************************)
EXTENDS Naturals, FiniteSets

CONSTANT Ctx  \* wrapper contexts, one per thread

ASSUME GSKWrapAssumption == IsFiniteSet(Ctx)

Library == {"C", "N"}

\* What an ICC function leaves in majRC, as far as the wrapper tells apart.
Status == {"ok", "warning", "error", "notinit"}
Good   == {"ok", "warning"}

\* How far a context of one of the libraries has got.
Inner == {"none", "init", "attached"}

VARIABLES
  active,      \* hasC, hasN: the libraries that may be loaded
  ignoreFips,  \* ignore_fips
  libsTested,  \* env_tested of libsCheck
  fipsTested,  \* env_tested of ICC_SetValue
  env,         \* GSK_ICC_ACTIVE_LIBS, if it is set, and ICC_IGNORE_FIPS
  pc,          \* [Ctx -> Pc]: where the call on the context is
  inner,       \* [Ctx -> [Library -> Inner]]: Cctx, Nctx
  prefer,      \* [Ctx -> BOOLEAN]: prefer_FIPS
  wanted,      \* [Ctx -> Library \X 1..2]: the library of InitReal, which try
  rv,          \* [Ctx -> Status]: what the last call returned
  status,      \* [Ctx -> Status]: its ICC_STATUS
  last,        \* [Ctx -> the call that was made last]
  alive        \* [Library -> contexts of that library that were not cleaned up]

switches == <<active, ignoreFips, libsTested, fipsTested>>
answer   == <<rv, status>>
vars == <<switches, env, pc, inner, prefer, wanted, answer, last, alive>>

Pc == {"none", "idle", "libs", "readlibs", "init", "env", "readenv",
       "value", "attach"}

Fips(on) == IF on THEN "C" ELSE "N"

Other(lib) == IF lib = "C" THEN "N" ELSE "C"

NoInner == [l \in Library |-> "none"]

Empty(c) == inner[c] = NoInner

Init ==
  /\ active = Library
  /\ ignoreFips = FALSE
  /\ libsTested = FALSE
  /\ fipsTested = FALSE
  /\ env \in [set : BOOLEAN, libs : SUBSET Library, ignore : BOOLEAN]
  /\ ~env.set => env.libs = Library
  /\ pc = [c \in Ctx |-> "none"]
  /\ inner = [c \in Ctx |-> NoInner]
  /\ prefer = [c \in Ctx |-> FALSE]
  /\ wanted = [c \in Ctx |-> <<"N", 1>>]
  /\ rv = [c \in Ctx |-> "ok"]
  /\ status = [c \in Ctx |-> "ok"]
  /\ last = [c \in Ctx |-> "none"]
  /\ alive = [l \in Library |-> 0]

Goto(c, to) == pc' = [pc EXCEPT ![c] = to]

Says(c, v, s) == rv' = [rv EXCEPT ![c] = v] /\ status' = [status EXCEPT ![c] = s]

(***************************************************************************)
(* ICC_Init: the wrapper context only; NULL when there is no memory, with  *)
(* the status already set to good.                                         *)
(***************************************************************************)
ICC_Init(c) ==
  /\ pc[c] = "none"
  /\ Says(c, "ok", "ok")
  /\ last' = [last EXCEPT ![c] = "none"]
  /\ Goto(c, "idle") \/ UNCHANGED pc
  /\ inner' = [inner EXCEPT ![c] = NoInner]
  /\ prefer' = [prefer EXCEPT ![c] = FALSE]
  /\ UNCHANGED <<switches, env, wanted, alive>>

(***************************************************************************)
(* ICC_Attach, up to the first InitReal.  An application attaches what is  *)
(* not attached; it may try again after a failure.                         *)
(***************************************************************************)
CallAttach(c) ==
  /\ pc[c] = "idle" /\ Empty(c)
  /\ Says(c, "notinit", "notinit")
  /\ last' = [last EXCEPT ![c] = "Attach"]
  /\ wanted' = [wanted EXCEPT ![c] = <<Fips(prefer[c] /\ ~ignoreFips), 1>>]
  /\ Goto(c, "libs")
  /\ UNCHANGED <<switches, env, inner, prefer, alive>>

\* libsCheck: the flag is set before the switches are.
CheckLibs(c) ==
  /\ pc[c] = "libs"
  /\ libsTested' = TRUE
  /\ Goto(c, IF libsTested THEN "init" ELSE "readlibs")
  /\ UNCHANGED <<active, ignoreFips, fipsTested, env, inner, prefer, wanted,
                 answer, last, alive>>

ReadLibs(c) ==
  /\ pc[c] = "readlibs"
  /\ active' = IF env.set THEN env.libs ELSE active
  /\ Goto(c, "init")
  /\ UNCHANGED <<ignoreFips, libsTested, fipsTested, env, inner, prefer,
                 wanted, answer, last, alive>>

(***************************************************************************)
(* Which context InitReal makes: of the library wanted, if it may be       *)
(* loaded.  Where a failed InitReal goes next.                             *)
(***************************************************************************)
MayLoad(lib) == lib \in active

AfterInit(made, try) == IF ~made /\ try = 1 THEN "libs" ELSE "env"

(***************************************************************************)
(* InitReal.  ICCN_Init writes the caller's status; ICCC_Init writes       *)
(* another one, copied only when it succeeded.                             *)
(***************************************************************************)
InitReal(c) ==
  LET lib == wanted[c][1]
      try == wanted[c][2] IN
  /\ pc[c] = "init"
  /\ \E made \in BOOLEAN, s \in Status :
       /\ \/ made /\ MayLoad(lib) /\ s \in Good
          \/ ~made /\ MayLoad(lib) /\ lib = "N" /\ s = "error"
          \/ ~made /\ MayLoad(lib) /\ lib = "C" /\ s = "notinit"
          \/ ~made /\ ~MayLoad(lib) /\ s = "notinit"
          \/ ~made /\ s = "error"    \* no memory
       /\ status' = [status EXCEPT ![c] = s]
       /\ inner' = IF made THEN [inner EXCEPT ![c][lib] = "init"] ELSE inner
       /\ alive' = IF made THEN [alive EXCEPT ![lib] = @ + 1] ELSE alive
       /\ Goto(c, AfterInit(made, try))
       /\ wanted' = IF AfterInit(made, try) = "libs"
                    THEN [wanted EXCEPT ![c] = <<Other(lib), 2>>]
                    ELSE [wanted EXCEPT ![c] = <<"N", 1>>]
  /\ UNCHANGED <<switches, env, prefer, rv, last>>

(***************************************************************************)
(* ICC_SetValue, called by the application, or by ICC_Attach to repeat the *)
(* application's choice to what was made underneath.                       *)
(***************************************************************************)
CallSetValue(c) ==
  /\ pc[c] = "idle"
  /\ Says(c, "ok", "ok")
  /\ last' = [last EXCEPT ![c] = "SetValue"]
  /\ Goto(c, "env")
  /\ UNCHANGED <<switches, env, inner, prefer, wanted, alive>>

CheckEnv(c) ==
  /\ pc[c] = "env"
  /\ status' = [status EXCEPT ![c] = "ok"]
  /\ fipsTested' = TRUE
  /\ Goto(c, IF fipsTested THEN "value" ELSE "readenv")
  /\ UNCHANGED <<active, ignoreFips, libsTested, env, inner, prefer, wanted, rv,
                 last, alive>>

ReadEnv(c) ==
  /\ pc[c] = "readenv"
  /\ ignoreFips' = env.ignore
  /\ Goto(c, "value")
  /\ UNCHANGED <<active, libsTested, fipsTested, env, inner, prefer, wanted,
                 answer, last, alive>>

Attaching(c) == last[c] = "Attach"

(***************************************************************************)
(* What the libraries say of a value, v their return and s their status:   *)
(* good, a warning, refused.  N writes the caller's status.  C writes one  *)
(* of its own, and a context of C never has one of N beside it to make it  *)
(* copied.                                                                 *)
(***************************************************************************)
Forward(c, v, s) ==
  \/ Empty(c) /\ v = "ok" /\ s = "ok"
  \/ inner[c]["N"] # "none" /\ inner[c]["C"] = "none" /\ s = v
     /\ v \in {"ok", "warning", "error"}
  \/ inner[c]["C"] # "none" /\ inner[c]["N"] = "none" /\ s = "ok"
     /\ v \in {"ok", "warning", "error"}
  \/ inner[c]["C"] # "none" /\ inner[c]["N"] # "none"
     /\ v \in {"ok", "warning", "error"} /\ s \in {"ok", "warning", "error"}

\* ICC_FIPS_APPROVED_MODE: the choice is kept whatever the library says.
SetFips(c) ==
  /\ pc[c] = "value"
  /\ IF Attaching(c) THEN UNCHANGED prefer
     ELSE \E on \in BOOLEAN : prefer' = [prefer EXCEPT ![c] = on]
  /\ \E v, s \in Status :
       /\ Forward(c, v, s)
       /\ status' = [status EXCEPT ![c] = s]
       /\ rv' = IF Attaching(c) THEN rv ELSE [rv EXCEPT ![c] = v]
  /\ Goto(c, IF Attaching(c) THEN "attach" ELSE "idle")
  /\ UNCHANGED <<switches, env, inner, wanted, last, alive>>

\* GSK_ICC_ACTIVE_LIBS: never passed down.
SetLibs(c) ==
  /\ pc[c] = "value" /\ ~Attaching(c)
  /\ active' \in SUBSET Library
  /\ rv' = [rv EXCEPT ![c] = "ok"]
  /\ Goto(c, "idle")
  /\ UNCHANGED <<ignoreFips, libsTested, fipsTested, env, inner, prefer, wanted,
                 status, last, alive>>

\* Any other value goes to the context underneath, if there is one.
SetOther(c) ==
  /\ pc[c] = "value" /\ ~Attaching(c)
  /\ \E v, s \in Status : Forward(c, v, s) /\ Says(c, v, s)
  /\ Goto(c, "idle")
  /\ UNCHANGED <<switches, env, inner, prefer, wanted, last, alive>>

\* The context ICC_Attach attaches: the FIPS one first.
Chosen(c) == IF inner[c]["C"] # "none" THEN "C" ELSE "N"

Cleaned(c, lib) == alive' = [alive EXCEPT ![lib] = @ - 1]

\* Mutant: what could not be attached is forgotten and not cleaned up.
Refused_Forgets(c, lib) ==
  inner' = [inner EXCEPT ![c][lib] = "none"] /\ UNCHANGED alive

Refused(c, lib) ==
  inner' = [inner EXCEPT ![c][lib] = "none"] /\ Cleaned(c, lib)

\* Mutant: the status of ICC_SetValue stays when there is nothing to attach.
NothingToAttach_Silent(c) == rv' = rv /\ status' = status

NothingToAttach(c) ==
  IF status[c] = "ok" THEN Says(c, "error", "notinit") ELSE UNCHANGED answer

(***************************************************************************)
(* The end of ICC_Attach: the context underneath is attached, or cleaned   *)
(* up; or there is none.                                                   *)
(***************************************************************************)
AttachInner(c) ==
  LET lib == Chosen(c) IN
  /\ pc[c] = "attach"
  /\ \/ /\ ~Empty(c)
        /\ \E s \in Good : Says(c, s, s)
        /\ inner' = [inner EXCEPT ![c][lib] = "attached"]
        /\ UNCHANGED alive
     \/ /\ ~Empty(c)
        /\ Says(c, "error", "error")
        /\ Refused(c, lib)
     \/ /\ Empty(c)
        /\ NothingToAttach(c)
        /\ UNCHANGED <<inner, alive>>
  /\ Goto(c, "idle")
  /\ UNCHANGED <<switches, env, prefer, wanted, last>>

(***************************************************************************)
(* ICC_GetValue without a context underneath answers what it can itself; a *)
(* number reads as zero, and the status stays that nothing is initialized. *)
(***************************************************************************)
GetValue(c) ==
  /\ pc[c] = "idle"
  /\ last' = [last EXCEPT ![c] = "GetValue"]
  /\ \/ Empty(c) /\ \E s \in {"ok", "warning", "error"} : Says(c, s, s)
     \/ Empty(c) /\ Says(c, "error", "notinit")
     \/ ~Empty(c) /\ \E s \in {"ok", "warning", "error"} : Says(c, s, s)
  /\ UNCHANGED <<switches, env, pc, inner, prefer, wanted, alive>>

Released(c, lib) == IF inner[c][lib] = "none" THEN 0 ELSE 1

(***************************************************************************)
(* ICC_Cleanup: both contexts underneath, if there are any, and the        *)
(* wrapper.                                                                *)
(***************************************************************************)
ICC_Cleanup(c) ==
  /\ pc[c] = "idle"
  /\ alive' = [l \in Library |-> alive[l] - Released(c, l)]
  /\ inner' = [inner EXCEPT ![c] = NoInner]
  /\ prefer' = [prefer EXCEPT ![c] = FALSE]
  /\ last' = [last EXCEPT ![c] = "none"]
  /\ IF Empty(c) THEN Says(c, "ok", "notinit")
     ELSE \E s \in {"ok", "error"} : Says(c, s, s)
  /\ Goto(c, "none")
  /\ UNCHANGED <<switches, env, wanted>>

Calls(c) == CallAttach(c) \/ CallSetValue(c) \/ GetValue(c) \/ ICC_Cleanup(c)

Steps(c) ==
  \/ CheckLibs(c) \/ ReadLibs(c) \/ InitReal(c) \/ CheckEnv(c) \/ ReadEnv(c)
  \/ SetFips(c) \/ SetLibs(c) \/ SetOther(c) \/ AttachInner(c)

Next == \E c \in Ctx : ICC_Init(c) \/ Calls(c) \/ Steps(c)

Spec == Init /\ [][Next]_vars

-----------------------------------------------------------------------------

\* Every variable has its type.
TypeOK ==
  /\ active \subseteq Library
  /\ env \in [set : BOOLEAN, libs : SUBSET Library, ignore : BOOLEAN]
  /\ {ignoreFips, libsTested, fipsTested} \subseteq BOOLEAN
  /\ pc \in [Ctx -> Pc]
  /\ inner \in [Ctx -> [Library -> Inner]]
  /\ prefer \in [Ctx -> BOOLEAN]
  /\ wanted \in [Ctx -> Library \X {1, 2}]
  /\ rv \in [Ctx -> Status]
  /\ status \in [Ctx -> Status]
  /\ last \in [Ctx -> {"none", "Attach", "SetValue", "GetValue"}]
  /\ alive \in [Library -> Nat]

(***************************************************************************)
(* A wrapper context has at most one context underneath, and every context *)
(* of the libraries that is alive is underneath one: ICC_Attach, which may *)
(* fail at four places and be called again, loses none, and ICC_Cleanup    *)
(* releases all.  (A library is unloaded when its last context goes.)      *)
(***************************************************************************)
InnerOwned ==
  /\ \A c \in Ctx : \E l \in Library : inner[c][l] = "none"
  /\ \A l \in Library : alive[l] = Cardinality({c \in Ctx : inner[c][l] # "none"})

(***************************************************************************)
(* When ICC_Attach returns, its return code, its status and what the       *)
(* context has underneath agree, whatever the calls in between wrote.      *)
(***************************************************************************)
AttachAnswers ==
  \A c \in Ctx : pc[c] = "idle" /\ last[c] = "Attach" =>
    /\ rv[c] \in Good <=> status[c] \in Good
    /\ rv[c] \in Good <=> \E l \in Library : inner[c][l] = "attached"
=============================================================================
