-------------------------------- MODULE DRBG --------------------------------
(***************************************************************************)
(* The life cycle of one SP800-90 generator context (a PRNG_CTX) of        *)
(* icc/fips-prng/SP800-90.c, used by an application through the ICC call   *)
(* table, together with the library globals its operations read and write  *)
(* (the error state, and the self-test countdown and error mark of each    *)
(* generator type).                                                        *)
(*                                                                         *)
(* A process is the image of all of that: fork() copies the image, and the *)
(* operations of a process read and write its own image only.  A context   *)
(* is not shared between threads (SP800-90.h: "Use one/thread"), so an     *)
(* operation is one step, except RNG_Generate, which takes one step per    *)
(* chunk.                                                                  *)
(***************************************************************************)
EXTENDS Integers, FiniteSets, PRNGContract

CONSTANTS
  Proc,        \* process identifiers, the values getpid() returns
  Root,        \* the process that starts
  NoProc,      \* lastPID of a scrubbed context
  Alg,         \* generator types (entries of PRNG_list)
  NoAlg,       \* prng of a context that was never initialized
  Block,       \* values of the first CNT_SZ bytes of a request
  NoBlock,     \* no request was answered
  Zero,        \* the block a scrubbed lastdata holds
  Faults,      \* the failures the environment may produce
  Sizes,       \* what is too large in a call: "pers", "total", "long", "aad"
  MaxReseed,   \* maxReseed: calls allowed on one seed
  TestAt,      \* test_at: instantiations allowed on one self test
  MaxChunk,    \* bound: chunks in one RNG_Generate
  MaxSeed,     \* bound: seeds drawn, and states made from copied noise
  MaxDebt      \* bound: self tests that could not run for want of memory

ASSUME DRBGAssumption ==
  /\ Root \in Proc /\ NoProc \notin Proc
  /\ NoAlg \notin Alg
  /\ Zero \in Block /\ NoBlock \notin Block
  /\ Faults \subseteq {"katfail", "nomem", "entropy", "gone", "method", "stuck",
                      "reuse"}
  /\ Sizes \subseteq {"pers", "total", "long", "aad"}
  /\ MaxReseed \in Nat /\ MaxReseed > 1
  /\ TestAt \in Nat /\ TestAt > 1
  /\ MaxChunk \in Nat \ {0} /\ MaxSeed \in Nat \ {0} /\ MaxDebt \in Nat

VARIABLES
  proc,        \* [Proc -> Image]
  born,        \* the process identifiers in use (or used, if never reused)
  call,        \* [Proc -> Call]: the RNG_Generate a process is executing
  nextSeed,    \* the next unused seed identity
  emitted,     \* history: the generator states output was taken from
  exposed      \* history: the processes whose generator was last instantiated
               \* from noise that other processes hold, with a string of theirs

vars == <<proc, born, call, nextSeed, emitted, exposed>>

-----------------------------------------------------------------------------
(***************************************************************************)
(* Images.  A seed identity names the noise a working state (K, V) was     *)
(* last derived from; seed and step (the calls of the Generate method made *)
(* on it) stand for the working state: two requests answered from the same *)
(* seed and step return the same bytes.  A negative identity is that of a  *)
(* state every process that holds some copied noise can make.              *)
(***************************************************************************)
Image ==
  [state     : State,
   prng      : Alg \cup {NoAlg},
   live      : BOOLEAN,              \* md_ctx / cctx / hmac_ctx allocated
   trng      : BOOLEAN,              \* the context owns a TRNG
   auto      : BOOLEAN,
   paranoid  : BOOLEAN,
   reseedAt  : Nat,
   callCount : Nat,
   lastdata  : Block,
   lastPID   : Proc \cup {NoProc},
   cached    : Nat,                  \* seed buffered noise will yield, or 0
   copied    : Nat,                  \* names noise a fork copied that the
                                     \* buffer may still hold, or 0
   fatal     : BOOLEAN,              \* error_state of the library
   tested    : [Alg -> Int],         \* last_tested_at of each type
   broken    : SUBSET Alg,           \* the types whose error mark is set
   seed      : Int,
   step      : Nat,
   out       : Block \cup {NoBlock}] \* first block of the last chunk filled

Call == [left : Nat, req : {"fits", "long", "aad"}]
Idle == [left |-> 0, req |-> "fits"]

\* A context RNG_CTX_new has just allocated, in a process image x.
NewContext(x) ==
  [x EXCEPT !.state = "UNINIT", !.prng = NoAlg, !.live = FALSE, !.trng = TRUE,
            !.auto = FALSE, !.paranoid = FALSE, !.reseedAt = 0, !.callCount = 0,
            !.lastdata = Zero, !.lastPID = NoProc, !.cached = 0,
            !.copied = 0, !.seed = 0, !.step = 0, !.out = NoBlock]

FreshImage ==
  [state |-> "UNINIT", prng |-> NoAlg, live |-> FALSE, trng |-> TRUE,
   auto |-> FALSE, paranoid |-> FALSE, reseedAt |-> 0, callCount |-> 0,
   lastdata |-> Zero, lastPID |-> NoProc, cached |-> 0, copied |-> 0,
   fatal |-> FALSE, tested |-> [a \in Alg |-> 0], broken |-> {},
   seed |-> 0, step |-> 0, out |-> NoBlock]

-----------------------------------------------------------------------------
(***************************************************************************)
(* The internal layer: what Cln, Inst, Res and Gen do to a context.  ok    *)
(* says whether the algorithm's own method succeeded, sd is the identity   *)
(* of the seed the call was given.                                         *)
(***************************************************************************)
Cln(x) ==
  [x EXCEPT !.state = "UNINIT", !.live = FALSE, !.auto = FALSE,
            !.paranoid = FALSE, !.reseedAt = 0, !.callCount = 0,
            !.lastdata = Zero, !.lastPID = NoProc, !.seed = 0, !.step = 0]

Inst(x, ok, sd) ==
  [x EXCEPT !.state = IF ok THEN "INIT" ELSE "ERROR", !.live = ok \/ x.live,
            !.reseedAt = MaxReseed, !.callCount = 1, !.seed = sd, !.step = 0]

\* Mutant: a reseed does not leave the state it was needed in.
Res_KeepsState(x, ok, sd) ==
  IF ~x.live THEN [x EXCEPT !.state = "CRASH"]
  ELSE [x EXCEPT !.state = IF ok THEN @ ELSE "ERROR", !.callCount = 1,
                 !.seed = sd, !.step = 0]

Res(x, ok, sd) ==
  IF ~x.live THEN [x EXCEPT !.state = "CRASH"]
  ELSE [x EXCEPT !.state = IF ok THEN "RUN" ELSE "ERROR", !.callCount = 1,
                 !.seed = sd, !.step = 0]

\* Mutant: the reseed point is one call late.
GenTail_Late(x, ok, blk) ==
  IF blk = x.lastdata
  THEN [x EXCEPT !.state = "CRIT", !.fatal = TRUE]
  ELSE [x EXCEPT !.callCount = @ + 1,
                 !.state = IF x.callCount + 1 > x.reseedAt THEN "RESEED"
                           ELSE IF ok THEN "RUN" ELSE "ERROR",
                 !.out = IF ok THEN blk ELSE NoBlock]

\* Mutant: the calls are counted down.
GenTail_Down(x, ok, blk) ==
  IF blk = x.lastdata
  THEN [x EXCEPT !.state = "CRIT", !.fatal = TRUE]
  ELSE [x EXCEPT !.callCount = @ - 1,
                 !.state = IF x.callCount - 1 >= x.reseedAt THEN "RESEED"
                           ELSE IF ok THEN "RUN" ELSE "ERROR",
                 !.out = IF ok THEN blk ELSE NoBlock]

\* The continuous test, the count of calls and the reseed point.
GenTail(x, ok, blk) ==
  IF blk = x.lastdata
  THEN [x EXCEPT !.state = "CRIT", !.fatal = TRUE]
  ELSE [x EXCEPT !.callCount = @ + 1,
                 !.state = IF x.callCount + 1 >= x.reseedAt THEN "RESEED"
                           ELSE IF ok THEN "RUN" ELSE "ERROR",
                 !.out = IF ok THEN blk ELSE NoBlock]

\* first is the block kept for the continuous test, blk the request's own.
Gen(x, ok, first, blk) ==
  CASE x.state = "RESEED" -> [x EXCEPT !.state = "ERROR"]
    [] x.state # "RESEED" /\ ~x.live -> [x EXCEPT !.state = "CRASH"]
    [] x.state = "INIT" /\ x.live ->
         GenTail([x EXCEPT !.lastdata = first, !.step = IF ok THEN @ + 2 ELSE @],
                 ok, blk)
    [] x.state = "RUN" /\ x.live ->
         GenTail([x EXCEPT !.step = IF ok THEN @ + 1 ELSE @], ok, blk)

\* PRNG_self_test: every vector is instantiated in the context itself, so a
\* context that is in use fails at Inst and so fails the comparison.
SelfTestPasses(x, kat) == kat = "pass" /\ x.state \in {"UNINIT", "INIT"}

PRNG_self_test(x, kat) ==
  CASE kat = "nomem" -> [x EXCEPT !.state = "CRIT"]
    [] kat # "nomem" /\ SelfTestPasses(x, kat) ->
         [Cln(x) EXCEPT !.tested[x.prng] = TestAt]
    [] kat # "nomem" /\ ~SelfTestPasses(x, kat) ->
         [Cln(x) EXCEPT !.tested[x.prng] = TestAt, !.state = "CRIT",
                        !.fatal = TRUE, !.broken = @ \cup {x.prng}]

-----------------------------------------------------------------------------
(***************************************************************************)
(* The handlers.  The environment chooses what the entropy source does:    *)
(* "ok", "entropy" (it failed, which has called SetFatalError), in an      *)
(* instantiation "copied" (it answered with noise buffered before a fork), *)
(* and in a reseed after a change of the default TRNG "moved" (its         *)
(* replacement was made and used) or "gone" (it could not be made).  kat   *)
(* is "pass", "katfail" or "nomem" (the self test could not allocate its   *)
(* buffer).                                                                *)
(***************************************************************************)
\* The working state of an instantiation.  Without a personalization string of
\* the caller (per = "fits") PRNG_Instantiate makes one of the PID and the
\* time, and no other instantiation has this state.  A string of the caller
\* (per = "given") is used as it is: with the same string, the same copied
\* noise makes the same state in every process that holds it.
InitSeed(x, per, trng, sd) ==
  IF per = "given" /\ trng = "copied" THEN -x.copied ELSE sd

\* PRNG_Instantiate followed by Inst.
\* per = "total": with the string the seed material exceeds maxEnt.
Instantiate(x, pr, per, trng, ok, sd) ==
  LET y == [x EXCEPT !.auto = TRUE, !.paranoid = pr, !.cached = 0,
                     !.fatal = @ \/ trng = "entropy"]
      z == Inst(y, ok, InitSeed(x, per, trng, sd))
  IN CASE ~x.trng -> [x EXCEPT !.state = "CRASH"]
       [] x.trng /\ per = "total" -> [y EXCEPT !.state = "PARAM"]
       [] x.trng /\ per # "total" /\ trng = "entropy" -> [y EXCEPT !.state = "ERROR"]
       [] x.trng /\ per # "total" /\ trng # "entropy" ->
            IF pr /\ z.state = "INIT" THEN [z EXCEPT !.state = "RESEED"] ELSE z

\* a is NoAlg when the caller passes no generator type; per = "pers" says that
\* the personalization string exceeds maxPers.
RNG_CTX_Init(x, p, a, pr, per, kat, trng, ok, sd) ==
  LET y == [x EXCEPT !.prng = a, !.tested[a] = @ - 1]
      t == IF y.tested[a] <= 0 THEN PRNG_self_test(y, kat) ELSE y
  IN CASE x.state = "CRIT" -> [x EXCEPT !.lastPID = p]
       [] x.state # "CRIT" /\ a = NoAlg ->
            [x EXCEPT !.state = "PARAM", !.lastPID = p]
       [] x.state # "CRIT" /\ a # NoAlg /\ per = "pers" ->
            [x EXCEPT !.prng = a, !.state = "PARAM", !.lastPID = p]
       [] x.state # "CRIT" /\ a # NoAlg /\ per # "pers" ->
            [(IF t.state = "CRIT" THEN t
              ELSE Instantiate(Cln(t), pr, per, trng, ok, sd)) EXCEPT !.lastPID = p]

\* The seed a reseed is given: the noise its TRNG still buffers, if any.
Noise(x, trng, sd) == IF trng = "ok" /\ x.cached # 0 THEN x.cached ELSE sd

\* Mutant: the result of PRNG_GenerateRandomSeed is not looked at.
RNG_ReSeed_Unchecked(x, aad, trng, ok, sd) ==
  CASE x.prng = NoAlg -> [x EXCEPT !.state = "ERROR"]
    [] x.prng # NoAlg /\ x.state \in Usable ->
         ( CASE aad -> [x EXCEPT !.state = "PARAM"]
             [] ~aad /\ trng = "gone" ->
                  [x EXCEPT !.state = "CRIT", !.trng = FALSE, !.cached = 0,
                            !.copied = 0]
             [] ~aad /\ trng # "gone" ->
                  [Res(x, ok, Noise(x, trng, sd)) EXCEPT !.cached = 0,
                       !.copied = IF trng = "moved" THEN 0 ELSE @,
                       !.fatal = @ \/ trng = "entropy"] )
    [] x.prng # NoAlg /\ x.state \in Failed -> x
    [] x.prng # NoAlg /\ x.state = "UNINIT" -> [x EXCEPT !.state = "ERROR"]

RNG_ReSeed(x, aad, trng, ok, sd) ==
  CASE x.prng = NoAlg -> [x EXCEPT !.state = "ERROR"]
    [] x.prng # NoAlg /\ x.state \in Usable ->
         ( CASE aad -> [x EXCEPT !.state = "PARAM"]
             [] ~aad /\ trng = "gone" ->
                  [x EXCEPT !.state = "CRIT", !.trng = FALSE, !.cached = 0,
                            !.copied = 0]
             [] ~aad /\ trng = "entropy" ->
                  [x EXCEPT !.state = "ERROR", !.fatal = TRUE, !.cached = 0]
             [] ~aad /\ trng \notin {"gone", "entropy"} ->
                  [Res(x, ok, Noise(x, trng, sd)) EXCEPT !.cached = 0,
                       !.copied = IF trng = "moved" THEN 0 ELSE @] )
    [] x.prng # NoAlg /\ x.state \in Failed -> x
    [] x.prng # NoAlg /\ x.state = "UNINIT" -> [x EXCEPT !.state = "ERROR"]

\* Mutant: the noise buffered before the fork is kept.
ForkCheck_NoDrain(x, p, drain) ==
  IF x.lastPID = p THEN x
  ELSE IF ~x.trng THEN [x EXCEPT !.state = "CRASH"]
  ELSE [x EXCEPT !.state = "RESEED", !.lastPID = p]

\* The first lines of OldefRNG_Generate: a context last used by another
\* process drains the noise it buffered and must reseed.
\* Whether the drain succeeded is not looked at.
ForkCheck(x, p, drain) ==
  IF x.lastPID = p THEN x
  ELSE IF ~x.trng THEN [x EXCEPT !.state = "CRASH"]
  ELSE [x EXCEPT !.state = "RESEED", !.lastPID = p, !.cached = 0,
                 !.copied = 0, !.fatal = @ \/ drain = "entropy"]

\* Mutant: prediction resistance is left to the state alone.
MustReseed_StateOnly(n) == n.state = "RESEED"

MustReseed(n) == n.paranoid \/ n.state = "RESEED"

OldefRNG_Generate(x, p, req, drain, trng, ok, sd, first, blk) ==
  IF x.prng = NoAlg THEN [x EXCEPT !.state = "ERROR", !.out = NoBlock] ELSE
  LET f == ForkCheck([x EXCEPT !.out = NoBlock], p, drain)
      n == IF req = "long" /\ f.state # "CRASH" THEN [f EXCEPT !.state = "PARAM"] ELSE f
      s == IF MustReseed(n) /\ n.state # "CRASH"
           THEN RNG_ReSeed(n, req = "aad", trng, ok, sd) ELSE n
      g == Gen(s, ok, first, blk)
  IN CASE s.state \in Usable /\ req = "aad" -> [s EXCEPT !.state = "PARAM"]
       [] s.state \in Usable /\ req # "aad" ->
            IF g.paranoid /\ g.state = "RUN" THEN [g EXCEPT !.state = "RESEED"] ELSE g
       [] s.state = "UNINIT" -> [s EXCEPT !.state = "ERROR"]
       [] s.state \in Failed \cup {"CRASH"} -> s

\* RNG_CTX_ctrl, SP800_90_SELFTEST: the self test, then Cln whatever it found.
SelfTestCtrl(x, kat) ==
  IF x.state = "INIT" THEN Cln(PRNG_self_test(x, kat)) ELSE x

-----------------------------------------------------------------------------
(***************************************************************************)
(* The steps of a process.                                                 *)
(***************************************************************************)
KatOutcomes    == {"pass"} \cup (Faults \cap {"katfail", "nomem"})
TrngOutcomes   == {"ok", "moved"} \cup (Faults \cap {"entropy", "gone"})
MethodOutcomes == {ok \in BOOLEAN : ok \/ "method" \in Faults}
PersChoices    == {"fits", "given"} \cup (Sizes \cap {"pers", "total"})

\* What the entropy source may do in an instantiation of the context x.
InitOutcomes(x) ==
  (TrngOutcomes \ {"moved", "gone"}) \cup {o \in {"copied"} : x.copied # 0}

Running(p) == p \in born /\ proc[p].state # "CRASH"
Between(p) == Running(p) /\ call[p].left = 0     \* p is in no RNG_Generate

\* The application reaches RNG_CTX_Init, RNG_CTX_new and RNG_Generate through
\* the call table, where DisableAPI has removed them once an error is fatal.
Callable(p) == ~proc[p].fatal

Becomes(p, y) ==
  /\ proc' = [proc EXCEPT ![p] = y]
  /\ nextSeed' = IF y.seed \in {0, proc[p].seed, proc[p].cached} THEN nextSeed
                 ELSE nextSeed + 1
  /\ nextSeed' # nextSeed => nextSeed <= MaxSeed

\* The history after an Init of p that has made the image y.
Exposed(p, y) ==
  IF y.seed = nextSeed THEN exposed \ {p}
  ELSE IF y.seed < 0 THEN exposed \cup {p}
  ELSE exposed

Renew(p) ==
  /\ Between(p) /\ Callable(p)
  /\ proc' = [proc EXCEPT ![p] = NewContext(@)]
  /\ UNCHANGED <<born, call, nextSeed, emitted, exposed>>

DoInit(p) ==
  /\ Between(p) /\ Callable(p) /\ nextSeed <= MaxSeed
  /\ \E a \in Alg \cup {NoAlg}, pr \in BOOLEAN, per \in PersChoices,
        kat \in KatOutcomes, trng \in InitOutcomes(proc[p]), ok \in MethodOutcomes :
       LET y == RNG_CTX_Init(proc[p], p, a, pr, per, kat, trng, ok, nextSeed)
       IN /\ a # NoAlg => proc[p].tested[a] > -MaxDebt
          /\ Becomes(p, y)
          /\ exposed' = Exposed(p, y)
  /\ UNCHANGED <<born, call, emitted>>

DoReSeed(p) ==
  /\ Between(p) /\ nextSeed <= MaxSeed
  /\ \E aad \in {b \in BOOLEAN : b => "aad" \in Sizes}, trng \in TrngOutcomes,
        ok \in MethodOutcomes :
       Becomes(p, RNG_ReSeed(proc[p], aad, trng, ok, nextSeed))
  /\ UNCHANGED <<born, call, emitted, exposed>>

\* RNG_CTX_ctrl: the commands that change the context, in the states that
\* allow them.
SetParanoid(p) ==
  /\ Between(p) /\ proc[p].state = "INIT"
  /\ \E b \in BOOLEAN : proc' = [proc EXCEPT ![p].paranoid = b]
  /\ UNCHANGED <<born, call, nextSeed, emitted, exposed>>

SetAuto(p) ==
  /\ Between(p) /\ proc[p].state = "INIT"
  /\ \E b \in BOOLEAN : proc' = [proc EXCEPT ![p].auto = b]
  /\ UNCHANGED <<born, call, nextSeed, emitted, exposed>>

SetReseed(p) ==
  /\ Between(p) /\ proc[p].state = "INIT"
  /\ \E n \in 1 .. (MaxReseed - 1) : proc' = [proc EXCEPT ![p].reseedAt = n]
  /\ UNCHANGED <<born, call, nextSeed, emitted, exposed>>

DoReseedCtrl(p) ==
  /\ Between(p) /\ proc[p].state \in {"RUN", "INIT"}
  /\ proc' = [proc EXCEPT ![p].state = "RESEED"]
  /\ UNCHANGED <<born, call, nextSeed, emitted, exposed>>

DoSelfTest(p) ==
  /\ Between(p) /\ proc[p].prng # NoAlg
  /\ \E kat \in KatOutcomes : proc' = [proc EXCEPT ![p] = SelfTestCtrl(@, kat)]
  /\ UNCHANGED <<born, call, nextSeed, emitted, exposed>>

\* RNG_Generate is entered for k chunks; without Auto there is one, of any
\* length.  Only the first chunk carries the additional data.
StartGenerate(p) ==
  /\ Between(p) /\ Callable(p)
  /\ \E k \in 1 .. MaxChunk, req \in {"fits"} \cup (Sizes \cap {"long", "aad"}) :
       /\ IF proc[p].auto THEN req # "long" ELSE k = 1
       /\ call' = [call EXCEPT ![p] =
            [left |-> IF proc[p].auto /\ proc[p].state \notin Usable THEN 0 ELSE k,
             req |-> req]]
  /\ UNCHANGED <<proc, born, nextSeed, emitted, exposed>>

\* What one chunk leaves behind: y is the context after it.
Answer(p, y) ==
  /\ Becomes(p, y)
  /\ call' = [call EXCEPT
       ![p].left = IF proc[p].auto /\ y.state \in Usable THEN @ - 1 ELSE 0,
       ![p].req = "fits"]
  /\ emitted' = IF y.out # NoBlock THEN emitted \cup {<<y.seed, y.step>>}
                ELSE emitted

GenerateChunk(p) ==
  /\ Running(p) /\ call[p].left > 0
  /\ \E drain \in TrngOutcomes \ {"moved", "gone"}, trng \in TrngOutcomes,
        ok \in MethodOutcomes, first, blk \in Block :
       LET y == OldefRNG_Generate(proc[p], p, call[p].req, drain, trng, ok,
                                  nextSeed, first, blk)
       IN /\ "stuck" \notin Faults => blk # y.lastdata
          /\ Answer(p, y)
  /\ UNCHANGED <<born, exposed>>

\* fork(): the child starts with a copy of the image.  Noise the TRNG has
\* buffered is copied with it, so both would next reseed from the same noise,
\* and an instantiation of either may find it in its buffer.
Fork(p, q) ==
  LET shared == IF proc[p].cached # 0 THEN proc[p].cached ELSE nextSeed
      noise  == IF proc[p].copied # 0 THEN proc[p].copied ELSE shared
      y      == [proc[p] EXCEPT !.cached = shared, !.copied = noise]
  IN /\ Between(p) /\ q \in Proc \ born
     /\ nextSeed <= MaxSeed
     /\ proc' = [proc EXCEPT ![p] = y, ![q] = y]
     /\ nextSeed' = IF shared = nextSeed THEN nextSeed + 1 ELSE nextSeed
     /\ born' = born \cup {q}
     /\ exposed' = exposed \ {q}
     /\ UNCHANGED <<call, emitted>>

\* The process ends and the system may give its identifier to a later one.
Exit(p) ==
  /\ "reuse" \in Faults /\ Between(p)
  /\ born' = born \ {p}
  /\ UNCHANGED <<proc, call, nextSeed, emitted, exposed>>

Init ==
  /\ proc = [p \in Proc |-> FreshImage]
  /\ born = {Root}
  /\ call = [p \in Proc |-> Idle]
  /\ nextSeed = 1
  /\ emitted = {}
  /\ exposed = {}

Next ==
  \E p \in Proc :
    \/ Renew(p) \/ DoInit(p) \/ DoReSeed(p)
    \/ SetParanoid(p) \/ SetAuto(p) \/ SetReseed(p) \/ DoReseedCtrl(p)
    \/ DoSelfTest(p)
    \/ StartGenerate(p) \/ GenerateChunk(p)
    \/ Exit(p)
    \/ \E q \in Proc : Fork(p, q)

Spec == Init /\ [][Next]_vars

-----------------------------------------------------------------------------
(***************************************************************************)
(* Properties.                                                             *)
(***************************************************************************)
TypeOK ==
  /\ proc \in [Proc -> Image]
  /\ born \subseteq Proc
  /\ call \in [Proc -> Call]
  /\ nextSeed \in Nat \ {0}
  /\ emitted \subseteq Int \X Nat
  /\ exposed \subseteq Proc

\* p has just filled one chunk of a request.
Emits(p) == call[p].left > 0 /\ call'[p] # call[p] /\ proc'[p].out # NoBlock

(***************************************************************************)
(* However requests, reseeds, reseed commands, re-initializations and      *)
(* process copies alternate, one seed answers at most MaxReseed - 1        *)
(* requests (the first request of a seed also makes the block kept for the *)
(* continuous test): the reseed counter of Gen, Res, Inst and SETRESEED.   *)
(***************************************************************************)
SeedBudget == \A p \in Proc : proc[p].step <= MaxReseed

\* What SeedBudget rests on: the count of calls bounds the use of the seed and
\* stays below the reseed point, in every state that lets Gen run.
Budgeted(x) ==
  /\ x.step <= MaxReseed /\ x.reseedAt <= MaxReseed
  /\ x.state = "INIT" => x.step = 0 /\ x.callCount = 1
  /\ x.state = "RUN" => \/ x.step = 0 /\ x.callCount = 1
                        \/ x.step <= x.callCount /\ x.callCount < x.reseedAt

(***************************************************************************)
(* The inductive strengthening of SeedBudget: Gen's count of calls (as     *)
(* CallCount in the code, with ReseedAt) stays in step with the use made   *)
(* of the seed.                                                            *)
(***************************************************************************)
BudgetInv == TypeOK /\ \A p \in Proc : Budgeted(proc[p])

(***************************************************************************)
(* No generator state answers two requests, in one process or in two:      *)
(* after a fork either copy of a context is reseeded from noise the other  *)
(* does not hold before it answers (the PID check of OldefRNG_Generate and *)
(* the 512 byte drain of the buffered noise), and an RNG_CTX_Init adds the *)
(* PID and the time.  It is not claimed of a process that gave             *)
(* RNG_CTX_Init a personalization string of its own while its TRNG still   *)
(* buffered noise a fork had copied, until it instantiates once more:      *)
(* RNG_CTX_Init does not drain, and it hides the fork from the check.      *)
(***************************************************************************)
FreshOutput ==
  [][\A p \in Proc \ exposed : Emits(p) =>
        <<proc'[p].seed, proc'[p].step>> \notin emitted]_vars

(***************************************************************************)
(* With prediction resistance on, every chunk is answered from a seed that *)
(* was drawn for it (Paranoid in RNG_CTX_Init, ctrl and Generate).         *)
(***************************************************************************)
PredictionResistance ==
  [][\A p \in Proc : Emits(p) /\ proc[p].paranoid =>
        proc'[p].seed # proc[p].seed]_vars

(***************************************************************************)
(* Once an error is fatal the context of an application answers nothing    *)
(* more: neither a new request, nor the remaining chunks of the one that   *)
(* met the error (DisableAPI, and the loop condition of RNG_Generate).     *)
(* Checked of one process: after a fork the result of the drain that meets *)
(* the error is not looked at (ForkCheck).                                 *)
(***************************************************************************)
FatalSilences ==
  [][\A p \in Proc : Emits(p) => ~proc'[p].fatal]_vars

\* p has executed a chunk that PRNGContract speaks of.
PlainChunk(p) ==
  /\ call[p].left > 0 /\ call[p].req = "fits" /\ call'[p] # call[p]
  /\ proc[p].lastPID = p /\ ~proc[p].paranoid

(***************************************************************************)
(* Wherever a sequence of calls has taken the context, an Init, a reseed   *)
(* and a chunk leave it where the callers of SP800-90.c expect it          *)
(* (PRNGContract): the switches over the state in RNG_ReSeed and           *)
(* OldefRNG_Generate, and the order of RNG_ReSeed, Res and Gen.            *)
(***************************************************************************)
KeepsContract ==
  [][\A p \in Proc :
       /\ \/ proc'[p].state \in AfterInit
          \/ proc[p].state # "UNINIT" \/ proc'[p].paranoid \/ ~DoInit(p)
       /\ proc'[p].state \in AfterReSeed(proc[p].state) \/ ~DoReSeed(p)
       /\ PlainChunk(p) => proc'[p].state \in AfterGenerate(proc[p].state)]_vars
=============================================================================
