----------------------------- MODULE DRBGProofs -----------------------------
(***************************************************************************)
(* Proofs about DRBG for any set of processes, generator types, faults and *)
(* bounds: the type invariant, the reseed counter's bound on the use of    *)
(* one seed, prediction resistance, the contract of the callers, and, from *)
(* an assumption each, the silence after a fatal error and the freshness   *)
(* of every answer.                                                        *)
(***************************************************************************)
EXTENDS DRBG, TLAPS

-----------------------------------------------------------------------------
(***************************************************************************)
(* The values every operator below writes are of their fields' types.      *)
(***************************************************************************)
LEMMA StateValues ==
  /\ \A s \in {"INIT", "RUN", "RESEED", "PARAM", "ERROR", "CRIT", "UNINIT",
               "CRASH"} : s \in State
  /\ Usable \subseteq State /\ Failed \subseteq State
BY DEF State, Usable, Failed

\* The literals and constants the operators write are of their fields' types.
LEMMA Literals ==
  /\ 0 \in Nat /\ 0 \in Int /\ 1 \in Nat /\ TRUE \in BOOLEAN /\ FALSE \in BOOLEAN
  /\ MaxReseed \in Nat /\ TestAt \in Int
  /\ Zero \in Block /\ NoProc \in Proc \cup {NoProc} /\ NoAlg \in Alg \cup {NoAlg}
  /\ NoBlock \in Block \cup {NoBlock}
BY DRBGAssumption

\* The image a process starts with is within the budget.
LEMMA FreshImageGood == FreshImage \in Image /\ Budgeted(FreshImage)
<1>1. [a \in Alg |-> 0] \in [Alg -> Int]
  OBVIOUS
<1>2. {} \in SUBSET Alg
  OBVIOUS
<1>3. FreshImage \in Image
  BY <1>1, <1>2, StateValues, Literals, Zenon DEF FreshImage, Image
<1>4. Budgeted(FreshImage)
  BY DRBGAssumption DEF FreshImage, Budgeted
<1> QED BY <1>3, <1>4

\* So is one with a context RNG_CTX_new just made.
LEMMA NewContextGood ==
  ASSUME NEW x \in Image
  PROVE  NewContext(x) \in Image /\ Budgeted(NewContext(x))
<1>1. NewContext(x) \in Image
  BY StateValues, Literals, Zenon DEF NewContext, Image
<1>2. Budgeted(NewContext(x))
  BY DRBGAssumption DEF NewContext, Image, Budgeted
<1> QED BY <1>1, <1>2

\* Cln scrubs the context: nothing was taken from a seed, nothing can be.
LEMMA ClnGood ==
  ASSUME NEW x \in Image
  PROVE  /\ Cln(x) \in Image /\ Budgeted(Cln(x))
         /\ Cln(x).state = "UNINIT" /\ Cln(x).step = 0 /\ Cln(x).reseedAt = 0
<1>1. Cln(x) \in Image
  BY StateValues, Literals, Zenon DEF Cln, Image
<1>2. Cln(x).state = "UNINIT" /\ Cln(x).step = 0 /\ Cln(x).reseedAt = 0
  BY DEF Cln, Image
<1> QED BY <1>1, <1>2, DRBGAssumption DEF Budgeted

\* Inst starts a new seed, unused.
LEMMA InstGood ==
  ASSUME NEW x \in Image, NEW ok \in BOOLEAN, NEW sd \in Int
  PROVE  Inst(x, ok, sd) \in Image /\ Budgeted(Inst(x, ok, sd))
<1>1. /\ (IF ok THEN "INIT" ELSE "ERROR") \in State
      /\ (ok \/ x.live) \in BOOLEAN
  BY StateValues
<1>2. Inst(x, ok, sd) \in Image
  BY <1>1, Literals, Zenon DEF Inst, Image
<1>3. Budgeted(Inst(x, ok, sd))
  BY DRBGAssumption DEF Inst, Image, Budgeted
<1> QED BY <1>2, <1>3

\* Res starts a new seed and resets the count of calls.
LEMMA ResGood ==
  ASSUME NEW x \in Image, Budgeted(x), NEW ok \in BOOLEAN, NEW sd \in Int
  PROVE  Res(x, ok, sd) \in Image /\ Budgeted(Res(x, ok, sd))
<1>1. (IF ok THEN "RUN" ELSE "ERROR") \in State
  BY StateValues
<1>2. Res(x, ok, sd) \in Image
  BY <1>1, StateValues, Literals, Zenon DEF Res, Image
<1>3. Budgeted(Res(x, ok, sd))
  BY DRBGAssumption DEF Res, Image, Budgeted
<1> QED BY <1>2, <1>3

\* The end of Gen writes values of the fields' types.
LEMMA GenTailType ==
  ASSUME NEW x \in Image, NEW ok \in BOOLEAN, NEW blk \in Block
  PROVE  GenTail(x, ok, blk) \in Image
<1>1. x.callCount + 1 \in Nat
  BY DEF Image
<1>2. (IF x.callCount + 1 >= x.reseedAt THEN "RESEED"
       ELSE IF ok THEN "RUN" ELSE "ERROR") \in State
  BY StateValues
<1>3. (IF ok THEN blk ELSE NoBlock) \in Block \cup {NoBlock}
  OBVIOUS
<1> QED BY <1>1, <1>2, <1>3, StateValues, Literals, Zenon DEF GenTail, Image

\* Gen keeps the count of calls ahead of the use of the seed.
LEMMA GenGood ==
  ASSUME NEW x \in Image, Budgeted(x), x.state \in Usable, NEW ok \in BOOLEAN,
         NEW first \in Block, NEW blk \in Block
  PROVE  Gen(x, ok, first, blk) \in Image /\ Budgeted(Gen(x, ok, first, blk))
<1>1. CASE x.state = "RESEED"
  <2>1. Gen(x, ok, first, blk) = [x EXCEPT !.state = "ERROR"]
    BY <1>1 DEF Gen
  <2>2. [x EXCEPT !.state = "ERROR"] \in Image
    BY StateValues, Zenon DEF Image
  <2> QED BY <2>1, <2>2 DEF Budgeted, Image
<1>2. CASE x.state # "RESEED" /\ ~x.live
  <2>1. Gen(x, ok, first, blk) = [x EXCEPT !.state = "CRASH"]
    BY <1>2 DEF Gen
  <2>2. [x EXCEPT !.state = "CRASH"] \in Image
    BY StateValues, Zenon DEF Image
  <2> QED BY <2>1, <2>2 DEF Budgeted, Image
<1>3. CASE x.state = "INIT" /\ x.live
  <2> DEFINE y == [x EXCEPT !.lastdata = first, !.step = IF ok THEN @ + 2 ELSE @]
  <2>1. Gen(x, ok, first, blk) = GenTail(y, ok, blk)
    BY <1>3 DEF Gen
  <2>2. (IF ok THEN x.step + 2 ELSE x.step) \in Nat
    BY DEF Image
  <2>3. y \in Image
    BY <2>2, Zenon DEF Image
  <2>4. GenTail(y, ok, blk) \in Image
    BY <2>3, GenTailType
  <2>5. /\ y.step <= 2 /\ y.callCount = 1 /\ y.reseedAt <= MaxReseed
        /\ y.step \in Nat /\ y.reseedAt \in Nat
    BY <1>3, <2>3 DEF Budgeted, Image
  <2> HIDE DEF y
  <2>6. Budgeted(GenTail(y, ok, blk))
    BY <2>3, <2>5, DRBGAssumption DEF GenTail, Budgeted, Image
  <2> QED BY <2>1, <2>4, <2>6
<1>4. CASE x.state = "RUN" /\ x.live
  <2> DEFINE y == [x EXCEPT !.step = IF ok THEN @ + 1 ELSE @]
  <2>1. Gen(x, ok, first, blk) = GenTail(y, ok, blk)
    BY <1>4 DEF Gen
  <2>2. (IF ok THEN x.step + 1 ELSE x.step) \in Nat
    BY DEF Image
  <2>3. y \in Image
    BY <2>2, Zenon DEF Image
  <2>4. GenTail(y, ok, blk) \in Image
    BY <2>3, GenTailType
  <2>5. /\ y.step <= y.callCount + 1 /\ y.step <= MaxReseed
        /\ y.reseedAt <= MaxReseed
        /\ y.step \in Nat /\ y.reseedAt \in Nat /\ y.callCount \in Nat
    BY <1>4, <2>3, DRBGAssumption DEF Budgeted, Image
  <2> HIDE DEF y
  <2>6. Budgeted(GenTail(y, ok, blk))
    BY <2>3, <2>5, DRBGAssumption DEF GenTail, Budgeted, Image
  <2> QED BY <2>1, <2>4, <2>6
<1> QED BY <1>1, <1>2, <1>3, <1>4 DEF Usable, Image

\* PRNG_self_test leaves a scrubbed context, or one that is critical.
LEMMA SelfTestGood ==
  ASSUME NEW x \in Image, Budgeted(x), x.prng \in Alg,
         NEW kat \in {"pass", "katfail", "nomem"}
  PROVE  PRNG_self_test(x, kat) \in Image /\ Budgeted(PRNG_self_test(x, kat))
<1>1. CASE kat = "nomem"
  <2>1. PRNG_self_test(x, kat) = [x EXCEPT !.state = "CRIT"]
    BY <1>1 DEF PRNG_self_test
  <2>2. [x EXCEPT !.state = "CRIT"] \in Image
    BY StateValues, Zenon DEF Image
  <2> QED BY <2>1, <2>2 DEF Budgeted, Image
<1>2. CASE kat # "nomem"
  <2> DEFINE c == Cln(x)
             t == [c EXCEPT !.tested[x.prng] = TestAt]
             f == [c EXCEPT !.tested[x.prng] = TestAt, !.state = "CRIT",
                            !.fatal = TRUE, !.broken = @ \cup {x.prng}]
  <2>1. \/ PRNG_self_test(x, kat) = t
        \/ PRNG_self_test(x, kat) = f
    BY <1>2 DEF PRNG_self_test
  <2>2. c \in Image /\ c.state = "UNINIT" /\ c.step = 0 /\ c.reseedAt = 0
    BY ClnGood
  <2> HIDE DEF c
  <2>3. [c.tested EXCEPT ![x.prng] = TestAt] \in [Alg -> Int]
    BY <2>2, Literals DEF Image
  <2>4. t \in Image
    BY <2>2, <2>3, Zenon DEF Image
  <2>5. t.state = "UNINIT" /\ t.step = 0 /\ t.reseedAt = 0
    BY <2>2 DEF Image
  <2>6. f \in Image
    <3>1. c.broken \cup {x.prng} \in SUBSET Alg
      BY <2>2 DEF Image
    <3> QED BY <2>2, <2>3, <3>1, StateValues, Literals, Zenon DEF Image
  <2>7. f.state = "CRIT" /\ f.step = 0 /\ f.reseedAt = 0
    BY <2>2 DEF Image
  <2> HIDE DEF t, f
  <2>8. Budgeted(t) /\ Budgeted(f)
    BY <2>5, <2>7, DRBGAssumption DEF Budgeted
  <2> QED BY <2>1, <2>4, <2>6, <2>8
<1> QED BY <1>1, <1>2

\* A change of the state alone, to a state in which nothing is generated,
\* leaves a good image good.
LEMMA HaltGood ==
  ASSUME NEW x \in Image, Budgeted(x), NEW st \in State \ {"INIT", "RUN"}
  PROVE  [x EXCEPT !.state = st] \in Image /\ Budgeted([x EXCEPT !.state = st])
<1>1. [x EXCEPT !.state = st] \in Image
  BY Zenon DEF Image
<1> QED BY <1>1 DEF Budgeted, Image

\* PRNG_Instantiate followed by Inst keeps the budget, however they fail.
LEMMA InstantiateGood ==
  ASSUME NEW x \in Image, Budgeted(x), x.state \notin {"INIT", "RUN"},
         NEW pr \in BOOLEAN, NEW per, NEW trng, NEW ok \in BOOLEAN, NEW sd \in Nat
  PROVE  /\ Instantiate(x, pr, per, trng, ok, sd) \in Image
         /\ Budgeted(Instantiate(x, pr, per, trng, ok, sd))
<1> DEFINE y == [x EXCEPT !.auto = TRUE, !.paranoid = pr, !.cached = 0,
                          !.fatal = @ \/ trng = "entropy"]
           z == Inst(y, ok, InitSeed(x, per, trng, sd))
<1>1. Instantiate(x, pr, per, trng, ok, sd) \in
        {[x EXCEPT !.state = "CRASH"], [y EXCEPT !.state = "PARAM"],
         [y EXCEPT !.state = "ERROR"], [z EXCEPT !.state = "RESEED"], z}
  BY Zenon DEF Instantiate
<1>2. y \in Image /\ Budgeted(y)
  <2>1. (x.fatal \/ trng = "entropy") \in BOOLEAN
    OBVIOUS
  <2>2. y \in Image
    BY <2>1, Literals, Zenon DEF Image
  <2> QED BY <2>2 DEF Image, Budgeted
<1> HIDE DEF y
<1>3. z \in Image /\ Budgeted(z)
  <2>1. InitSeed(x, per, trng, sd) \in Int
    BY DEF InitSeed, Image
  <2> QED BY <1>2, <2>1, InstGood
<1> HIDE DEF z
<1> QED BY <1>1, <1>2, <1>3, HaltGood, StateValues

\* RNG_CTX_Init keeps the budget on each of its paths.
LEMMA InitGood ==
  ASSUME NEW x \in Image, Budgeted(x), NEW p \in Proc, NEW a \in Alg \cup {NoAlg},
         NEW pr \in BOOLEAN, NEW per, NEW kat \in {"pass", "katfail", "nomem"},
         NEW trng, NEW ok \in BOOLEAN, NEW sd \in Nat
  PROVE  /\ RNG_CTX_Init(x, p, a, pr, per, kat, trng, ok, sd) \in Image
         /\ Budgeted(RNG_CTX_Init(x, p, a, pr, per, kat, trng, ok, sd))
<1> DEFINE r == RNG_CTX_Init(x, p, a, pr, per, kat, trng, ok, sd)
           y == [x EXCEPT !.prng = a, !.tested[a] = @ - 1]
           t == IF y.tested[a] <= 0 THEN PRNG_self_test(y, kat) ELSE y
           i == Instantiate(Cln(t), pr, per, trng, ok, sd)
           By(z) == [z EXCEPT !.lastPID = p]
           n == [x EXCEPT !.state = "PARAM", !.lastPID = p]
           l == [x EXCEPT !.prng = a, !.state = "PARAM", !.lastPID = p]
<1>1. ASSUME NEW z \in Image, Budgeted(z)
      PROVE  By(z) \in Image /\ Budgeted(By(z))
  <2>1. By(z) \in Image
    BY Zenon DEF Image
  <2> QED BY <1>1, <2>1 DEF Budgeted, Image
<1>2. n \in Image /\ l \in Image
  BY StateValues, Zenon DEF Image
<1>3. Budgeted(n) /\ Budgeted(l)
  BY <1>2 DEF Budgeted, Image
<1>4. ASSUME a \in Alg
      PROVE  t \in Image /\ Budgeted(t) /\ i \in Image /\ Budgeted(i)
  <2>1. [x.tested EXCEPT ![a] = @ - 1] \in [Alg -> Int]
    BY <1>4 DEF Image
  <2>2. y \in Image
    BY <1>4, <2>1, Zenon DEF Image
  <2>3. Budgeted(y) /\ y.prng = a
    BY <2>2 DEF Budgeted, Image
  <2> HIDE DEF y
  <2>4. t \in Image /\ Budgeted(t)
    BY <1>4, <2>2, <2>3, SelfTestGood
  <2> HIDE DEF t
  <2>5. /\ Cln(t) \in Image /\ Budgeted(Cln(t))
        /\ Cln(t).state \notin {"INIT", "RUN"}
    BY <2>4, ClnGood
  <2> QED BY <2>4, <2>5, InstantiateGood
<1>5. \/ r = By(x) \/ r = n \/ r = l
      \/ a \in Alg /\ (r = By(t) \/ r = By(i))
  BY Zenon DEF RNG_CTX_Init
<1> HIDE DEF r, By, n, l, t, i
<1>6. r \in Image /\ Budgeted(r)
  BY <1>1, <1>2, <1>3, <1>4, <1>5
<1> QED BY <1>6 DEF r

\* RNG_ReSeed keeps the budget on each of its paths.
LEMMA ReSeedGood ==
  ASSUME NEW x \in Image, Budgeted(x), x.state # "CRASH",
         NEW aad \in BOOLEAN, NEW trng, NEW ok \in BOOLEAN, NEW sd \in Nat
  PROVE  /\ RNG_ReSeed(x, aad, trng, ok, sd) \in Image
         /\ Budgeted(RNG_ReSeed(x, aad, trng, ok, sd))
<1> DEFINE r == RNG_ReSeed(x, aad, trng, ok, sd)
           e == [x EXCEPT !.state = "ERROR"]
           pa == [x EXCEPT !.state = "PARAM"]
           g == [x EXCEPT !.state = "CRIT", !.trng = FALSE, !.cached = 0,
                          !.copied = 0]
           f == [x EXCEPT !.state = "ERROR", !.fatal = TRUE, !.cached = 0]
           z == Res(x, ok, Noise(x, trng, sd))
           s == [z EXCEPT !.cached = 0, !.copied = IF trng = "moved" THEN 0 ELSE @]
<1>1. r \in {x, e, pa, g, f, s}
  <2>1. x.state \in Usable \cup Failed \cup {"UNINIT", "CRASH"}
    BY DEF Image, State
  <2> QED BY <2>1, Zenon DEF RNG_ReSeed
<1>2. e \in Image /\ pa \in Image /\ g \in Image /\ f \in Image
  BY StateValues, Literals, Zenon DEF Image
<1>3. Budgeted(e) /\ Budgeted(pa) /\ Budgeted(g) /\ Budgeted(f)
  BY <1>2 DEF Budgeted, Image
<1>4. z \in Image /\ Budgeted(z)
  <2>1. Noise(x, trng, sd) \in Int
    BY DEF Noise, Image
  <2> QED BY <2>1, ResGood
<1> HIDE DEF z
<1>5. s \in Image
  <2>1. (IF trng = "moved" THEN 0 ELSE z.copied) \in Nat
    BY <1>4 DEF Image
  <2> QED BY <1>4, <2>1, Literals, Zenon DEF Image
<1>6. Budgeted(s)
  BY <1>4, <1>5 DEF Budgeted, Image
<1> HIDE DEF e, pa, g, f, s, r
<1>7. r \in Image /\ Budgeted(r)
  BY <1>1, <1>2, <1>3, <1>4, <1>5, <1>6
<1> QED BY <1>7 DEF r

\* The check on the process identifier keeps the budget.
LEMMA ForkCheckGood ==
  ASSUME NEW x \in Image, Budgeted(x), NEW p \in Proc, NEW drain
  PROVE  ForkCheck(x, p, drain) \in Image /\ Budgeted(ForkCheck(x, p, drain))
<1> DEFINE c == [x EXCEPT !.state = "CRASH"]
           f == [x EXCEPT !.state = "RESEED", !.lastPID = p, !.cached = 0,
                          !.copied = 0, !.fatal = @ \/ drain = "entropy"]
<1>1. ForkCheck(x, p, drain) \in {x, c, f}
  BY Zenon DEF ForkCheck
<1>2. (x.fatal \/ drain = "entropy") \in BOOLEAN
  OBVIOUS
<1>3. c \in Image /\ f \in Image
  BY <1>2, StateValues, Literals, Zenon DEF Image
<1>4. Budgeted(c) /\ Budgeted(f)
  BY <1>3 DEF Budgeted, Image
<1> HIDE DEF c, f
<1> QED BY <1>1, <1>3, <1>4

\* One chunk of RNG_Generate keeps the budget on each of its paths.
LEMMA GenerateGood ==
  ASSUME NEW x \in Image, Budgeted(x), x.state # "CRASH", NEW p \in Proc,
         NEW req, NEW drain, NEW trng, NEW ok \in BOOLEAN, NEW sd \in Nat,
         NEW first \in Block, NEW blk \in Block
  PROVE  LET r == OldefRNG_Generate(x, p, req, drain, trng, ok, sd, first, blk)
         IN r \in Image /\ Budgeted(r)
<1> DEFINE r == OldefRNG_Generate(x, p, req, drain, trng, ok, sd, first, blk)
           u == [x EXCEPT !.out = NoBlock]
           e == [x EXCEPT !.state = "ERROR", !.out = NoBlock]
           f == ForkCheck(u, p, drain)
           n == IF req = "long" /\ f.state # "CRASH"
                THEN [f EXCEPT !.state = "PARAM"] ELSE f
           s == IF MustReseed(n) /\ n.state # "CRASH"
                THEN RNG_ReSeed(n, req = "aad", trng, ok, sd) ELSE n
           g == Gen(s, ok, first, blk)
<1>1. u \in Image /\ Budgeted(u)
  <2>1. u \in Image
    BY Literals, Zenon DEF Image
  <2> QED BY <2>1 DEF Budgeted, Image
<1>2. e \in Image /\ Budgeted(e)
  <2>1. e \in Image
    BY Literals, StateValues, Zenon DEF Image
  <2> QED BY <2>1 DEF Budgeted, Image
<1> HIDE DEF u
<1>3. f \in Image /\ Budgeted(f)
  BY <1>1, ForkCheckGood
<1> HIDE DEF f
<1>4. n \in Image /\ Budgeted(n)
  BY <1>3, HaltGood, StateValues
<1> HIDE DEF n
<1>5. s \in Image /\ Budgeted(s)
  BY <1>4, ReSeedGood
<1> HIDE DEF s
<1>6. ASSUME s.state \in Usable
      PROVE  g \in Image /\ Budgeted(g)
  BY <1>5, <1>6, GenGood
<1> HIDE DEF g
<1>7. [s EXCEPT !.state = "PARAM"] \in Image
      /\ Budgeted([s EXCEPT !.state = "PARAM"])
      /\ [s EXCEPT !.state = "ERROR"] \in Image
      /\ Budgeted([s EXCEPT !.state = "ERROR"])
  BY <1>5, HaltGood, StateValues
<1>8. ASSUME s.state \in Usable
      PROVE  [g EXCEPT !.state = "RESEED"] \in Image
             /\ Budgeted([g EXCEPT !.state = "RESEED"])
  BY <1>6, <1>8, HaltGood, StateValues
<1>9. s.state \in Usable \cup Failed \cup {"UNINIT", "CRASH"}
  BY <1>5 DEF Image, State
<1>10. \/ r = e \/ r = s
       \/ r = [s EXCEPT !.state = "PARAM"] \/ r = [s EXCEPT !.state = "ERROR"]
       \/ s.state \in Usable /\ r = g
       \/ s.state \in Usable /\ r = [g EXCEPT !.state = "RESEED"]
  <2>1. CASE x.prng = NoAlg
    BY <2>1 DEF OldefRNG_Generate
  <2>2. CASE x.prng # NoAlg
    <3>1. r = CASE s.state \in Usable /\ req = "aad" -> [s EXCEPT !.state = "PARAM"]
                [] s.state \in Usable /\ req # "aad" ->
                     IF g.paranoid /\ g.state = "RUN"
                     THEN [g EXCEPT !.state = "RESEED"] ELSE g
                [] s.state = "UNINIT" -> [s EXCEPT !.state = "ERROR"]
                [] s.state \in Failed \cup {"CRASH"} -> s
      BY <2>2, Zenon DEF OldefRNG_Generate, u, f, n, s, g
    <3> HIDE DEF r
    <3>2. CASE s.state \in Usable /\ req = "aad"
      BY <3>1, <3>2 DEF Usable, Failed
    <3>3. CASE s.state \in Usable /\ req # "aad"
      BY <3>1, <3>3 DEF Usable, Failed
    <3>4. CASE s.state \notin Usable
      BY <1>9, <3>1, <3>4 DEF Usable, Failed
    <3> QED BY <3>2, <3>3, <3>4
  <2> QED BY <2>1, <2>2
<1> HIDE DEF e, r
<1>11. r \in Image /\ Budgeted(r)
  BY <1>2, <1>5, <1>6, <1>7, <1>8, <1>10
<1> QED BY <1>11 DEF r

\* So does the self test an application asks for.
LEMMA SelfTestCtrlGood ==
  ASSUME NEW x \in Image, Budgeted(x), x.prng # NoAlg,
         NEW kat \in {"pass", "katfail", "nomem"}
  PROVE  SelfTestCtrl(x, kat) \in Image /\ Budgeted(SelfTestCtrl(x, kat))
<1>1. x.prng \in Alg
  BY DEF Image
<1>2. PRNG_self_test(x, kat) \in Image
  BY <1>1, SelfTestGood
<1> QED BY <1>2, ClnGood DEF SelfTestCtrl

-----------------------------------------------------------------------------
(***************************************************************************)
(* The steps.                                                              *)
(***************************************************************************)
\* Replacing one process image by a good one keeps the invariant's part on proc.
LEMMA PutGood ==
  ASSUME BudgetInv, NEW p \in Proc, NEW y \in Image, Budgeted(y),
         proc' = [proc EXCEPT ![p] = y]
  PROVE  proc' \in [Proc -> Image] /\ \A q \in Proc : Budgeted(proc'[q])
BY DEF BudgetInv, TypeOK

\* Becomes keeps the part of the invariant on the images and the seeds.
LEMMA BecomesGood ==
  ASSUME BudgetInv, NEW p \in Proc, NEW y \in Image, Budgeted(y), Becomes(p, y)
  PROVE  /\ proc' \in [Proc -> Image] /\ \A q \in Proc : Budgeted(proc'[q])
         /\ nextSeed' \in Nat \ {0}
<1>1. nextSeed' \in Nat \ {0}
  BY DEF Becomes, BudgetInv, TypeOK
<1> QED BY <1>1, PutGood DEF Becomes

\* What the environment may choose.
LEMMA OutcomeTypes ==
  /\ KatOutcomes \subseteq {"pass", "katfail", "nomem"}
  /\ MethodOutcomes \subseteq BOOLEAN
BY DEF KatOutcomes, MethodOutcomes

\* The initial state satisfies the invariant.
LEMMA InitEstablishes == Init => BudgetInv
<1> SUFFICES ASSUME Init PROVE BudgetInv
  OBVIOUS
<1>1. proc \in [Proc -> Image] /\ \A p \in Proc : Budgeted(proc[p])
  BY FreshImageGood DEF Init
<1>2. Idle \in Call
  BY DEF Idle, Call
<1>3. call \in [Proc -> Call]
  BY <1>2 DEF Init
<1> QED BY <1>1, <1>3, DRBGAssumption DEF Init, BudgetInv, TypeOK

(***************************************************************************)
(* Each step of a process keeps every image within the budget of its seed: *)
(* one case per action, resting on the lemma of the handler it runs.       *)
(***************************************************************************)
LEMMA StepPreserves == BudgetInv /\ [Next]_vars => BudgetInv'
<1> SUFFICES ASSUME BudgetInv, [Next]_vars PROVE BudgetInv'
  OBVIOUS
<1> USE DEF BudgetInv, TypeOK
<1>0. CASE UNCHANGED vars
  BY <1>0 DEF vars, Budgeted
<1>1. ASSUME NEW p \in Proc, Renew(p) PROVE BudgetInv'
  <2>1. NewContext(proc[p]) \in Image /\ Budgeted(NewContext(proc[p]))
    BY NewContextGood
  <2>2. proc' = [proc EXCEPT ![p] = NewContext(proc[p])]
    BY <1>1 DEF Renew
  <2>3. proc' \in [Proc -> Image] /\ \A q \in Proc : Budgeted(proc'[q])
    BY <2>1, <2>2, PutGood
  <2> QED BY <1>1, <2>3 DEF Renew
<1>2. ASSUME NEW p \in Proc, DoInit(p) PROVE BudgetInv'
  <2>1. PICK a \in Alg \cup {NoAlg}, pr \in BOOLEAN, per \in PersChoices,
             kat \in KatOutcomes, trng \in InitOutcomes(proc[p]), ok \in MethodOutcomes :
          Becomes(p, RNG_CTX_Init(proc[p], p, a, pr, per, kat, trng, ok, nextSeed))
    BY <1>2 DEF DoInit
  <2> DEFINE y == RNG_CTX_Init(proc[p], p, a, pr, per, kat, trng, ok, nextSeed)
  <2>2. y \in Image /\ Budgeted(y)
    BY OutcomeTypes, InitGood
  <2> HIDE DEF y
  <2>3. /\ proc' \in [Proc -> Image] /\ \A q \in Proc : Budgeted(proc'[q])
        /\ nextSeed' \in Nat \ {0}
    BY <2>1, <2>2, BecomesGood DEF y
  <2>4. exposed' \subseteq Proc
    BY <1>2 DEF DoInit, Exposed
  <2> QED BY <1>2, <2>3, <2>4 DEF DoInit
<1>3. ASSUME NEW p \in Proc, DoReSeed(p) PROVE BudgetInv'
  <2>1. PICK aad \in BOOLEAN, trng \in TrngOutcomes, ok \in MethodOutcomes :
          Becomes(p, RNG_ReSeed(proc[p], aad, trng, ok, nextSeed))
    BY <1>3 DEF DoReSeed
  <2> DEFINE y == RNG_ReSeed(proc[p], aad, trng, ok, nextSeed)
  <2>2. proc[p].state # "CRASH"
    BY <1>3 DEF DoReSeed, Between, Running
  <2>3. y \in Image /\ Budgeted(y)
    BY <2>2, OutcomeTypes, ReSeedGood
  <2> HIDE DEF y
  <2>4. /\ proc' \in [Proc -> Image] /\ \A q \in Proc : Budgeted(proc'[q])
        /\ nextSeed' \in Nat \ {0}
    BY <2>1, <2>3, BecomesGood DEF y
  <2> QED BY <1>3, <2>4 DEF DoReSeed
<1>4. ASSUME NEW p \in Proc, SetParanoid(p) PROVE BudgetInv'
  <2>1. PICK b \in BOOLEAN : proc' = [proc EXCEPT ![p].paranoid = b]
    BY <1>4 DEF SetParanoid
  <2> DEFINE y == [proc[p] EXCEPT !.paranoid = b]
  <2>2. y \in Image
    <3>1. proc[p] \in Image
      OBVIOUS
    <3> QED BY <3>1, Zenon DEF Image
  <2>3. Budgeted(y)
    BY <2>2 DEF Budgeted, Image
  <2>4. proc' = [proc EXCEPT ![p] = y]
    BY <2>1
  <2> HIDE DEF y
  <2>5. proc' \in [Proc -> Image] /\ \A q \in Proc : Budgeted(proc'[q])
    BY <2>2, <2>3, <2>4, PutGood
  <2> QED BY <1>4, <2>5 DEF SetParanoid
<1>5. ASSUME NEW p \in Proc, SetAuto(p) PROVE BudgetInv'
  <2>1. PICK b \in BOOLEAN : proc' = [proc EXCEPT ![p].auto = b]
    BY <1>5 DEF SetAuto
  <2> DEFINE y == [proc[p] EXCEPT !.auto = b]
  <2>2. y \in Image
    <3>1. proc[p] \in Image
      OBVIOUS
    <3> QED BY <3>1, Zenon DEF Image
  <2>3. Budgeted(y)
    BY <2>2 DEF Budgeted, Image
  <2>4. proc' = [proc EXCEPT ![p] = y]
    BY <2>1
  <2> HIDE DEF y
  <2>5. proc' \in [Proc -> Image] /\ \A q \in Proc : Budgeted(proc'[q])
    BY <2>2, <2>3, <2>4, PutGood
  <2> QED BY <1>5, <2>5 DEF SetAuto
<1>6. ASSUME NEW p \in Proc, SetReseed(p) PROVE BudgetInv'
  <2>1. PICK n \in 1 .. (MaxReseed - 1) : proc' = [proc EXCEPT ![p].reseedAt = n]
    BY <1>6 DEF SetReseed
  <2> DEFINE y == [proc[p] EXCEPT !.reseedAt = n]
  <2>2. n \in Nat /\ n <= MaxReseed /\ proc[p].state = "INIT"
    BY <1>6, DRBGAssumption DEF SetReseed
  <2>3. y \in Image
    <3>1. proc[p] \in Image
      OBVIOUS
    <3> QED BY <2>2, <3>1, Zenon DEF Image
  <2>4. Budgeted(y)
    BY <2>2, <2>3 DEF Budgeted, Image
  <2>5. proc' = [proc EXCEPT ![p] = y]
    BY <2>1
  <2> HIDE DEF y
  <2>6. proc' \in [Proc -> Image] /\ \A q \in Proc : Budgeted(proc'[q])
    BY <2>3, <2>4, <2>5, PutGood
  <2> QED BY <1>6, <2>6 DEF SetReseed
<1>7. ASSUME NEW p \in Proc, DoReseedCtrl(p) PROVE BudgetInv'
  <2> DEFINE y == [proc[p] EXCEPT !.state = "RESEED"]
  <2>1. y \in Image /\ Budgeted(y)
    BY HaltGood, StateValues
  <2>2. proc' = [proc EXCEPT ![p] = y]
    BY <1>7 DEF DoReseedCtrl
  <2> HIDE DEF y
  <2>3. proc' \in [Proc -> Image] /\ \A q \in Proc : Budgeted(proc'[q])
    BY <2>1, <2>2, PutGood
  <2> QED BY <1>7, <2>3 DEF DoReseedCtrl
<1>8. ASSUME NEW p \in Proc, DoSelfTest(p) PROVE BudgetInv'
  <2>1. PICK kat \in KatOutcomes :
          proc' = [proc EXCEPT ![p] = SelfTestCtrl(proc[p], kat)]
    BY <1>8 DEF DoSelfTest
  <2>2. /\ SelfTestCtrl(proc[p], kat) \in Image
        /\ Budgeted(SelfTestCtrl(proc[p], kat))
    BY <1>8, OutcomeTypes, SelfTestCtrlGood DEF DoSelfTest
  <2>3. proc' \in [Proc -> Image] /\ \A q \in Proc : Budgeted(proc'[q])
    BY <2>1, <2>2, PutGood
  <2> QED BY <1>8, <2>3 DEF DoSelfTest
<1>9. ASSUME NEW p \in Proc, StartGenerate(p) PROVE BudgetInv'
  <2>1. PICK k \in 1 .. MaxChunk,
             req \in {"fits"} \cup (Sizes \cap {"long", "aad"}) :
          call' = [call EXCEPT ![p] =
            [left |-> IF proc[p].auto /\ proc[p].state \notin Usable THEN 0 ELSE k,
             req |-> req]]
    BY <1>9 DEF StartGenerate
  <2>2. call' \in [Proc -> Call]
    BY <2>1, DRBGAssumption DEF Call
  <2> QED BY <1>9, <2>2 DEF StartGenerate
<1>10. ASSUME NEW p \in Proc, GenerateChunk(p) PROVE BudgetInv'
  <2>1. PICK drain \in TrngOutcomes \ {"moved", "gone"}, trng \in TrngOutcomes,
             ok \in MethodOutcomes, first \in Block, blk \in Block :
          Answer(p, OldefRNG_Generate(proc[p], p, call[p].req, drain, trng, ok,
                                      nextSeed, first, blk))
    BY <1>10, Zenon DEF GenerateChunk
  <2> DEFINE y == OldefRNG_Generate(proc[p], p, call[p].req, drain, trng, ok,
                                    nextSeed, first, blk)
             left == IF proc[p].auto /\ y.state \in Usable
                     THEN call[p].left - 1 ELSE 0
  <2>2. proc[p].state # "CRASH" /\ call[p].left > 0
    BY <1>10 DEF GenerateChunk, Running
  <2>4. y \in Image /\ Budgeted(y)
    BY <2>2, OutcomeTypes, GenerateGood
  <2>5. Answer(p, y)
    BY <2>1
  <2> HIDE DEF y
  <2>6. /\ proc' \in [Proc -> Image] /\ \A q \in Proc : Budgeted(proc'[q])
        /\ nextSeed' \in Nat \ {0}
    BY <2>4, <2>5, BecomesGood DEF Answer
  <2>7. call' \in [Proc -> Call]
    <3>1. call[p] \in Call
      OBVIOUS
    <3>2. left \in Nat
      BY <2>2, <3>1 DEF Call
    <3>3. call' = [call EXCEPT ![p].left = left, ![p].req = "fits"]
      BY <2>5 DEF Answer
    <3> HIDE DEF left
    <3>4. call' = [call EXCEPT ![p] = [call[p] EXCEPT !.left = left, !.req = "fits"]]
      BY <3>3
    <3>5. [call[p] EXCEPT !.left = left, !.req = "fits"] \in Call
      BY <3>1, <3>2, Zenon DEF Call
    <3> QED BY <3>4, <3>5
  <2>8. emitted' \subseteq Int \X Nat
    BY <2>4, <2>5 DEF Image, Answer
  <2> QED BY <1>10, <2>6, <2>7, <2>8 DEF GenerateChunk
<1>11. ASSUME NEW p \in Proc, NEW q \in Proc, Fork(p, q) PROVE BudgetInv'
  <2> DEFINE shared == IF proc[p].cached # 0 THEN proc[p].cached ELSE nextSeed
             noise  == IF proc[p].copied # 0 THEN proc[p].copied ELSE shared
             y == [proc[p] EXCEPT !.cached = shared, !.copied = noise]
  <2>1. shared \in Nat /\ noise \in Nat
    BY DEF Image
  <2>2. y \in Image
    <3>1. proc[p] \in Image
      OBVIOUS
    <3> QED BY <2>1, <3>1, Zenon DEF Image
  <2>3. Budgeted(y)
    BY <2>2 DEF Budgeted, Image
  <2>4. /\ proc' = [proc EXCEPT ![p] = y, ![q] = y]
        /\ nextSeed' = IF shared = nextSeed THEN nextSeed + 1 ELSE nextSeed
        /\ born' = born \cup {q} /\ exposed' = exposed \ {q}
        /\ UNCHANGED <<call, emitted>>
    BY <1>11 DEF Fork
  <2> HIDE DEF y, shared, noise
  <2>5. proc' \in [Proc -> Image] /\ \A r \in Proc : Budgeted(proc'[r])
    BY <2>2, <2>3, <2>4
  <2> QED BY <2>4, <2>5
<1>12. ASSUME NEW p \in Proc, Exit(p) PROVE BudgetInv'
  BY <1>12 DEF Exit
<1> QED BY <1>0, <1>1, <1>2, <1>3, <1>4, <1>5, <1>6, <1>7, <1>8, <1>9, <1>10,
           <1>11, <1>12 DEF Next

(***************************************************************************)
(* BudgetInv is an invariant of every execution, hence the type invariant  *)
(* and the bound on the use of one seed.                                   *)
(***************************************************************************)
THEOREM BudgetInvariant == Spec => []BudgetInv
<1>1. Init => BudgetInv
  BY InitEstablishes
<1>2. BudgetInv /\ [Next]_vars => BudgetInv'
  BY StepPreserves
<1> QED BY <1>1, <1>2, PTL DEF Spec

\* Every variable keeps its type.
THEOREM TypeCorrect == Spec => []TypeOK
<1>1. BudgetInv => TypeOK
  BY DEF BudgetInv
<1> QED BY <1>1, BudgetInvariant, PTL

(***************************************************************************)
(* One seed answers at most MaxReseed - 1 requests, for every number of    *)
(* processes, every maxReseed and every sequence of calls and failures     *)
(* (the count of calls kept by Gen, Res, Inst and SETRESEED).              *)
(***************************************************************************)
THEOREM SeedBudgetHolds == Spec => []SeedBudget
<1>1. BudgetInv => SeedBudget
  BY DEF BudgetInv, Budgeted, SeedBudget
<1> QED BY <1>1, BudgetInvariant, PTL

-----------------------------------------------------------------------------
(***************************************************************************)
(* What the handlers do to the seed, the buffered noise and the state.     *)
(***************************************************************************)
\* The states a request may be answered in without a reseed.
Ready == {"INIT", "RUN"}

\* A context that can be used has what it is used with; noise that waits in the
\* buffer has not become the seed.
Sound(x) ==
  /\ x.state \in Usable => x.live /\ x.trng
  /\ x.state = "UNINIT" => x.trng
  /\ x.cached # 0 => x.cached # x.seed
  /\ x.state \in Ready => x.seed # 0

\* RNG_ReSeed makes r of x: when r can be used it has a new seed, from the noise
\* sd given to the call or from what was buffered, which is then gone.
ReSeeds(x, r, aad, sd) ==
  /\ r.lastPID = x.lastPID /\ r.paranoid = x.paranoid /\ r.out = x.out
  /\ r.live = x.live
  /\ r.state \in Usable =>
       /\ x.state \in Usable /\ r.state = "RUN" /\ r.live /\ x.live
       /\ r.trng = x.trng /\ r.fatal = x.fatal
       /\ r.cached = 0 /\ r.seed \in {sd, x.cached} /\ r.seed # 0
  /\ r.cached \in {0, x.cached}
  /\ r.seed \in {x.seed, sd} \/ (r.seed = x.cached /\ x.cached # 0)
  /\ r.cached # 0 => r.seed = x.seed
  /\ x.state \in Usable /\ x.live => r.state \in AfterReSeed(x.state)
  /\ x.state \in Usable /\ ~aad => r.state # "PARAM"
  /\ x.state \in Failed => r.state = x.state \/ r.state = "ERROR"
  /\ x.state = "UNINIT" => r.state = "ERROR"
  /\ r.state # "UNINIT"

LEMMA ReSeedEffect ==
  ASSUME NEW x \in Image, x.state # "CRASH", NEW aad \in BOOLEAN, NEW trng,
         NEW ok \in BOOLEAN, NEW sd \in Nat \ {0}
  PROVE  ReSeeds(x, RNG_ReSeed(x, aad, trng, ok, sd), aad, sd)
<1> DEFINE r == RNG_ReSeed(x, aad, trng, ok, sd)
           e == [x EXCEPT !.state = "ERROR"]
           pa == [x EXCEPT !.state = "PARAM"]
           g == [x EXCEPT !.state = "CRIT", !.trng = FALSE, !.cached = 0,
                          !.copied = 0]
           f == [x EXCEPT !.state = "ERROR", !.fatal = TRUE, !.cached = 0]
           z == Res(x, ok, Noise(x, trng, sd))
           s == [z EXCEPT !.cached = 0, !.copied = IF trng = "moved" THEN 0 ELSE @]
<1>1. x.state \in Usable \cup Failed \cup {"UNINIT"}
  BY DEF Image, State
<1>2. CASE x.prng = NoAlg \/ x.state = "UNINIT"
  <2>1. r = e
    BY <1>2, Zenon DEF RNG_ReSeed, Usable, Failed
  <2>2. ReSeeds(x, e, aad, sd)
    BY <1>1 DEF ReSeeds, Image, Usable, Failed, AfterReSeed
  <2> QED BY <2>1, <2>2
<1>3. CASE x.prng # NoAlg /\ x.state \in Failed
  <2>1. x.state \notin Usable /\ x.state # "UNINIT"
    BY <1>3 DEF Usable, Failed
  <2>2. r = x
    BY <1>3, <2>1, Zenon DEF RNG_ReSeed
  <2>3. ReSeeds(x, x, aad, sd)
    BY <1>3 DEF ReSeeds, Image, Usable, Failed
  <2> QED BY <2>2, <2>3
<1>4. CASE x.prng # NoAlg /\ x.state \in Usable
  <2>0. x.state \notin Failed /\ x.state # "UNINIT"
    BY <1>4 DEF Usable, Failed
  <2>1. r = CASE aad -> pa
              [] ~aad /\ trng = "gone" -> g
              [] ~aad /\ trng = "entropy" -> f
              [] ~aad /\ trng \notin {"gone", "entropy"} -> s
    BY <1>4, <2>0, Zenon DEF RNG_ReSeed
  <2>2. (aad /\ r = pa) \/ r \in {g, f, s}
    BY <2>1, Zenon
  <2>3. (aad => ReSeeds(x, pa, aad, sd)) /\ ReSeeds(x, g, aad, sd) /\ ReSeeds(x, f, aad, sd)
    BY <1>4 DEF ReSeeds, Image, Usable, Failed, AfterReSeed
  <2>4. ReSeeds(x, s, aad, sd)
    <3>1. Noise(x, trng, sd) \in {sd, x.cached} \ {0} /\ Noise(x, trng, sd) \in Nat
      BY DEF Noise, Image
    <3> DEFINE n == Noise(x, trng, sd)
               co == IF trng = "moved" THEN 0 ELSE x.copied
    <3>2. CASE x.live
      <4>1. s = [x EXCEPT !.state = IF ok THEN "RUN" ELSE "ERROR", !.callCount = 1,
                          !.seed = n, !.step = 0, !.cached = 0, !.copied = co]
        BY <3>2 DEF Res, Image
      <4> HIDE DEF s, n, co
      <4> QED BY <1>4, <3>1, <3>2, <4>1 DEF ReSeeds, Image, Usable, Failed, AfterReSeed, n
    <3>3. CASE ~x.live
      <4>1. s = [x EXCEPT !.state = "CRASH", !.cached = 0, !.copied = co]
        BY <3>3 DEF Res, Image
      <4> HIDE DEF s, co
      <4> QED BY <1>4, <3>3, <4>1 DEF ReSeeds, Image, Usable, Failed
    <3> QED BY <3>2, <3>3
  <2> QED BY <2>2, <2>3, <2>4
<1> QED BY <1>1, <1>2, <1>3, <1>4

\* Gen makes g of x: it answers only from a seed in use, with a step it has not
\* used, and leaves the rest.
Gens(x, g) ==
  /\ g.lastPID = x.lastPID /\ g.paranoid = x.paranoid /\ g.seed = x.seed
  /\ g.cached = x.cached /\ g.live = x.live /\ g.trng = x.trng
  /\ g.state \in {"RUN", "RESEED", "ERROR", "CRIT"}
  /\ g.step >= x.step
  /\ g.state \in Usable => x.state \in Ready /\ g.fatal = x.fatal
  /\ g.out # NoBlock => x.state \in Ready /\ g.step > x.step /\ g.fatal = x.fatal
                        /\ g.state \in {"RUN", "RESEED"}

LEMMA GenEffect ==
  ASSUME NEW x \in Image, x.state \in Usable, x.state \in Ready => x.live,
         x.out = NoBlock, NEW ok \in BOOLEAN, NEW first \in Block, NEW blk \in Block
  PROVE  Gens(x, Gen(x, ok, first, blk))
<1>1. CASE x.state = "RESEED"
  <2>1. Gen(x, ok, first, blk) = [x EXCEPT !.state = "ERROR"]
    BY <1>1 DEF Gen
  <2> QED BY <2>1 DEF Gens, Image, Usable
<1>2. ASSUME NEW y \in Image, y.step >= x.step, ok => y.step > x.step, x.state \in Ready,
             y = [x EXCEPT !.lastdata = y.lastdata, !.step = y.step]
      PROVE  Gens(x, GenTail(y, ok, blk))
  <2>1. /\ y.lastPID = x.lastPID /\ y.paranoid = x.paranoid /\ y.seed = x.seed
        /\ y.cached = x.cached /\ y.live = x.live /\ y.trng = x.trng
        /\ y.out = NoBlock /\ y.fatal = x.fatal /\ y.state = x.state
        /\ y.step \in Nat /\ x.step \in Nat
    BY <1>2 DEF Image
  <2>2. CASE blk = y.lastdata
    <3>1. GenTail(y, ok, blk) = [y EXCEPT !.state = "CRIT", !.fatal = TRUE]
      BY <2>2 DEF GenTail
    <3> QED BY <1>2, <2>1, <3>1 DEF Gens, Image, Usable
  <2>3. CASE blk # y.lastdata
    <3> DEFINE st == IF y.callCount + 1 >= y.reseedAt THEN "RESEED"
                     ELSE IF ok THEN "RUN" ELSE "ERROR"
               o == IF ok THEN blk ELSE NoBlock
    <3>1. GenTail(y, ok, blk) = [y EXCEPT !.callCount = @ + 1, !.state = st, !.out = o]
      BY <2>3 DEF GenTail
    <3>2. st \in {"RUN", "RESEED", "ERROR"} /\ (ok => st \in {"RUN", "RESEED"})
      OBVIOUS
    <3>3. o # NoBlock => ok
      OBVIOUS
    <3> HIDE DEF st, o
    <3> QED BY <1>2, <2>1, <3>1, <3>2, <3>3 DEF Gens, Image, Usable
  <2> QED BY <2>2, <2>3
<1>3. CASE x.state = "INIT"
  <2> DEFINE y == [x EXCEPT !.lastdata = first, !.step = IF ok THEN @ + 2 ELSE @]
  <2>1. Gen(x, ok, first, blk) = GenTail(y, ok, blk)
    BY <1>3 DEF Gen, Ready
  <2>2. (IF ok THEN x.step + 2 ELSE x.step) \in Nat
    BY DEF Image
  <2>3. y \in Image
    BY <2>2, Zenon DEF Image
  <2>4. y.step >= x.step /\ (ok => y.step > x.step)
    BY DEF Image
  <2>5. y = [x EXCEPT !.lastdata = y.lastdata, !.step = y.step]
    BY DEF Image
  <2> HIDE DEF y
  <2> QED BY <1>2, <1>3, <2>1, <2>3, <2>4, <2>5 DEF Ready
<1>4. CASE x.state = "RUN"
  <2> DEFINE y == [x EXCEPT !.step = IF ok THEN @ + 1 ELSE @]
  <2>1. Gen(x, ok, first, blk) = GenTail(y, ok, blk)
    BY <1>4 DEF Gen, Ready
  <2>2. (IF ok THEN x.step + 1 ELSE x.step) \in Nat
    BY DEF Image
  <2>3. y \in Image
    BY <2>2, Zenon DEF Image
  <2>4. y.step >= x.step /\ (ok => y.step > x.step)
    BY DEF Image
  <2>5. y = [x EXCEPT !.lastdata = y.lastdata, !.step = y.step]
    BY DEF Image
  <2> HIDE DEF y
  <2> QED BY <1>2, <1>4, <2>1, <2>3, <2>4, <2>5 DEF Ready
<1> QED BY <1>1, <1>3, <1>4 DEF Usable

\* The self test of a type, in a context that is being initialized.
LEMMA SelfTestEffect ==
  ASSUME NEW x \in Image, Budgeted(x), x.prng \in Alg,
         NEW kat \in {"pass", "katfail", "nomem"}
  PROVE  LET t == PRNG_self_test(x, kat) IN
         /\ t \in Image /\ Budgeted(t)
         /\ t.trng = x.trng /\ t.cached = x.cached /\ t.copied = x.copied
         /\ t.seed \in {x.seed, 0}
         /\ (t.state = "UNINIT" /\ t.fatal = x.fatal) \/ t.state = "CRIT"
<1>1. CASE kat = "nomem"
  <2>1. PRNG_self_test(x, kat) = [x EXCEPT !.state = "CRIT"]
    BY <1>1 DEF PRNG_self_test
  <2> QED BY <2>1, SelfTestGood DEF Image
<1>2. CASE kat # "nomem"
  <2> DEFINE c == Cln(x)
             t == [c EXCEPT !.tested[x.prng] = TestAt]
             f == [c EXCEPT !.tested[x.prng] = TestAt, !.state = "CRIT",
                            !.fatal = TRUE, !.broken = @ \cup {x.prng}]
  <2>1. \/ PRNG_self_test(x, kat) = t
        \/ PRNG_self_test(x, kat) = f
    BY <1>2 DEF PRNG_self_test
  <2>2. /\ c \in Image /\ c.state = "UNINIT" /\ c.seed = 0
        /\ c.trng = x.trng /\ c.cached = x.cached /\ c.fatal = x.fatal
        /\ c.copied = x.copied
    BY ClnGood DEF Cln, Image
  <2> HIDE DEF c
  <2>3. /\ t.trng = c.trng /\ t.cached = c.cached /\ t.seed = c.seed
        /\ t.state = c.state /\ t.fatal = c.fatal /\ t.copied = c.copied
    BY <2>2 DEF Image
  <2>4. /\ f.trng = c.trng /\ f.cached = c.cached /\ f.seed = c.seed
        /\ f.state = "CRIT" /\ f.copied = c.copied
    BY <2>2 DEF Image
  <2> HIDE DEF t, f
  <2> QED BY <2>1, <2>2, <2>3, <2>4, SelfTestGood
<1> QED BY <1>1, <1>2

\* RNG_CTX_Init makes y of x: when y can be used it has the seed sd, or a state
\* that every holder of the copied noise can make.
Inits(x, y, p, sd) ==
  /\ y.lastPID = p
  /\ y.state \in Usable => y.live /\ y.trng /\ y.cached = 0 /\ y.fatal = x.fatal
                           /\ (y.seed = sd \/ y.seed < 0)
  /\ y.seed \in {x.seed, 0, sd} \/ y.seed < 0
  /\ y.cached \in {0, x.cached}
  /\ y.cached # 0 => y.seed \in {x.seed, 0}
  /\ y.state # "UNINIT"
  /\ x.state = "UNINIT" /\ x.trng /\ ~y.paranoid => y.state \in AfterInit

LEMMA InstantiateEffect ==
  ASSUME NEW x \in Image, x.state = "UNINIT", NEW p \in Proc,
         NEW pr \in BOOLEAN, NEW per, NEW trng, trng = "copied" => x.copied # 0,
         NEW ok \in BOOLEAN, NEW sd \in Nat
  PROVE  Inits(x, [Instantiate(x, pr, per, trng, ok, sd) EXCEPT !.lastPID = p], p, sd)
<1> DEFINE fa == x.fatal \/ trng = "entropy"
           i == Instantiate(x, pr, per, trng, ok, sd)
           se == InitSeed(x, per, trng, sd)
           z == [x EXCEPT !.auto = TRUE, !.paranoid = pr, !.cached = 0, !.fatal = fa,
                          !.state = IF ok THEN "INIT" ELSE "ERROR", !.live = ok \/ x.live,
                          !.reseedAt = MaxReseed, !.callCount = 1, !.seed = se, !.step = 0]
<1>1. fa \in BOOLEAN /\ se \in Int /\ (se = sd \/ se < 0)
  BY DEF InitSeed, Image
<1>2. CASE ~x.trng
  <2>1. i = [x EXCEPT !.state = "CRASH"]
    BY <1>2 DEF Instantiate
  <2> HIDE DEF i
  <2> QED BY <1>2, <2>1 DEF Inits, Image, Usable, i
<1>3. CASE x.trng /\ (per = "total" \/ trng = "entropy")
  <2>1. PICK st \in {"PARAM", "ERROR"} :
          i = [x EXCEPT !.auto = TRUE, !.paranoid = pr, !.cached = 0, !.fatal = fa,
                        !.state = st]
    BY <1>3 DEF Instantiate, Image
  <2> HIDE DEF i, fa
  <2> QED BY <1>3, <2>1 DEF Inits, Image, Usable, AfterInit, i
<1>4. CASE x.trng /\ per # "total" /\ trng # "entropy"
  <2>1. i = IF pr /\ z.state = "INIT" THEN [z EXCEPT !.state = "RESEED"] ELSE z
    BY <1>4 DEF Instantiate, Inst, InitSeed, Image
  <2>2. z.trng = x.trng /\ z.seed = se /\ z.cached = 0 /\ z.paranoid = pr
    BY DEF Image
  <2>3. z.fatal = fa /\ fa = x.fatal
    BY <1>4 DEF Image
  <2>4. /\ z.state \in {"INIT", "ERROR"} /\ (z.state = "INIT" => z.live)
        /\ z.lastPID = x.lastPID
    BY DEF Image
  <2>5. z \in Image
    <3> DEFINE y == [x EXCEPT !.auto = TRUE, !.paranoid = pr, !.cached = 0, !.fatal = fa]
    <3>1. z = Inst(y, ok, se)
      BY DEF Inst, Image
    <3> HIDE DEF fa, se, z
    <3>2. y \in Image
      BY <1>1, Literals, Zenon DEF Image
    <3> HIDE DEF y
    <3> QED BY <1>1, <3>1, <3>2, InstGood
  <2> HIDE DEF i, z, fa, se
  <2>6. CASE pr /\ z.state = "INIT"
    <3>1. i = [z EXCEPT !.state = "RESEED"]
      BY <2>1, <2>6
    <3> QED BY <1>1, <1>4, <2>2, <2>3, <2>4, <2>5, <2>6, <3>1 DEF Inits, Image, Usable, AfterInit, i
  <2>7. CASE ~(pr /\ z.state = "INIT")
    <3>1. i = z
      BY <2>1, <2>7
    <3> QED BY <1>1, <1>4, <2>2, <2>3, <2>4, <2>5, <2>7, <3>1 DEF Inits, Image, Usable, AfterInit, i
  <2> QED BY <2>6, <2>7
<1> QED BY <1>2, <1>3, <1>4

LEMMA InitEffect ==
  ASSUME NEW x \in Image, Budgeted(x), NEW p \in Proc, NEW a \in Alg \cup {NoAlg},
         NEW pr \in BOOLEAN, NEW per, NEW kat \in {"pass", "katfail", "nomem"},
         NEW trng, trng = "copied" => x.copied # 0, NEW ok \in BOOLEAN, NEW sd \in Nat
  PROVE  Inits(x, RNG_CTX_Init(x, p, a, pr, per, kat, trng, ok, sd), p, sd)
<1> DEFINE r == RNG_CTX_Init(x, p, a, pr, per, kat, trng, ok, sd)
           y == [x EXCEPT !.prng = a, !.tested[a] = @ - 1]
           t == IF y.tested[a] <= 0 THEN PRNG_self_test(y, kat) ELSE y
           c == Cln(t)
           i == Instantiate(c, pr, per, trng, ok, sd)
           By(z) == [z EXCEPT !.lastPID = p]
           n == [x EXCEPT !.state = "PARAM", !.lastPID = p]
           l == [x EXCEPT !.prng = a, !.state = "PARAM", !.lastPID = p]
<1>1. Inits(x, n, p, sd) /\ Inits(x, l, p, sd)
  BY DEF Inits, Image, Usable, AfterInit
<1>2. x.state = "CRIT" => Inits(x, By(x), p, sd)
  BY DEF Inits, Image, Usable, AfterInit
<1>3. ASSUME a \in Alg, x.state # "CRIT"
      PROVE  IF t.state = "CRIT" THEN Inits(x, By(t), p, sd) ELSE Inits(x, By(i), p, sd)
  <2>1. [x.tested EXCEPT ![a] = @ - 1] \in [Alg -> Int]
    BY <1>3 DEF Image
  <2>2. y \in Image
    BY <1>3, <2>1, Zenon DEF Image
  <2>3. /\ Budgeted(y) /\ y.prng = a /\ y.trng = x.trng /\ y.cached = x.cached
        /\ y.seed = x.seed /\ y.state = x.state /\ y.fatal = x.fatal
        /\ y.copied = x.copied
    BY <2>2 DEF Budgeted, Image
  <2> HIDE DEF y
  <2>4. /\ t \in Image /\ t.copied = x.copied
        /\ t.trng = x.trng /\ t.cached = x.cached /\ t.seed \in {x.seed, 0}
        /\ t.state # "CRIT" => t.fatal = x.fatal
    BY <1>3, <2>2, <2>3, SelfTestEffect
  <2> HIDE DEF t
  <2>5. CASE t.state = "CRIT"
    <3>1. Inits(x, By(t), p, sd)
      BY <2>4, <2>5 DEF Inits, Image, Usable, AfterInit
    <3> QED BY <2>5, <3>1
  <2>6. CASE t.state # "CRIT"
    <3>1. c \in Image
      BY <2>4, ClnGood
    <3>2. /\ c.state = "UNINIT" /\ c.trng = t.trng /\ c.cached = t.cached
          /\ c.seed = 0 /\ c.fatal = t.fatal /\ c.copied = x.copied
      BY <2>4 DEF Cln, Image
    <3> HIDE DEF c
    <3>3. Inits(c, By(i), p, sd)
      BY <3>1, <3>2, InstantiateEffect
    <3> HIDE DEF i, By
    <3>4. Inits(x, By(i), p, sd)
      BY <2>4, <2>6, <3>2, <3>3 DEF Inits
    <3> QED BY <2>6, <3>4
  <2> QED BY <2>5, <2>6
<1>4. \/ x.state = "CRIT" /\ r = By(x)
      \/ r = n \/ r = l
      \/ x.state # "CRIT" /\ a \in Alg /\ r = By(IF t.state = "CRIT" THEN t ELSE i)
  BY Zenon DEF RNG_CTX_Init
<1> HIDE DEF r, By, n, l, t, i
<1>5. Inits(x, r, p, sd)
  BY <1>1, <1>2, <1>3, <1>4
<1> QED BY <1>5 DEF r

\* What one chunk has made of x when Gen is reached: a context that is ready is
\* the one the process used last, or has a new seed.
Reaches(x, s, p, fits, sd) ==
  /\ s.out = NoBlock /\ s.state # "RESEED" /\ s.live = x.live
  /\ s.lastPID \in {x.lastPID, p} /\ s.cached \in {0, x.cached}
  /\ s.seed \in {x.seed, sd, x.cached} /\ (s.cached # 0 => s.seed = x.seed)
  /\ s.state \in Ready =>
       /\ s.lastPID = p /\ s.live /\ s.trng /\ s.seed # 0
       /\ \/ /\ x.lastPID = p /\ x.state \in Ready /\ ~x.paranoid
             /\ s.seed = x.seed /\ s.step = x.step
          \/ s.seed = sd /\ s.cached = 0
          \/ /\ x.lastPID = p /\ x.state \in Usable /\ x.cached # 0
             /\ s.seed = x.cached /\ s.cached = 0
       /\ x.lastPID = p => x.state \in Usable /\ s.fatal = x.fatal
       /\ x.lastPID = p \/ x.live
  /\ fits /\ x.lastPID = p /\ ~x.paranoid =>
       /\ x.state \in Usable => s.state \in {"INIT", "RUN", "ERROR", "CRIT"}
       /\ x.state \in Failed => s.state = x.state
       /\ x.state = "UNINIT" => s.state = "UNINIT"

\* The context when Gen is reached.
Reached(x, p, req, drain, trng, ok, sd) ==
  LET f == ForkCheck([x EXCEPT !.out = NoBlock], p, drain)
      n == IF req = "long" /\ f.state # "CRASH" THEN [f EXCEPT !.state = "PARAM"] ELSE f
  IN IF MustReseed(n) /\ n.state # "CRASH"
     THEN RNG_ReSeed(n, req = "aad", trng, ok, sd) ELSE n

LEMMA ReachEffect ==
  ASSUME NEW x \in Image, Budgeted(x), Sound(x), x.state # "CRASH", NEW p \in Proc,
         NEW req, NEW drain, NEW trng, NEW ok \in BOOLEAN, NEW sd \in Nat \ {0}
  PROVE  LET s == Reached(x, p, req, drain, trng, ok, sd) IN
         s \in Image /\ Budgeted(s) /\ Reaches(x, s, p, req = "fits", sd)
<1> DEFINE u == [x EXCEPT !.out = NoBlock]
           f == ForkCheck(u, p, drain)
           n == IF req = "long" /\ f.state # "CRASH"
                THEN [f EXCEPT !.state = "PARAM"] ELSE f
           s == IF MustReseed(n) /\ n.state # "CRASH"
                THEN RNG_ReSeed(n, req = "aad", trng, ok, sd) ELSE n
<1> SUFFICES s \in Image /\ Budgeted(s) /\ Reaches(x, s, p, req = "fits", sd)
  BY Zenon DEF Reached
<1>1. u \in Image /\ Budgeted(u)
  <2>1. u \in Image
    BY Literals, Zenon DEF Image
  <2> QED BY <2>1 DEF Budgeted, Image
<1>2. /\ u.out = NoBlock /\ u.state = x.state /\ u.lastPID = x.lastPID
      /\ u.cached = x.cached /\ u.seed = x.seed /\ u.step = x.step
      /\ u.live = x.live /\ u.trng = x.trng /\ u.fatal = x.fatal
      /\ u.paranoid = x.paranoid
  BY DEF Image
<1> HIDE DEF u
<1>3. f \in Image /\ Budgeted(f)
  BY <1>1, ForkCheckGood
<1>4. /\ f.out = NoBlock /\ f.seed = x.seed /\ f.step = x.step
      /\ f.live = x.live /\ f.trng = x.trng /\ f.paranoid = x.paranoid
      /\ \/ /\ x.lastPID = p /\ f.lastPID = p /\ f.state = x.state
            /\ f.cached = x.cached /\ f.fatal = x.fatal
         \/ /\ x.lastPID # p /\ f.state = "CRASH" /\ f.lastPID = x.lastPID
            /\ f.cached = x.cached
         \/ /\ x.lastPID # p /\ f.state = "RESEED" /\ f.lastPID = p
            /\ f.cached = 0 /\ x.trng
  <2>1. CASE u.lastPID = p
    BY <1>2, <2>1 DEF ForkCheck
  <2>2. CASE u.lastPID # p /\ ~u.trng
    <3>1. f = [u EXCEPT !.state = "CRASH"]
      BY <2>2 DEF ForkCheck
    <3> HIDE DEF f
    <3> QED BY <1>1, <1>2, <2>2, <3>1 DEF Image
  <2>3. CASE u.lastPID # p /\ u.trng
    <3>1. f = [u EXCEPT !.state = "RESEED", !.lastPID = p, !.cached = 0,
                        !.copied = 0, !.fatal = @ \/ drain = "entropy"]
      BY <2>3 DEF ForkCheck
    <3> HIDE DEF f
    <3> QED BY <1>1, <1>2, <2>3, <3>1 DEF Image
  <2> QED BY <2>1, <2>2, <2>3
<1> HIDE DEF f
<1>5. n \in Image /\ Budgeted(n)
  BY <1>3, HaltGood, StateValues
<1>6. /\ n.out = f.out /\ n.seed = f.seed /\ n.step = f.step /\ n.live = f.live
      /\ n.trng = f.trng /\ n.paranoid = f.paranoid /\ n.lastPID = f.lastPID
      /\ n.cached = f.cached /\ n.fatal = f.fatal
      /\ n.state = f.state \/ (req = "long" /\ n.state = "PARAM" /\ f.state # "CRASH")
  <2>1. n = f \/ (n = [f EXCEPT !.state = "PARAM"] /\ req = "long" /\ f.state # "CRASH")
    OBVIOUS
  <2> HIDE DEF n
  <2>2. CASE n = f
    BY <2>2
  <2>3. CASE n = [f EXCEPT !.state = "PARAM"] /\ req = "long" /\ f.state # "CRASH"
    BY <1>3, <2>3 DEF Image
  <2> QED BY <2>1, <2>2, <2>3
<1> HIDE DEF n
<1>7. n.state \in Usable \cup Failed \cup {"UNINIT", "CRASH"}
  BY <1>5 DEF Image, State
<1>8. CASE MustReseed(n) /\ n.state # "CRASH"
  <2>1. s = RNG_ReSeed(n, req = "aad", trng, ok, sd)
    BY <1>8
  <2>2. ReSeeds(n, s, req = "aad", sd) /\ s \in Image /\ Budgeted(s)
    BY <1>5, <1>8, <2>1, ReSeedEffect, ReSeedGood
  <2> HIDE DEF s
  <2>3. /\ s.lastPID = n.lastPID /\ s.out = n.out /\ s.live = n.live
        /\ s.state \in Usable =>
             /\ n.state \in Usable /\ s.state = "RUN" /\ s.live /\ n.live
             /\ s.trng = n.trng /\ s.fatal = n.fatal
             /\ s.cached = 0 /\ s.seed \in {sd, n.cached} /\ s.seed # 0
        /\ s.cached \in {0, n.cached}
        /\ s.seed \in {n.seed, sd} \/ (s.seed = n.cached /\ n.cached # 0)
        /\ s.cached # 0 => s.seed = n.seed
    BY <2>2 DEF ReSeeds
  <2>4. /\ s.out = NoBlock /\ s.state # "RESEED" /\ s.live = x.live
        /\ s.lastPID \in {x.lastPID, p} /\ s.cached \in {0, x.cached}
        /\ s.seed \in {x.seed, sd, x.cached} /\ (s.cached # 0 => s.seed = x.seed)
    <3>1. s.state # "RESEED" /\ s.out = NoBlock /\ s.live = x.live
      BY <1>4, <1>6, <2>3 DEF Usable
    <3>2. n.seed = x.seed /\ n.cached \in {0, x.cached} /\ n.lastPID \in {x.lastPID, p}
      BY <1>4, <1>6
    <3> QED BY <2>3, <3>1, <3>2
  <2>5. ASSUME s.state \in Ready
        PROVE  /\ s.lastPID = p /\ s.live /\ s.trng /\ s.seed # 0
               /\ \/ s.seed = sd /\ s.cached = 0
                  \/ /\ x.lastPID = p /\ x.state \in Usable /\ x.cached # 0
                     /\ s.seed = x.cached /\ s.cached = 0
               /\ x.lastPID = p => x.state \in Usable /\ s.fatal = x.fatal
               /\ x.lastPID = p \/ x.live
    <3>1. /\ n.state \in Usable /\ s.live /\ n.live
          /\ s.trng = n.trng /\ s.fatal = n.fatal
          /\ s.cached = 0 /\ s.seed \in {sd, n.cached} /\ s.seed # 0
      BY <2>3, <2>5 DEF Ready, Usable
    <3>2. n.state = f.state /\ f.state # "CRASH"
      BY <1>6, <3>1 DEF Usable
    <3> QED BY <1>4, <1>6, <2>3, <3>1, <3>2 DEF Sound
  <2>6. ASSUME req = "fits", x.lastPID = p, ~x.paranoid
        PROVE  /\ x.state \in Usable => s.state \in {"INIT", "RUN", "ERROR", "CRIT"}
               /\ x.state \in Failed => s.state = x.state
               /\ x.state = "UNINIT" => s.state = "UNINIT"
    <3>1. n.state = x.state /\ n.state = "RESEED" /\ n.live
      BY <1>4, <1>6, <1>8, <2>6 DEF MustReseed, Sound, Usable
    <3> QED BY <2>2, <2>6, <3>1 DEF ReSeeds, AfterReSeed, Usable, Failed
  <2>7. Reaches(x, s, p, req = "fits", sd)
    BY <2>4, <2>5, <2>6 DEF Reaches
  <2> QED BY <2>2, <2>7
<1>9. CASE ~(MustReseed(n) /\ n.state # "CRASH")
  <2>1. s = n
    BY <1>9
  <2> HIDE DEF s
  <2>2. Reaches(x, s, p, req = "fits", sd)
    BY <1>4, <1>6, <1>7, <1>9, <2>1 DEF Reaches, Sound, Usable, Failed, Ready, MustReseed
  <2> QED BY <1>5, <2>1, <2>2
<1> QED BY <1>8, <1>9

\* One chunk makes y of x: it is answered, or leaves a context that can be used,
\* only from the seed the process was using, with a step it has not used, or from
\* a new one.
Chunks(x, y, p, fits, sd) ==
  /\ y.live = x.live
  /\ y.state # "UNINIT" /\ y.lastPID \in {x.lastPID, p}
  /\ y.cached \in {0, x.cached} /\ y.seed \in {x.seed, sd, x.cached}
  /\ y.cached # 0 => y.seed = x.seed
  /\ y.state \in Usable => y.live /\ y.trng
  /\ y.state \in Usable \/ y.out # NoBlock =>
       /\ y.lastPID = p /\ y.seed # 0
       /\ \/ /\ x.lastPID = p /\ x.state \in Ready /\ ~x.paranoid
             /\ y.seed = x.seed /\ y.step >= x.step
             /\ y.out # NoBlock => y.step > x.step
          \/ y.seed = sd /\ y.cached = 0
          \/ /\ x.lastPID = p /\ x.state \in Usable /\ x.cached # 0
             /\ y.seed = x.cached /\ y.cached = 0
       /\ x.lastPID = p => x.state \in Usable /\ y.fatal = x.fatal
       /\ x.lastPID = p \/ x.live
  /\ fits /\ x.lastPID = p /\ ~x.paranoid => y.state \in AfterGenerate(x.state)

LEMMA ChunkEffect ==
  ASSUME NEW x \in Image, Budgeted(x), Sound(x), x.state # "CRASH", NEW p \in Proc,
         NEW req, NEW drain, NEW trng, NEW ok \in BOOLEAN, NEW sd \in Nat \ {0},
         NEW first \in Block, NEW blk \in Block
  PROVE  Chunks(x, OldefRNG_Generate(x, p, req, drain, trng, ok, sd, first, blk), p,
                req = "fits", sd)
<1> DEFINE r == OldefRNG_Generate(x, p, req, drain, trng, ok, sd, first, blk)
           e == [x EXCEPT !.state = "ERROR", !.out = NoBlock]
           s == Reached(x, p, req, drain, trng, ok, sd)
           g == Gen(s, ok, first, blk)
<1> SUFFICES Chunks(x, r, p, req = "fits", sd)
  OBVIOUS
<1>0. x.state \in Usable \cup Failed \cup {"UNINIT"}
  BY DEF Image, State
<1>1. CASE x.prng = NoAlg
  <2>1. r = e
    BY <1>1 DEF OldefRNG_Generate
  <2>2. /\ e.state = "ERROR" /\ e.out = NoBlock /\ e.lastPID = x.lastPID
        /\ e.cached = x.cached /\ e.seed = x.seed /\ e.live = x.live
    BY DEF Image
  <2> HIDE DEF e
  <2>3. Chunks(x, e, p, req = "fits", sd)
    BY <1>0, <2>2 DEF Chunks, Usable, Failed, AfterGenerate
  <2> QED BY <2>1, <2>3
<1>2. CASE x.prng # NoAlg
  <2>1. s \in Image /\ Budgeted(s) /\ Reaches(x, s, p, req = "fits", sd)
    BY ReachEffect
  <2>2. r = CASE s.state \in Usable /\ req = "aad" -> [s EXCEPT !.state = "PARAM"]
              [] s.state \in Usable /\ req # "aad" ->
                   IF g.paranoid /\ g.state = "RUN"
                   THEN [g EXCEPT !.state = "RESEED"] ELSE g
              [] s.state = "UNINIT" -> [s EXCEPT !.state = "ERROR"]
              [] s.state \in Failed \cup {"CRASH"} -> s
    BY <1>2, Zenon DEF OldefRNG_Generate, Reached
  <2> HIDE DEF r, s
  <2>3. /\ s.out = NoBlock /\ s.state # "RESEED" /\ s.live = x.live
        /\ s.lastPID \in {x.lastPID, p} /\ s.cached \in {0, x.cached}
        /\ s.seed \in {x.seed, sd, x.cached} /\ (s.cached # 0 => s.seed = x.seed)
    BY <2>1 DEF Reaches
  <2>4. s.state \in Usable \cup Failed \cup {"UNINIT", "CRASH"}
    BY <2>1 DEF Image, State
  <2>5. req = "fits" /\ x.lastPID = p /\ ~x.paranoid =>
          /\ x.state \in Usable => s.state \in {"INIT", "RUN", "ERROR", "CRIT"}
          /\ x.state \in Failed => s.state = x.state
          /\ x.state = "UNINIT" => s.state = "UNINIT"
    BY <2>1 DEF Reaches
  \* The chunk ends without an answer and without a context that can be used.
  <2>6. ASSUME NEW st \in {"PARAM", "ERROR", "CRIT", "CRASH"}, r = [s EXCEPT !.state = st],
               req = "fits" /\ x.lastPID = p /\ ~x.paranoid => st \in AfterGenerate(x.state)
        PROVE  Chunks(x, r, p, req = "fits", sd)
    <3>1. /\ r.state = st /\ r.out = NoBlock /\ r.lastPID = s.lastPID
          /\ r.cached = s.cached /\ r.seed = s.seed /\ r.live = s.live
      BY <2>1, <2>3, <2>6 DEF Image
    <3>2. st # "UNINIT" /\ st \notin Usable
      BY <2>6 DEF Usable
    <3> QED BY <2>3, <2>6, <3>1, <3>2 DEF Chunks
  <2>7. CASE s.state \in Usable /\ req = "aad"
    <3>1. r = [s EXCEPT !.state = "PARAM"]
      BY <2>2, <2>7 DEF Usable, Failed
    <3> QED BY <2>6, <2>7, <3>1
  <2>8. CASE s.state = "UNINIT"
    <3>1. r = [s EXCEPT !.state = "ERROR"]
      BY <2>2, <2>8 DEF Usable, Failed
    <3>2. "ERROR" \in AfterGenerate(x.state)
      BY <1>0 DEF AfterGenerate, Usable, Failed
    <3> QED BY <2>6, <3>1, <3>2
  <2>9. CASE s.state \in Failed \cup {"CRASH"}
    <3>1. r = s
      BY <2>2, <2>9 DEF Usable, Failed
    <3>2. s = [s EXCEPT !.state = s.state] /\ s.state \in {"PARAM", "ERROR", "CRIT", "CRASH"}
      BY <2>1, <2>9 DEF Image, Failed
    <3>3. req = "fits" /\ x.lastPID = p /\ ~x.paranoid => s.state \in AfterGenerate(x.state)
      BY <1>0, <2>5, <2>9 DEF AfterGenerate, Usable, Failed
    <3> QED BY <2>6, <3>1, <3>2, <3>3
  <2>10. CASE s.state \in Usable /\ req # "aad"
    <3>1. s.state \in Ready
      BY <2>3, <2>10 DEF Usable, Ready
    <3>2. /\ s.lastPID = p /\ s.live /\ s.trng /\ s.seed # 0
          /\ \/ /\ x.lastPID = p /\ x.state \in Ready /\ ~x.paranoid
                /\ s.seed = x.seed /\ s.step = x.step
             \/ s.seed = sd /\ s.cached = 0
             \/ /\ x.lastPID = p /\ x.state \in Usable /\ x.cached # 0
                /\ s.seed = x.cached /\ s.cached = 0
          /\ x.lastPID = p => x.state \in Usable /\ s.fatal = x.fatal
          /\ x.lastPID = p \/ x.live
      BY <2>1, <3>1 DEF Reaches
    <3>3. Gens(s, g) /\ g \in Image
      <4>1. Gens(s, g)
        BY <2>1, <2>3, <2>10, <3>2, GenEffect
      <4>2. g \in Image
        BY <2>1, <2>10, GenGood
      <4> QED BY <4>1, <4>2
    <3>4. r = IF g.paranoid /\ g.state = "RUN" THEN [g EXCEPT !.state = "RESEED"] ELSE g
      BY <2>2, <2>10 DEF Usable, Failed
    <3> HIDE DEF g
    <3>5. /\ r.lastPID = g.lastPID /\ r.seed = g.seed /\ r.cached = g.cached
          /\ r.live = g.live /\ r.trng = g.trng /\ r.fatal = g.fatal
          /\ r.step = g.step /\ r.out = g.out
          /\ r.state = g.state \/ (g.state = "RUN" /\ r.state = "RESEED")
      <4>1. CASE g.paranoid /\ g.state = "RUN"
        BY <3>3, <3>4, <4>1 DEF Image
      <4>2. CASE ~(g.paranoid /\ g.state = "RUN")
        BY <3>4, <4>2
      <4> QED BY <4>1, <4>2
    <3>6. /\ r.lastPID = p /\ r.seed = s.seed /\ r.cached = s.cached /\ r.live = s.live
          /\ r.live /\ r.trng /\ r.step >= s.step
          /\ r.state \in {"RUN", "RESEED", "ERROR", "CRIT"}
          /\ r.state \in Usable \/ r.out # NoBlock => r.fatal = s.fatal
          /\ r.out # NoBlock => r.step > s.step
      BY <3>2, <3>3, <3>5 DEF Gens, Usable
    <3>7. req = "fits" /\ x.lastPID = p /\ ~x.paranoid => r.state \in AfterGenerate(x.state)
      BY <1>0, <2>5, <3>1, <3>6 DEF AfterGenerate, Usable, Failed, Ready
    <3> QED BY <2>3, <3>2, <3>6, <3>7 DEF Chunks
  <2> QED BY <2>4, <2>7, <2>8, <2>9, <2>10
<1> QED BY <1>1, <1>2
-----------------------------------------------------------------------------
(***************************************************************************)
(* The steps of the processes, by what they do to an image.                *)
(***************************************************************************)
\* Which seeds process p may still answer from with the image x.
MayUse(x, p) ==
  {s \in Nat : /\ x.lastPID = p
               /\ \/ x.state \in Ready /\ s = x.seed
                  \/ x.state \in Usable /\ s = x.cached /\ s # 0}

\* One operation of p makes y of x: it keeps the seed it has, takes the new seed
\* sd or the noise it has buffered, or makes a state that others can make, when m
\* says that it is exposed.
Moves(x, y, p, sd, m) ==
  /\ y \in Image /\ Sound(y)
  /\ y.seed \in {x.seed, 0, sd, x.cached} \/ (y.seed < 0 /\ m)
  /\ y.cached \in {0, x.cached}
  /\ y.lastPID \in {x.lastPID, p, NoProc}
  /\ y.lastPID = p /\ y.state \in Ready =>
       \/ x.lastPID = p /\ x.state \in Ready /\ y.seed = x.seed /\ y.step >= x.step
       \/ y.seed = sd \/ (y.seed < 0 /\ m)
       \/ x.lastPID = p /\ x.state \in Usable /\ x.cached # 0 /\ y.seed = x.cached
  /\ y.lastPID = p /\ y.state \in Usable /\ y.cached # 0 =>
       x.lastPID = p /\ x.state \in Usable
  /\ y.state \in Usable /\ y.fatal =>
       (x.fatal /\ x.state \in Usable) \/ (x.lastPID # p /\ x.live)
  /\ y.lastPID = NoProc => (x.lastPID = NoProc /\ y.live = x.live) \/ ~y.live

\* The part of the invariants that says the contexts are sound.
SoundInv ==
  /\ BudgetInv
  /\ \A p \in Proc : /\ Sound(proc[p])
                     /\ proc[p].seed < nextSeed /\ proc[p].cached < nextSeed

\* A step of p that works on its context.
Works(p) ==
  /\ Moves(proc[p], proc'[p], p, nextSeed, p \in exposed')
  /\ proc' = [proc EXCEPT ![p] = proc'[p]]
  /\ nextSeed' \in {nextSeed, nextSeed + 1}
  /\ proc'[p].seed = nextSeed => nextSeed' = nextSeed + 1
  /\ p \in born /\ born' = born
  /\ \A q \in exposed : q \in exposed' \/ (q = p /\ proc'[p].seed = nextSeed)

\* What an answered chunk was taken from.
Takes(x, y, p, sd) ==
  /\ y.lastPID = p
  /\ \/ /\ x.lastPID = p /\ x.state \in Ready /\ ~x.paranoid
        /\ y.seed = x.seed /\ y.step > x.step
     \/ y.seed = sd
     \/ /\ x.lastPID = p /\ x.state \in Usable /\ x.cached # 0 /\ y.seed = x.cached
  /\ x.lastPID = p => x.state \in Usable /\ y.fatal = x.fatal
  /\ x.lastPID = p \/ x.live

\* A scrubbed context, with what it was scrubbed of.
LEMMA ClnMoves ==
  ASSUME NEW x \in Image, x.trng, NEW p \in Proc, NEW sd \in Nat \ {0},
         NEW y \in Image, y.state = "UNINIT", y.trng, ~y.live,
         y.lastPID = NoProc, y.seed = 0, y.cached \in {0, x.cached}
  PROVE  Moves(x, y, p, sd, p \in exposed)
BY DRBGAssumption DEF Moves, Sound, Usable, Ready, Image

LEMMA PutWorks ==
  ASSUME BudgetInv, NEW p \in Proc, NEW y, proc' = [proc EXCEPT ![p] = y]
  PROVE  proc'[p] = y /\ proc' = [proc EXCEPT ![p] = proc'[p]]
BY DEF BudgetInv, TypeOK

\* A step that leaves the seed of p alone.
LEMMA SameSeedWorks ==
  ASSUME SoundInv, NEW p \in born \cap Proc, NEW y,
         Moves(proc[p], y, p, nextSeed, p \in exposed),
         y.seed \in {proc[p].seed, 0}, proc' = [proc EXCEPT ![p] = y],
         UNCHANGED <<born, nextSeed, exposed>>
  PROVE  Works(p)
<1>1. proc'[p] = y /\ proc' = [proc EXCEPT ![p] = proc'[p]]
  BY PutWorks DEF SoundInv
<1>2. y.seed # nextSeed
  BY DEF SoundInv, BudgetInv, TypeOK, Image
<1> QED BY <1>1, <1>2 DEF Works

LEMMA BecomesWorks ==
  ASSUME SoundInv, NEW p \in born \cap Proc, NEW y,
         Moves(proc[p], y, p, nextSeed, p \in exposed'), Becomes(p, y), UNCHANGED born,
         \A q \in exposed : q \in exposed' \/ (q = p /\ y.seed = nextSeed)
  PROVE  Works(p)
<1>1. proc'[p] = y /\ proc' = [proc EXCEPT ![p] = proc'[p]]
  BY PutWorks DEF SoundInv, Becomes
<1>2. nextSeed \notin {0, proc[p].seed, proc[p].cached}
  BY DEF SoundInv, BudgetInv, TypeOK, Image
<1>3. /\ nextSeed' \in {nextSeed, nextSeed + 1}
      /\ y.seed = nextSeed => nextSeed' = nextSeed + 1
  BY <1>2 DEF Becomes
<1> QED BY <1>1, <1>3 DEF Works

\* Every operation but RNG_Generate and fork().
LEMMA CallWorks ==
  ASSUME SoundInv, NEW p \in Proc,
         \/ Renew(p) \/ DoInit(p) \/ DoReSeed(p) \/ SetParanoid(p) \/ SetAuto(p)
         \/ SetReseed(p) \/ DoReseedCtrl(p) \/ DoSelfTest(p)
  PROVE  Works(p)
<1> DEFINE x == proc[p]
<1>11. p \in born \cap Proc
  BY DEF Renew, DoInit, DoReSeed, SetParanoid, SetAuto, SetReseed, DoReseedCtrl,
         DoSelfTest, Between, Running
<1>0. /\ x \in Image /\ Budgeted(x) /\ Sound(x) /\ nextSeed \in Nat \ {0}
      /\ BudgetInv /\ x.seed < nextSeed /\ x.cached < nextSeed
  BY DEF SoundInv, BudgetInv, TypeOK
<1>1. CASE Renew(p)
  <2> DEFINE y == NewContext(x)
  <2>1. y \in Image
    BY <1>0, NewContextGood
  <2>2. /\ y.state = "UNINIT" /\ y.trng /\ ~y.live /\ y.lastPID = NoProc
        /\ y.seed = 0 /\ y.cached = 0
    BY <1>0 DEF NewContext, Image
  <2> HIDE DEF y
  <2>3. Sound(y)
    BY <2>2 DEF Sound, Usable, Ready
  <2>4. Moves(x, y, p, nextSeed, p \in exposed)
    BY <2>1, <2>2, <2>3, DRBGAssumption DEF Moves, Usable, Ready
  <2>5. proc' = [proc EXCEPT ![p] = y] /\ UNCHANGED <<born, nextSeed, exposed>>
    BY <1>1 DEF Renew, y
  <2> QED BY <2>2, <2>4, <2>5, <1>11, SameSeedWorks
<1>2. CASE DoInit(p)
  <2>1. PICK a \in Alg \cup {NoAlg}, pr \in BOOLEAN, per \in PersChoices,
             kat \in KatOutcomes, trng \in InitOutcomes(proc[p]), ok \in MethodOutcomes :
          LET y == RNG_CTX_Init(proc[p], p, a, pr, per, kat, trng, ok, nextSeed)
          IN Becomes(p, y) /\ exposed' = Exposed(p, y)
    BY <1>2 DEF DoInit
  <2> DEFINE y == RNG_CTX_Init(proc[p], p, a, pr, per, kat, trng, ok, nextSeed)
  <2>2. y \in Image /\ Inits(x, y, p, nextSeed)
    <3>1. kat \in {"pass", "katfail", "nomem"} /\ ok \in BOOLEAN
      BY OutcomeTypes
    <3>2. y \in Image
      BY <1>0, <3>1, InitGood
    <3>3. trng = "copied" => x.copied # 0
      BY DEF InitOutcomes, TrngOutcomes
    <3>4. Inits(x, y, p, nextSeed)
      BY <1>0, <3>1, <3>3, InitEffect
    <3> QED BY <3>2, <3>4
  <2>6. Becomes(p, y) /\ exposed' = Exposed(p, y)
    BY <2>1
  <2> HIDE DEF y
  <2>3. ~x.fatal /\ UNCHANGED born
    BY <1>2 DEF DoInit, Callable
  <2>4. Sound(y)
    BY <1>0, <2>2 DEF Inits, Sound, Usable, Ready
  <2>7. y.seed \in Int /\ (y.seed < 0 => y.seed # nextSeed)
    BY <1>0, <2>2 DEF Image
  <2>8. /\ y.seed < 0 => p \in exposed'
        /\ \A q \in exposed : q \in exposed' \/ (q = p /\ y.seed = nextSeed)
    BY <2>6, <2>7 DEF Exposed
  <2>5. Moves(x, y, p, nextSeed, p \in exposed')
    BY <1>0, <2>2, <2>3, <2>4, <2>8, DRBGAssumption DEF Inits, Moves, Usable, Ready
  <2> QED BY <2>3, <2>5, <2>6, <2>8, <1>11, BecomesWorks
<1>3. CASE DoReSeed(p)
  <2>1. PICK aad \in BOOLEAN, trng \in TrngOutcomes, ok \in MethodOutcomes :
          Becomes(p, RNG_ReSeed(proc[p], aad, trng, ok, nextSeed))
    BY <1>3 DEF DoReSeed
  <2> DEFINE y == RNG_ReSeed(proc[p], aad, trng, ok, nextSeed)
  <2>2. x.state # "CRASH" /\ UNCHANGED <<born, exposed>>
    BY <1>3 DEF DoReSeed, Between, Running
  <2>3. y \in Image /\ ReSeeds(x, y, aad, nextSeed)
    BY <1>0, <2>2, OutcomeTypes, ReSeedGood, ReSeedEffect
  <2> HIDE DEF y
  <2>4. Sound(y)
    BY <1>0, <2>3 DEF ReSeeds, Sound, Usable, Ready
  <2>5. Moves(x, y, p, nextSeed, p \in exposed)
    BY <1>0, <2>3, <2>4 DEF ReSeeds, Moves, Usable, Ready
  <2> QED BY <2>1, <2>2, <2>5, <1>11, BecomesWorks DEF y
<1>4. ASSUME NEW y \in Image, y.state = x.state, y.live = x.live, y.trng = x.trng,
             y.cached = x.cached, y.seed = x.seed, y.step = x.step,
             y.fatal = x.fatal, y.lastPID = x.lastPID,
             proc' = [proc EXCEPT ![p] = y], UNCHANGED <<born, nextSeed, exposed>>
      PROVE  Works(p)
  <2>1. Sound(y)
    BY <1>0, <1>4 DEF Sound
  <2>2. y.step >= x.step
    BY <1>4 DEF Image
  <2>3. Moves(x, y, p, nextSeed, p \in exposed)
    BY <1>4, <2>1, <2>2 DEF Moves, Ready, Usable
  <2> QED BY <1>4, <2>3, <1>11, SameSeedWorks
<1>5. CASE SetParanoid(p)
  <2>1. PICK b \in BOOLEAN : proc' = [proc EXCEPT ![p].paranoid = b]
    BY <1>5 DEF SetParanoid
  <2> DEFINE y == [x EXCEPT !.paranoid = b]
  <2>2. y \in Image
    BY <1>0, Zenon DEF Image
  <2>3. /\ y.state = x.state /\ y.live = x.live /\ y.trng = x.trng
        /\ y.cached = x.cached /\ y.seed = x.seed /\ y.step = x.step
        /\ y.fatal = x.fatal /\ y.lastPID = x.lastPID
    BY <1>0 DEF Image
  <2>4. proc' = [proc EXCEPT ![p] = y] /\ UNCHANGED <<born, nextSeed, exposed>>
    BY <1>5, <2>1 DEF SetParanoid
  <2> HIDE DEF y
  <2> QED BY <1>4, <2>2, <2>3, <2>4
<1>6. CASE SetAuto(p)
  <2>1. PICK b \in BOOLEAN : proc' = [proc EXCEPT ![p].auto = b]
    BY <1>6 DEF SetAuto
  <2> DEFINE y == [x EXCEPT !.auto = b]
  <2>2. y \in Image
    BY <1>0, Zenon DEF Image
  <2>3. /\ y.state = x.state /\ y.live = x.live /\ y.trng = x.trng
        /\ y.cached = x.cached /\ y.seed = x.seed /\ y.step = x.step
        /\ y.fatal = x.fatal /\ y.lastPID = x.lastPID
    BY <1>0 DEF Image
  <2>4. proc' = [proc EXCEPT ![p] = y] /\ UNCHANGED <<born, nextSeed, exposed>>
    BY <1>6, <2>1 DEF SetAuto
  <2> HIDE DEF y
  <2> QED BY <1>4, <2>2, <2>3, <2>4
<1>7. CASE SetReseed(p)
  <2>1. PICK n \in 1 .. (MaxReseed - 1) : proc' = [proc EXCEPT ![p].reseedAt = n]
    BY <1>7 DEF SetReseed
  <2> DEFINE y == [x EXCEPT !.reseedAt = n]
  <2>2. y \in Image
    <3>1. n \in Nat
      BY DRBGAssumption
    <3> QED BY <1>0, <3>1, Zenon DEF Image
  <2>3. /\ y.state = x.state /\ y.live = x.live /\ y.trng = x.trng
        /\ y.cached = x.cached /\ y.seed = x.seed /\ y.step = x.step
        /\ y.fatal = x.fatal /\ y.lastPID = x.lastPID
    BY <1>0 DEF Image
  <2>4. proc' = [proc EXCEPT ![p] = y] /\ UNCHANGED <<born, nextSeed, exposed>>
    BY <1>7, <2>1 DEF SetReseed
  <2> HIDE DEF y
  <2> QED BY <1>4, <2>2, <2>3, <2>4
<1>8. CASE DoReseedCtrl(p)
  <2> DEFINE y == [x EXCEPT !.state = "RESEED"]
  <2>1. y \in Image
    BY <1>0, HaltGood, StateValues
  <2>2. /\ y.state = "RESEED" /\ y.live = x.live /\ y.trng = x.trng
        /\ y.cached = x.cached /\ y.seed = x.seed
        /\ y.fatal = x.fatal /\ y.lastPID = x.lastPID
    BY <1>0 DEF Image
  <2>3. /\ proc' = [proc EXCEPT ![p] = y] /\ UNCHANGED <<born, nextSeed, exposed>>
        /\ x.state \in Usable
    BY <1>8 DEF DoReseedCtrl, Usable
  <2> HIDE DEF y
  <2>4. Sound(y)
    BY <1>0, <2>2, <2>3 DEF Sound, Usable, Ready
  <2>5. Moves(x, y, p, nextSeed, p \in exposed)
    BY <2>1, <2>2, <2>3, <2>4 DEF Moves, Ready, Usable
  <2> QED BY <2>2, <2>3, <2>5, <1>11, SameSeedWorks
<1>9. CASE DoSelfTest(p)
  <2>1. PICK kat \in KatOutcomes : proc' = [proc EXCEPT ![p] = SelfTestCtrl(x, kat)]
    BY <1>9 DEF DoSelfTest
  <2>2. x.prng \in Alg /\ UNCHANGED <<born, nextSeed, exposed>>
    BY <1>0, <1>9 DEF DoSelfTest, Image
  <2> DEFINE t == PRNG_self_test(x, kat)
             y == Cln(t)
  <2>3. CASE x.state = "INIT"
    <3>1. t \in Image /\ t.trng = x.trng /\ t.cached = x.cached
      BY <1>0, <2>2, OutcomeTypes, SelfTestEffect
    <3> HIDE DEF t
    <3>2. /\ y \in Image /\ y.state = "UNINIT" /\ ~y.live /\ y.lastPID = NoProc
          /\ y.seed = 0 /\ y.cached = t.cached /\ y.trng = t.trng
      BY <3>1, ClnGood DEF Cln, Image
    <3> HIDE DEF y
    <3>3. x.trng
      BY <1>0, <2>3 DEF Sound, Usable
    <3>4. Moves(x, y, p, nextSeed, p \in exposed)
      BY <1>0, <3>1, <3>2, <3>3, ClnMoves
    <3>5. proc' = [proc EXCEPT ![p] = y]
      BY <2>1, <2>3 DEF SelfTestCtrl, y, t
    <3> QED BY <2>2, <3>2, <3>4, <3>5, <1>11, SameSeedWorks
  <2>4. CASE x.state # "INIT"
    <3>1. proc' = [proc EXCEPT ![p] = x]
      BY <2>1, <2>4 DEF SelfTestCtrl
    <3> HIDE DEF x
    <3> QED BY <1>0, <1>4, <2>2, <3>1
  <2> QED BY <2>3, <2>4
<1> QED BY <1>1, <1>2, <1>3, <1>5, <1>6, <1>7, <1>8, <1>9

\* What a chunk of p does: with y for its context after it, and what it answers.
Fills(p) ==
  /\ Works(p) /\ Chunks(proc[p], proc'[p], p, call[p].req = "fits", nextSeed)
  /\ \/ proc'[p].out = NoBlock /\ emitted' = emitted
     \/ /\ proc'[p].out # NoBlock /\ Takes(proc[p], proc'[p], p, nextSeed)
        /\ emitted' = emitted \cup {<<proc'[p].seed, proc'[p].step>>}
  /\ \A q \in Proc \ {p} : call'[q] = call[q]

LEMMA ChunkFills ==
  ASSUME SoundInv, NEW p \in Proc, GenerateChunk(p)
  PROVE  Fills(p)
<1> DEFINE x == proc[p]
<1>0. /\ x \in Image /\ Budgeted(x) /\ Sound(x) /\ nextSeed \in Nat \ {0}
      /\ BudgetInv /\ x.seed < nextSeed /\ x.cached < nextSeed
      /\ call \in [Proc -> Call]
  BY DEF SoundInv, BudgetInv, TypeOK
<1>1. PICK drain \in TrngOutcomes \ {"moved", "gone"}, trng \in TrngOutcomes,
           ok \in MethodOutcomes, first \in Block, blk \in Block :
        Answer(p, OldefRNG_Generate(proc[p], p, call[p].req, drain, trng, ok,
                                    nextSeed, first, blk))
  BY <1>0, Zenon DEF GenerateChunk
<1> DEFINE y == OldefRNG_Generate(proc[p], p, call[p].req, drain, trng, ok,
                                  nextSeed, first, blk)
<1>2. x.state # "CRASH" /\ UNCHANGED <<born, exposed>> /\ p \in born \cap Proc
  BY DEF GenerateChunk, Running
<1>3. y \in Image /\ Chunks(x, y, p, call[p].req = "fits", nextSeed)
  <2>1. ok \in BOOLEAN
    BY OutcomeTypes
  <2>2. y \in Image
    BY <1>0, <1>2, <2>1, GenerateGood
  <2>3. Chunks(x, y, p, call[p].req = "fits", nextSeed)
    BY <1>0, <1>2, <2>1, ChunkEffect
  <2> QED BY <2>2, <2>3
<1>4. Answer(p, y)
  BY <1>1
<1> HIDE DEF y
<1>5. /\ y.live = x.live
      /\ y.state # "UNINIT" /\ y.lastPID \in {x.lastPID, p}
      /\ y.cached \in {0, x.cached} /\ y.seed \in {x.seed, nextSeed, x.cached}
      /\ y.cached # 0 => y.seed = x.seed
      /\ y.state \in Usable => y.live /\ y.trng
  BY <1>3 DEF Chunks
<1>6. ASSUME y.state \in Usable \/ y.out # NoBlock
      PROVE  /\ y.lastPID = p /\ y.seed # 0
             /\ \/ /\ x.lastPID = p /\ x.state \in Ready /\ ~x.paranoid
                   /\ y.seed = x.seed /\ y.step >= x.step
                   /\ y.out # NoBlock => y.step > x.step
                \/ y.seed = nextSeed /\ y.cached = 0
                \/ /\ x.lastPID = p /\ x.state \in Usable /\ x.cached # 0
                   /\ y.seed = x.cached /\ y.cached = 0
             /\ x.lastPID = p => x.state \in Usable /\ y.fatal = x.fatal
             /\ x.lastPID = p \/ x.live
  BY <1>3, <1>6 DEF Chunks
<1>7. Sound(y)
  BY <1>0, <1>5, <1>6 DEF Sound, Usable, Ready
<1>8. Moves(x, y, p, nextSeed, p \in exposed)
  BY <1>3, <1>5, <1>6, <1>7, DRBGAssumption DEF Moves, Usable, Ready
<1>9. Works(p) /\ proc'[p] = y
  BY <1>0, <1>2, <1>4, <1>8, BecomesWorks, PutWorks DEF Answer, Becomes
<1>10. y.out # NoBlock => Takes(x, y, p, nextSeed)
  BY <1>6 DEF Takes
<1>11. /\ y.out = NoBlock => emitted' = emitted
       /\ y.out # NoBlock => emitted' = emitted \cup {<<y.seed, y.step>>}
       /\ \A q \in Proc \ {p} : call'[q] = call[q]
  BY <1>0, <1>4 DEF Answer, Call
<1> QED BY <1>3, <1>9, <1>10, <1>11 DEF Fills

\* A step that answers nothing and only starts a request, or does not.
Calls(p) == Works(p) /\ UNCHANGED <<call, emitted>>

LEMMA StepKinds ==
  ASSUME SoundInv, Next
  PROVE  \E p \in Proc : \/ Calls(p) \/ Fills(p) \/ StartGenerate(p) \/ Exit(p)
                         \/ \E q \in Proc : Fork(p, q)
<1>1. PICK p \in Proc :
        \/ \/ Renew(p) \/ DoInit(p) \/ DoReSeed(p) \/ SetParanoid(p) \/ SetAuto(p)
           \/ SetReseed(p) \/ DoReseedCtrl(p) \/ DoSelfTest(p)
        \/ GenerateChunk(p) \/ StartGenerate(p) \/ Exit(p)
        \/ \E q \in Proc : Fork(p, q)
  BY Zenon DEF Next
<1>2. CASE \/ Renew(p) \/ DoInit(p) \/ DoReSeed(p) \/ SetParanoid(p) \/ SetAuto(p)
           \/ SetReseed(p) \/ DoReseedCtrl(p) \/ DoSelfTest(p)
  <2>1. UNCHANGED <<call, emitted>>
    BY <1>2 DEF Renew, DoInit, DoReSeed, SetParanoid, SetAuto, SetReseed,
                DoReseedCtrl, DoSelfTest
  <2>2. Works(p)
    BY <1>2, CallWorks
  <2> QED BY <2>1, <2>2 DEF Calls
<1>3. CASE GenerateChunk(p)
  BY <1>3, ChunkFills
<1> QED BY <1>1, <1>2, <1>3

\* The image a fork() leaves in the parent and in the child.
LEMMA ForkEffect ==
  ASSUME SoundInv, NEW p \in Proc, NEW q \in Proc, Fork(p, q)
  PROVE  \E c \in Nat, d \in Nat :
         LET y == [proc[p] EXCEPT !.cached = c, !.copied = d] IN
           /\ \/ c = proc[p].cached /\ c # 0 /\ nextSeed' = nextSeed
              \/ c = nextSeed /\ nextSeed' = nextSeed + 1
           /\ proc' = [proc EXCEPT ![p] = y, ![q] = y]
           /\ y \in Image /\ y.cached = c /\ y.state = proc[p].state
           /\ y.seed = proc[p].seed /\ y.step = proc[p].step
           /\ y.lastPID = proc[p].lastPID /\ y.live = proc[p].live
           /\ y.trng = proc[p].trng /\ y.fatal = proc[p].fatal
           /\ q \in Proc \ born /\ born' = born \cup {q} /\ p \in born
           /\ exposed' = exposed \ {q} /\ UNCHANGED <<call, emitted>>
<1> DEFINE c == IF proc[p].cached # 0 THEN proc[p].cached ELSE nextSeed
           d == IF proc[p].copied # 0 THEN proc[p].copied ELSE c
           y == [proc[p] EXCEPT !.cached = c, !.copied = d]
<1>1. proc[p] \in Image /\ nextSeed \in Nat
  BY DEF SoundInv, BudgetInv, TypeOK
<1>2. c \in Nat /\ d \in Nat
  BY <1>1 DEF Image
<1>3. \/ c = proc[p].cached /\ c # 0 /\ c < nextSeed
      \/ c = nextSeed
  BY DEF SoundInv
<1>4. /\ proc' = [proc EXCEPT ![p] = y, ![q] = y]
      /\ nextSeed' = IF c = nextSeed THEN nextSeed + 1 ELSE nextSeed
      /\ q \in Proc \ born /\ born' = born \cup {q} /\ p \in born
      /\ exposed' = exposed \ {q} /\ UNCHANGED <<call, emitted>>
  BY DEF Fork, Between, Running
<1> HIDE DEF c, d
<1>5. y \in Image
  BY <1>1, <1>2, Zenon DEF Image
<1>6. /\ y.cached = c /\ y.state = proc[p].state
      /\ y.seed = proc[p].seed /\ y.step = proc[p].step
      /\ y.lastPID = proc[p].lastPID /\ y.live = proc[p].live
      /\ y.trng = proc[p].trng /\ y.fatal = proc[p].fatal
  BY <1>1 DEF Image
<1>7. \/ c = proc[p].cached /\ c # 0 /\ nextSeed' = nextSeed
      \/ c = nextSeed /\ nextSeed' = nextSeed + 1
  BY <1>1, <1>3, <1>4
<1> QED BY <1>2, <1>4, <1>5, <1>6, <1>7

LEMMA SoundStep == SoundInv /\ [Next]_vars => SoundInv'
<1> SUFFICES ASSUME SoundInv, [Next]_vars PROVE SoundInv'
  OBVIOUS
<1>1. BudgetInv'
  BY StepPreserves DEF SoundInv
<1>2. nextSeed \in Nat \ {0} /\ proc \in [Proc -> Image]
  BY DEF SoundInv, BudgetInv, TypeOK
<1>3. CASE UNCHANGED vars
  BY <1>1, <1>3 DEF vars, SoundInv, Sound
<1>4. CASE Next
  <2>1. PICK p \in Proc : \/ Calls(p) \/ Fills(p) \/ StartGenerate(p) \/ Exit(p)
                          \/ \E q \in Proc : Fork(p, q)
    BY <1>4, StepKinds
  <2>2. CASE StartGenerate(p) \/ Exit(p)
    BY <1>1, <2>2 DEF StartGenerate, Exit, SoundInv, Sound
  <2>3. CASE Calls(p) \/ Fills(p)
    <3>1. Works(p)
      BY <2>3 DEF Calls, Fills
    <3>2. /\ Sound(proc'[p]) /\ proc'[p] \in Image
          /\ \/ proc'[p].seed \in {proc[p].seed, 0, nextSeed, proc[p].cached}
             \/ proc'[p].seed < 0
          /\ proc'[p].cached \in {0, proc[p].cached}
          /\ proc[p].seed < nextSeed /\ proc[p].cached < nextSeed
      BY <3>1 DEF Works, Moves, SoundInv
    <3>3. /\ nextSeed' \in {nextSeed, nextSeed + 1}
          /\ proc'[p].seed = nextSeed => nextSeed' = nextSeed + 1
      BY <3>1 DEF Works
    <3>4. proc'[p].seed < nextSeed' /\ proc'[p].cached < nextSeed'
      BY <1>2, <3>2, <3>3 DEF Image
    <3>5. \A q \in Proc \ {p} : proc'[q] = proc[q]
      BY <1>2, <3>1 DEF Works
    <3>6. ASSUME NEW q \in Proc \ {p}
          PROVE  Sound(proc[q]) /\ proc[q].seed < nextSeed' /\ proc[q].cached < nextSeed'
      BY <1>2, <3>3, <3>6 DEF SoundInv, Image
    <3>7. \A q \in Proc : /\ Sound(proc'[q])
                          /\ proc'[q].seed < nextSeed' /\ proc'[q].cached < nextSeed'
      BY <3>2, <3>4, <3>5, <3>6
    <3> QED BY <1>1, <3>7, Zenon DEF SoundInv, Sound
  <2>4. ASSUME NEW q \in Proc, Fork(p, q) PROVE SoundInv'
    <3>1. PICK c \in Nat, d \in Nat :
           LET y == [proc[p] EXCEPT !.cached = c, !.copied = d] IN
           /\ \/ c = proc[p].cached /\ c # 0 /\ nextSeed' = nextSeed
              \/ c = nextSeed /\ nextSeed' = nextSeed + 1
           /\ proc' = [proc EXCEPT ![p] = y, ![q] = y]
           /\ y \in Image /\ y.cached = c /\ y.state = proc[p].state
           /\ y.seed = proc[p].seed /\ y.step = proc[p].step
           /\ y.lastPID = proc[p].lastPID /\ y.live = proc[p].live
           /\ y.trng = proc[p].trng /\ y.fatal = proc[p].fatal
           /\ q \in Proc \ born /\ born' = born \cup {q} /\ p \in born
           /\ exposed' = exposed \ {q} /\ UNCHANGED <<call, emitted>>
      BY <2>4, ForkEffect
    <3> DEFINE y == [proc[p] EXCEPT !.cached = c, !.copied = d]
    <3>2. /\ \/ c = proc[p].cached /\ c # 0 /\ nextSeed' = nextSeed
             \/ c = nextSeed /\ nextSeed' = nextSeed + 1
          /\ proc' = [proc EXCEPT ![p] = y, ![q] = y]
          /\ y \in Image /\ y.cached = c /\ y.state = proc[p].state
          /\ y.seed = proc[p].seed
          /\ y.live = proc[p].live /\ y.trng = proc[p].trng
      BY <3>1
    <3> HIDE DEF y
    <3>3. /\ Sound(proc[p]) /\ proc[p].seed < nextSeed /\ proc[p].cached < nextSeed
          /\ proc[p].seed \in Int
      BY <1>2 DEF SoundInv, Image
    <3>4. Sound(y) /\ y.seed < nextSeed' /\ y.cached < nextSeed'
      BY <1>2, <3>2, <3>3 DEF Sound
    <3>5. ASSUME NEW r \in Proc
          PROVE  Sound(proc[r]) /\ proc[r].seed < nextSeed' /\ proc[r].cached < nextSeed'
      BY <1>2, <3>2 DEF SoundInv, Image
    <3>6. \A r \in Proc : proc'[r] = y \/ proc'[r] = proc[r]
      BY <1>2, <3>2
    <3>7. \A r \in Proc : /\ Sound(proc'[r])
                          /\ proc'[r].seed < nextSeed' /\ proc'[r].cached < nextSeed'
      BY <3>4, <3>5, <3>6
    <3> QED BY <1>1, <3>7, Zenon DEF SoundInv, Sound
  <2> QED BY <2>1, <2>2, <2>3, <2>4
<1> QED BY <1>3, <1>4

\* SoundInv holds of every execution.
THEOREM SoundInvariant == Spec => []SoundInv
<1>1. Init => SoundInv
  <2> SUFFICES ASSUME Init PROVE SoundInv
    OBVIOUS
  <2>1. BudgetInv
    BY InitEstablishes
  <2>2. Sound(FreshImage) /\ FreshImage.seed = 0 /\ FreshImage.cached = 0
    BY DEF Sound, FreshImage, Usable, Ready
  <2> QED BY <2>1, <2>2 DEF Init, SoundInv
<1>2. SoundInv /\ [Next]_vars => SoundInv'
  BY SoundStep
<1> QED BY <1>1, <1>2, PTL DEF Spec

-----------------------------------------------------------------------------
(***************************************************************************)
(* The action properties.                                                  *)
(***************************************************************************)
\* Only a chunk of p answers, and it answers from what Takes says.
LEMMA EmitStep ==
  ASSUME SoundInv, [Next]_vars, NEW p \in Proc, Emits(p)
  PROVE  Fills(p) /\ Takes(proc[p], proc'[p], p, nextSeed)
         /\ emitted' = emitted \cup {<<proc'[p].seed, proc'[p].step>>}
<1>1. call \in [Proc -> Call] /\ call[p].left > 0 /\ call'[p] # call[p]
  BY DEF SoundInv, BudgetInv, TypeOK, Emits
<1>2. call' # call
  BY <1>1
<1>3. Next
  BY <1>2 DEF vars
<1>4. PICK q \in Proc : \/ Calls(q) \/ Fills(q) \/ StartGenerate(q) \/ Exit(q)
                        \/ \E r \in Proc : Fork(q, r)
  BY <1>3, StepKinds
<1>5. Fills(q)
  <2>1. ~Calls(q) /\ ~Exit(q) /\ ~\E r \in Proc : Fork(q, r)
    BY <1>2 DEF Calls, Exit, Fork
  <2>2. ~StartGenerate(q)
    <3> SUFFICES ASSUME StartGenerate(q) PROVE FALSE
      OBVIOUS
    <3>1. call[q].left = 0
      BY DEF StartGenerate, Between
    <3>2. PICK n : call' = [call EXCEPT ![q] = n]
      BY DEF StartGenerate
    <3>3. q # p
      BY <1>1, <3>1
    <3> QED BY <1>1, <3>2, <3>3
  <2> QED BY <1>4, <2>1, <2>2
<1>6. p = q
  BY <1>1, <1>5 DEF Fills
<1>7. proc'[p].out # NoBlock
  BY DEF Emits
<1> QED BY <1>5, <1>6, <1>7 DEF Fills

(***************************************************************************)
(* With prediction resistance on, every chunk is answered from a seed that *)
(* was drawn for it or was still buffered, never from the one in use       *)
(* (MustReseed of OldefRNG_Generate), for every number of processes and    *)
(* every maxReseed, also after forks and across reseeds that fail.         *)
(***************************************************************************)
THEOREM ParanoidReseeds == Spec => PredictionResistance
<1>1. SoundInv /\ [Next]_vars =>
        [\A p \in Proc : Emits(p) /\ proc[p].paranoid =>
           proc'[p].seed # proc[p].seed]_vars
  <2> SUFFICES ASSUME SoundInv, [Next]_vars, NEW p \in Proc, Emits(p), proc[p].paranoid
               PROVE  proc'[p].seed # proc[p].seed
    OBVIOUS
  <2>1. Takes(proc[p], proc'[p], p, nextSeed)
    BY EmitStep
  <2>2. /\ Sound(proc[p]) /\ proc[p].seed < nextSeed
        /\ proc[p] \in Image /\ nextSeed \in Nat
    BY DEF SoundInv, BudgetInv, TypeOK
  <2> QED BY <2>1, <2>2 DEF Takes, Sound, Image
<1> QED BY <1>1, SoundInvariant, PTL DEF Spec, PredictionResistance

\* The three parts of KeepsContract.
LEMMA InitContract ==
  ASSUME SoundInv, NEW p \in Proc, DoInit(p), proc[p].state = "UNINIT",
         ~proc'[p].paranoid
  PROVE  proc'[p].state \in AfterInit
<1> DEFINE x == proc[p]
<1>0. /\ x \in Image /\ Budgeted(x) /\ Sound(x) /\ nextSeed \in Nat \ {0} /\ BudgetInv
  BY DEF SoundInv, BudgetInv, TypeOK
<1>1. PICK a \in Alg \cup {NoAlg}, pr \in BOOLEAN, per \in PersChoices,
           kat \in KatOutcomes, trng \in InitOutcomes(proc[p]), ok \in MethodOutcomes :
        Becomes(p, RNG_CTX_Init(proc[p], p, a, pr, per, kat, trng, ok, nextSeed))
  BY DEF DoInit
<1> DEFINE y == RNG_CTX_Init(proc[p], p, a, pr, per, kat, trng, ok, nextSeed)
<1>2. Inits(x, y, p, nextSeed)
  <2>1. kat \in {"pass", "katfail", "nomem"} /\ ok \in BOOLEAN
    BY OutcomeTypes
  <2>2. trng = "copied" => x.copied # 0
    BY DEF InitOutcomes, TrngOutcomes
  <2> QED BY <1>0, <2>1, <2>2, InitEffect
<1> HIDE DEF y
<1>3. proc'[p] = y
  BY <1>0, <1>1, PutWorks DEF Becomes, y
<1> QED BY <1>0, <1>2, <1>3 DEF Inits, Sound

LEMMA ReSeedContract ==
  ASSUME SoundInv, NEW p \in Proc, DoReSeed(p)
  PROVE  proc'[p].state \in AfterReSeed(proc[p].state)
<1> DEFINE x == proc[p]
<1>0. /\ x \in Image /\ Budgeted(x) /\ Sound(x) /\ nextSeed \in Nat \ {0} /\ BudgetInv
  BY DEF SoundInv, BudgetInv, TypeOK
<1>1. PICK aad \in BOOLEAN, trng \in TrngOutcomes, ok \in MethodOutcomes :
        Becomes(p, RNG_ReSeed(proc[p], aad, trng, ok, nextSeed))
  BY DEF DoReSeed
<1> DEFINE y == RNG_ReSeed(proc[p], aad, trng, ok, nextSeed)
<1>2. x.state \in Usable \cup Failed \cup {"UNINIT"}
  BY <1>0 DEF DoReSeed, Between, Running, Image, State
<1>3. ReSeeds(x, y, aad, nextSeed)
  <2>1. x.state # "CRASH"
    BY DEF DoReSeed, Between, Running
  <2> QED BY <1>0, <2>1, OutcomeTypes, ReSeedEffect
<1> HIDE DEF y
<1>4. proc'[p] = y
  BY <1>0, <1>1, PutWorks DEF Becomes, y
<1>5. CASE x.state \in Usable
  BY <1>0, <1>3, <1>4, <1>5 DEF ReSeeds, Sound
<1>6. CASE x.state \in Failed
  <2>1. AfterReSeed(x.state) = {x.state, "ERROR"}
    BY <1>6 DEF AfterReSeed, Usable, Failed
  <2> QED BY <1>3, <1>4, <1>6, <2>1 DEF ReSeeds
<1>7. CASE x.state = "UNINIT"
  <2>1. AfterReSeed(x.state) = {"ERROR"}
    BY <1>7 DEF AfterReSeed, Usable, Failed
  <2> QED BY <1>3, <1>4, <1>7, <2>1 DEF ReSeeds
<1> QED BY <1>2, <1>5, <1>6, <1>7

LEMMA ChunkContract ==
  ASSUME SoundInv, [Next]_vars, NEW p \in Proc, PlainChunk(p)
  PROVE  proc'[p].state \in AfterGenerate(proc[p].state)
<1>1. Next /\ call'[p] # call[p]
  BY DEF PlainChunk, vars
<1>2. PICK q \in Proc :
        \/ \/ Renew(q) \/ DoInit(q) \/ DoReSeed(q) \/ SetParanoid(q) \/ SetAuto(q)
           \/ SetReseed(q) \/ DoReseedCtrl(q) \/ DoSelfTest(q)
        \/ GenerateChunk(q) \/ StartGenerate(q) \/ Exit(q)
        \/ \E r \in Proc : Fork(q, r)
  BY <1>1, Zenon DEF Next
<1>3. GenerateChunk(q)
  <2>1. \/ GenerateChunk(q) \/ StartGenerate(q)
    BY <1>1, <1>2 DEF Renew, DoInit, DoReSeed, SetParanoid, SetAuto, SetReseed,
                      DoReseedCtrl, DoSelfTest, Exit, Fork
  <2>2. ~StartGenerate(q)
    <3> SUFFICES ASSUME StartGenerate(q) PROVE FALSE
      OBVIOUS
    <3>1. call \in [Proc -> Call]
      BY DEF SoundInv, BudgetInv, TypeOK
    <3>2. call[q].left = 0
      BY DEF StartGenerate, Between
    <3>3. PICK n : call' = [call EXCEPT ![q] = n]
      BY DEF StartGenerate
    <3>4. q # p
      BY <3>2 DEF PlainChunk
    <3> QED BY <1>1, <3>1, <3>3, <3>4
  <2> QED BY <2>1, <2>2
<1>4. Fills(q)
  BY <1>3, ChunkFills
<1>5. p = q
  BY <1>1, <1>4 DEF Fills
<1> QED BY <1>4, <1>5 DEF Fills, Chunks, PlainChunk

(***************************************************************************)
(* For every number of processes and every maxReseed, an Init, a reseed    *)
(* and a chunk leave a context where PRNGContract says: what RandPool and  *)
(* the pool of fips-prng-RAND.c are built on (RNG_CTX_Init, RNG_ReSeed,    *)
(* OldefRNG_Generate).                                                     *)
(***************************************************************************)
THEOREM ContractKept == Spec => KeepsContract
<1>1. SoundInv /\ [Next]_vars =>
        [\A p \in Proc :
           /\ \/ proc'[p].state \in AfterInit
              \/ proc[p].state # "UNINIT" \/ proc'[p].paranoid \/ ~DoInit(p)
           /\ proc'[p].state \in AfterReSeed(proc[p].state) \/ ~DoReSeed(p)
           /\ PlainChunk(p) => proc'[p].state \in AfterGenerate(proc[p].state)]_vars
  <2> SUFFICES ASSUME SoundInv, [Next]_vars, NEW p \in Proc
               PROVE
           /\ \/ proc'[p].state \in AfterInit
              \/ proc[p].state # "UNINIT" \/ proc'[p].paranoid \/ ~DoInit(p)
           /\ proc'[p].state \in AfterReSeed(proc[p].state) \/ ~DoReSeed(p)
           /\ PlainChunk(p) => proc'[p].state \in AfterGenerate(proc[p].state)
    OBVIOUS
  <2> QED BY InitContract, ReSeedContract, ChunkContract
<1> QED BY <1>1, SoundInvariant, PTL DEF Spec, KeepsContract

(***************************************************************************)
(* One process: a context with a fatal error cannot be used, and a context *)
(* last used by no process has no algorithm context.  The strengthening    *)
(* behind FatalSilences.                                                   *)
(***************************************************************************)
FatalInv ==
  /\ SoundInv
  /\ \A p \in Proc : /\ proc[p].fatal => proc[p].state \notin Usable
                     /\ proc[p].lastPID \in {p, NoProc}
                     /\ proc[p].lastPID = NoProc => ~proc[p].live

LEMMA FatalStep ==
  ASSUME Proc = {Root}, FatalInv, [Next]_vars
  PROVE  FatalInv'
<1>1. SoundInv'
  BY SoundStep DEF FatalInv
<1>2. SoundInv /\ proc \in [Proc -> Image]
  BY DEF FatalInv, SoundInv, BudgetInv, TypeOK
<1>3. CASE UNCHANGED proc
  BY <1>1, <1>3 DEF FatalInv
<1>4. ASSUME NEW p \in Proc, Works(p) PROVE FatalInv'
  <2>1. /\ Moves(proc[p], proc'[p], p, nextSeed, p \in exposed') /\ \A q \in Proc : q = p
    BY <1>4 DEF Works
  <2>2. /\ proc[p].fatal => proc[p].state \notin Usable
        /\ proc[p].lastPID \in {p, NoProc}
        /\ proc[p].lastPID = NoProc => ~proc[p].live
    BY DEF FatalInv
  <2>3. /\ proc'[p].state \in Usable /\ proc'[p].fatal => FALSE
        /\ proc'[p].lastPID \in {p, NoProc}
        /\ proc'[p].lastPID = NoProc => ~proc'[p].live
    BY <2>1, <2>2 DEF Moves
  <2> QED BY <1>1, <2>1, <2>3 DEF FatalInv
<1>5. ASSUME NEW p \in Proc, NEW q \in Proc, Fork(p, q) PROVE FALSE
  BY <1>5 DEF Fork, Between, Running
<1>6. CASE Next
  <2>1. PICK p \in Proc : \/ Calls(p) \/ Fills(p) \/ StartGenerate(p) \/ Exit(p)
                          \/ \E q \in Proc : Fork(p, q)
    BY <1>2, <1>6, StepKinds
  <2>2. CASE StartGenerate(p) \/ Exit(p)
    BY <1>3, <2>2 DEF StartGenerate, Exit
  <2>3. CASE Calls(p) \/ Fills(p)
    BY <1>4, <2>3 DEF Calls, Fills
  <2> QED BY <1>5, <2>1, <2>2, <2>3
<1> QED BY <1>3, <1>6 DEF vars

(***************************************************************************)
(* In an application that does not fork, for every set of faults and every *)
(* number of chunks in a request, nothing is answered once an error is     *)
(* fatal: neither a new request nor the rest of the one that met the error *)
(* (DisableAPI, and the loop condition of RNG_Generate).                   *)
(***************************************************************************)
THEOREM FatalIsSilent == ASSUME Proc = {Root} PROVE Spec => FatalSilences
<1>1. Init => FatalInv
  <2> SUFFICES ASSUME Init PROVE FatalInv
    OBVIOUS
  <2>1. BudgetInv
    BY InitEstablishes
  <2>2. /\ Sound(FreshImage) /\ FreshImage.seed = 0 /\ FreshImage.cached = 0
        /\ ~FreshImage.fatal /\ FreshImage.lastPID = NoProc /\ ~FreshImage.live
    BY DEF Sound, FreshImage, Usable, Ready
  <2> QED BY <2>1, <2>2 DEF Init, FatalInv, SoundInv
<1>2. FatalInv /\ [Next]_vars => FatalInv'
  BY FatalStep
<1>3. FatalInv /\ [Next]_vars =>
        [\A p \in Proc : Emits(p) => ~proc'[p].fatal]_vars
  <2> SUFFICES ASSUME FatalInv, [Next]_vars, NEW p \in Proc, Emits(p)
               PROVE  ~proc'[p].fatal
    OBVIOUS
  <2>1. Takes(proc[p], proc'[p], p, nextSeed)
    BY EmitStep DEF FatalInv
  <2>2. /\ proc[p].fatal => proc[p].state \notin Usable
        /\ proc[p].lastPID \in {p, NoProc}
        /\ proc[p].lastPID = NoProc => ~proc[p].live
    BY DEF FatalInv
  <2> QED BY <2>1, <2>2 DEF Takes
<1> QED BY <1>1, <1>2, <1>3, PTL DEF Spec, FatalSilences

-----------------------------------------------------------------------------
(***************************************************************************)
(* No state of a generator answers two requests.  Every seed belongs to    *)
(* at most one process that may still use it, and a process that uses a    *)
(* state others can make is exposed: the strengthening behind FreshOutput. *)
(* It holds while process identifiers are not given twice.                 *)
(***************************************************************************)
FreshInv ==
  /\ SoundInv
  /\ \A e \in emitted : e[1] < nextSeed
  /\ \A p \in Proc :
       /\ proc[p].lastPID \in born \cup {NoProc}
       /\ proc[p].lastPID = p /\ proc[p].state \in Ready /\ proc[p].seed < 0 =>
            p \in exposed
       /\ proc[p].lastPID = p /\ proc[p].state \in Ready /\ proc[p].seed \in Nat =>
            \A e \in emitted : e[1] = proc[p].seed => e[2] <= proc[p].step
       /\ proc[p].lastPID = p /\ proc[p].state \in Usable /\ proc[p].cached # 0 =>
            \A e \in emitted : e[1] # proc[p].cached
  /\ \A p, q \in Proc : p # q =>
       \A s \in MayUse(proc[p], p) : s \notin MayUse(proc[q], q)

\* Whatever an operation does, the process may use what it could, or a new seed.
LEMMA MovesUse ==
  ASSUME NEW x \in Image, NEW y, NEW p, NEW sd \in Nat, NEW m,
         Moves(x, y, p, sd, m)
  PROVE  \A s \in MayUse(y, p) : s \in MayUse(x, p) \/ s = sd
BY DEF Moves, MayUse, Image

\* The seeds processes may use are old ones.
LEMMA UsesOld ==
  ASSUME SoundInv, NEW p \in Proc
  PROVE  \A s \in MayUse(proc[p], p) : s < nextSeed
BY DEF SoundInv, MayUse

\* What the images of processes other than the one that works know stays true.
LEMMA WorksFresh ==
  ASSUME FreshInv, NEW p \in Proc, Works(p),
         emitted' = emitted \/ (/\ Takes(proc[p], proc'[p], p, nextSeed)
                                /\ emitted' = emitted \cup {<<proc'[p].seed, proc'[p].step>>}),
         SoundInv'
  PROVE  FreshInv'
<1> DEFINE x == proc[p]
           y == proc'[p]
<1>1. /\ SoundInv /\ proc \in [Proc -> Image] /\ nextSeed \in Nat \ {0}
      /\ emitted \subseteq Int \X Nat /\ p \in Proc
  BY DEF FreshInv, SoundInv, BudgetInv, TypeOK
<1>2. /\ x \in Image /\ y \in Image /\ Moves(x, y, p, nextSeed, p \in exposed')
      /\ Sound(x)
      /\ x.seed < nextSeed /\ x.cached < nextSeed
      /\ x.seed \in Int /\ x.cached \in Nat /\ x.step \in Nat
      /\ y.seed \in Int /\ y.cached \in Nat /\ y.step \in Nat
  BY <1>1 DEF Works, Moves, SoundInv, Image
<1>3. /\ nextSeed' \in {nextSeed, nextSeed + 1}
      /\ y.seed = nextSeed => nextSeed' = nextSeed + 1
      /\ \A q \in exposed : q \in exposed' \/ (q = p /\ y.seed = nextSeed)
      /\ born' = born /\ proc' = [proc EXCEPT ![p] = y]
  BY DEF Works
<1>4. \A q \in Proc \ {p} : proc'[q] = proc[q]
  BY <1>1, <1>3
<1>5. /\ y.seed \in {x.seed, 0, nextSeed, x.cached} \/ y.seed < 0
      /\ y.cached \in {0, x.cached}
      /\ y.lastPID \in {x.lastPID, p, NoProc}
  BY <1>2 DEF Moves
<1> HIDE DEF x, y
<1>6. ASSUME NEW e \in emitted PROVE e \in Int \X Nat /\ e[1] < nextSeed
  BY <1>1, <1>6 DEF FreshInv
<1>7. ASSUME NEW e \in emitted', e \notin emitted
      PROVE  /\ e[1] = y.seed /\ e[2] = y.step /\ Takes(x, y, p, nextSeed)
             /\ e \in Int \X Nat
  BY <1>2, <1>7 DEF x, y
<1>8. \A e \in emitted' : e[1] < nextSeed'
  <2> SUFFICES ASSUME NEW e \in emitted' PROVE e[1] < nextSeed'
    OBVIOUS
  <2>1. CASE e \in emitted
    BY <1>1, <1>3, <1>6, <2>1
  <2>2. CASE e \notin emitted
    BY <1>1, <1>2, <1>3, <1>5, <1>7, <2>2
  <2> QED BY <2>1, <2>2
<1>9. ASSUME NEW q \in Proc \ {p}
      PROVE  \A s \in MayUse(y, p) : s \notin MayUse(proc[q], q)
  <2> SUFFICES ASSUME NEW s \in MayUse(y, p), s \in MayUse(proc[q], q) PROVE FALSE
    OBVIOUS
  <2>1. s \in MayUse(x, p) \/ s = nextSeed
    BY <1>1, <1>2, MovesUse
  <2>2. s # nextSeed
    <3>1. s < nextSeed
      BY <1>1, <1>9, UsesOld
    <3> QED BY <1>1, <3>1 DEF MayUse
  <2> QED BY <1>9, <2>1, <2>2 DEF FreshInv, x
\* A new answer is from no seed another process may use.
<1>10. ASSUME NEW e \in emitted', e \notin emitted, NEW q \in Proc \ {p}
       PROVE  e[1] \notin MayUse(proc[q], q)
  <2>1. e[1] \in MayUse(x, p) \/ e[1] = nextSeed \/ e[1] < 0
    BY <1>2, <1>7, <1>10 DEF Takes, MayUse
  <2>3. e[1] < 0 => e[1] \notin MayUse(proc[q], q)
    BY DEF MayUse
  <2>2. nextSeed \notin MayUse(proc[q], q)
    <3> SUFFICES ASSUME nextSeed \in MayUse(proc[q], q) PROVE FALSE
      OBVIOUS
    <3>1. nextSeed < nextSeed
      BY <1>1, <1>10, UsesOld
    <3> QED BY <1>1, <3>1
  <2> QED BY <1>10, <2>1, <2>2, <2>3 DEF FreshInv, x
<1>11. /\ x.lastPID \in born \cup {NoProc}
       /\ x.lastPID = p /\ x.state \in Ready /\ x.seed < 0 => p \in exposed
       /\ x.lastPID = p /\ x.state \in Ready /\ x.seed \in Nat =>
            \A e \in emitted : e[1] = x.seed => e[2] <= x.step
       /\ x.lastPID = p /\ x.state \in Usable /\ x.cached # 0 =>
            \A e \in emitted : e[1] # x.cached
  BY DEF FreshInv, x
<1>12. /\ y.lastPID = p /\ y.state \in Ready =>
            \/ x.lastPID = p /\ x.state \in Ready /\ y.seed = x.seed /\ y.step >= x.step
            \/ y.seed = nextSeed
            \/ y.seed < 0 /\ p \in exposed'
            \/ x.lastPID = p /\ x.state \in Usable /\ x.cached # 0 /\ y.seed = x.cached
       /\ y.lastPID = p /\ y.state \in Usable /\ y.cached # 0 =>
            x.lastPID = p /\ x.state \in Usable
       /\ Sound(y)
  BY <1>2 DEF Moves
<1>19. y.lastPID = p /\ y.state \in Ready /\ y.seed < 0 => p \in exposed'
  BY <1>1, <1>2, <1>3, <1>11, <1>12
<1>13. ASSUME y.lastPID = p, y.state \in Ready, y.seed \in Nat, NEW e \in emitted', e[1] = y.seed
       PROVE  e[2] <= y.step
  <2>1. CASE e \notin emitted
    BY <1>2, <1>7, <2>1
  <2>2. CASE e \in emitted
    BY <1>1, <1>2, <1>6, <1>11, <1>12, <1>13, <2>2
  <2> QED BY <2>1, <2>2
<1>14. ASSUME y.lastPID = p, y.state \in Usable, y.cached # 0, NEW e \in emitted'
       PROVE  e[1] # y.cached
  <2>1. CASE e \notin emitted
    BY <1>7, <1>12, <1>14, <2>1 DEF Sound
  <2>2. CASE e \in emitted
    BY <1>5, <1>11, <1>12, <1>14, <2>2
  <2> QED BY <2>1, <2>2
<1>15. y.lastPID \in born' \cup {NoProc}
  BY <1>3, <1>5, <1>11 DEF Works
<1>16. ASSUME NEW q \in Proc \ {p}
       PROVE  /\ proc[q].lastPID \in born' \cup {NoProc}
              /\ proc[q].lastPID = q /\ proc[q].state \in Ready /\ proc[q].seed < 0 =>
                   q \in exposed'
              /\ proc[q].lastPID = q /\ proc[q].state \in Ready /\ proc[q].seed \in Nat =>
                   \A e \in emitted' : e[1] = proc[q].seed => e[2] <= proc[q].step
              /\ proc[q].lastPID = q /\ proc[q].state \in Usable /\ proc[q].cached # 0 =>
                   \A e \in emitted' : e[1] # proc[q].cached
  <2>1. /\ proc[q].lastPID \in born \cup {NoProc}
        /\ proc[q].lastPID = q /\ proc[q].state \in Ready /\ proc[q].seed < 0 =>
             q \in exposed
        /\ proc[q].lastPID = q /\ proc[q].state \in Ready /\ proc[q].seed \in Nat =>
             \A e \in emitted : e[1] = proc[q].seed => e[2] <= proc[q].step
        /\ proc[q].lastPID = q /\ proc[q].state \in Usable /\ proc[q].cached # 0 =>
             \A e \in emitted : e[1] # proc[q].cached
    BY <1>16 DEF FreshInv
  <2>2. proc[q].seed \in Int /\ proc[q].cached \in Nat
    BY <1>1, <1>16 DEF Image
  <2>3. ASSUME NEW e \in emitted', e \notin emitted
        PROVE  /\ ~(/\ proc[q].lastPID = q /\ proc[q].state \in Ready
                    /\ proc[q].seed \in Nat /\ e[1] = proc[q].seed)
               /\ ~(/\ proc[q].lastPID = q /\ proc[q].state \in Usable
                    /\ proc[q].cached # 0 /\ e[1] = proc[q].cached)
    BY <1>10, <1>16, <2>2, <2>3 DEF MayUse
  <2> QED BY <1>3, <2>1, <2>3
<1>17. ASSUME NEW q \in Proc, NEW r \in Proc, q # r
       PROVE  \A s \in MayUse(proc'[q], q) : s \notin MayUse(proc'[r], r)
  <2>1. CASE q = p
    BY <1>4, <1>9, <1>17, <2>1 DEF y
  <2>2. CASE r = p
    BY <1>4, <1>9, <1>17, <2>2 DEF y
  <2>3. CASE q # p /\ r # p
    BY <1>4, <1>17, <2>3 DEF FreshInv
  <2> QED BY <2>1, <2>2, <2>3
<1>18. ASSUME NEW q \in Proc
       PROVE  /\ proc'[q].lastPID \in born' \cup {NoProc}
              /\ proc'[q].lastPID = q /\ proc'[q].state \in Ready /\ proc'[q].seed < 0 =>
                   q \in exposed'
              /\ proc'[q].lastPID = q /\ proc'[q].state \in Ready /\ proc'[q].seed \in Nat =>
                   \A e \in emitted' : e[1] = proc'[q].seed => e[2] <= proc'[q].step
              /\ proc'[q].lastPID = q /\ proc'[q].state \in Usable /\ proc'[q].cached # 0 =>
                   \A e \in emitted' : e[1] # proc'[q].cached
  <2>1. CASE q = p
    BY <1>13, <1>14, <1>15, <1>19, <2>1 DEF y
  <2>2. CASE q # p
    <3>1. proc'[q] = proc[q]
      BY <1>4, <2>2
    <3> QED BY <1>16, <2>2, <3>1
  <2> QED BY <2>1, <2>2
<1> HIDE DEF MayUse
<1> QED BY <1>8, <1>17, <1>18, Zenon DEF FreshInv, MayUse

\* After a fork() the child may use nothing before it has drained and reseeded.
LEMMA ForkFresh ==
  ASSUME FreshInv, NEW p \in Proc, NEW q \in Proc, Fork(p, q), SoundInv'
  PROVE  FreshInv'
<1>1. PICK c \in Nat, d \in Nat :
       LET z == [proc[p] EXCEPT !.cached = c, !.copied = d] IN
       /\ \/ c = proc[p].cached /\ c # 0 /\ nextSeed' = nextSeed
          \/ c = nextSeed /\ nextSeed' = nextSeed + 1
       /\ proc' = [proc EXCEPT ![p] = z, ![q] = z]
       /\ z \in Image /\ z.cached = c /\ z.state = proc[p].state
       /\ z.seed = proc[p].seed /\ z.step = proc[p].step
       /\ z.lastPID = proc[p].lastPID /\ z.live = proc[p].live
       /\ z.trng = proc[p].trng /\ z.fatal = proc[p].fatal
       /\ q \in Proc \ born /\ born' = born \cup {q} /\ p \in born
       /\ exposed' = exposed \ {q} /\ UNCHANGED <<call, emitted>>
  BY ForkEffect DEF FreshInv
<1> DEFINE x == proc[p]
           y == [proc[p] EXCEPT !.cached = c, !.copied = d]
<1>2. /\ \/ c = x.cached /\ c # 0 /\ nextSeed' = nextSeed
         \/ c = nextSeed /\ nextSeed' = nextSeed + 1
      /\ proc' = [proc EXCEPT ![p] = y, ![q] = y]
      /\ y \in Image /\ y.cached = c /\ y.state = x.state
      /\ y.seed = x.seed /\ y.step = x.step /\ y.lastPID = x.lastPID
      /\ q \in Proc \ born /\ born' = born \cup {q} /\ p \in born
      /\ emitted' = emitted /\ exposed' = exposed \ {q}
  BY <1>1
<1>3. /\ SoundInv /\ proc \in [Proc -> Image] /\ nextSeed \in Nat \ {0}
      /\ emitted \subseteq Int \X Nat /\ p # q
  BY <1>2 DEF FreshInv, SoundInv, BudgetInv, TypeOK
<1> HIDE DEF x, y
<1>4. proc'[p] = y /\ proc'[q] = y /\ \A r \in Proc \ {p, q} : proc'[r] = proc[r]
  BY <1>2, <1>3
<1>5. ASSUME NEW r \in Proc
      PROVE  /\ proc[r].lastPID \in born' \cup {NoProc}
             /\ proc[r].lastPID # q
             /\ proc[r].lastPID = r /\ proc[r].state \in Ready /\ proc[r].seed < 0 =>
                  r \in exposed'
             /\ proc[r].lastPID = r /\ proc[r].state \in Ready /\ proc[r].seed \in Nat =>
                  \A e \in emitted : e[1] = proc[r].seed => e[2] <= proc[r].step
             /\ proc[r].lastPID = r /\ proc[r].state \in Usable /\ proc[r].cached # 0 =>
                  \A e \in emitted : e[1] # proc[r].cached
  BY <1>2, DRBGAssumption DEF FreshInv
<1>6. ASSUME NEW e \in emitted PROVE e[1] < nextSeed /\ e[1] < nextSeed'
  <2>1. e[1] < nextSeed /\ e[1] \in Int
    BY <1>3 DEF FreshInv
  <2> QED BY <1>2, <1>3, <2>1
<1>7. /\ y.lastPID \in born' \cup {NoProc} /\ y.lastPID # q
      /\ y.lastPID = p /\ y.state \in Ready /\ y.seed < 0 => p \in exposed'
      /\ y.lastPID = p /\ y.state \in Ready /\ y.seed \in Nat =>
           \A e \in emitted : e[1] = y.seed => e[2] <= y.step
      /\ y.lastPID = p /\ y.state \in Usable /\ y.cached # 0 =>
           \A e \in emitted : e[1] # y.cached
  <2>1. /\ y.lastPID \in born' \cup {NoProc} /\ y.lastPID # q
        /\ y.lastPID = p /\ y.state \in Ready /\ y.seed < 0 => p \in exposed'
        /\ y.lastPID = p /\ y.state \in Ready /\ y.seed \in Nat =>
             \A e \in emitted : e[1] = y.seed => e[2] <= y.step
    BY <1>2, <1>5 DEF x
  <2>2. ASSUME y.lastPID = p, y.state \in Usable, NEW e \in emitted
        PROVE  e[1] # y.cached
    <3>1. CASE c = x.cached /\ c # 0
      BY <1>2, <1>5, <2>2, <3>1 DEF x
    <3>2. CASE c = nextSeed
      BY <1>2, <1>3, <1>6, <2>2, <3>2
    <3> QED BY <1>2, <3>1, <3>2
  <2> QED BY <2>1, <2>2
<1>8. ASSUME NEW r \in Proc
      PROVE  /\ proc'[r].lastPID \in born' \cup {NoProc}
             /\ proc'[r].lastPID = r /\ proc'[r].state \in Ready /\ proc'[r].seed < 0 =>
                  r \in exposed'
             /\ proc'[r].lastPID = r /\ proc'[r].state \in Ready /\ proc'[r].seed \in Nat =>
                  \A e \in emitted' : e[1] = proc'[r].seed => e[2] <= proc'[r].step
             /\ proc'[r].lastPID = r /\ proc'[r].state \in Usable /\ proc'[r].cached # 0 =>
                  \A e \in emitted' : e[1] # proc'[r].cached
  <2>1. CASE r = p
    BY <1>2, <1>4, <1>7, <2>1
  <2>2. CASE r = q
    BY <1>4, <1>7, <2>2
  <2>3. CASE r # p /\ r # q
    <3>1. proc'[r] = proc[r]
      BY <1>4, <2>3
    <3> QED BY <1>2, <1>5, <3>1
  <2> QED BY <2>1, <2>2, <2>3
<1>9. MayUse(y, q) = {}
  BY <1>7 DEF MayUse
<1>10. ASSUME NEW r \in Proc \ {p, q}
       PROVE  \A s \in MayUse(y, p) : s \notin MayUse(proc[r], r)
  <2> SUFFICES ASSUME NEW s \in MayUse(y, p), s \in MayUse(proc[r], r) PROVE FALSE
    OBVIOUS
  <2>1. s \in MayUse(x, p) \/ s = nextSeed
    BY <1>2 DEF MayUse
  <2>2. s # nextSeed
    <3>1. s < nextSeed
      BY <1>3, <1>10, UsesOld
    <3> QED BY <1>3, <3>1 DEF MayUse
  <2> QED BY <1>10, <2>1, <2>2 DEF FreshInv, x
<1>11. ASSUME NEW r \in Proc, NEW t \in Proc, r # t
       PROVE  \A s \in MayUse(proc'[r], r) : s \notin MayUse(proc'[t], t)
  <2>1. CASE r = q \/ t = q
    BY <1>4, <1>9, <2>1
  <2>2. CASE r = p /\ t # q
    BY <1>4, <1>10, <1>11, <2>2
  <2>3. CASE t = p /\ r # q
    BY <1>4, <1>10, <1>11, <2>3
  <2>4. CASE r \notin {p, q} /\ t \notin {p, q}
    BY <1>4, <1>11, <2>4 DEF FreshInv
  <2> QED BY <2>1, <2>2, <2>3, <2>4
<1>12. \A e \in emitted' : e[1] < nextSeed'
  BY <1>2, <1>6
<1> QED BY <1>8, <1>11, <1>12, Zenon DEF FreshInv, MayUse

LEMMA FreshStep ==
  ASSUME "reuse" \notin Faults, FreshInv, [Next]_vars
  PROVE  FreshInv'
<1>1. SoundInv /\ SoundInv'
  BY SoundStep DEF FreshInv
<1>2. CASE UNCHANGED <<proc, born, nextSeed, emitted, exposed>>
  BY <1>1, <1>2 DEF FreshInv, MayUse
<1>3. CASE Next
  <2>1. PICK p \in Proc : \/ Calls(p) \/ Fills(p) \/ StartGenerate(p) \/ Exit(p)
                          \/ \E q \in Proc : Fork(p, q)
    BY <1>1, <1>3, StepKinds
  <2>2. CASE StartGenerate(p)
    BY <1>2, <2>2 DEF StartGenerate
  <2>3. CASE Calls(p) \/ Fills(p)
    BY <1>1, <2>3, WorksFresh DEF Calls, Fills
  <2>4. ~Exit(p)
    BY DEF Exit
  <2>5. ASSUME NEW q \in Proc, Fork(p, q) PROVE FreshInv'
    BY <1>1, <2>5, ForkFresh
  <2> QED BY <2>1, <2>2, <2>3, <2>4, <2>5
<1> QED BY <1>2, <1>3 DEF vars

(***************************************************************************)
(* While the system gives no process identifier twice, no process answers  *)
(* a request from a generator state that has answered one before, for any  *)
(* number of processes that fork from one another, of reseeds,             *)
(* re-initializations and failures (the PID check of OldefRNG_Generate,    *)
(* the drain of the buffered noise, the PID and time of PRNG_Instantiate). *)
(* Left out are the processes whose last RNG_CTX_Init combined noise that  *)
(* a fork had copied with a personalization string of the caller.          *)
(***************************************************************************)
THEOREM OutputIsFresh == ASSUME "reuse" \notin Faults PROVE Spec => FreshOutput
<1>1. Init => FreshInv
  <2> SUFFICES ASSUME Init PROVE FreshInv
    OBVIOUS
  <2>1. BudgetInv
    BY InitEstablishes
  <2>2. /\ Sound(FreshImage) /\ FreshImage.seed = 0 /\ FreshImage.cached = 0
        /\ FreshImage.lastPID = NoProc
    BY DEF Sound, FreshImage, Usable, Ready
  <2>3. SoundInv
    BY <2>1, <2>2 DEF Init, SoundInv
  <2> QED BY <2>2, <2>3, DRBGAssumption DEF Init, FreshInv, MayUse
<1>2. FreshInv /\ [Next]_vars => FreshInv'
  BY FreshStep
<1>3. FreshInv /\ [Next]_vars =>
        [\A p \in Proc \ exposed : Emits(p) =>
           <<proc'[p].seed, proc'[p].step>> \notin emitted]_vars
  <2> SUFFICES ASSUME FreshInv, [Next]_vars, NEW p \in Proc \ exposed, Emits(p),
                      <<proc'[p].seed, proc'[p].step>> \in emitted
               PROVE  FALSE
    OBVIOUS
  <2> DEFINE x == proc[p]
             y == proc'[p]
  <2>1. Takes(x, y, p, nextSeed) /\ y \in Image /\ x \in Image /\ nextSeed \in Nat
    BY EmitStep DEF FreshInv, SoundInv, BudgetInv, TypeOK, Fills, Works, Moves
  <2>2. y.seed < nextSeed
    BY DEF FreshInv
  <2>3. /\ x.lastPID = p /\ x.state \in Ready => ~(x.seed < 0)
        /\ x.lastPID = p /\ x.state \in Ready /\ x.seed \in Nat =>
             (y.seed = x.seed => y.step <= x.step)
        /\ x.lastPID = p /\ x.state \in Usable /\ x.cached # 0 => y.seed # x.cached
    BY DEF FreshInv
  <2>4. y.step \in Nat /\ x.step \in Nat /\ y.seed \in Int /\ x.seed \in Int
    BY <2>1 DEF Image
  <2> HIDE DEF x, y
  <2> QED BY <2>1, <2>2, <2>3, <2>4 DEF Takes
<1> QED BY <1>1, <1>2, <1>3, PTL DEF Spec, FreshOutput
=============================================================================
