------------------------------ MODULE Services ------------------------------
(***************************************************************************)
(* Services of the library that are one call each: the health tests of the *)
(* noise, and how a generator type is found, tested and set up.  Each is   *)
(* tried on one input of its kind.                                         *)
(***************************************************************************)
EXTENDS GeneratorTypes, HealthTests

CONSTANTS Noise,           \* buffers of noise, of bytes or of nibbles
          Numbers,         \* arguments of ilog2
          Strengths,       \* strengths asked for
          Personal,        \* lengths of personalization strings
          Lengths,         \* lengths of requests
          ExcludeLists     \* sets of names excluded

\* The arguments of the health tests fit an unsigned int.
ASSUME ServicesAssumption ==
  /\ Noise \subseteq Seq(Nat \X (Nat \ {0})) \ {<<>>}
  /\ \A noise \in Noise : Samples(noise) \div 2 ^ 16 < 2 ^ 16
  /\ Numbers \subseteq Nat \ {0} /\ \A v \in Numbers : v \div 2 ^ 16 < 2 ^ 16
  /\ Strengths \subseteq Nat /\ Personal \subseteq Nat /\ Lengths \subseteq Nat

VARIABLE input   \* its kind, then what is tried

ServiceKind == {"noise", "number", "self_test", "set_up", "source", "lookup", "pieces"}

Is(kind)  == Len(input) > 1 /\ input[1] = kind
May(kind) == input = <<kind>>

TryNoise ==
  May("noise") /\ \E H \in {12, 25, 50, 75, 100}, noise \in Noise : input' = <<"noise", H, noise>>

TryNumber == May("number") /\ \E v \in Numbers : input' = <<"number", v>>

\* A self test, with one method ill or an induced failure.
TryTypeTest ==
  May("self_test") /\ \E name \in Names, fault \in MethodFault, memory \in BOOLEAN :
    input' = <<"self_test", name, fault, memory>>

TrySetUp ==
  May("set_up") /\ \E name \in Names, strength \in Strengths, personal \in Personal :
    ~IsTRNG(TheType(name)) /\ input' = <<"set_up", name, strength, personal>>

\* A source, with or without hardware, of which so many set-ups work.
TrySource ==
  May("source") /\ \E name \in Names, hardware \in BOOLEAN, works \in 0 .. 2, personal \in Personal, good \in BOOLEAN :
    IsTRNG(TheType(name)) /\ input' = <<"source", name, hardware, works, personal, good>>

\* A lookup, the type being ill or not, the exclude list one at load and
\* another now.
TryLookup ==
  May("lookup") /\ \E name \in Names, fips, hardware \in BOOLEAN, fault \in {"none", "Gen"},
                      atLoad, now \in ExcludeLists :
    input' = <<"lookup", name, fips, hardware, fault, atLoad, now>>

TryPieces ==
  May("pieces") /\ \E name \in Names, auto \in BOOLEAN, n \in Lengths :
    input' = <<"pieces", name, auto, n>>

ServicesNext ==
  \/ TryNoise \/ TryNumber
  \/ TryTypeTest \/ TrySetUp \/ TrySource \/ TryLookup \/ TryPieces

ServicesSpec == input \in {<<kind>> : kind \in ServiceKind} /\ [][ServicesNext]_input

-----------------------------------------------------------------------------
\* The cutoff of the repetition count test in SP800-90B, for a false alarm
\* once in 2^30 samples of 8 H / 100 bits each.
Cutoff(H) == 1 + (30 * 100 + 8 * H - 1) \div (8 * H)

\* est percent is the whole part of the min-entropy, in bits, times 25.
WholeBits(est, n, k) == 2 ^ (est \div 25) * k <= n /\ n < 2 ^ (est \div 25 + 1) * k

(***************************************************************************)
(* The health tests and the estimators agree with each other and with      *)
(* SP800-90B (ilog2, pmaxLGetEnt, pmax4, APtestBK, RCtestBK, ht,           *)
(* nist_algs.c): an estimate is the min-entropy of the most common value   *)
(* rounded down to a bit, never up; noise estimated at the guarantee or    *)
(* above is not rejected by the proportion test, and noise it accepts is   *)
(* at most one step below; the repetition test rejects exactly stretches   *)
(* longer than the cutoff; a guarantee without tests rejects everything.   *)
(***************************************************************************)
HealthTestsSound ==
  /\ Is("number") => input[2] \div 2 ^ ilog2(input[2]) = 1
  /\ Is("noise") =>
       LET H == input[2]  noise == input[3]
           n == Samples(noise)  k == MostCommon(noise)  est == pmaxLGetEnt(noise)
       IN  /\ n >= 512 => WholeBits(est, n, k)
           /\ n >= 64 /\ Values(noise) \subseteq 0 .. 15 => WholeBits(pmax4(noise), n, k)
           /\ n = 512 /\ H \in {25, 50} =>
                /\ est >= 2 * H => APtestBK(H, noise) = 0
                /\ APtestBK(H, noise) = 0 => est >= 2 * H - 25
           /\ H \in {25, 50, 75} => (RCtestBK(H, noise) = 1 <=> Longest(noise) > Cutoff(H))
           /\ H \notin {25, 50, 75} => ht(H, noise) # 0

-----------------------------------------------------------------------------
\* The strength of a mechanism in SP800-57, by the name of the type.
StandardStrength(name) ==
  CASE name \in {"SHA1", "HMAC-SHA1", "AES-128-ECB"}     -> 128
    [] name \in {"SHA224", "HMAC-SHA224", "AES-192-ECB"} -> 192
    [] OTHER                                             -> 256

\* Everything SP800-90A asks of a vector that tests a strength.
Tests(v, strength) == 8 * v.ein >= strength /\ 16 * v.nonce >= strength /\ v.res > 0

SelfTestFinds(name, fault, memory) ==
  LET type == TheType(name)  test == TypeSelfTest(type, fault, memory)
      seen == fault # "none" /\ ~(name = "AES-128-ECB" /\ fault \in {"Res", "403"})
  IN  ~IsTRNG(type) =>
        /\ memory => test = [state |-> IF seen THEN "CRIT" ELSE "UNINIT", error |-> seen]
        /\ ~memory => test.state = "CRIT"
        /\ name # "SHA224" => Max(Offered(type)) <= StandardStrength(name)
        /\ \A i \in 1 .. 4 : type.strengths[i] > 0 =>
             type.tests[i] \in VectorsRun(type) /\ Tests(type.tests[i], type.strengths[i])

SetUpSuffices(name, strength, personal) ==
  LET type == TheType(name)  ctx == InitGenerator(type, strength, personal)
      asked == IF strength > Max(Offered(type)) THEN Max(Offered(type)) ELSE strength
  IN  ctx.state = "INIT" =>
        /\ strength <= Max(Offered(type)) => ctx.strength >= strength
        /\ strength = 0 => ctx.strength = Max(Offered(type))
        /\ 8 * ctx.ein >= asked * GetDesignEntropy
        /\ 16 * ctx.nonce >= asked * GetDesignEntropy
        /\ ctx.ein <= EBUF_SIZE
        /\ ctx.ein + ctx.nonce + ctx.pers <= type.maxEnt

Total(lengths) ==
  LET sum[i \in 0 .. Len(lengths)] == IF i = 0 THEN 0 ELSE sum[i - 1] + lengths[i]
  IN  sum[Len(lengths)]

(***************************************************************************)
(* The tables of the generators do what the set-up and the self test need  *)
(* of them (PRNG_self_test, RNG_CTX_Init, PRNG_Instantiate, SP800-90.c):   *)
(* every strength offered has its vector, which seeds enough for it, and   *)
(* is one the mechanism has (SHA-224 alone offers more); a method that is  *)
(* wrong fails the self test and marks the type, only the reseeding of     *)
(* AES-128 is never tried; a context set up is seeded for the strength     *)
(* asked for, or for the highest when more was asked, within its buffer;   *)
(* and the pieces of a request are the request, none too large.            *)
(***************************************************************************)
TypesConform ==
  /\ Is("self_test") => SelfTestFinds(input[2], input[3], input[4])
  /\ Is("set_up") => SetUpSuffices(input[2], input[3], input[4])
  /\ Is("pieces") =>
       LET pieces == Pieces(TheType(input[2]), input[3], input[4])
       IN  /\ Total(pieces) = input[4]
           /\ input[3] => \A i \in DOMAIN pieces : pieces[i] <= TheType(input[2]).maxBytes

-----------------------------------------------------------------------------
\* The types whose self test failed, when the one of that name has the fault.
FailedTypes(name, fault) == {n \in {name} : TypeSelfTest(TheType(n), fault, TRUE).error}

LookedUp(name, fips, hardware, failed, atLoad, now) ==
  LET found == get_RNGbyname(name, fips, hardware, failed, now)
  IN  /\ found \subseteq {TheType(name)}
      /\ \A type \in found : fips /\ IsTRNG(type) => type.tap = "TRNG"
      /\ name \in failed => found = {}
      /\ name \in now => found = {}
      /\ now = {} /\ failed = {} /\ hardware /\ ~fips => found # {}
      /\ now = atLoad /\ failed = {} /\ hardware =>
           (TheType(name) \in get_SP800_90FIPS(atLoad) <=>
              get_RNGbyname(name, TRUE, hardware, failed, now) # {})
      /\ \A type \in found : type \in WithMutex(atLoad) \/ ~(atLoad \subseteq now)

(***************************************************************************)
(* A lookup never gives what must not be used (get_RNGbyname and           *)
(* get_SP800_90FIPS, SP800-90.c): a type that failed its self test, one    *)
(* that is excluded, the raw noise in FIPS mode; the list of the FIPS      *)
(* types is those a FIPS lookup finds; a type found has its mutex unless   *)
(* the exclude list lost an entry since it was read first.  A source set   *)
(* up well is in its initial state, and delivers no poor noise as good     *)
(* unless it is the tap that does not test it (SP800-90TRNG.c).            *)
(***************************************************************************)
LookupSound ==
  /\ Is("lookup") =>
       LookedUp(input[2], input[3], input[4], FailedTypes(input[2], input[5]), input[6], input[7])
  /\ Is("source") =>
       LET type == TheType(input[2])  init == InitSource(type, input[3], input[4], input[5])
       IN  init.rv = "INIT" =>
             /\ init.state = "INIT" /\ (type.trng = "HW" => input[3])
             /\ TRNG_Generate(type, init.state, input[6]) \in {"INIT", "RUN"} =>
                  input[6] \/ type.tap = "NOISE"
=============================================================================
