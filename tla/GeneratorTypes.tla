--------------------------- MODULE GeneratorTypes ---------------------------
(***************************************************************************)
(* The generator types of PRNG_list: their tables and self test vectors    *)
(* (SP800-90HashData.c, SP800-90HMAC.c, SP800-90Cipher.c, SP800-90TRNG.c), *)
(* how a type is found by name and how a context is set up for one         *)
(* (SP800-90.c).  Of a vector only the lengths are kept, in bytes.         *)
(***************************************************************************)
EXTENDS Integers, Sequences, FiniteSets, SequencesExt, FiniteSetsExt

CONSTANTS PersonalLength   \* Personalize(NULL): the length of what it fills in

ASSUME GeneratorTypesAssumption == PersonalLength \in Nat \ {0}

-----------------------------------------------------------------------------
(***************************************************************************)
(* Self test vectors: the entropy, nonce and personalization given to      *)
(* Inst, the additional data, the entropy given to Res, and the output.    *)
(***************************************************************************)
Vector(ein, nonce, pers, aad, gen, res) ==
  [ein |-> ein, nonce |-> nonce, pers |-> pers, aad |-> aad, gen |-> gen, res |-> res]

NONE == Vector(0, 0, 0, 0, 0, 0)

SHA512_112 == Vector(24, 12,  0, 0, 24, 64)
SHA512_128 == Vector(32, 16,  0, 0, 32, 64)
SHA512_192 == Vector(32, 16,  0, 0, 32, 64)
SHA512_256 == Vector(32, 16, 32, 0,  0, 64)
SHA384_112 == Vector(24, 16,  0, 0, 24, 48)
SHA384_128 == Vector(32, 16,  0, 0, 32, 48)
SHA384_192 == Vector(32, 16,  0, 0, 32, 48)
SHA384_256 == Vector(32, 16, 32, 0,  0, 64)
SHA256_112 == Vector(24, 12,  0, 0, 24, 32)
SHA256_128 == Vector(32, 16,  0, 0, 32, 32)
SHA256_192 == Vector(32, 16,  0, 0, 32, 32)
SHA256_256 == Vector(32, 16, 32, 0,  0, 64)
SHA224_112 == Vector(24, 12,  0, 0, 24, 20)
SHA224_128 == Vector(32, 16,  0, 0, 32, 32)
SHA224_192 == Vector(24, 12,  0, 0, 24, 24)
SHA224_256 == Vector(64, 16,  0, 0, 64, 28)
SHA1_112   == Vector(16,  8, 16, 0,  0, 64)
SHA1_128   == Vector(16,  8,  0, 0, 16, 20)

HMAC_SHA512_112 == Vector(32, 16, 16, 0,  0, 64)
HMAC_SHA512_128 == Vector(32, 16,  0, 0, 32, 64)
HMAC_SHA512_192 == Vector(32, 16, 32, 0,  0, 64)
HMAC_SHA512_256 == Vector(32, 16,  0, 0, 32, 64)
HMAC_SHA384_112 == Vector(24, 16,  0, 0, 24, 48)
HMAC_SHA384_128 == Vector(32, 16,  0, 0, 32, 48)
HMAC_SHA384_192 == Vector(32, 16,  0, 0, 32, 48)
HMAC_SHA384_256 == Vector(32, 16, 32, 0,  0, 64)
HMAC_SHA256_112 == Vector(24, 12,  0, 0, 24, 32)
HMAC_SHA256_128 == Vector(32, 16,  0, 0, 32, 32)
HMAC_SHA256_192 == Vector(32, 16, 32, 0,  0, 64)
HMAC_SHA256_256 == Vector(32, 16,  0, 0, 32, 32)
HMAC_SHA224_112 == Vector(24, 12,  0, 0, 24, 28)
HMAC_SHA224_128 == Vector(32, 16,  0, 0, 32, 32)
HMAC_SHA224_192 == Vector(24, 12, 24, 0,  0, 64)
HMAC_SHA1_112   == Vector(16,  8,  0, 0, 16, 20)
HMAC_SHA1_128   == Vector(16,  8, 16, 0,  0, 64)

AES128_128 == Vector(16,  8, 16, 0,  0, 64)
AES192_192 == Vector(24, 16,  0, 0, 24,  8)
AES256_256 == Vector(32, 16,  0, 0, 32,  8)

-----------------------------------------------------------------------------
(***************************************************************************)
(* The tables.  strengths and tests have four places; a type without a     *)
(* strength has NONE (all of length 0) or no vector in that place.         *)
(***************************************************************************)
NOVECTOR == [Vector(0, 0, 0, 0, 0, 0) EXCEPT !.ein = -1]

SELF_TEST_AT == 1024
AllOnes      == 2147483647   \* 0xFFFFFFFF: more than any request or count

Generator(name, seedlen, OBL, maxReseed, strengths, FIPS, tests) ==
  [name |-> name, trng |-> "no", tap |-> "no", seedlen |-> seedlen,
   maxNonce |-> 2^27, maxPers |-> 2^27, maxAAD |-> 2^27, maxBytes |-> 2^11,
   maxReseed |-> maxReseed, OBL |-> OBL, maxEnt |-> 2^27, strengths |-> strengths,
   hasDF |-> TRUE, FIPS |-> FIPS, testAt |-> SELF_TEST_AT, tests |-> tests]

PRNG(name, seedlen, OBL, strengths, FIPS, tests) ==
  Generator(name, seedlen, OBL, 2^24 - 1, strengths, FIPS, tests)

sha512PRNG == PRNG("SHA512", 888 \div 8, 64, <<112, 128, 192, 256>>, TRUE,
                   <<SHA512_112, SHA512_128, SHA512_192, SHA512_256>>)
sha384PRNG == PRNG("SHA384", 888 \div 8, 48, <<112, 128, 192, 256>>, TRUE,
                   <<SHA384_112, SHA384_128, SHA384_192, SHA384_256>>)
sha256PRNG == PRNG("SHA256", 440 \div 8, 32, <<112, 128, 192, 256>>, TRUE,
                   <<SHA256_112, SHA256_128, SHA256_192, SHA256_256>>)
sha224PRNG == PRNG("SHA224", 440 \div 8, 28, <<112, 128, 192, 256>>, TRUE,
                   <<SHA224_112, SHA224_128, SHA224_192, SHA224_256>>)
sha1PRNG   == PRNG("SHA1", 440 \div 8, 20, <<112, 128, 0, 0>>, FALSE,
                   <<SHA1_112, SHA1_128, NONE, NONE>>)

HMACsha512PRNG == PRNG("HMAC-SHA512", 888 \div 8, 64, <<112, 128, 192, 256>>, TRUE,
                       <<HMAC_SHA512_112, HMAC_SHA512_128, HMAC_SHA512_192, HMAC_SHA512_256>>)
HMACsha384PRNG == PRNG("HMAC-SHA384", 888 \div 8, 48, <<112, 128, 192, 256>>, TRUE,
                       <<HMAC_SHA384_112, HMAC_SHA384_128, HMAC_SHA384_192, HMAC_SHA384_256>>)
HMACsha256PRNG == PRNG("HMAC-SHA256", 440 \div 8, 32, <<112, 128, 192, 256>>, TRUE,
                       <<HMAC_SHA256_112, HMAC_SHA256_128, HMAC_SHA256_192, HMAC_SHA256_256>>)
HMACsha224PRNG == PRNG("HMAC-SHA224", 440 \div 8, 28, <<112, 128, 192, 0>>, TRUE,
                       <<HMAC_SHA224_112, HMAC_SHA224_128, HMAC_SHA224_192, NONE>>)
HMACsha1PRNG   == PRNG("HMAC-SHA1", 440 \div 8, 20, <<112, 128, 0, 0>>, FALSE,
                       <<HMAC_SHA1_112, HMAC_SHA1_128, NONE, NONE>>)

CTR(name, keylen, tests) ==
  Generator(name, keylen + 16, 16, 2^28, <<8 * keylen, 0, 0, 0>>, TRUE, tests)

aes128PRNG == CTR("AES-128-ECB", 16, <<AES128_128, NOVECTOR, NOVECTOR, NOVECTOR>>)
aes192PRNG == CTR("AES-192-ECB", 24, <<AES192_192, NOVECTOR, NOVECTOR, NOVECTOR>>)
aes256PRNG == CTR("AES-256-ECB", 32, <<AES256_256, NOVECTOR, NOVECTOR, NOVECTOR>>)

(***************************************************************************)
(* Entropy sources and their test taps.  The comments of these tables name *)
(* the fields one place late; the values are in the order of the fields,   *)
(* so the largest request is 0xFFFFFFFF and the block length is 0.         *)
(***************************************************************************)
TAP(name, trng, tap, FIPS) ==
  [name |-> name, trng |-> trng, tap |-> tap, seedlen |-> 20,
   maxNonce |-> 0, maxPers |-> 0, maxAAD |-> 2^11, maxBytes |-> AllOnes,
   maxReseed |-> 20, OBL |-> 0, maxEnt |-> 256, strengths |-> <<256, 0, 0, 0>>,
   hasDF |-> FALSE, FIPS |-> FIPS, testAt |-> -1,
   tests |-> <<NOVECTOR, NOVECTOR, NOVECTOR, NOVECTOR>>]

SPTRNG_FIPS == TAP("TRNG_FIPS", "FIPS", "TRNG", TRUE)
SPTRNG_ALT  == TAP("TRNG_ALT",  "OS",   "TRNG", FALSE)
SPTRNG_OS   == TAP("TRNG_OS",   "OS",   "TRNG", FALSE)
SPTRNG_ALT4 == TAP("TRNG_ALT4", "HW",   "TRNG", FALSE)
SPTRNG_HW   == TAP("TRNG_HW",   "HW",   "TRNG", FALSE)

SPTRNG_FIPS_ETAP == TAP("ETAP_FIPS", "FIPS", "ETAP", FALSE)
SPTRNG_ALT_ETAP  == TAP("ETAP_ALT",  "OS",   "ETAP", FALSE)
SPTRNG_OS_ETAP   == TAP("ETAP_OS",   "OS",   "ETAP", FALSE)
SPTRNG_ALT4_ETAP == TAP("ETAP_ALT4", "HW",   "ETAP", FALSE)
SPTRNG_HW_ETAP   == TAP("ETAP_HW",   "HW",   "ETAP", FALSE)

SPTRNG_FIPS_NOISE == TAP("NOISE_FIPS", "FIPS", "NOISE", FALSE)
SPTRNG_ALT_NOISE  == TAP("NOISE_ALT",  "OS",   "NOISE", FALSE)
SPTRNG_OS_NOISE   == TAP("NOISE_OS",   "OS",   "NOISE", FALSE)
SPTRNG_ALT4_NOISE == TAP("NOISE_ALT4", "HW",   "NOISE", FALSE)
SPTRNG_HW_NOISE   == TAP("NOISE_HW",   "HW",   "NOISE", FALSE)

PRNG_list ==
  <<SPTRNG_FIPS, SPTRNG_FIPS_NOISE, SPTRNG_FIPS_ETAP,
    sha1PRNG, sha224PRNG, sha256PRNG, sha384PRNG, sha512PRNG,
    aes128PRNG, aes192PRNG, aes256PRNG,
    HMACsha1PRNG, HMACsha224PRNG, HMACsha256PRNG, HMACsha384PRNG, HMACsha512PRNG,
    SPTRNG_ALT, SPTRNG_OS, SPTRNG_ALT4, SPTRNG_HW,
    SPTRNG_ALT_ETAP, SPTRNG_OS_ETAP, SPTRNG_ALT4_ETAP, SPTRNG_HW_ETAP,
    SPTRNG_ALT_NOISE, SPTRNG_OS_NOISE, SPTRNG_ALT4_NOISE, SPTRNG_HW_NOISE>>

AnyType  == Range(PRNG_list)
Names    == {type.name : type \in AnyType}
IsTRNG(type) == type.trng # "no"
TheType(name) == CHOOSE type \in AnyType : type.name = name

-----------------------------------------------------------------------------
(***************************************************************************)
(* Finding a type.  A type is excluded when its name ends an entry of the  *)
(* exclude list: strstr finds it anywhere, and matchstr only asks that     *)
(* both end together.                                                      *)
(***************************************************************************)
Ends == {<<"HMAC-SHA512", "SHA512">>, <<"HMAC-SHA384", "SHA384">>, <<"HMAC-SHA256", "SHA256">>,
         <<"HMAC-SHA224", "SHA224">>, <<"HMAC-SHA1", "SHA1">>}

Excluded(name, list) == \E entry \in list : entry = name \/ <<entry, name>> \in Ends

\* What get_SP800_90FIPS finds once, when the list is set up: the types it
\* gives a mutex, and those whose names it returns.
WithMutex(list)       == {type \in AnyType : ~Excluded(type.name, list)}
get_SP800_90FIPS(list) == {type \in WithMutex(list) : type.FIPS}

NeedsHardware(name) ==
  name \in {"TRNG_HW", "ETAP_HW", "NOISE_HW", "TRNG_ALT4", "ETAP_ALT4", "NOISE_ALT4"}

\* Mutant: a type that failed its self test is found all the same.
get_RNGbyname_Failed(name, fips, hardware, failed, list) ==
  {type \in AnyType :
     /\ type.name = name
     /\ NeedsHardware(name) => hardware
     /\ fips => type.FIPS
     /\ ~Excluded(name, list)}

\* The type of that name, or none: failed are those with their error mark set.
get_RNGbyname(name, fips, hardware, failed, list) ==
  {type \in AnyType :
     /\ type.name = name
     /\ NeedsHardware(name) => hardware
     /\ fips => type.FIPS
     /\ name \notin failed
     /\ ~Excluded(name, list)}

-----------------------------------------------------------------------------
(***************************************************************************)
(* The self test of a type, when one of its methods is ill, or with an     *)
(* induced failure: 402 and 403 change the first byte of the entropy given *)
(* to Inst and to Res, 404 a byte that Cln cleared.                        *)
(***************************************************************************)
MethodFault == {"none", "Inst", "Res", "Gen", "Cln", "402", "403", "404"}

OutputDiffers(v, fault) ==
  /\ v.res > 0
  /\ \/ fault \in {"Inst", "Gen"}
     \/ fault = "Res" /\ v.gen > 0
     \/ fault = "402" /\ v.ein > 0
     \/ fault = "403" /\ v.gen > 0

VectorFails(v, fault) == OutputDiffers(v, fault) \/ fault \in {"Cln", "404"}

\* The vectors run: up to the first that is missing.
VectorsRun(type) ==
  LET missing == {i \in 1 .. 4 : type.tests[i].ein < 0}
  IN  {type.tests[i] : i \in {j \in 1 .. 4 : \A k \in missing : j < k}}

\* The state it leaves, with or without memory, and the mark of the type.
TypeSelfTest(type, fault, memory) ==
  LET fails == \E v \in VectorsRun(type) : VectorFails(v, fault)
  IN  IF IsTRNG(type) THEN [state |-> "RUN", error |-> FALSE]
      ELSE IF ~memory THEN [state |-> "CRIT", error |-> FALSE]
      ELSE [state |-> IF fails THEN "CRIT" ELSE "UNINIT", error |-> fails]

-----------------------------------------------------------------------------
(***************************************************************************)
(* Setting up a context.  A source compresses two bits of noise into one.  *)
(***************************************************************************)
GetDesignEntropy == 2
EBUF_SIZE == 256 * GetDesignEntropy

Offered(type) == Range(type.strengths) \ {0}

\* The highest strength, or the first that is enough; too high a strength
\* leaves the 0 that Cln wrote, since the test for it is never reached.
SecStr(type, strength) ==
  IF strength = 0 THEN Max(Offered(type))
  ELSE LET enough == {i \in 1 .. 4 : type.strengths[i] >= strength}
       IN  IF enough = {} THEN 0 ELSE type.strengths[Min(enough)]

\* Mutant: the guarantee of the source is not compensated for.
NeededBytes_Bare(type, minEnt) ==
  LET m == IF minEnt = 0 THEN type.seedlen ELSE minEnt
  IN  IF type.hasDF THEN m ELSE type.seedlen

NeededBytes(type, minEnt) ==
  LET m == IF minEnt = 0 THEN type.seedlen ELSE minEnt
  IN  IF type.hasDF THEN m * GetDesignEntropy ELSE type.seedlen

Context(state, strength, minEnt, ein, nonce, pers) ==
  [state |-> state, strength |-> strength, minEnt |-> minEnt,
   ein |-> ein, nonce |-> nonce, pers |-> pers]

\* PRNG_Instantiate, the caller having given personal bytes or (none) NULL.
PRNG_Instantiate(type, strength, personal) ==
  LET minEnt == strength \div 8
      needed == NeededBytes(type, minEnt)
      pers   == IF personal = 0 THEN PersonalLength ELSE personal
      state  == IF pers > type.maxPers \/ 2 * needed + pers > type.maxEnt
                THEN "PARAM" ELSE "INIT"
  IN  Context(state, strength, IF minEnt = 0 THEN type.seedlen ELSE minEnt, needed, needed, pers)

(***************************************************************************)
(* RNG_CTX_Init of a generator whose countdown is not due, with a source   *)
(* that works.                                                             *)
(***************************************************************************)
InitGenerator(type, strength, personal) ==
  IF personal > type.maxPers THEN Context("PARAM", 0, 0, 0, 0, 0)
  ELSE PRNG_Instantiate(type, SecStr(type, strength), personal)

(***************************************************************************)
(* RNG_CTX_Init of a source: TRNG_Inst_Type makes it (ALT4 asks for the    *)
(* hardware first), then TRNG_TRNG_Init sets it up once more; works counts *)
(* the times that succeeds.  What it returns, and the state it leaves.     *)
(***************************************************************************)
TRNG_Inst_Type(type, hardware, works) ==
  IF type.trng = "HW" /\ ~hardware THEN "ERROR"
  ELSE IF works = 0 THEN "CRIT" ELSE "INIT"

InitSource(type, hardware, works, personal) ==
  IF personal > type.maxEnt THEN [rv |-> "CRIT", state |-> "PARAM"]
  ELSE LET inst == TRNG_Inst_Type(type, hardware, works)
       IN  [rv |-> IF inst = "INIT" /\ works = 2 THEN "INIT" ELSE "CRIT", state |-> inst]

(***************************************************************************)
(* The three Generate methods of a source, its context in a state from     *)
(* which it may generate: the noise is good or not to the conditioned      *)
(* read, or to the health test, or is not looked at.                       *)
(***************************************************************************)
TRNG_Generate(type, state, good) ==
  CASE type.tap = "TRNG"  -> IF good THEN "RUN" ELSE "CRIT"
    [] type.tap = "ETAP"  -> IF good THEN state ELSE "ERROR"
    [] type.tap = "NOISE" -> state

-----------------------------------------------------------------------------
(***************************************************************************)
(* The lengths of the pieces RNG_Generate cuts a request into.             *)
(***************************************************************************)
Cut(n, most) ==
  [i \in 1 .. n \div most |-> most] \o (IF n % most > 0 THEN <<n % most>> ELSE <<>>)

Pieces(type, auto, n) == IF auto THEN Cut(n, type.maxBytes) ELSE <<n>>
=============================================================================
