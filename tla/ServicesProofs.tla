--------------------------- MODULE ServicesProofs ---------------------------
(***************************************************************************)
(* Theorems about the types of generator and the services that are one     *)
(* call each: a type shared by the threads is tested before it is used     *)
(* (PRNGTypes); lookups, self tests, set-ups, health tests (Services) and  *)
(* the service indicator (KeyServices) answer as they should on every      *)
(* input, and a key wrapped is unwrapped to itself (KeyWrap); a library is *)
(* configured as it was asked to be, and stays in its mode (Settings); the *)
(* power-on self test misses only what it may skip (SelfTests); and the    *)
(* mechanisms of the generators, the key derivation (MechanismServices)    *)
(* and HKDF (KeyExpansion) do what the documents say.                      *)
(***************************************************************************)
EXTENDS PRNGTypes, KeyExpansion, Settings, SelfTests, MechanismServices,
        FiniteSetTheorems, SequenceTheorems, WellFoundedInduction, TLAPS

(***************************************************************************)
(* The countdown never promises more instantiations than the last          *)
(* completed self test covers.                                             *)
(***************************************************************************)
THEOREM CountdownInvariant == Spec => []CountdownInv
<1>1. Init => CountdownInv
  <2> SUFFICES ASSUME Init PROVE CountdownInv
    OBVIOUS
  <2>1. pc \in [Thread -> Pc] /\ error \in BOOLEAN /\ fatal \in BOOLEAN
    BY Zenon DEF Init, Pc
  <2>2. QED
    BY <2>1, PRNGTypesAssumption DEF Init, CountdownInv, TypeOK
<1>2. CountdownInv /\ [Next]_vars => CountdownInv'
  <2> SUFFICES ASSUME CountdownInv, [Next]_vars PROVE CountdownInv'
    OBVIOUS
  <2> USE PRNGTypesAssumption DEF CountdownInv, TypeOK, Pc, Goto
  <2>1. ASSUME NEW t \in Thread, Lookup(t) PROVE CountdownInv'
    BY <2>1 DEF Lookup
  <2>2. ASSUME NEW t \in Thread, Count(t) PROVE CountdownInv'
    BY <2>2 DEF Count
  <2>3. ASSUME NEW t \in Thread, SelfTestCtrl(t) PROVE CountdownInv'
    BY <2>3 DEF SelfTestCtrl
  <2>4. ASSUME NEW t \in Thread, SelfTest(t) PROVE CountdownInv'
    BY <2>4 DEF SelfTest
  <2>5. ASSUME NEW t \in Thread, Mark(t) PROVE CountdownInv'
    BY <2>5 DEF Mark
  <2>6. ASSUME NEW t \in Thread, Reload(t) PROVE CountdownInv'
    BY <2>6 DEF Reload, Reloaded
  <2>7. ASSUME NEW t \in Thread, Instantiate(t) PROVE CountdownInv'
    BY <2>7 DEF Instantiate
  <2>8. CASE UNCHANGED vars
    BY <2>8 DEF vars
  <2>9. QED
    BY <2>1, <2>2, <2>3, <2>4, <2>5, <2>6, <2>7, <2>8 DEF Next
<1>3. QED
  BY <1>1, <1>2, PTL DEF Spec

(***************************************************************************)
(* Every instantiation of a generator type is covered by a completed self  *)
(* test (the countdown of RNG_CTX_Init and its reload by PRNG_self_test).  *)
(***************************************************************************)
THEOREM InstantiationsCovered == Spec => []Covered
<1>1. CountdownInv => Covered
  BY DEF CountdownInv, Covered
<1>2. QED
  BY <1>1, CountdownInvariant, PTL

(***************************************************************************)
(* Every variable keeps its type: the countdown and what the self test     *)
(* still covers are numbers within the interval, whatever the threads do.  *)
(***************************************************************************)
THEOREM TypeCorrect == Spec => []TypeOK
<1>1. CountdownInv => TypeOK
  BY DEF CountdownInv
<1>2. QED
  BY <1>1, CountdownInvariant, PTL

-----------------------------------------------------------------------------
(***************************************************************************)
(* What is tried: one input, of a kind of its own.                         *)
(***************************************************************************)
\* Nothing has been tried at first.
LEMMA NothingTried ==
  ASSUME NEW kinds, input \in {<<kind>> : kind \in kinds}
  PROVE  \A kind : ~Is(kind)
  BY DEF Is

\* An input of a kind comes from the action of that kind.
LEMMA TriedByKind ==
  ASSUME ServicesNext
  PROVE  /\ Is("noise")' => TryNoise
         /\ Is("number")' => TryNumber
         /\ Is("self_test")' => TryTypeTest
         /\ Is("set_up")' => TrySetUp
         /\ Is("source")' => TrySource
         /\ Is("lookup")' => TryLookup
         /\ Is("pieces")' => TryPieces
  <1>1. TryNoise => input'[1] = "noise"
    BY DEF TryNoise
  <1>2. TryNumber => input'[1] = "number"
    BY DEF TryNumber
  <1>3. TryTypeTest => input'[1] = "self_test"
    BY DEF TryTypeTest
  <1>4. TrySetUp => input'[1] = "set_up"
    BY DEF TrySetUp
  <1>5. TrySource => input'[1] = "source"
    BY DEF TrySource
  <1>6. TryLookup => input'[1] = "lookup"
    BY DEF TryLookup
  <1>7. TryPieces => input'[1] = "pieces"
    BY DEF TryPieces
  <1> QED
    BY <1>1, <1>2, <1>3, <1>4, <1>5, <1>6, <1>7 DEF ServicesNext, Is

-----------------------------------------------------------------------------
(***************************************************************************)
(* The types of generator: one to a name, and each a generator or a        *)
(* source.                                                                 *)
(***************************************************************************)
\* The list, written out.
LEMMA TypesListed ==
  AnyType = {sha1PRNG, sha224PRNG, sha256PRNG, sha384PRNG, sha512PRNG,
             aes128PRNG, aes192PRNG, aes256PRNG,
             HMACsha1PRNG, HMACsha224PRNG, HMACsha256PRNG, HMACsha384PRNG, HMACsha512PRNG,
             SPTRNG_FIPS, SPTRNG_ALT, SPTRNG_OS, SPTRNG_ALT4, SPTRNG_HW,
             SPTRNG_FIPS_ETAP, SPTRNG_ALT_ETAP, SPTRNG_OS_ETAP, SPTRNG_ALT4_ETAP, SPTRNG_HW_ETAP,
             SPTRNG_FIPS_NOISE, SPTRNG_ALT_NOISE, SPTRNG_OS_NOISE, SPTRNG_ALT4_NOISE, SPTRNG_HW_NOISE}
  <1>1. DOMAIN PRNG_list = 1 .. 28
    BY DEF PRNG_list
  <1>2. AnyType = {PRNG_list[i] : i \in 1 .. 28}
    BY <1>1 DEF AnyType, Range
  <1> QED
    BY <1>2 DEF PRNG_list

\* What a tap has.
LEMMA TapFields ==
  \A name, trng, tap, FIPS :
    LET type == TAP(name, trng, tap, FIPS)
    IN  /\ type.name = name /\ type.trng = trng /\ type.tap = tap /\ type.FIPS = FIPS
        /\ type.maxEnt = 256 /\ type.maxBytes = AllOnes
  BY DEF TAP

\* The name of each.
LEMMA NamesOf ==
  /\ sha1PRNG.name = "SHA1" /\ sha224PRNG.name = "SHA224" /\ sha256PRNG.name = "SHA256"
  /\ sha384PRNG.name = "SHA384" /\ sha512PRNG.name = "SHA512"
  /\ aes128PRNG.name = "AES-128-ECB" /\ aes192PRNG.name = "AES-192-ECB"
  /\ aes256PRNG.name = "AES-256-ECB"
  /\ HMACsha1PRNG.name = "HMAC-SHA1" /\ HMACsha224PRNG.name = "HMAC-SHA224"
  /\ HMACsha256PRNG.name = "HMAC-SHA256" /\ HMACsha384PRNG.name = "HMAC-SHA384"
  /\ HMACsha512PRNG.name = "HMAC-SHA512"
  /\ SPTRNG_FIPS.name = "TRNG_FIPS" /\ SPTRNG_ALT.name = "TRNG_ALT" /\ SPTRNG_OS.name = "TRNG_OS"
  /\ SPTRNG_ALT4.name = "TRNG_ALT4" /\ SPTRNG_HW.name = "TRNG_HW"
  /\ SPTRNG_FIPS_ETAP.name = "ETAP_FIPS" /\ SPTRNG_ALT_ETAP.name = "ETAP_ALT"
  /\ SPTRNG_OS_ETAP.name = "ETAP_OS" /\ SPTRNG_ALT4_ETAP.name = "ETAP_ALT4"
  /\ SPTRNG_HW_ETAP.name = "ETAP_HW"
  /\ SPTRNG_FIPS_NOISE.name = "NOISE_FIPS" /\ SPTRNG_ALT_NOISE.name = "NOISE_ALT"
  /\ SPTRNG_OS_NOISE.name = "NOISE_OS" /\ SPTRNG_ALT4_NOISE.name = "NOISE_ALT4"
  /\ SPTRNG_HW_NOISE.name = "NOISE_HW"
  <1> USE DEF PRNG, CTR, Generator, TAP
  <1>1. /\ sha1PRNG.name = "SHA1" /\ sha224PRNG.name = "SHA224" /\ sha256PRNG.name = "SHA256"
        /\ sha384PRNG.name = "SHA384" /\ sha512PRNG.name = "SHA512"
    BY DEF sha1PRNG, sha224PRNG, sha256PRNG, sha384PRNG, sha512PRNG
  <1>2. /\ aes128PRNG.name = "AES-128-ECB" /\ aes192PRNG.name = "AES-192-ECB"
        /\ aes256PRNG.name = "AES-256-ECB"
    BY DEF aes128PRNG, aes192PRNG, aes256PRNG
  <1>3. /\ HMACsha1PRNG.name = "HMAC-SHA1" /\ HMACsha224PRNG.name = "HMAC-SHA224"
        /\ HMACsha256PRNG.name = "HMAC-SHA256" /\ HMACsha384PRNG.name = "HMAC-SHA384"
        /\ HMACsha512PRNG.name = "HMAC-SHA512"
    BY DEF HMACsha1PRNG, HMACsha224PRNG, HMACsha256PRNG, HMACsha384PRNG, HMACsha512PRNG
  <1>4. /\ SPTRNG_FIPS.name = "TRNG_FIPS" /\ SPTRNG_ALT.name = "TRNG_ALT" /\ SPTRNG_OS.name = "TRNG_OS"
        /\ SPTRNG_ALT4.name = "TRNG_ALT4" /\ SPTRNG_HW.name = "TRNG_HW"
    BY DEF SPTRNG_FIPS, SPTRNG_ALT, SPTRNG_OS, SPTRNG_ALT4, SPTRNG_HW
  <1>5. /\ SPTRNG_FIPS_ETAP.name = "ETAP_FIPS" /\ SPTRNG_ALT_ETAP.name = "ETAP_ALT"
        /\ SPTRNG_OS_ETAP.name = "ETAP_OS" /\ SPTRNG_ALT4_ETAP.name = "ETAP_ALT4"
        /\ SPTRNG_HW_ETAP.name = "ETAP_HW"
    BY DEF SPTRNG_FIPS_ETAP, SPTRNG_ALT_ETAP, SPTRNG_OS_ETAP, SPTRNG_ALT4_ETAP, SPTRNG_HW_ETAP
  <1>6. /\ SPTRNG_FIPS_NOISE.name = "NOISE_FIPS" /\ SPTRNG_ALT_NOISE.name = "NOISE_ALT"
        /\ SPTRNG_OS_NOISE.name = "NOISE_OS" /\ SPTRNG_ALT4_NOISE.name = "NOISE_ALT4"
        /\ SPTRNG_HW_NOISE.name = "NOISE_HW"
    BY DEF SPTRNG_FIPS_NOISE, SPTRNG_ALT_NOISE, SPTRNG_OS_NOISE, SPTRNG_ALT4_NOISE, SPTRNG_HW_NOISE
  <1> QED
    BY <1>1, <1>2, <1>3, <1>4, <1>5, <1>6

\* No two have the same name.
LEMMA OneName ==
  ASSUME NEW a \in AnyType, NEW b \in AnyType, a.name = b.name
  PROVE  a = b
  BY SMTT(60), TypesListed, NamesOf

LEMMA TypeOfName ==
  ASSUME NEW type \in AnyType
  PROVE  TheType(type.name) = type
  BY OneName DEF TheType

LEMMA NameOfType ==
  ASSUME NEW name \in Names
  PROVE  TheType(name) \in AnyType /\ TheType(name).name = name
  BY DEF TheType, Names

GeneratorType ==
  {sha1PRNG, sha224PRNG, sha256PRNG, sha384PRNG, sha512PRNG, aes128PRNG, aes192PRNG, aes256PRNG,
   HMACsha1PRNG, HMACsha224PRNG, HMACsha256PRNG, HMACsha384PRNG, HMACsha512PRNG}

SourceType ==
  {SPTRNG_FIPS, SPTRNG_ALT, SPTRNG_OS, SPTRNG_ALT4, SPTRNG_HW,
   SPTRNG_FIPS_ETAP, SPTRNG_ALT_ETAP, SPTRNG_OS_ETAP, SPTRNG_ALT4_ETAP, SPTRNG_HW_ETAP,
   SPTRNG_FIPS_NOISE, SPTRNG_ALT_NOISE, SPTRNG_OS_NOISE, SPTRNG_ALT4_NOISE, SPTRNG_HW_NOISE}

IsGenerator(type) ==
  /\ type.trng = "no" /\ type.hasDF = TRUE
  /\ type.maxPers = 134217728 /\ type.maxEnt = 134217728 /\ type.maxBytes = 2048

\* The only source that is a FIPS type delivers tested noise.
IsSource(type) ==
  /\ type.trng \in {"FIPS", "OS", "HW"} /\ type.tap \in {"TRNG", "ETAP", "NOISE"}
  /\ type.FIPS => type.tap = "TRNG"
  /\ type.maxBytes = AllOnes /\ type.maxEnt = 256
  /\ type.trng = "HW" <=> NeedsHardware(type.name)

\* The generators are set up with the same limits.
LEMMA GeneratorsAre ==
  ASSUME NEW type \in GeneratorType
  PROVE  IsGenerator(type)
  <1>1. /\ IsGenerator(sha1PRNG) /\ IsGenerator(sha224PRNG) /\ IsGenerator(sha256PRNG)
        /\ IsGenerator(sha384PRNG) /\ IsGenerator(sha512PRNG)
    BY DEF IsGenerator, PRNG, Generator, sha1PRNG, sha224PRNG, sha256PRNG, sha384PRNG, sha512PRNG
  <1>2. IsGenerator(aes128PRNG) /\ IsGenerator(aes192PRNG) /\ IsGenerator(aes256PRNG)
    BY DEF IsGenerator, CTR, Generator, aes128PRNG, aes192PRNG, aes256PRNG
  <1>3. /\ IsGenerator(HMACsha1PRNG) /\ IsGenerator(HMACsha224PRNG) /\ IsGenerator(HMACsha256PRNG)
        /\ IsGenerator(HMACsha384PRNG) /\ IsGenerator(HMACsha512PRNG)
    BY DEF IsGenerator, PRNG, Generator, HMACsha1PRNG, HMACsha224PRNG, HMACsha256PRNG,
           HMACsha384PRNG, HMACsha512PRNG
  <1> QED
    BY <1>1, <1>2, <1>3 DEF GeneratorType

\* The sources are taps of a noise source.
LEMMA SourcesAre ==
  ASSUME NEW type \in SourceType
  PROVE  IsSource(type)
  <1>1. \A name : \A trng \in {"FIPS", "OS", "HW"}, tap \in {"TRNG", "ETAP", "NOISE"}, FIPS \in BOOLEAN :
          (FIPS => tap = "TRNG") /\ (trng = "HW" <=> NeedsHardware(name)) => IsSource(TAP(name, trng, tap, FIPS))
    BY TapFields DEF IsSource
  <1>2. CASE type \in {SPTRNG_FIPS, SPTRNG_ALT, SPTRNG_OS, SPTRNG_ALT4, SPTRNG_HW}
    BY <1>1, <1>2 DEF NeedsHardware, SPTRNG_FIPS, SPTRNG_ALT, SPTRNG_OS, SPTRNG_ALT4, SPTRNG_HW
  <1>3. CASE type \in {SPTRNG_FIPS_ETAP, SPTRNG_ALT_ETAP, SPTRNG_OS_ETAP, SPTRNG_ALT4_ETAP, SPTRNG_HW_ETAP}
    BY <1>1, <1>3
       DEF NeedsHardware, SPTRNG_FIPS_ETAP, SPTRNG_ALT_ETAP, SPTRNG_OS_ETAP, SPTRNG_ALT4_ETAP, SPTRNG_HW_ETAP
  <1>4. CASE type \in {SPTRNG_FIPS_NOISE, SPTRNG_ALT_NOISE, SPTRNG_OS_NOISE, SPTRNG_ALT4_NOISE,
                      SPTRNG_HW_NOISE}
    BY <1>1, <1>4
       DEF NeedsHardware, SPTRNG_FIPS_NOISE, SPTRNG_ALT_NOISE, SPTRNG_OS_NOISE, SPTRNG_ALT4_NOISE, SPTRNG_HW_NOISE
  <1> QED
    BY <1>2, <1>3, <1>4 DEF SourceType

\* Every type is a generator or a source.
LEMMA EitherKind ==
  ASSUME NEW type \in AnyType
  PROVE  IF IsTRNG(type) THEN type \in SourceType ELSE type \in GeneratorType
  <1>1. type \in GeneratorType \/ type \in SourceType
    BY TypesListed DEF GeneratorType, SourceType
  <1>2. ASSUME type \in GeneratorType PROVE ~IsTRNG(type)
    <2>1. IsGenerator(type)
      BY <1>2, GeneratorsAre
    <2> QED
      BY <2>1 DEF IsTRNG, IsGenerator
  <1>3. ASSUME type \in SourceType PROVE IsTRNG(type)
    <2>1. IsSource(type)
      BY <1>3, SourcesAre
    <2> QED
      BY <2>1 DEF IsTRNG, IsSource
  <1> QED
    BY <1>1, <1>2, <1>3

-----------------------------------------------------------------------------
(***************************************************************************)
(* Looking a type up, and setting a source up.                             *)
(***************************************************************************)
\* A lookup gives at most the type of the name.
LEMMA Finds ==
  ASSUME NEW name \in Names, NEW fips, NEW hardware, NEW failed, NEW list
  PROVE  /\ get_RNGbyname(name, fips, hardware, failed, list) \subseteq {TheType(name)}
         /\ TheType(name) \in get_RNGbyname(name, fips, hardware, failed, list) <=>
              /\ NeedsHardware(name) => hardware
              /\ fips => TheType(name).FIPS
              /\ name \notin failed
              /\ ~Excluded(name, list)
  BY NameOfType, TypeOfName DEF get_RNGbyname

\* A type looked up may be used.
LEMMA LookedUpSound ==
  ASSUME NEW name \in Names, NEW fips \in BOOLEAN, NEW hardware \in BOOLEAN, NEW failed,
         NEW atLoad, NEW now
  PROVE  LookedUp(name, fips, hardware, failed, atLoad, now)
  <1> DEFINE type == TheType(name)
             found(mode) == get_RNGbyname(name, mode, hardware, failed, now)
  <1>1. type \in AnyType /\ type.name = name
    BY NameOfType
  <1>2. \A mode \in BOOLEAN :
          /\ found(mode) \subseteq {type}
          /\ type \in found(mode) <=>
               /\ NeedsHardware(name) => hardware
               /\ mode => type.FIPS
               /\ name \notin failed
               /\ ~Excluded(name, now)
    BY Finds
  <1>3. IsTRNG(type) /\ type.FIPS => type.tap = "TRNG"
    BY <1>1, EitherKind, SourcesAre DEF IsSource
  <1>4. \A mode \in BOOLEAN : found(mode) # {} <=> type \in found(mode)
    BY <1>2
  <1>5. name \in now => Excluded(name, now)
    BY DEF Excluded
  <1>6. type \in WithMutex(atLoad) <=> ~Excluded(name, atLoad)
    BY <1>1 DEF WithMutex
  <1>7. type \in get_SP800_90FIPS(atLoad) <=> type.FIPS /\ ~Excluded(name, atLoad)
    BY <1>6 DEF get_SP800_90FIPS
  <1>8. atLoad \subseteq now /\ ~Excluded(name, now) => ~Excluded(name, atLoad)
    BY DEF Excluded
  <1>9. now = {} => ~Excluded(name, now)
    BY DEF Excluded
  <1> HIDE DEF type
  <1> QED
    BY <1>2, <1>3, <1>4, <1>5, <1>6, <1>7, <1>8, <1>9 DEF LookedUp, type

\* A source set up well starts well.
LEMMA SourcesSound ==
  ASSUME NEW name \in Names, NEW hardware \in BOOLEAN, NEW works \in 0 .. 2,
         NEW personal \in Nat, NEW good \in BOOLEAN, IsTRNG(TheType(name)),
         InitSource(TheType(name), hardware, works, personal).rv = "INIT"
  PROVE  LET type == TheType(name)  init == InitSource(type, hardware, works, personal)
         IN  /\ init.state = "INIT" /\ (type.trng = "HW" => hardware)
             /\ TRNG_Generate(type, init.state, good) \in {"INIT", "RUN"} => good \/ type.tap = "NOISE"
  <1>1. TheType(name) \in SourceType
    BY NameOfType, EitherKind
  <1> QED
    BY <1>1, SourcesAre DEF IsSource, InitSource, TRNG_Inst_Type, TRNG_Generate

\* A lookup tried, or a source.
LEMMA LookupTried ==
  ASSUME ServicesNext
  PROVE  LookupSound'
  <1>1. ASSUME Is("lookup")'
        PROVE  LookedUp(input[2], input[3], input[4], FailedTypes(input[2], input[5]), input[6], input[7])'
    <2>1. PICK name \in Names, fips \in BOOLEAN, hardware \in BOOLEAN, fault \in {"none", "Gen"},
               atLoad \in ExcludeLists, now \in ExcludeLists :
            input' = <<"lookup", name, fips, hardware, fault, atLoad, now>>
      BY <1>1, TriedByKind DEF TryLookup
    <2>2. /\ input'[2] = name /\ input'[3] = fips /\ input'[4] = hardware
          /\ input'[5] = fault /\ input'[6] = atLoad /\ input'[7] = now
      BY <2>1
    <2> QED
      BY <2>2, LookedUpSound
  <1>2. ASSUME Is("source")'
        PROVE  LET type == TheType(input'[2])  init == InitSource(type, input'[3], input'[4], input'[5])
               IN  init.rv = "INIT" =>
                     /\ init.state = "INIT" /\ (type.trng = "HW" => input'[3])
                     /\ TRNG_Generate(type, init.state, input'[6]) \in {"INIT", "RUN"} =>
                          input'[6] \/ type.tap = "NOISE"
    <2>1. PICK name \in Names, hardware \in BOOLEAN, works \in 0 .. 2, personal \in Personal,
               good \in BOOLEAN :
            /\ IsTRNG(TheType(name))
            /\ input' = <<"source", name, hardware, works, personal, good>>
      BY <1>2, TriedByKind DEF TrySource
    <2>2. /\ input'[2] = name /\ input'[3] = hardware /\ input'[4] = works
          /\ input'[5] = personal /\ input'[6] = good /\ personal \in Nat
      BY <2>1, ServicesAssumption
    <2> QED
      BY <2>1, <2>2, SourcesSound
  <1> QED
    BY <1>1, <1>2 DEF LookupSound

(***************************************************************************)
(* A lookup never gives a type that failed its self test, is excluded or   *)
(* is raw noise in FIPS mode, the list of FIPS types is what a FIPS lookup *)
(* finds (get_RNGbyname and get_SP800_90FIPS, SP800-90.c), and a source    *)
(* set up delivers no poor noise (SP800-90TRNG.c): for any exclude lists.  *)
(***************************************************************************)
THEOREM LookupsSound == ServicesSpec => []LookupSound
  <1>1. input \in {<<kind>> : kind \in ServiceKind} => LookupSound
    BY NothingTried DEF LookupSound
  <1>2. LookupSound /\ UNCHANGED input => LookupSound'
    BY DEF LookupSound, Is
  <1> QED
    BY <1>1, <1>2, LookupTried, PTL DEF ServicesSpec

-----------------------------------------------------------------------------
(***************************************************************************)
(* Self tests and set-ups.                                                 *)
(***************************************************************************)
\* Every vector a strength asks for is run, and one of them tests everything.
Tested(type) ==
  /\ \E v \in VectorsRun(type) : v.ein > 0 /\ v.res > 0
  /\ (\E v \in VectorsRun(type) : v.gen > 0 /\ v.res > 0) <=> type.name # "AES-128-ECB"
  /\ \A i \in 1 .. 4 : type.strengths[i] > 0 =>
       type.tests[i] \in VectorsRun(type) /\ Tests(type.tests[i], type.strengths[i])

\* A type that has all four vectors, or only the first.
LEMMA AllTested ==
  ASSUME NEW type, type.name # "AES-128-ECB",
         \A i \in 1 .. 4 : /\ ~(type.tests[i].ein < 0)
                           /\ type.strengths[i] > 0 => Tests(type.tests[i], type.strengths[i]),
         \E i \in 1 .. 4 : type.tests[i].ein > 0 /\ type.tests[i].gen > 0 /\ type.tests[i].res > 0
  PROVE  Tested(type)
  <1>1. VectorsRun(type) = {type.tests[i] : i \in 1 .. 4}
    BY DEF VectorsRun
  <1> QED
    BY <1>1 DEF Tested

LEMMA FirstTested ==
  ASSUME NEW type, 
         ~(type.tests[1].ein < 0), type.tests[2].ein < 0,
         \A i \in 2 .. 4 : type.strengths[i] = 0,
         Tests(type.tests[1], type.strengths[1]), type.tests[1].ein > 0,
         type.tests[1].gen > 0 <=> type.name # "AES-128-ECB"
  PROVE  Tested(type)
  <1> DEFINE missing == {i \in 1 .. 4 : type.tests[i].ein < 0}
  <1>1. {j \in 1 .. 4 : \A k \in missing : j < k} = {1}
    BY SMT
  <1>2. VectorsRun(type) = {type.tests[1]}
    BY <1>1 DEF VectorsRun
  <1>3. \E v \in VectorsRun(type) : v.ein > 0 /\ v.res > 0
    BY <1>2 DEF Tests
  <1>4. (\E v \in VectorsRun(type) : v.gen > 0 /\ v.res > 0) <=> type.name # "AES-128-ECB"
    BY <1>2 DEF Tests
  <1>5. ASSUME NEW i \in 1 .. 4, type.strengths[i] > 0
        PROVE  type.tests[i] \in VectorsRun(type) /\ Tests(type.tests[i], type.strengths[i])
    BY <1>2, <1>5
  <1> QED
    BY <1>3, <1>4, <1>5 DEF Tested

\* All the generators are tested in one of the two ways.
LEMMA GeneratorsTested ==
  ASSUME NEW type \in GeneratorType
  PROVE  Tested(type)
  <1> USE DEF PRNG, CTR, Generator, Vector, Tests
  <1>1. Tested(sha512PRNG)
    BY AllTested DEF sha512PRNG, SHA512_112, SHA512_128, SHA512_192, SHA512_256
  <1>2. Tested(sha384PRNG)
    BY AllTested DEF sha384PRNG, SHA384_112, SHA384_128, SHA384_192, SHA384_256
  <1>3. Tested(sha256PRNG)
    BY AllTested DEF sha256PRNG, SHA256_112, SHA256_128, SHA256_192, SHA256_256
  <1>4. Tested(sha224PRNG)
    BY AllTested DEF sha224PRNG, SHA224_112, SHA224_128, SHA224_192, SHA224_256
  <1>5. Tested(sha1PRNG)
    BY AllTested DEF sha1PRNG, SHA1_112, SHA1_128, NONE
  <1>6. Tested(HMACsha512PRNG)
    BY AllTested DEF HMACsha512PRNG, HMAC_SHA512_112, HMAC_SHA512_128, HMAC_SHA512_192, HMAC_SHA512_256
  <1>7. Tested(HMACsha384PRNG)
    BY AllTested DEF HMACsha384PRNG, HMAC_SHA384_112, HMAC_SHA384_128, HMAC_SHA384_192, HMAC_SHA384_256
  <1>8. Tested(HMACsha256PRNG)
    BY AllTested DEF HMACsha256PRNG, HMAC_SHA256_112, HMAC_SHA256_128, HMAC_SHA256_192, HMAC_SHA256_256
  <1>9. Tested(HMACsha224PRNG)
    BY AllTested DEF HMACsha224PRNG, HMAC_SHA224_112, HMAC_SHA224_128, HMAC_SHA224_192, NONE
  <1>10. Tested(HMACsha1PRNG)
    BY AllTested DEF HMACsha1PRNG, HMAC_SHA1_112, HMAC_SHA1_128, NONE
  <1>11. Tested(aes128PRNG)
    BY FirstTested DEF aes128PRNG, AES128_128, NOVECTOR
  <1>12. Tested(aes192PRNG)
    BY FirstTested DEF aes192PRNG, AES192_192, NOVECTOR
  <1>13. Tested(aes256PRNG)
    BY FirstTested DEF aes256PRNG, AES256_256, NOVECTOR
  <1> QED
    BY <1>1, <1>2, <1>3, <1>4, <1>5, <1>6, <1>7, <1>8, <1>9, <1>10, <1>11, <1>12, <1>13
       DEF GeneratorType

-----------------------------------------------------------------------------
\* The strengths of a type: top is the highest.
OffersUpTo(type, top) ==
  /\ type.strengths \in [1 .. 4 -> {0, 112, 128, 192, 256}]
  /\ \E i \in 1 .. 4 : type.strengths[i] = top
  /\ \A i \in 1 .. 4 : type.strengths[i] <= top
  /\ top \in {128, 192, 256}
  /\ type.seedlen \in 32 .. 256 /\ 8 * type.seedlen >= top

LEMMA Highest ==
  ASSUME NEW type, NEW top, OffersUpTo(type, top)
  PROVE  Max(Offered(type)) = top
  <1>1. Range(type.strengths) = {type.strengths[i] : i \in 1 .. 4}
    BY DEF OffersUpTo, Range
  <1>2. top \in Offered(type) /\ top \in Nat /\ \A x \in Offered(type) : x \in Nat /\ x <= top
    BY <1>1 DEF OffersUpTo, Offered
  <1>3. \A x \in Offered(type) : top >= x
    BY <1>2
  <1>4. \A x \in Offered(type) : (\A y \in Offered(type) : x >= y) => x = top
    BY <1>2
  <1> QED
    BY <1>2, <1>3, <1>4 DEF Max

\* The first strength that suffices is there.
LEMMA FirstEnough ==
  ASSUME NEW type, NEW top, OffersUpTo(type, top), NEW strength \in Nat, strength <= top
  PROVE  LET enough == {i \in 1 .. 4 : type.strengths[i] >= strength}
         IN  enough # {} /\ Min(enough) \in enough
  <1> DEFINE enough == {i \in 1 .. 4 : type.strengths[i] >= strength}
  <1>1. enough # {} /\ enough \subseteq 1 .. 4
    BY DEF OffersUpTo
  <1>2. \E i \in enough : \A j \in enough : i <= j
    <2>1. CASE 1 \in enough
      BY <2>1, <1>1
    <2>2. CASE 1 \notin enough /\ 2 \in enough
      BY <2>2, <1>1
    <2>3. CASE 1 \notin enough /\ 2 \notin enough /\ 3 \in enough
      BY <2>3, <1>1
    <2>4. CASE 1 \notin enough /\ 2 \notin enough /\ 3 \notin enough
      BY <2>4, <1>1
    <2> QED
      BY <2>1, <2>2, <2>3, <2>4
  <1> QED
    BY <1>1, <1>2 DEF Min

\* Each offers strengths up to one, and only SHA-224 beyond the standard.
LEMMA GeneratorsOffer ==
  ASSUME NEW type \in GeneratorType
  PROVE  /\ \E top : OffersUpTo(type, top)
         /\ type.name # "SHA224" => \A top : OffersUpTo(type, top) => top <= StandardStrength(type.name)
  <1> USE DEF PRNG, CTR, Generator, OffersUpTo, StandardStrength
  <1>1. CASE type = sha512PRNG
    <2>1. OffersUpTo(sha512PRNG, 256)
      BY DEF sha512PRNG
    <2> QED
      BY <1>1, <2>1 DEF sha512PRNG
  <1>2. CASE type = sha384PRNG
    <2>1. OffersUpTo(sha384PRNG, 256)
      BY DEF sha384PRNG
    <2> QED
      BY <1>2, <2>1 DEF sha384PRNG
  <1>3. CASE type = sha256PRNG
    <2>1. OffersUpTo(sha256PRNG, 256)
      BY DEF sha256PRNG
    <2> QED
      BY <1>3, <2>1 DEF sha256PRNG
  <1>4. CASE type = sha224PRNG
    <2>1. OffersUpTo(sha224PRNG, 256)
      BY DEF sha224PRNG
    <2> QED
      BY <1>4, <2>1 DEF sha224PRNG
  <1>5. CASE type = sha1PRNG
    <2>1. OffersUpTo(sha1PRNG, 128)
      BY DEF sha1PRNG
    <2> QED
      BY <1>5, <2>1 DEF sha1PRNG
  <1>6. CASE type = HMACsha512PRNG
    <2>1. OffersUpTo(HMACsha512PRNG, 256)
      BY DEF HMACsha512PRNG
    <2> QED
      BY <1>6, <2>1 DEF HMACsha512PRNG
  <1>7. CASE type = HMACsha384PRNG
    <2>1. OffersUpTo(HMACsha384PRNG, 256)
      BY DEF HMACsha384PRNG
    <2> QED
      BY <1>7, <2>1 DEF HMACsha384PRNG
  <1>8. CASE type = HMACsha256PRNG
    <2>1. OffersUpTo(HMACsha256PRNG, 256)
      BY DEF HMACsha256PRNG
    <2> QED
      BY <1>8, <2>1 DEF HMACsha256PRNG
  <1>9. CASE type = HMACsha224PRNG
    <2>1. OffersUpTo(HMACsha224PRNG, 192)
      BY DEF HMACsha224PRNG
    <2> QED
      BY <1>9, <2>1 DEF HMACsha224PRNG
  <1>10. CASE type = HMACsha1PRNG
    <2>1. OffersUpTo(HMACsha1PRNG, 128)
      BY DEF HMACsha1PRNG
    <2> QED
      BY <1>10, <2>1 DEF HMACsha1PRNG
  <1>11. CASE type = aes128PRNG
    <2>1. OffersUpTo(aes128PRNG, 128)
      BY DEF aes128PRNG
    <2> QED
      BY <1>11, <2>1 DEF aes128PRNG
  <1>12. CASE type = aes192PRNG
    <2>1. OffersUpTo(aes192PRNG, 192)
      BY DEF aes192PRNG
    <2> QED
      BY <1>12, <2>1 DEF aes192PRNG
  <1>13. CASE type = aes256PRNG
    <2>1. OffersUpTo(aes256PRNG, 256)
      BY DEF aes256PRNG
    <2> QED
      BY <1>13, <2>1 DEF aes256PRNG
  <1> QED
    BY <1>1, <1>2, <1>3, <1>4, <1>5, <1>6, <1>7, <1>8, <1>9, <1>10, <1>11, <1>12, <1>13
       DEF GeneratorType

\* A self test finds a method that is wrong.
LEMMA SelfTestSound ==
  ASSUME NEW name \in Names, NEW fault \in MethodFault, NEW memory \in BOOLEAN
  PROVE  SelfTestFinds(name, fault, memory)
  <1> DEFINE type == TheType(name)
             fails == \E v \in VectorsRun(type) : VectorFails(v, fault)
             seen  == fault # "none" /\ ~(name = "AES-128-ECB" /\ fault \in {"Res", "403"})
  <1> SUFFICES ASSUME ~IsTRNG(type) PROVE SelfTestFinds(name, fault, memory)
    BY DEF SelfTestFinds
  <1>1. type \in GeneratorType /\ type.name = name
    BY NameOfType, EitherKind
  <1>2. Tested(type)
    BY <1>1, GeneratorsTested
  <1>3. PICK top : OffersUpTo(type, top)
    BY <1>1, GeneratorsOffer
  <1>4. Max(Offered(type)) = top
    BY <1>3, Highest
  <1>5. name # "SHA224" => Max(Offered(type)) <= StandardStrength(name)
    BY <1>1, <1>3, <1>4, GeneratorsOffer
  <1>6. \A i \in 1 .. 4 : type.strengths[i] > 0 =>
          type.tests[i] \in VectorsRun(type) /\ Tests(type.tests[i], type.strengths[i])
    BY <1>2 DEF Tested
  <1>7. fails <=> seen
    <2> HIDE DEF type
    <2>1. CASE fault = "none"
      BY <2>1 DEF VectorFails, OutputDiffers
    <2>2. CASE fault \in {"Inst", "Gen", "402"}
      BY <1>2, <2>2 DEF VectorFails, OutputDiffers, Tested
    <2>3. CASE fault \in {"Res", "403"}
      BY <1>1, <1>2, <2>3 DEF VectorFails, OutputDiffers, Tested
    <2>4. CASE fault \in {"Cln", "404"}
      BY <1>2, <2>4 DEF VectorFails, Tested
    <2> QED
      BY <2>1, <2>2, <2>3, <2>4 DEF MethodFault
  <1>8. /\ fails  => TypeSelfTest(type, fault, TRUE) = [state |-> "CRIT", error |-> TRUE]
        /\ ~fails => TypeSelfTest(type, fault, TRUE) = [state |-> "UNINIT", error |-> FALSE]
    BY DEF TypeSelfTest
  <1>9. TypeSelfTest(type, fault, FALSE).state = "CRIT"
    BY DEF TypeSelfTest
  <1> HIDE DEF type, fails
  <1>10. CASE seen
    <2>1. memory => TypeSelfTest(type, fault, memory) = [state |-> "CRIT", error |-> TRUE]
      BY <1>7, <1>8, <1>10
    <2> QED
      BY <1>5, <1>6, <1>9, <1>10, <2>1 DEF SelfTestFinds, type
  <1>11. CASE ~seen
    <2>1. memory => TypeSelfTest(type, fault, memory) = [state |-> "UNINIT", error |-> FALSE]
      BY <1>7, <1>8, <1>11
    <2> QED
      BY <1>5, <1>6, <1>9, <1>11, <2>1 DEF SelfTestFinds, type
  <1> QED
    BY <1>10, <1>11

\* A context set up has the strength asked for, and a seed for it.
LEMMA SeedSuffices ==
  ASSUME NEW type, NEW top, OffersUpTo(type, top), IsGenerator(type),
         NEW strength \in Nat, NEW personal \in Nat
  PROVE  LET ctx   == InitGenerator(type, strength, personal)
             asked == IF strength > top THEN top ELSE strength
         IN  ctx.state = "INIT" =>
               /\ strength <= top => ctx.strength >= strength
               /\ strength = 0 => ctx.strength = top
               /\ 8 * ctx.ein >= asked * GetDesignEntropy
               /\ 16 * ctx.nonce >= asked * GetDesignEntropy
               /\ ctx.ein <= EBUF_SIZE
               /\ ctx.ein + ctx.nonce + ctx.pers <= type.maxEnt
  <1> DEFINE sec == SecStr(type, strength)
             m   == IF sec \div 8 = 0 THEN type.seedlen ELSE sec \div 8
             ctx == InitGenerator(type, strength, personal)
  <1>1. /\ sec \in {0, 112, 128, 192, 256} /\ sec <= top
        /\ strength = 0 => sec = top
        /\ strength <= top => sec >= strength /\ sec # 0
        /\ strength > top => sec = 0
    <2>1. CASE strength = 0
      BY <2>1, Highest DEF SecStr, OffersUpTo
    <2>2. CASE strength # 0 /\ strength <= top
      <3> DEFINE enough == {i \in 1 .. 4 : type.strengths[i] >= strength}
      <3>1. enough # {} /\ Min(enough) \in enough
        BY <2>2, FirstEnough
      <3>2. sec = type.strengths[Min(enough)]
        BY <2>2, <3>1 DEF SecStr
      <3>3. Min(enough) \in 1 .. 4 /\ type.strengths[Min(enough)] >= strength
        BY <3>1
      <3>4. sec \in {0, 112, 128, 192, 256} /\ sec <= top
        <4> DEFINE i == Min(enough)
        <4> HIDE DEF i, enough, sec
        <4>1. i \in 1 .. 4 /\ sec = type.strengths[i]
          BY <3>2, <3>3 DEF i
        <4> QED
          BY <4>1 DEF OffersUpTo
      <3>5. top \in Nat
        BY DEF OffersUpTo
      <3> HIDE DEF sec, enough
      <3> QED
        BY <2>2, <3>2, <3>3, <3>4, <3>5
    <2>3. CASE strength > top
      <3>1. {i \in 1 .. 4 : type.strengths[i] >= strength} = {}
        BY <2>3 DEF OffersUpTo
      <3> QED
        BY <2>3, <3>1 DEF SecStr, OffersUpTo
    <2> QED
      BY <2>1, <2>2, <2>3 DEF OffersUpTo
  <1>2. ctx.state = "INIT" =>
          /\ ctx.strength = sec /\ ctx.ein = 2 * m /\ ctx.nonce = 2 * m
          /\ 2 * ctx.ein + ctx.pers <= type.maxEnt
          /\ ctx.pers \in Nat
    BY GeneratorTypesAssumption, <1>1
       DEF InitGenerator, PRNG_Instantiate, Context, NeededBytes, GetDesignEntropy, IsGenerator, OffersUpTo
  <1>3. m \in Nat /\ m <= 256 /\ (strength <= top => 8 * m >= strength) /\ (strength > top => 8 * m >= top)
    BY <1>1 DEF OffersUpTo
  <1> HIDE DEF sec, m, ctx
  <1> QED
    BY <1>1, <1>2, <1>3 DEF ctx, GetDesignEntropy, EBUF_SIZE, OffersUpTo, IsGenerator

LEMMA SetUpSound ==
  ASSUME NEW name \in Names, NEW strength \in Nat, NEW personal \in Nat, ~IsTRNG(TheType(name))
  PROVE  SetUpSuffices(name, strength, personal)
  <1>1. TheType(name) \in GeneratorType
    BY NameOfType, EitherKind
  <1>2. PICK top : OffersUpTo(TheType(name), top)
    BY <1>1, GeneratorsOffer
  <1>3. Max(Offered(TheType(name))) = top
    BY <1>2, Highest
  <1>4. IsGenerator(TheType(name))
    BY <1>1, GeneratorsAre
  <1> QED
    BY <1>2, <1>3, <1>4, SeedSuffices DEF SetUpSuffices

-----------------------------------------------------------------------------
(***************************************************************************)
(* Requests in pieces: a sum by induction over its terms.                  *)
(***************************************************************************)
\* A set of numbers has a least one.
LEMMA HasLeast ==
  ASSUME NEW S, S \subseteq Nat, S # {}
  PROVE  \E i \in S : \A j \in S : i <= j
  <1>1. PICK i \in S : \A j \in S : ~(<<j, i>> \in OpToRel(<, Nat))
    BY NatLessThanWellFounded, WFMin
  <1>2. ASSUME NEW j \in S
        PROVE  i <= j
    <2>1. ~(<<j, i>> \in OpToRel(<, Nat))
      BY <1>1
    <2>2. i \in Nat /\ j \in Nat
      OBVIOUS
    <2>3. ~(j < i)
      <3>1. SUFFICES ASSUME j < i
                     PROVE  <<j, i>> \in OpToRel(<, Nat)
        BY <2>1
      <3> QED
        BY <2>2, <3>1, Zenon DEF OpToRel
    <2> QED
      BY <2>2, <2>3
  <1> QED
    BY <1>2

\* Induction over the numbers, as a fact about sets.
LEMMA EveryNumber ==
  ASSUME NEW T, 0 \in T, \A n \in Nat : n \in T => n + 1 \in T
  PROVE  Nat \subseteq T
  <1> SUFFICES ASSUME Nat \ T # {} PROVE FALSE
    OBVIOUS
  <1> DEFINE S == Nat \ T
  <1>1. S \subseteq Nat /\ S # {}
    OBVIOUS
  <1> HIDE DEF S
  <1>2. PICK n \in S : \A m \in S : n <= m
    BY <1>1, HasLeast
  <1>3. n - 1 \in Nat /\ n - 1 \in T
    BY <1>2 DEF S
  <1> QED
    BY <1>2, <1>3 DEF S

\* A total is what adding one length after the other comes to.
AddsUp(lengths, sums) ==
  /\ Len(lengths) \in Nat /\ sums \in [0 .. Len(lengths) -> Nat]
  /\ sums[0] = 0 /\ \A i \in 1 .. Len(lengths) : sums[i] = sums[i - 1] + lengths[i]

LEMMA TotalIs ==
  ASSUME NEW lengths, NEW sums, AddsUp(lengths, sums)
  PROVE  Total(lengths) = sums[Len(lengths)]
  <1> USE DEF AddsUp
  <1> DEFINE Sums(f) == f = [i \in 0 .. Len(lengths) |-> IF i = 0 THEN 0 ELSE f[i - 1] + lengths[i]]
             sum     == CHOOSE f : Sums(f)
             Same    == {i \in Nat : i <= Len(lengths) => sum[i] = sums[i]}
  <1>1. Sums(sums)
    <2>1. \A i \in 0 .. Len(lengths) : sums[i] = IF i = 0 THEN 0 ELSE sums[i - 1] + lengths[i]
      OBVIOUS
    <2> QED
      BY <2>1
  <1>2. Sums(sum)
    BY <1>1
  <1> HIDE DEF sum
  <1>3. sum[0] = 0 /\ \A i \in 1 .. Len(lengths) : sum[i] = sum[i - 1] + lengths[i]
    BY <1>2
  <1>4. 0 \in Same
    BY <1>3
  <1>5. ASSUME NEW i \in Nat, i \in Same PROVE i + 1 \in Same
    BY <1>3, <1>5
  <1>6. Nat \subseteq Same
    <2> HIDE DEF Same
    <2> QED
      BY <1>4, <1>5, EveryNumber
  <1> QED
    BY <1>6 DEF Total, sum

\* A request cut in pieces.
LEMMA PiecesTotal ==
  ASSUME NEW most \in {2048, AllOnes}, NEW n \in Nat
  PROVE  /\ Total(Cut(n, most)) = n
         /\ \A i \in DOMAIN Cut(n, most) : Cut(n, most)[i] <= most
  <1> DEFINE pieces == Cut(n, most)
             whole  == n \div most
             rest   == n % most
             sums   == [i \in 0 .. Len(pieces) |-> IF i <= whole THEN i * most ELSE n]
  <1>1. most \in {2048, 2147483647}
    BY DEF AllOnes
  <1>2. whole \in Nat /\ rest \in Nat /\ rest < most /\ n = whole * most + rest
    BY <1>1
  <1>3. pieces = [i \in 1 .. whole |-> most] \o (IF rest > 0 THEN <<rest>> ELSE <<>>)
    BY DEF Cut
  <1> HIDE DEF whole, rest, pieces
  <1>4. /\ Len(pieces) = IF rest > 0 THEN whole + 1 ELSE whole
        /\ DOMAIN pieces = 1 .. Len(pieces)
        /\ \A i \in 1 .. Len(pieces) : pieces[i] = IF i <= whole THEN most ELSE rest
    BY <1>1, <1>2, <1>3
  <1>5. AddsUp(pieces, sums) /\ sums[Len(pieces)] = n
    BY <1>1, <1>2, <1>4 DEF AddsUp
  <1> HIDE DEF sums
  <1>6. Total(pieces) = sums[Len(pieces)]
    BY <1>5, TotalIs
  <1> QED
    BY <1>1, <1>2, <1>4, <1>5, <1>6 DEF pieces

\* A request in one piece.
LEMMA WholeTotal ==
  ASSUME NEW n \in Nat
  PROVE  Total(<<n>>) = n
  <1> DEFINE sums == [i \in 0 .. 1 |-> IF i = 0 THEN 0 ELSE n]
             only == <<n>>
  <1>1. AddsUp(only, sums) /\ sums[Len(only)] = n
    BY DEF AddsUp
  <1> HIDE DEF sums, only
  <1> QED
    BY <1>1, TotalIs DEF only

LEMMA PiecesSound ==
  ASSUME NEW name \in Names, NEW auto \in BOOLEAN, NEW n \in Nat
  PROVE  LET pieces == Pieces(TheType(name), auto, n)
         IN  /\ Total(pieces) = n
             /\ auto => \A i \in DOMAIN pieces : pieces[i] <= TheType(name).maxBytes
  <1>1. TheType(name).maxBytes \in {2048, AllOnes}
    <2>1. TheType(name) \in GeneratorType \/ TheType(name) \in SourceType
      BY NameOfType, EitherKind
    <2>2. TheType(name) \in GeneratorType => IsGenerator(TheType(name))
      BY GeneratorsAre
    <2>3. TheType(name) \in SourceType => IsSource(TheType(name))
      BY SourcesAre
    <2> QED
      BY <2>1, <2>2, <2>3 DEF IsGenerator, IsSource
  <1>2. CASE auto
    BY <1>1, <1>2, PiecesTotal DEF Pieces
  <1>3. CASE ~auto
    BY <1>3, WholeTotal DEF Pieces
  <1> QED
    BY <1>2, <1>3

\* A self test tried, a set-up, or a request in pieces.
LEMMA TypesTried ==
  ASSUME ServicesNext
  PROVE  TypesConform'
  <1>1. ASSUME Is("self_test")'
        PROVE  SelfTestFinds(input'[2], input'[3], input'[4])
    <2>1. PICK name \in Names, fault \in MethodFault, memory \in BOOLEAN :
            input' = <<"self_test", name, fault, memory>>
      BY <1>1, TriedByKind DEF TryTypeTest
    <2>2. input'[2] = name /\ input'[3] = fault /\ input'[4] = memory
      BY <2>1
    <2> QED
      BY <2>2, SelfTestSound
  <1>2. ASSUME Is("set_up")'
        PROVE  SetUpSuffices(input'[2], input'[3], input'[4])
    <2>1. PICK name \in Names, strength \in Strengths, personal \in Personal :
            ~IsTRNG(TheType(name)) /\ input' = <<"set_up", name, strength, personal>>
      BY <1>2, TriedByKind DEF TrySetUp
    <2>2. input'[2] = name /\ input'[3] = strength /\ input'[4] = personal
      BY <2>1
    <2>3. strength \in Nat /\ personal \in Nat
      BY ServicesAssumption
    <2> QED
      BY <2>1, <2>2, <2>3, SetUpSound
  <1>3. ASSUME Is("pieces")'
        PROVE  LET pieces == Pieces(TheType(input'[2]), input'[3], input'[4])
               IN  /\ Total(pieces) = input'[4]
                   /\ input'[3] => \A i \in DOMAIN pieces : pieces[i] <= TheType(input'[2]).maxBytes
    <2>1. PICK name \in Names, auto \in BOOLEAN, n \in Lengths : input' = <<"pieces", name, auto, n>>
      BY <1>3, TriedByKind DEF TryPieces
    <2>2. input'[2] = name /\ input'[3] = auto /\ input'[4] = n
      BY <2>1
    <2>3. n \in Nat
      BY ServicesAssumption
    <2> QED
      BY <2>2, <2>3, PiecesSound
  <1> QED
    BY <1>1, <1>2, <1>3 DEF TypesConform

(***************************************************************************)
(* Every strength a type offers has its vector, a method that is wrong     *)
(* fails the self test (PRNG_self_test, SP800-90.c), a context set up is   *)
(* seeded for the strength asked for, and the pieces of a request are the  *)
(* request: for any strength, personalization and length.                  *)
(***************************************************************************)
THEOREM TypesSound == ServicesSpec => []TypesConform
  <1>1. input \in {<<kind>> : kind \in ServiceKind} => TypesConform
    BY NothingTried DEF TypesConform
  <1>2. TypesConform /\ UNCHANGED input => TypesConform'
    BY DEF TypesConform, Is
  <1> QED
    BY <1>1, <1>2, TypesTried, PTL DEF ServicesSpec

-----------------------------------------------------------------------------
\* Noise that may be tried.
ANoise == Seq(Nat \X (Nat \ {0})) \ {<<>>}

\* A bounded set of numbers has a greatest one.
LEMMA HasGreatest ==
  ASSUME NEW S, S \subseteq Nat, S # {}, NEW bound \in Nat, \A x \in S : x <= bound
  PROVE  /\ Max(S) \in S
         /\ \A x \in S : Max(S) >= x
  <1> DEFINE below == {bound - x : x \in S}
  <1>1. below \subseteq Nat /\ below # {}
    <2>1. \A x \in S : x \in Nat /\ x <= bound /\ bound - x \in Nat
      OBVIOUS
    <2> QED
      BY <2>1
  <1>2. PICK least \in below : \A y \in below : least <= y
    <2> HIDE DEF below
    <2> QED
      BY <1>1, HasLeast
  <1>3. PICK greatest \in S : least = bound - greatest
    BY <1>2
  <1>4. \A x \in S : greatest >= x
    BY <1>2, <1>3
  <1> QED
    BY <1>4 DEF Max

-----------------------------------------------------------------------------
(***************************************************************************)
(* Noise: how many samples there are, and how many of them are alike.      *)
(***************************************************************************)
\* Any stretches have finitely many samples,
LEMMA StretchesFinite ==
  ASSUME NEW noise \in ANoise, NEW stretches, stretches \subseteq DOMAIN noise
  PROVE  IsFiniteSet(UNION {{i} \X (1 .. noise[i][2]) : i \in stretches})
  <1> DEFINE image == {{i} \X (1 .. noise[i][2]) : i \in stretches}
             f     == [i \in stretches |-> {i} \X (1 .. noise[i][2])]
  <1>1. IsFiniteSet(stretches)
    <2>1. DOMAIN noise = 1 .. Len(noise) /\ Len(noise) \in Nat
      BY DEF ANoise
    <2>2. IsFiniteSet(1 .. Len(noise))
      BY <2>1, FS_Interval
    <2> QED
      BY <2>1, <2>2, FS_Subset
  <1>2. f \in Surjection(stretches, image)
    BY DEF Surjection
  <1>3. \A T \in image : IsFiniteSet(T)
    <2> SUFFICES ASSUME NEW i \in stretches PROVE IsFiniteSet({i} \X (1 .. noise[i][2]))
      OBVIOUS
    <2>1. noise[i][2] \in Int
      BY DEF ANoise
    <2>2. IsFiniteSet({i})
      BY FS_Singleton
    <2>3. IsFiniteSet(1 .. noise[i][2])
      BY <2>1, FS_Interval
    <2> QED
      BY <2>2, <2>3, FS_Product
  <1> HIDE DEF f, image
  <1>4. IsFiniteSet(image)
    BY <1>1, <1>2, FS_Surjection
  <1> QED
    BY <1>3, <1>4, FS_UNION DEF image

\* more stretches have no fewer,
LEMMA SizeOfMore ==
  ASSUME NEW noise \in ANoise, NEW some, NEW more, some \subseteq more, more \subseteq DOMAIN noise
  PROVE  /\ Size(noise, some) \in Nat
         /\ Size(noise, some) <= Size(noise, more)
  <1> DEFINE samples(stretches) == UNION {{i} \X (1 .. noise[i][2]) : i \in stretches}
  <1>1. IsFiniteSet(samples(some)) /\ IsFiniteSet(samples(more))
    BY StretchesFinite
  <1>2. samples(some) \subseteq samples(more)
    OBVIOUS
  <1> HIDE DEF samples
  <1>3. Cardinality(samples(some)) \in Nat /\ Cardinality(samples(some)) <= Cardinality(samples(more))
    BY <1>1, <1>2, FS_CardinalityType, FS_Subset
  <1> QED
    BY <1>3 DEF Size, samples

\* and one stretch has as many as it is long.
LEMMA SizeOfOne ==
  ASSUME NEW noise \in ANoise, NEW i \in DOMAIN noise
  PROVE  Size(noise, {i}) = noise[i][2]
  <1>1. noise[i][2] \in Nat \ {0}
    BY DEF ANoise
  <1> DEFINE size == noise[i][2]
  <1>2. IsFiniteSet({i}) /\ Cardinality({i}) = 1
    BY FS_Singleton
  <1>3. IsFiniteSet(1 .. size) /\ Cardinality(1 .. size) = size
    <2> HIDE DEF size
    <2>1. 1 \in Int /\ size \in Int
      BY <1>1 DEF size
    <2>2. IsFiniteSet(1 .. size) /\ Cardinality(1 .. size) = IF 1 > size THEN 0 ELSE size - 1 + 1
      BY <2>1, FS_Interval, Zenon
    <2> QED
      BY <1>1, <2>2 DEF size
  <1>5. Cardinality({i} \X (1 .. size)) = size
    <2> HIDE DEF size
    <2>1. Cardinality({i} \X (1 .. size)) = Cardinality({i}) * Cardinality(1 .. size)
      BY <1>2, <1>3, FS_Product, Zenon
    <2> QED
      BY <1>1, <1>2, <1>3, <2>1 DEF size
  <1>4. UNION {{j} \X (1 .. noise[j][2]) : j \in {i}} = {i} \X (1 .. noise[i][2])
    OBVIOUS
  <1> QED
    BY <1>4, <1>5 DEF Size

\* The most common value occurs, and not more often than there are samples.
LEMMA MostCommonOf ==
  ASSUME NEW noise \in ANoise
  PROVE  /\ Samples(noise) \in Nat /\ MostCommon(noise) \in Nat
         /\ 0 < MostCommon(noise) /\ MostCommon(noise) <= Samples(noise)
  <1> DEFINE counts == {Occurrences(noise, v) : v \in Values(noise)}
  <1>1. Samples(noise) \in Nat
    BY SizeOfMore DEF Samples
  <1>2. ASSUME NEW v \in Values(noise)
        PROVE  Occurrences(noise, v) \in Nat \ {0} /\ Occurrences(noise, v) <= Samples(noise)
    <2> DEFINE alike == {i \in DOMAIN noise : noise[i][1] = v}
    <2>1. PICK i \in DOMAIN noise : noise[i][1] = v
      BY DEF Values
    <2>2. {i} \subseteq alike /\ alike \subseteq DOMAIN noise
      BY <2>1
    <2> HIDE DEF alike
    <2>3. /\ Size(noise, alike) \in Nat /\ Size(noise, alike) <= Size(noise, DOMAIN noise)
          /\ Size(noise, {i}) <= Size(noise, alike)
      BY <2>2, SizeOfMore
    <2>4. Size(noise, {i}) = noise[i][2] /\ noise[i][2] \in Nat \ {0}
      BY SizeOfOne DEF ANoise
    <2> QED
      BY <2>3, <2>4 DEF Occurrences, Samples, alike
  <1>3. counts \subseteq Nat /\ counts # {} /\ \A x \in counts : x <= Samples(noise) /\ x # 0
    <2>1. 1 \in DOMAIN noise
      BY DEF ANoise
    <2>2. Values(noise) # {}
      BY <2>1 DEF Values
    <2> QED
      BY <1>2, <2>2
  <1> HIDE DEF counts
  <1>4. Max(counts) \in counts
    BY <1>1, <1>3, HasGreatest
  <1> QED
    BY <1>1, <1>3, <1>4 DEF MostCommon, counts

\* The longest stretch is a number.
LEMMA LongestOf ==
  ASSUME NEW noise \in ANoise
  PROVE  Longest(noise) \in Nat
  <1> DEFINE lengths == {noise[i][2] : i \in DOMAIN noise}
  <1>1. ASSUME NEW i \in DOMAIN noise
        PROVE  noise[i][2] \in Nat /\ noise[i][2] <= Samples(noise)
    <2>1. Size(noise, {i}) = noise[i][2]
      BY SizeOfOne
    <2>2. Size(noise, {i}) \in Nat /\ Size(noise, {i}) <= Size(noise, DOMAIN noise)
      BY SizeOfMore
    <2> QED
      BY <2>1, <2>2 DEF Samples
  <1>2. lengths \subseteq Nat /\ lengths # {} /\ \A x \in lengths : x <= Samples(noise)
    BY <1>1 DEF ANoise
  <1> HIDE DEF lengths
  <1>3. Max(lengths) \in lengths
    BY <1>2, HasGreatest, MostCommonOf
  <1> QED
    BY <1>2, <1>3 DEF Longest, lengths

-----------------------------------------------------------------------------
\* A number with that many bits, not counting its highest.
Wide(x, w) ==
  \/ (w = 0 /\ 1 <= x /\ x < 2) \/ (w = 1 /\ 2 <= x /\ x < 4)
  \/ (w = 2 /\ 4 <= x /\ x < 8) \/ (w = 3 /\ 8 <= x /\ x < 16)
  \/ (w = 4 /\ 16 <= x /\ x < 32) \/ (w = 5 /\ 32 <= x /\ x < 64)
  \/ (w = 6 /\ 64 <= x /\ x < 128) \/ (w = 7 /\ 128 <= x /\ x < 256)
  \/ (w = 8 /\ 256 <= x /\ x < 512) \/ (w = 9 /\ 512 <= x /\ x < 1024)
  \/ (w = 10 /\ 1024 <= x /\ x < 2048) \/ (w = 11 /\ 2048 <= x /\ x < 4096)
  \/ (w = 12 /\ 4096 <= x /\ x < 8192) \/ (w = 13 /\ 8192 <= x /\ x < 16384)
  \/ (w = 14 /\ 16384 <= x /\ x < 32768) \/ (w = 15 /\ 32768 <= x /\ x < 65536)
  \/ (w = 16 /\ 65536 <= x /\ x < 131072) \/ (w = 17 /\ 131072 <= x /\ x < 262144)
  \/ (w = 18 /\ 262144 <= x /\ x < 524288) \/ (w = 19 /\ 524288 <= x /\ x < 1048576)
  \/ (w = 20 /\ 1048576 <= x /\ x < 2097152) \/ (w = 21 /\ 2097152 <= x /\ x < 4194304)
  \/ (w = 22 /\ 4194304 <= x /\ x < 8388608) \/ (w = 23 /\ 8388608 <= x /\ x < 16777216)
  \/ (w = 24 /\ 16777216 <= x /\ x < 33554432) \/ (w = 25 /\ 33554432 <= x /\ x < 67108864)
  \/ (w = 26 /\ 67108864 <= x /\ x < 134217728) \/ (w = 27 /\ 134217728 <= x /\ x < 268435456)
  \/ (w = 28 /\ 268435456 <= x /\ x < 536870912) \/ (w = 29 /\ 536870912 <= x /\ x < 1073741824)
  \/ (w = 30 /\ 1073741824 <= x /\ x < 2147483648) \/ (w = 31 /\ 2147483648 <= x /\ x < 4294967296)

\* Which is what its powers of two say.
LEMMA WideIs ==
  ASSUME NEW x \in Nat, NEW w, Wide(x, w)
  PROVE  /\ w \in 0 .. 31
         /\ 2 ^ w \in Nat /\ 2 ^ (w + 1) \in Nat
         /\ 2 ^ w <= x /\ x < 2 ^ (w + 1)
         /\ x \div 2 ^ w = 1
  <1>1. w \in 0 .. 31
    BY DEF Wide
  <1>2. /\ (w = 0 => 2 ^ w = 2 ^ 0) /\ (w = 1 => 2 ^ w = 2 ^ 1) /\ (w = 2 => 2 ^ w = 2 ^ 2)
        /\ (w = 3 => 2 ^ w = 2 ^ 3) /\ (w = 4 => 2 ^ w = 2 ^ 4) /\ (w = 5 => 2 ^ w = 2 ^ 5)
        /\ (w = 6 => 2 ^ w = 2 ^ 6) /\ (w = 7 => 2 ^ w = 2 ^ 7) /\ (w = 8 => 2 ^ w = 2 ^ 8)
        /\ (w = 9 => 2 ^ w = 2 ^ 9) /\ (w = 10 => 2 ^ w = 2 ^ 10) /\ (w = 11 => 2 ^ w = 2 ^ 11)
        /\ (w = 12 => 2 ^ w = 2 ^ 12) /\ (w = 13 => 2 ^ w = 2 ^ 13) /\ (w = 14 => 2 ^ w = 2 ^ 14)
        /\ (w = 15 => 2 ^ w = 2 ^ 15) /\ (w = 16 => 2 ^ w = 2 ^ 16) /\ (w = 17 => 2 ^ w = 2 ^ 17)
        /\ (w = 18 => 2 ^ w = 2 ^ 18) /\ (w = 19 => 2 ^ w = 2 ^ 19) /\ (w = 20 => 2 ^ w = 2 ^ 20)
        /\ (w = 21 => 2 ^ w = 2 ^ 21) /\ (w = 22 => 2 ^ w = 2 ^ 22) /\ (w = 23 => 2 ^ w = 2 ^ 23)
        /\ (w = 24 => 2 ^ w = 2 ^ 24) /\ (w = 25 => 2 ^ w = 2 ^ 25) /\ (w = 26 => 2 ^ w = 2 ^ 26)
        /\ (w = 27 => 2 ^ w = 2 ^ 27) /\ (w = 28 => 2 ^ w = 2 ^ 28) /\ (w = 29 => 2 ^ w = 2 ^ 29)
        /\ (w = 30 => 2 ^ w = 2 ^ 30) /\ (w = 31 => 2 ^ w = 2 ^ 31)
    BY Zenon
  <1>3. 2 ^ w \in Nat /\ 2 ^ w <= x /\ x \div 2 ^ w = 1
    BY <1>2, SMT DEF Wide
  <1> DEFINE next == w + 1
  <1>4. /\ (next = 1 => 2 ^ next = 2 ^ 1) /\ (next = 2 => 2 ^ next = 2 ^ 2) /\ (next = 3 => 2 ^ next = 2 ^ 3)
        /\ (next = 4 => 2 ^ next = 2 ^ 4) /\ (next = 5 => 2 ^ next = 2 ^ 5) /\ (next = 6 => 2 ^ next = 2 ^ 6)
        /\ (next = 7 => 2 ^ next = 2 ^ 7) /\ (next = 8 => 2 ^ next = 2 ^ 8) /\ (next = 9 => 2 ^ next = 2 ^ 9)
        /\ (next = 10 => 2 ^ next = 2 ^ 10) /\ (next = 11 => 2 ^ next = 2 ^ 11) /\ (next = 12 => 2 ^ next = 2 ^ 12)
        /\ (next = 13 => 2 ^ next = 2 ^ 13) /\ (next = 14 => 2 ^ next = 2 ^ 14) /\ (next = 15 => 2 ^ next = 2 ^ 15)
        /\ (next = 16 => 2 ^ next = 2 ^ 16) /\ (next = 17 => 2 ^ next = 2 ^ 17) /\ (next = 18 => 2 ^ next = 2 ^ 18)
        /\ (next = 19 => 2 ^ next = 2 ^ 19) /\ (next = 20 => 2 ^ next = 2 ^ 20) /\ (next = 21 => 2 ^ next = 2 ^ 21)
        /\ (next = 22 => 2 ^ next = 2 ^ 22) /\ (next = 23 => 2 ^ next = 2 ^ 23) /\ (next = 24 => 2 ^ next = 2 ^ 24)
        /\ (next = 25 => 2 ^ next = 2 ^ 25) /\ (next = 26 => 2 ^ next = 2 ^ 26) /\ (next = 27 => 2 ^ next = 2 ^ 27)
        /\ (next = 28 => 2 ^ next = 2 ^ 28) /\ (next = 29 => 2 ^ next = 2 ^ 29) /\ (next = 30 => 2 ^ next = 2 ^ 30)
        /\ (next = 31 => 2 ^ next = 2 ^ 31) /\ (next = 32 => 2 ^ next = 2 ^ 32)
    BY Zenon
  <1>5. 2 ^ next \in Nat /\ x < 2 ^ next
    <2>1. \A k \in 0 .. 31 : w = k => next = k + 1
      BY <1>1
    <2> HIDE DEF next
    <2> QED
      BY <1>4, <2>1, SMT DEF Wide
  <1> QED
    BY <1>1, <1>3, <1>5

\* The shifts of ilog2, the last first.
LEMMA Shifts ==
  /\ Shift[5] = 16 /\ Shift[4] = 8 /\ Shift[3] = 4 /\ Shift[2] = 2 /\ Shift[1] = 1
  /\ 2 ^ Shift[5] = 65536 /\ 2 ^ Shift[4] = 256 /\ 2 ^ Shift[3] = 16 /\ 2 ^ Shift[2] = 4
  /\ 2 ^ Shift[1] = 2
  <1>1. Shift[5] = 16 /\ Shift[4] = 8 /\ Shift[3] = 4 /\ Shift[2] = 2 /\ Shift[1] = 1
    BY SMT DEF Shift
  <1>2. /\ 2 ^ Shift[5] = 2 ^ 16 /\ 2 ^ Shift[4] = 2 ^ 8 /\ 2 ^ Shift[3] = 2 ^ 4
        /\ 2 ^ Shift[2] = 2 ^ 2 /\ 2 ^ Shift[1] = 2 ^ 1
    BY <1>1, Zenon
  <1> QED
    BY <1>1, <1>2, SMT

\* Each halving leaves a number half as wide: from the last to the first.
LEMMA Width1 ==
  ASSUME NEW x \in Nat \ {0}, x < 4, NEW r \in Nat
  PROVE  \E w \in 0 .. 1 : Wide(x, w) /\ Halve(1, <<x, r>>)[2] = r + w
  <1>1. /\ x \div 2 > 0 => Halve(1, <<x, r>>) = <<x \div 2, r + 1>>
        /\ ~(x \div 2 > 0) => Halve(1, <<x, r>>) = <<x, r>>
    BY Shifts, SMT DEF Halve
  <1>2. CASE x \div 2 > 0
    <2>1. Wide(x, 1)
      BY <1>2, SMT DEF Wide
    <2> QED
      BY <1>1, <1>2, <2>1, SMT
  <1>3. CASE ~(x \div 2 > 0)
    <2>1. Wide(x, 0)
      BY <1>3, SMT DEF Wide
    <2> QED
      BY <1>1, <1>3, <2>1, SMT
  <1> QED
    BY <1>2, <1>3, SMT

LEMMA Width2 ==
  ASSUME NEW x \in Nat \ {0}, x < 16, NEW r \in Nat
  PROVE  \E w \in 0 .. 3 : Wide(x, w) /\ Halve(1, Halve(2, <<x, r>>))[2] = r + w
  <1>1. /\ x \div 4 > 0 => Halve(2, <<x, r>>) = <<x \div 4, r + 2>>
        /\ ~(x \div 4 > 0) => Halve(2, <<x, r>>) = <<x, r>>
    BY Shifts, SMT DEF Halve
  <1>2. CASE x \div 4 > 0
    <2> DEFINE y == x \div 4
               s == r + 2
    <2>1. Halve(2, <<x, r>>) = <<y, s>>
      BY <1>1, <1>2, SMT
    <2>2. y \in Nat \ {0} /\ y < 4 /\ s \in Nat
      BY <1>2, SMT
    <2> HIDE DEF y, s
    <2>3. PICK w \in 0 .. 1 : Wide(y, w) /\ Halve(1, <<y, s>>)[2] = s + w
      BY <2>2, Width1, SMT
    <2>4. Wide(x, w + 2)
      BY <2>2, <2>3, SMTT(30) DEF Wide, y
    <2> QED
      BY <2>1, <2>3, <2>4, SMT DEF s
  <1>3. CASE ~(x \div 4 > 0)
    <2>1. Halve(2, <<x, r>>) = <<x, r>>
      BY <1>1, <1>3, SMT
    <2>2. x < 4
      BY <1>3, SMT
    <2>3. PICK w \in 0 .. 1 : Wide(x, w) /\ Halve(1, <<x, r>>)[2] = r + w
      BY <2>2, Width1, SMT
    <2> QED
      BY <2>1, <2>3, SMT
  <1> QED
    BY <1>2, <1>3, SMT

LEMMA Width3 ==
  ASSUME NEW x \in Nat \ {0}, x < 256, NEW r \in Nat
  PROVE  \E w \in 0 .. 7 : Wide(x, w) /\ Halve(1, Halve(2, Halve(3, <<x, r>>)))[2] = r + w
  <1>1. /\ x \div 16 > 0 => Halve(3, <<x, r>>) = <<x \div 16, r + 4>>
        /\ ~(x \div 16 > 0) => Halve(3, <<x, r>>) = <<x, r>>
    BY Shifts, SMT DEF Halve
  <1>2. CASE x \div 16 > 0
    <2> DEFINE y == x \div 16
               s == r + 4
    <2>1. Halve(3, <<x, r>>) = <<y, s>>
      BY <1>1, <1>2, SMT
    <2>2. y \in Nat \ {0} /\ y < 16 /\ s \in Nat
      BY <1>2, SMT
    <2> HIDE DEF y, s
    <2>3. PICK w \in 0 .. 3 : Wide(y, w) /\ Halve(1, Halve(2, <<y, s>>))[2] = s + w
      BY <2>2, Width2, SMT
    <2>4. Wide(x, w + 4)
      BY <2>2, <2>3, SMTT(30) DEF Wide, y
    <2> QED
      BY <2>1, <2>3, <2>4, SMT DEF s
  <1>3. CASE ~(x \div 16 > 0)
    <2>1. Halve(3, <<x, r>>) = <<x, r>>
      BY <1>1, <1>3, SMT
    <2>2. x < 16
      BY <1>3, SMT
    <2>3. PICK w \in 0 .. 3 : Wide(x, w) /\ Halve(1, Halve(2, <<x, r>>))[2] = r + w
      BY <2>2, Width2, SMT
    <2> QED
      BY <2>1, <2>3, SMT
  <1> QED
    BY <1>2, <1>3, SMT

LEMMA Width4 ==
  ASSUME NEW x \in Nat \ {0}, x < 65536, NEW r \in Nat
  PROVE  \E w \in 0 .. 15 : Wide(x, w) /\ Halve(1, Halve(2, Halve(3, Halve(4, <<x, r>>))))[2] = r + w
  <1>1. /\ x \div 256 > 0 => Halve(4, <<x, r>>) = <<x \div 256, r + 8>>
        /\ ~(x \div 256 > 0) => Halve(4, <<x, r>>) = <<x, r>>
    BY Shifts, SMT DEF Halve
  <1>2. CASE x \div 256 > 0
    <2> DEFINE y == x \div 256
               s == r + 8
    <2>1. Halve(4, <<x, r>>) = <<y, s>>
      BY <1>1, <1>2, SMT
    <2>2. y \in Nat \ {0} /\ y < 256 /\ s \in Nat
      BY <1>2, SMT
    <2> HIDE DEF y, s
    <2>3. PICK w \in 0 .. 7 : Wide(y, w) /\ Halve(1, Halve(2, Halve(3, <<y, s>>)))[2] = s + w
      BY <2>2, Width3, SMT
    <2>4. Wide(x, w + 8)
      BY <2>2, <2>3, SMTT(30) DEF Wide, y
    <2> QED
      BY <2>1, <2>3, <2>4, SMT DEF s
  <1>3. CASE ~(x \div 256 > 0)
    <2>1. Halve(4, <<x, r>>) = <<x, r>>
      BY <1>1, <1>3, SMT
    <2>2. x < 256
      BY <1>3, SMT
    <2>3. PICK w \in 0 .. 7 : Wide(x, w) /\ Halve(1, Halve(2, Halve(3, <<x, r>>)))[2] = r + w
      BY <2>2, Width3, SMT
    <2> QED
      BY <2>1, <2>3, SMT
  <1> QED
    BY <1>2, <1>3, SMT

LEMMA Width5 ==
  ASSUME NEW x \in Nat \ {0}, x \div 65536 < 65536, NEW r \in Nat
  PROVE  \E w \in 0 .. 31 : Wide(x, w) /\ Halve(1, Halve(2, Halve(3, Halve(4, Halve(5, <<x, r>>)))))[2] = r + w
  <1>1. /\ x \div 65536 > 0 => Halve(5, <<x, r>>) = <<x \div 65536, r + 16>>
        /\ ~(x \div 65536 > 0) => Halve(5, <<x, r>>) = <<x, r>>
    BY Shifts, SMT DEF Halve
  <1>2. CASE x \div 65536 > 0
    <2> DEFINE y == x \div 65536
               s == r + 16
    <2>1. Halve(5, <<x, r>>) = <<y, s>>
      BY <1>1, <1>2, SMT
    <2>2. y \in Nat \ {0} /\ y < 65536 /\ s \in Nat
      BY <1>2, SMT
    <2> HIDE DEF y, s
    <2>3. PICK w \in 0 .. 15 : Wide(y, w) /\ Halve(1, Halve(2, Halve(3, Halve(4, <<y, s>>))))[2] = s + w
      BY <2>2, Width4, SMT
    <2>4. Wide(x, w + 16)
      BY <2>2, <2>3, SMTT(30) DEF Wide, y
    <2> QED
      BY <2>1, <2>3, <2>4, SMT DEF s
  <1>3. CASE ~(x \div 65536 > 0)
    <2>1. Halve(5, <<x, r>>) = <<x, r>>
      BY <1>1, <1>3, SMT
    <2>2. x < 65536
      BY <1>3, SMT
    <2>3. PICK w \in 0 .. 15 : Wide(x, w) /\ Halve(1, Halve(2, Halve(3, Halve(4, <<x, r>>))))[2] = r + w
      BY <2>2, Width4, SMT
    <2> QED
      BY <2>1, <2>3, SMT
  <1> QED
    BY <1>2, <1>3, SMT

\* So ilog2 is the width.
LEMMA WidthOf ==
  ASSUME NEW v \in Nat \ {0}, v \div 2 ^ 16 < 2 ^ 16
  PROVE  Wide(v, ilog2(v))
  <1>1. v \div 65536 < 65536
    BY SMT
  <1>2. PICK w \in 0 .. 31 : Wide(v, w) /\ Halve(1, Halve(2, Halve(3, Halve(4, Halve(5, <<v, 0>>)))))[2] = 0 + w
    BY <1>1, Width5, SMT
  <1>3. ilog2(v) = w
    BY <1>2, SMT DEF ilog2
  <1> QED
    BY <1>2, <1>3, SMT

-----------------------------------------------------------------------------
\* n samples of which k are alike: their quotient is as wide as it says.
LEMMA QuotientWide ==
  ASSUME NEW n \in Nat, NEW k \in Nat, 0 < k, k <= n, n \div 2 ^ 16 < 2 ^ 16
  PROVE  LET v == n \div k  l == ilog2(v)
         IN  /\ l \in 0 .. 31 /\ Wide(v, l) /\ v \in Nat
             /\ 2 ^ l * k <= n /\ n < 2 ^ (l + 1) * k
  <1> DEFINE v == n \div k
             l == ilog2(v)
  <1>1. v \in Nat /\ v * k <= n /\ n < (v + 1) * k
    OBVIOUS
  <1>2. v # 0 /\ v <= n
    BY SMT
  <1>3. v \div 2 ^ 16 < 2 ^ 16
    <2>1. n < 4294967296
      BY SMT
    <2> HIDE DEF v
    <2> QED
      BY <1>1, <1>2, <2>1, SMT
  <1> HIDE DEF v
  <1>4. Wide(v, l)
    BY <1>1, <1>2, <1>3, WidthOf
  <1> HIDE DEF l
  <1> DEFINE p == 2 ^ l
             q == 2 ^ (l + 1)
  <1>5. l \in 0 .. 31 /\ p \in Nat /\ q \in Nat /\ p <= v /\ v + 1 <= q
    BY <1>1, <1>4, WideIs
  <1> HIDE DEF p, q
  <1>6. p * k <= n
    <2>1. p * k <= v * k
      BY <1>1, <1>5
    <2> QED
      BY <1>1, <1>5, <2>1
  <1>7. n < q * k
    <2>1. (v + 1) * k <= q * k
      BY <1>1, <1>5
    <2> QED
      BY <1>1, <1>5, <2>1
  <1> QED
    BY <1>1, <1>4, <1>5, <1>6, <1>7 DEF v, l, p, q

ASample(noise) == noise \in ANoise /\ Samples(noise) \div 2 ^ 16 < 2 ^ 16

\* The estimators give the min-entropy in whole bits.
LEMMA EstimatesSound ==
  ASSUME NEW noise, ASample(noise)
  PROVE  LET n == Samples(noise)  k == MostCommon(noise)  est == pmaxLGetEnt(noise)
         IN  /\ n >= 512 => WholeBits(est, n, k)
             /\ n >= 64 => WholeBits(pmax4(noise), n, k)
             /\ n = 512 =>
                  /\ est >= 50 => k < 177
                  /\ k < 177 => est >= 25
                  /\ est >= 100 => k < 62
                  /\ k < 62 => est >= 75
  <1> DEFINE n == Samples(noise)
             k == MostCommon(noise)
             v == n \div k
             l == ilog2(v)
  <1>1. n \in Nat /\ k \in Nat /\ 0 < k /\ k <= n /\ n \div 2 ^ 16 < 2 ^ 16
    BY MostCommonOf DEF ASample
  <1>2. /\ n >= 512 => pmaxLGetEnt(noise) = 25 * l
        /\ n >= 64 => pmax4(noise) = 25 * l
    BY DEF pmaxLGetEnt, pmax4, etab
  <1> HIDE DEF n, k
  <1>3. /\ l \in 0 .. 31 /\ Wide(v, l) /\ v \in Nat
        /\ 2 ^ l * k <= n /\ n < 2 ^ (l + 1) * k
    BY <1>1, QuotientWide
  <1>4. n = 512 => v = 512 \div k
    OBVIOUS
  <1> HIDE DEF v, l
  <1>5. WholeBits(25 * l, n, k)
    <2>1. (25 * l) \div 25 = l
      BY <1>3
    <2> QED
      BY <1>3, <2>1, Zenon DEF WholeBits
  <1>6. ASSUME n = 512
        PROVE  /\ l >= 2 => k < 177
               /\ k < 177 => l >= 1
               /\ l >= 4 => k < 62
               /\ k < 62 => l >= 3
    BY <1>1, <1>3, <1>4, <1>6, SMT DEF Wide
  <1> QED
    BY <1>1, <1>2, <1>3, <1>5, <1>6 DEF n, k

\* The tests of a guarantee H accept and reject as they should.
LEMMA HealthOf ==
  ASSUME NEW H \in {12, 25, 50, 75, 100}, NEW noise, ASample(noise)
  PROVE  LET n == Samples(noise)  k == MostCommon(noise)  est == pmaxLGetEnt(noise)
         IN  /\ n = 512 /\ H \in {25, 50} =>
                  /\ est >= 2 * H => APtestBK(H, noise) = 0
                  /\ APtestBK(H, noise) = 0 => est >= 2 * H - 25
             /\ H \in {25, 50, 75} => (RCtestBK(H, noise) = 1 <=> Longest(noise) > Cutoff(H))
             /\ H \notin {25, 50, 75} => ht(H, noise) # 0
  <1> DEFINE n == Samples(noise)
             k == MostCommon(noise)
             est == pmaxLGetEnt(noise)
             longest == Longest(noise)
  <1>1. k \in Nat /\ longest \in Nat
    BY MostCommonOf, LongestOf DEF ASample
  <1>2. /\ n = 512 =>
                  /\ est >= 50 => k < 177
                  /\ k < 177 => est >= 25
                  /\ est >= 100 => k < 62
                  /\ k < 62 => est >= 75
    BY EstimatesSound
  <1>3. APtestBK(25, noise) = 0 <=> k < 177
    BY <1>1 DEF APtestBK, APLimit
  <1>4. APtestBK(50, noise) = 0 <=> k < 62
    BY <1>1 DEF APtestBK, APLimit
  <1> HIDE DEF n, k, est
  <1>5. H = 25 => /\ n = 512 /\ est >= 2 * H => APtestBK(H, noise) = 0
                  /\ n = 512 /\ APtestBK(H, noise) = 0 => est >= 2 * H - 25
    BY <1>2, <1>3
  <1>6. H = 50 => /\ n = 512 /\ est >= 2 * H => APtestBK(H, noise) = 0
                  /\ n = 512 /\ APtestBK(H, noise) = 0 => est >= 2 * H - 25
    BY <1>2, <1>4
  <1>7. RCtestBK(25, noise) = 1 <=> longest > Cutoff(25)
    BY <1>1 DEF RCtestBK, RCTable, Cutoff
  <1>8. RCtestBK(50, noise) = 1 <=> longest > Cutoff(50)
    BY <1>1 DEF RCtestBK, RCTable, Cutoff
  <1>9. RCtestBK(75, noise) = 1 <=> longest > Cutoff(75)
    BY <1>1 DEF RCtestBK, RCTable, Cutoff
  <1>10. H \in {25, 50, 75} => (RCtestBK(H, noise) = 1 <=> longest > Cutoff(H))
    BY <1>7, <1>8, <1>9
  <1>11. H \notin {25, 50, 75} => ht(H, noise) # 0
    <2>1. H \notin {25, 50, 75} => RCtestBK(H, noise) = 2
      BY DEF RCtestBK, RCTable
    <2> QED
      BY <2>1 DEF ht
  <1> QED
    BY <1>5, <1>6, <1>10, <1>11 DEF n, est

\* Noise tried, or a number.
LEMMA HealthTried ==
  ASSUME ServicesNext
  PROVE  HealthTestsSound'
  <1>1. ASSUME Is("number")'
        PROVE  input'[2] \div 2 ^ ilog2(input'[2]) = 1
    <2>1. PICK v \in Numbers : input' = <<"number", v>>
      BY <1>1, TriedByKind DEF TryNumber
    <2>2. input'[2] = v
      BY <2>1
    <2>3. v \in Nat \ {0} /\ v \div 2 ^ 16 < 2 ^ 16
      BY ServicesAssumption
    <2>4. v \div 2 ^ ilog2(v) = 1
      BY <2>3, WidthOf, WideIs
    <2> QED
      BY <2>2, <2>4
  <1>2. CASE Is("noise")'
    <2>1. PICK H \in {12, 25, 50, 75, 100}, noise \in Noise : input' = <<"noise", H, noise>>
      BY <1>2, TriedByKind DEF TryNoise
    <2>2. input'[2] = H /\ input'[3] = noise /\ ~Is("number")'
      BY <2>1 DEF Is
    <2>3. ASample(noise)
      BY ServicesAssumption DEF ASample, ANoise
    <2>4. LET n == Samples(noise)  k == MostCommon(noise)
          IN  /\ n >= 512 => WholeBits(pmaxLGetEnt(noise), n, k)
              /\ n >= 64 => WholeBits(pmax4(noise), n, k)
      BY <2>3, EstimatesSound
    <2> QED
      BY <2>2, <2>3, <2>4, HealthOf DEF HealthTestsSound
  <1>3. CASE ~Is("noise")'
    BY <1>1, <1>3 DEF HealthTestsSound
  <1> QED
    BY <1>2, <1>3

(***************************************************************************)
(* The estimates are the min-entropy in whole bits, ilog2 is the width of  *)
(* its argument, and the proportion and repetition tests reject what they  *)
(* should (nist_algs.c): for any noise whose length fits an unsigned int.  *)
(***************************************************************************)
THEOREM HealthTestsAgree == ServicesSpec => []HealthTestsSound
  <1>1. input \in {<<kind>> : kind \in ServiceKind} => HealthTestsSound
    BY NothingTried DEF HealthTestsSound
  <1>2. HealthTestsSound /\ UNCHANGED input => HealthTestsSound'
    BY DEF HealthTestsSound, Is
  <1> QED
    BY <1>1, <1>2, HealthTried, PTL DEF ServicesSpec

-----------------------------------------------------------------------------
(***************************************************************************)
(* The service indicator: what each call tells.                            *)
(***************************************************************************)
\* A new key: when it is approved, and when there is one.
LEMMA TellingKeys ==
  ASSUME NEW k, NEW fips \in BOOLEAN, NEW works \in BOOLEAN, NEW pair \in BOOLEAN, NEW memory \in BOOLEAN
  PROVE  LET made == my_EVP_PKEY_keygen(fips, k, works, pair, memory)
             id   == PKEY_FIPS_id(k)
         IN  /\ SilentUnlessDone(made)
             /\ Approves(made) <=> /\ works /\ fips /\ id.approved /\ id.check # "verify"
                                   /\ ~(id.check = "pair" /\ memory /\ ~pair)
             /\ made.key <=> works /\ ~(fips /\ id.check = "pair" /\ memory /\ ~pair)
  BY DEF my_EVP_PKEY_keygen, Called, Approval, Approves, SilentUnlessDone

\* A key about to be used.
LEMMA TellingInits ==
  ASSUME NEW k, NEW works \in BOOLEAN
  PROVE  /\ SilentUnlessDone(InitWith(k, works))
         /\ Approves(InitWith(k, works)) <=> works /\ PKEY_FIPS_id(k).approved
  BY DEF InitWith, Called, Approval, Approves, SilentUnlessDone

\* An RSA key used.
LEMMA TellingRSA ==
  ASSUME NEW k, NEW rv
  PROVE  /\ RSAUse(k, rv).report # <<>> <=> RSAUse(k, rv).rv = 1
         /\ Approves(RSAUse(k, rv)) <=> rv = 1 /\ BytesIn(k.bits) \in 256 .. 512
  BY ZenonT(60) DEF RSAUse, Called, Approval, Approves

\* A DH key used.
LEMMA TellingDH ==
  ASSUME NEW k, NEW length
  PROVE  /\ DHUse(k, length).report # <<>> <=> DHUse(k, length).rv = 1
         /\ Approves(DHUse(k, length)) <=> length = 1 /\ BytesIn(k.bits) \in 256 .. 1024
  BY ZenonT(60) DEF DHUse, Called, Approval, Approves

\* Numbers: every algorithm has its own, save those of few bits.
LEMMA PlainNumber ==
  ASSUME NEW name, name \notin FewBits
  PROVE  Number(name) = IF name \in HasNumber \cup Unlisted THEN name ELSE "none"
  BY DEF Number, FewBits

LEMMA FewBitsNumber ==
  ASSUME NEW name \in FewBits
  PROVE  /\ name \in {"AES-128-CFB1", "AES-128-CFB8"} => Number(name) = "AES-128-CFB"
         /\ name \in {"AES-192-CFB1", "AES-192-CFB8"} => Number(name) = "AES-192-CFB"
         /\ name \in {"AES-256-CFB1", "AES-256-CFB8"} => Number(name) = "AES-256-CFB"
         /\ Number(name) \in {"AES-128-CFB", "AES-192-CFB", "AES-256-CFB"}
  <1>1. CASE name \in {"AES-128-CFB1", "AES-128-CFB8"}
    BY <1>1 DEF Number, FewBits
  <1>2. CASE name \in {"AES-192-CFB1", "AES-192-CFB8"}
    BY <1>2 DEF Number, FewBits
  <1>3. CASE name \in {"AES-256-CFB1", "AES-256-CFB8"}
    BY <1>3 DEF Number, FewBits
  <1> QED
    BY <1>1, <1>2, <1>3 DEF FewBits

\* A digest with a number is approved by number iff it is by name.
LEMMA DigestByNumber ==
  ASSUME NEW md \in DigestNames
  PROVE  ~(Number(md) # "none" /\ ~FIPS_byNID(C_diglist, Number(md))) <=> Approved(md)
  <1>1. CASE md = "none"
    <2>1. Number(md) = "none"
      BY <1>1, PlainNumber DEF FewBits
    <2> QED
      BY <1>1, <2>1 DEF Approved
  <1>2. CASE md \in FewBits
    <2>1. Number(md) \in {"AES-128-CFB", "AES-192-CFB", "AES-256-CFB"}
      BY <1>2, FewBitsNumber
    <2>2. \A entry \in DOMAIN C_diglist : Number(entry) \notin {"AES-128-CFB", "AES-192-CFB", "AES-256-CFB"}
      BY PlainNumber DEF C_diglist, FewBits
    <2>3. ByNumber(C_diglist, Number(md)) = {}
      BY <2>1, <2>2 DEF ByNumber
    <2>4. NID_cache_lookup(C_diglist, Number(md)) = {FALSE}
      BY <2>3 DEF NID_cache_lookup
    <2>5. ~FIPS_byNID(C_diglist, Number(md))
      BY <2>4 DEF FIPS_byNID
    <2> QED
      BY <1>2, <2>1, <2>5 DEF Approved, C_diglist, FewBits
  <1>3. CASE md # "none" /\ md \notin FewBits
    <2>1. Number(md) = md
      BY <1>3, PlainNumber, KeyServicesAssumption
    <2>2. \A entry \in DOMAIN C_diglist : Number(entry) = md => entry = md
      BY <1>3, PlainNumber DEF C_diglist, FewBits
    <2>3. ByNumber(C_diglist, md) = IF md \in DOMAIN C_diglist THEN {md} ELSE {}
      BY <1>3, <2>1, <2>2 DEF ByNumber
    <2>4. NID_cache_lookup(C_diglist, md) = IF md \in DOMAIN C_diglist THEN {C_diglist[md]} ELSE {FALSE}
      BY <2>3 DEF NID_cache_lookup
    <2>5. FIPS_byNID(C_diglist, md) = IF md \in DOMAIN C_diglist THEN C_diglist[md] ELSE FALSE
      BY <2>4 DEF FIPS_byNID
    <2> QED
      BY <1>3, <2>1, <2>5 DEF Approved
  <1> QED
    BY <1>1, <1>2, <1>3

\* A key about to be used with a digest.
LEMMA TellingDigests ==
  ASSUME NEW k, NEW approved \in BOOLEAN, NEW md \in DigestNames, NEW works \in BOOLEAN
  PROVE  LET init == DigestInit(k, approved, md, works)
         IN  /\ SilentUnlessDone(init)
             /\ Approves(init) <=> works /\ approved /\ Approved(md)
  BY DigestByNumber DEF DigestInit, Called, Approval, Approves, SilentUnlessDone

\* What the identification of a key says.
LEMMA IdentifiedAs ==
  ASSUME NEW k
  PROVE  /\ ApprovedKey(k) => PKEY_FIPS_id(k) =
              [approved |-> TRUE, check |-> IF k.kind \in {"Ed", "EC", "RSA"} THEN "pair"
                                            ELSE IF k.kind = "DSA" THEN "verify" ELSE "none"]
         /\ ~ApprovedKey(k) => PKEY_FIPS_id(k) =
              [approved |-> FALSE, check |-> IF k.kind = "Ed" THEN "pair" ELSE "none"]
  <1>1. ApprovedKey(k) \in BOOLEAN
    BY DEF ApprovedKey
  <1> QED
    BY <1>1 DEF PKEY_FIPS_id

LEMMA Identified ==
  ASSUME NEW k
  PROVE  LET id == PKEY_FIPS_id(k)
         IN  /\ id.approved => Strong(k)
             /\ id.approved /\ k.kind = "DSA" => id.check = "verify"
             /\ id.approved /\ id.check = "none" => k.kind \in {"DH", "FFDHE"}
             /\ id.check \in {"none", "pair", "verify"}
             /\ id.approved \in BOOLEAN
  <1> DEFINE id == PKEY_FIPS_id(k)
  <1>1. CASE ApprovedKey(k)
    <2>1. Strong(k) /\ k.kind \in {"DH", "FFDHE", "EC", "DSA", "RSA"}
      BY <1>1 DEF ApprovedKey, ApprovedCurves, Strong
    <2>2. id = [approved |-> TRUE, check |-> IF k.kind \in {"Ed", "EC", "RSA"} THEN "pair"
                                             ELSE IF k.kind = "DSA" THEN "verify" ELSE "none"]
      BY <1>1, IdentifiedAs
    <2>3. id.approved = TRUE /\ id.check = IF k.kind \in {"Ed", "EC", "RSA"} THEN "pair"
                                           ELSE IF k.kind = "DSA" THEN "verify" ELSE "none"
      BY <2>2
    <2> HIDE DEF id
    <2>4. /\ id.approved => Strong(k)
          /\ id.approved /\ k.kind = "DSA" => id.check = "verify"
          /\ id.approved /\ id.check = "none" => k.kind \in {"DH", "FFDHE"}
          /\ id.check \in {"none", "pair", "verify"}
          /\ id.approved \in BOOLEAN
      BY <2>1, <2>3
    <2> QED
      BY <2>4 DEF id
  <1>2. CASE ~ApprovedKey(k)
    <2>1. id = [approved |-> FALSE, check |-> IF k.kind = "Ed" THEN "pair" ELSE "none"]
      BY <1>2, IdentifiedAs
    <2>2. id.approved = FALSE /\ id.check = IF k.kind = "Ed" THEN "pair" ELSE "none"
      BY <2>1
    <2> HIDE DEF id
    <2>3. /\ ~id.approved
          /\ id.check \in {"none", "pair", "verify"}
          /\ id.approved \in BOOLEAN
      BY <2>2
    <2> QED
      BY <2>3 DEF id
  <1> QED
    BY <1>1, <1>2

\* Hence what is told of one key agrees.
LEMMA KeyReported ==
  ASSUME NEW k, NEW fips \in BOOLEAN, NEW works \in BOOLEAN, NEW pair \in BOOLEAN,
         NEW memory \in BOOLEAN, NEW md \in DigestNames
  PROVE  KeyReports(k, fips, works, pair, memory, md)
  <1> DEFINE made   == my_EVP_PKEY_keygen(fips, k, works, pair, memory)
             sign   == my_EVP_DigestSignInit(k, md, works)
             verify == my_EVP_DigestVerifyInit(k, md, works)
             init   == InitWith(k, works)
             id     == PKEY_FIPS_id(k)
  <1>1. /\ SilentUnlessDone(made)
        /\ Approves(made) <=> /\ works /\ fips /\ id.approved /\ id.check # "verify"
                              /\ ~(id.check = "pair" /\ memory /\ ~pair)
        /\ made.key <=> works /\ ~(fips /\ id.check = "pair" /\ memory /\ ~pair)
    BY TellingKeys
  <1>2. /\ id.approved => Strong(k)
        /\ id.approved /\ k.kind = "DSA" => id.check = "verify"
        /\ id.approved /\ id.check = "none" => k.kind \in {"DH", "FFDHE"}
        /\ id.check \in {"none", "pair", "verify"}
        /\ id.approved \in BOOLEAN
    BY Identified
  <1>3. /\ SilentUnlessDone(sign)
        /\ Approves(sign) <=> works /\ id.approved /\ id.check # "verify" /\ Approved(md)
    <2>1. (id.approved /\ id.check # "verify") \in BOOLEAN
      OBVIOUS
    <2> QED
      BY <2>1, TellingDigests DEF my_EVP_DigestSignInit
  <1>4. /\ SilentUnlessDone(verify)
        /\ Approves(verify) <=> works /\ id.approved /\ Approved(md)
    BY <1>2, TellingDigests DEF my_EVP_DigestVerifyInit
  <1>5. /\ SilentUnlessDone(init)
        /\ Approves(init) <=> works /\ id.approved
    BY TellingInits
  <1>6. KeyReports(k, fips, works, pair, memory, md) <=>
          /\ \A call \in {made, sign, verify} \cup {init} :
               SilentUnlessDone(call) /\ (Approves(call) => Strong(k))
          /\ Approves(made) \/ Approves(sign) => k.kind # "DSA"
          /\ Approves(sign) => Approves(verify) /\ Approved(md)
          /\ Approves(sign) \/ Approves(verify) => Approves(init)
          /\ fips /\ made.key /\ Approved(md) => (Approves(made) <=> Approves(sign))
          /\ Approves(made) => fips /\ (pair \/ ~memory \/ k.kind \in {"DH", "FFDHE"})
          /\ fips /\ ~pair /\ memory /\ made.key => id.check # "pair"
    BY DEF KeyReports, my_EVP_PKEY_sign_init, my_EVP_PKEY_verify_init, my_EVP_PKEY_derive_init
  <1> HIDE DEF made, sign, verify, init, id
  <1> QED
    BY <1>1, <1>2, <1>3, <1>4, <1>5, <1>6

-----------------------------------------------------------------------------
\* Sizes in bytes, and in bits.
LEMMA SizesInBytes ==
  ASSUME NEW bits \in Nat
  PROVE  /\ BytesIn(bits) \in Nat
         /\ BytesIn(bits) \in 256 .. 512  <=> bits \in 2041 .. 4096
         /\ BytesIn(bits) \in 256 .. 1024 <=> bits \in 2041 .. 8192
  BY DEF BytesIn

LEMMA UseReported ==
  ASSUME NEW bits \in Nat, NEW length, NEW unmodified \in BOOLEAN
  PROVE  UseReports(bits, length, unmodified)
  <1> DEFINE rsa == Key("RSA", bits, "none")
             dh  == Key("DH", bits, "none")
  <1>1. rsa.bits = bits /\ dh.bits = bits
    BY DEF Key
  <1> HIDE DEF rsa, dh
  <1>2. ASSUME NEW rv
        PROVE  /\ RSAUse(rsa, rv).report # <<>> <=> RSAUse(rsa, rv).rv = 1
               /\ Approves(RSAUse(rsa, rv)) => bits \in 2041 .. 4096
    <2>1. BytesIn(bits) \in 256 .. 512 => bits \in 2041 .. 4096
      BY SizesInBytes
    <2>2. BytesIn(rsa.bits) = BytesIn(bits)
      BY <1>1
    <2> QED
      <3>1. RSAUse(rsa, rv).report # <<>> <=> RSAUse(rsa, rv).rv = 1
        BY TellingRSA, ZenonT(40)
      <3>2. Approves(RSAUse(rsa, rv)) => BytesIn(rsa.bits) \in 256 .. 512
        BY TellingRSA, ZenonT(40)
      <3> QED
        BY <2>1, <2>2, <3>1, <3>2
  <1>3. ASSUME NEW rv
        PROVE  /\ DHUse(dh, rv).report # <<>> <=> DHUse(dh, rv).rv = 1
               /\ Approves(DHUse(dh, rv)) => bits \in 2041 .. 8192
    <2>1. BytesIn(bits) \in 256 .. 1024 => bits \in 2041 .. 8192
      BY SizesInBytes
    <2>2. BytesIn(dh.bits) = BytesIn(bits)
      BY <1>1
    <2> QED
      <3>1. DHUse(dh, rv).report # <<>> <=> DHUse(dh, rv).rv = 1
        BY TellingDH, ZenonT(40)
      <3>2. Approves(DHUse(dh, rv)) => BytesIn(dh.bits) \in 256 .. 1024
        BY TellingDH, ZenonT(40)
      <3> QED
        BY <2>1, <2>2, <3>1, <3>2
  <1>4. \A call \in {my_RSA_sign(rsa, length = 1), my_RSA_verify(rsa, length = 1),
                     my_RSA_public_encrypt(rsa, unmodified), my_RSA_private_encrypt(rsa, unmodified),
                     my_RSA_public_decrypt(rsa, length, unmodified),
                     my_RSA_private_decrypt(rsa, length, unmodified)} :
          \E rv : call = RSAUse(rsa, rv)
    BY DEF my_RSA_sign, my_RSA_verify, my_RSA_public_encrypt, my_RSA_private_encrypt,
           my_RSA_public_decrypt, my_RSA_private_decrypt, RSACipher
  <1>5. \A call \in {my_DH_compute_key(dh, length), my_DH_compute_key_padded(dh)} :
          \E rv : call = DHUse(dh, rv)
    BY DEF my_DH_compute_key, my_DH_compute_key_padded
  <1>6. \A call \in {my_RSA_sign(rsa, length = 1), my_RSA_verify(rsa, length = 1),
                     my_RSA_public_encrypt(rsa, unmodified), my_RSA_private_encrypt(rsa, unmodified),
                     my_RSA_public_decrypt(rsa, length, unmodified),
                     my_RSA_private_decrypt(rsa, length, unmodified)} :
          /\ call.report # <<>> <=> call.rv = 1
          /\ Approves(call) => bits \in 2041 .. 4096
    BY <1>2, <1>4
  <1>7. \A call \in {my_DH_compute_key(dh, length), my_DH_compute_key_padded(dh)} :
          /\ call.report # <<>> <=> call.rv = 1
          /\ Approves(call) => bits \in 2041 .. 8192
    BY <1>3, <1>5
  <1> QED
    BY <1>6, <1>7 DEF UseReports, rsa, dh

-----------------------------------------------------------------------------
\* Entries of a table with one number have one flag, and where an algorithm
\* has the number of an entry it is an entry itself.
LEMMA SameFlag ==
  ASSUME NEW table \in {C_diglist, C_ciplist}, NEW name, Number(name) # "none",
         NEW entry \in DOMAIN table, Number(entry) = Number(name)
  PROVE  name \in DOMAIN table /\ table[name] = table[entry]
  <1> DEFINE CFB == {"AES-128-CFB", "AES-192-CFB", "AES-256-CFB"}
  <1>1. FewBits \cap DOMAIN C_diglist = {} /\ CFB \cap DOMAIN C_diglist = {}
    BY DEF FewBits, C_diglist
  <1>2. \A e \in FewBits \cup CFB : e \in DOMAIN C_ciplist /\ C_ciplist[e] = TRUE
    BY ZenonT(60) DEF FewBits, C_ciplist
  <1>3. \A e : Number(e) # "none" => (e \in FewBits /\ Number(e) \in CFB) \/ Number(e) = e
    BY PlainNumber, FewBitsNumber
  <1> HIDE DEF CFB
  <1>4. CASE name = entry
    BY <1>4
  <1>5. CASE name # entry
    <2>1. entry \in FewBits \cup CFB /\ name \in FewBits \cup CFB
      BY <1>3, <1>5
    <2>2. table = C_ciplist
      BY <2>1, <1>1
    <2> QED
      BY <2>1, <2>2, <1>2
  <1> QED
    BY <1>4, <1>5

\* So a search by number gives one answer.
LEMMA OneAnswer ==
  ASSUME NEW table \in {C_diglist, C_ciplist}, NEW name
  PROVE  /\ Cardinality(NID_cache_lookup(table, Number(name))) = 1
         /\ FIPS_byNID(table, Number(name)) \in BOOLEAN
         /\ FIPS_byNID(table, Number(name)) =>
              name \in DOMAIN table /\ table[name]
         /\ name \in DOMAIN table /\ Number(name) # "none" =>
              FIPS_byNID(table, Number(name)) = table[name]
  <1> DEFINE entries == ByNumber(table, Number(name))
  <1>1. \A e \in entries : /\ e \in DOMAIN table /\ Number(name) # "none"
                           /\ name \in DOMAIN table /\ table[name] = table[e]
    BY SameFlag DEF ByNumber
  <1>2. table[name] \in BOOLEAN \/ name \notin DOMAIN table
    BY DEF C_diglist, C_ciplist
  <1>3. name \in DOMAIN table /\ Number(name) # "none" => entries # {}
    BY DEF ByNumber
  <1>4. CASE entries = {}
    <2>1. NID_cache_lookup(table, Number(name)) = {FALSE}
      BY <1>4 DEF NID_cache_lookup
    <2>2. FIPS_byNID(table, Number(name)) = FALSE
      BY <2>1 DEF FIPS_byNID
    <2> HIDE DEF entries
    <2> QED
      BY <1>3, <1>4, <2>1, <2>2, FS_Singleton
  <1>5. CASE entries # {}
    <2>1. NID_cache_lookup(table, Number(name)) = {table[e] : e \in entries}
      BY <1>5 DEF NID_cache_lookup
    <2> HIDE DEF entries
    <2>2. {table[e] : e \in entries} = {table[name]}
      BY <1>1, <1>5
    <2>3. FIPS_byNID(table, Number(name)) = table[name]
      BY <2>1, <2>2 DEF FIPS_byNID
    <2> QED
      BY <1>1, <1>2, <1>5, <2>1, <2>2, <2>3, FS_Singleton
  <1> QED
    BY <1>4, <1>5

\* Whatever the name an algorithm is found by.
LEMMA NameReported ==
  ASSUME NEW table \in {C_diglist, C_ciplist}, NEW name \in DOMAIN Standing \cup DOMAIN table
  PROVE  NameReports(table, name)
  <1>1. CASE name \in DOMAIN table
    <2>1. ByName(table, name) = Called(name, TRUE, Approval(Number(name), table[name]))
      BY <1>1 DEF ByName
    <2>2. Approves(ByName(table, name)) => table[name]
      BY <2>1 DEF Called, Approval, Approves
    <2>3. ICC_EVP_get_byname(table, name).rv = name /\ ByName(table, name).rv = name
      BY <1>1, <2>1 DEF ICC_EVP_get_byname, Called
    <2> QED
      BY <1>1, <2>2, <2>3, OneAnswer DEF NameReports
  <1>2. CASE name \notin DOMAIN table
    <2> DEFINE itself == Standing[name]
    <2>1. CASE itself = "nothing"
      <3>1. ByName(table, name) = Called("NULL", FALSE, <<>>)
        BY <1>2, <2>1 DEF ByName
      <3>2. ~ByName(table, name).key /\ ~Approves(ByName(table, name))
        BY <3>1 DEF Called, Approves
      <3>3. itself \notin DOMAIN table
        BY <2>1 DEF C_diglist, C_ciplist
      <3>4. ICC_EVP_get_byname(table, name) = ByName(table, name)
        BY <1>2 DEF ICC_EVP_get_byname
      <3> QED
        BY <1>2, <3>2, <3>3, <3>4, OneAnswer DEF NameReports
    <2>2. CASE itself # "nothing"
      <3>1. ByName(table, name) =
              Called(itself, TRUE, Approval(Number(itself), FIPS_byNID(table, Number(itself))))
        BY <1>2, <2>2 DEF ByName
      <3>2. /\ ByName(table, name).rv = itself
            /\ Approves(ByName(table, name)) => FIPS_byNID(table, Number(itself))
        BY <3>1 DEF Called, Approval, Approves
      <3>3. ICC_EVP_get_byname(table, name) = ByName(table, name)
        BY <1>2 DEF ICC_EVP_get_byname
      <3>4. ASSUME itself \in DOMAIN table, itself \in HasNumber
            PROVE  ByName(table, name) = ByName(table, itself)
        <4>1. itself # "none"
          BY <3>4 DEF C_diglist, C_ciplist
        <4>2. Number(itself) # "none"
          BY <3>4, <4>1, PlainNumber, FewBitsNumber
        <4>3. FIPS_byNID(table, Number(itself)) = table[itself]
          BY <3>4, <4>2, OneAnswer
        <4> QED
          BY <3>1, <3>4, <4>3 DEF ByName
      <3> HIDE DEF itself
      <3> QED
        BY <1>2, <3>2, <3>3, <3>4, OneAnswer DEF NameReports, itself
    <2> QED
      BY <2>1, <2>2
  <1> QED
    BY <1>1, <1>2

-----------------------------------------------------------------------------
\* A password stretched, and a key wrapped.
LEMMA StretchReported ==
  ASSUME NEW md \in DigestNames \ {"none"}, NEW pass \in Nat, NEW salt \in Nat, NEW iters \in Nat,
         NEW keylen \in Nat, NEW kl \in Nat, NEW works \in BOOLEAN
  PROVE  StretchReports(md, pass, salt, iters, keylen, kl, works)
  <1>1. FIPS_byNID(C_diglist, Number(md)) <=> Approved(md)
    <2>1. Number(md) # "none"
      BY PlainNumber, FewBitsNumber, KeyServicesAssumption
    <2> QED
      BY <2>1, DigestByNumber
  <1>2. /\ SilentUnlessDone(my_PKCS5_PBKDF2_HMAC(md, pass, salt, iters, keylen, works))
        /\ Approves(my_PKCS5_PBKDF2_HMAC(md, pass, salt, iters, keylen, works)) <=>
             /\ works /\ FIPS_byNID(C_diglist, Number(md))
             /\ salt >= 16 /\ iters >= 1000 /\ keylen >= 14 /\ pass >= 10
    BY DEF my_PKCS5_PBKDF2_HMAC, Called, Approval, Approves, SilentUnlessDone
  <1>3. Approves(my_SP800_38F_KW(kl, works)) <=> kl \in {16, 24, 32, 128, 192, 256}
    <2>1. CASE kl \in {16, 128}
      BY <2>1 DEF my_SP800_38F_KW, Called, Approval, Approves
    <2>2. CASE kl \in {24, 192}
      BY <2>2 DEF my_SP800_38F_KW, Called, Approval, Approves
    <2>3. CASE kl \in {32, 256}
      BY <2>3 DEF my_SP800_38F_KW, Called, Approval, Approves
    <2>4. CASE ~(kl \in {16, 128}) /\ ~(kl \in {24, 192}) /\ ~(kl \in {32, 256})
      BY <2>4 DEF my_SP800_38F_KW, Called, Approval, Approves
    <2> QED
      BY <2>1, <2>2, <2>3, <2>4
  <1> QED
    BY <1>1, <1>2, <1>3 DEF StretchReports

\* What the wrapper that makes an RSA key tells, and whether there is a key.
LEMMA TellingRSAKeys ==
  ASSUME NEW bits \in Nat, NEW e, NEW fips \in BOOLEAN, NEW works \in BOOLEAN, NEW pair \in BOOLEAN
  PROVE  LET made == my_RSA_generate_key_ex(fips, bits, e, works, pair)
             kept == my_RSA_generate_key(fips, bits, e, works, pair)
         IN  /\ SilentUnlessDone(made) /\ SilentUnlessDone(kept)
             /\ made.rv = 1 <=> /\ works /\ bits \in 512 .. 16384 /\ (fips => pair)
                                /\ fips => bits \in 2048 .. 8192 /\ e = "fits"
             /\ Approves(kept) <=> fips /\ made.rv = 1
             /\ kept.key <=> kept.rv = 1
             /\ kept.rv = made.rv
             /\ made.rv = 1 => kept = made
  <1> DEFINE made == my_RSA_generate_key_ex(fips, bits, e, works, pair)
             kept == my_RSA_generate_key(fips, bits, e, works, pair)
             fit  == bits \in 512 .. 16384 /\ (fips => bits \in 2048 .. 8192 /\ e = "fits") /\ works
  <1> DEFINE done == /\ works /\ bits \in 512 .. 16384 /\ (fips => pair)
                     /\ fips => bits \in 2048 .. 8192 /\ e = "fits"
  <1> SUFFICES /\ SilentUnlessDone(made) /\ SilentUnlessDone(kept)
               /\ made.rv = 1 <=> done
               /\ Approves(kept) <=> fips /\ made.rv = 1
               /\ kept.key <=> kept.rv = 1
               /\ kept.rv = made.rv
               /\ made.rv = 1 => kept = made
    OBVIOUS
  <1>1. /\ made.rv = 1 => kept = [made EXCEPT !.key = TRUE]
        /\ made.rv # 1 => kept = [made EXCEPT !.key = FALSE]
    <2>1. CASE made.rv = 1
      <3>1. (made.rv = 1) = TRUE
        BY <2>1
      <3> QED
        BY <2>1, <3>1 DEF my_RSA_generate_key
    <2>2. CASE made.rv # 1
      <3>1. (made.rv = 1) = FALSE
        BY <2>2
      <3> QED
        BY <2>2, <3>1 DEF my_RSA_generate_key
    <2> QED
      BY <2>1, <2>2
  <1>2. CASE ~fit
    <2>0. ~done
      BY <1>2, SMTT(30)
    <2>1. made = [rv |-> 0, key |-> FALSE, report |-> <<>>]
      BY <1>2 DEF my_RSA_generate_key_ex, Called, ExponentFits
    <2> HIDE DEF made, kept, done
    <2>2. kept = [rv |-> 0, key |-> FALSE, report |-> <<>>]
      BY <1>1, <2>1
    <2> QED
      BY <2>0, <2>1, <2>2 DEF SilentUnlessDone, Approves
  <1>3. CASE fit /\ fips /\ ~pair
    <2>0. ~done
      BY <1>3, SMTT(30)
    <2>1. made = [rv |-> 0, key |-> TRUE, report |-> <<>>]
      BY <1>3 DEF my_RSA_generate_key_ex, Called, ExponentFits
    <2> HIDE DEF made, kept, done
    <2>2. kept = [rv |-> 0, key |-> FALSE, report |-> <<>>]
      BY <1>1, <2>1
    <2> QED
      BY <2>0, <2>1, <2>2 DEF SilentUnlessDone, Approves
  <1>4. CASE fit /\ ~(fips /\ ~pair)
    <2>0. done
      BY <1>4, SMTT(30)
    <2>1. made = [rv |-> 1, key |-> TRUE, report |-> <<"RSA", fips>>]
      BY <1>4 DEF my_RSA_generate_key_ex, Called, ExponentFits, Approval
    <2> HIDE DEF made, kept, done
    <2>2. kept = [rv |-> 1, key |-> TRUE, report |-> <<"RSA", fips>>]
      BY <1>1, <2>1
    <2> QED
      BY <2>0, <2>1, <2>2 DEF SilentUnlessDone, Approves
  <1> HIDE DEF fit, made, kept, done
  <1> QED
    BY <1>2, <1>3, <1>4

\* The other calls that make a key.
LEMMA TellingOtherKeys ==
  ASSUME NEW bits \in Nat, NEW fips \in BOOLEAN, NEW wrong \in BOOLEAN, NEW works \in BOOLEAN,
         NEW pair \in BOOLEAN, NEW bad \in Nat, NEW curve, NEW kind
  PROVE  /\ SilentUnlessDone(Parameters(kind, works)) /\ ~Approves(Parameters(kind, works))
         /\ LET dsa == my_DSA_generate_key(fips, wrong, works, bad)
            IN  ~Approves(dsa) /\ (fips /\ dsa.key => ~wrong /\ bad < 5)
         /\ fips /\ my_EC_KEY_generate_key(fips, wrong, bits, works, pair).rv = 1 => ~wrong /\ pair
         /\ Approves(my_EC_KEY_new_by_curve_name(curve, works)) <=> works /\ curve \in ApprovedCurves
  <1>1. SilentUnlessDone(Parameters(kind, works)) /\ ~Approves(Parameters(kind, works))
    BY DEF Parameters, Called, Approval, Approves, SilentUnlessDone
  <1>2. LET dsa == my_DSA_generate_key(fips, wrong, works, bad)
        IN  ~Approves(dsa) /\ (fips /\ dsa.key => ~wrong /\ bad < 5)
    BY DEF my_DSA_generate_key, Called, Approval, Approves, ICC_FAILURE
  <1>3. fips /\ my_EC_KEY_generate_key(fips, wrong, bits, works, pair).rv = 1 => ~wrong /\ pair
    BY DEF my_EC_KEY_generate_key, Called, ICC_FAILURE
  <1>4. Approves(my_EC_KEY_new_by_curve_name(curve, works)) <=> works /\ curve \in ApprovedCurves
    BY DEF my_EC_KEY_new_by_curve_name, Called, Approval, Approves
  <1> QED
    BY <1>1, <1>2, <1>3, <1>4

LEMMA TellingDHKeys ==
  ASSUME NEW k, NEW works \in BOOLEAN
  PROVE  /\ SilentUnlessDone(my_DH_generate_key(k, works))
         /\ Approves(my_DH_generate_key(k, works)) => BytesIn(k.bits) \in 256 .. 1024
  BY ZenonT(60) DEF my_DH_generate_key, Called, Approval, Approves, SilentUnlessDone

\* A key the indicator identifies, from its kind.
LEMMA IdentifiedRSA ==
  ASSUME NEW bits \in Nat
  PROVE  LET id == PKEY_FIPS_id(Key("RSA", bits, "none"))
         IN  /\ id.approved <=> bits >= 2048 /\ bits <= 4096
             /\ id.check \in {"pair", "none"}
  <1> DEFINE k == Key("RSA", bits, "none")
  <1>1. k.kind = "RSA" /\ k.bits = bits
    BY DEF Key
  <1> HIDE DEF k
  <1>2. ApprovedKey(k) <=> bits >= 2048 /\ bits <= 4096
    BY <1>1 DEF ApprovedKey
  <1>3. PKEY_FIPS_id(k).approved <=> ApprovedKey(k)
    BY IdentifiedAs
  <1>4. PKEY_FIPS_id(k).check \in {"pair", "none"}
    BY <1>1, IdentifiedAs
  <1> QED
    BY <1>2, <1>3, <1>4 DEF k

LEMMA IdentifiedCurve ==
  ASSUME NEW curve \in ApprovedCurves
  PROVE  LET k == Key("EC", 256, curve)
         IN  PKEY_FIPS_id(k).approved /\ PKEY_FIPS_id(k).check = "pair" /\ Strong(k)
  <1> DEFINE k == Key("EC", 256, curve)
  <1>1. k.kind = "EC" /\ k.curve = curve
    BY DEF Key
  <1> HIDE DEF k
  <1>2. ApprovedKey(k)
    BY <1>1 DEF ApprovedKey
  <1>3. PKEY_FIPS_id(k).approved /\ PKEY_FIPS_id(k).check = "pair"
    BY <1>1, <1>2, IdentifiedAs
  <1> QED
    BY <1>3, Identified DEF k

\* The two ways to make an RSA key agree up to 4096 bits.
LEMMA RSAKeyReported ==
  ASSUME NEW bits \in Nat, NEW e, NEW fips \in BOOLEAN, NEW works \in BOOLEAN, NEW pair \in BOOLEAN
  PROVE  RSAKeyReports(bits, e, fips, works, pair)
  <1> DEFINE rsa    == my_RSA_generate_key(fips, bits, e, works, pair)
             rsa_ex == my_RSA_generate_key_ex(fips, bits, e, works, pair)
             keygen == my_EVP_PKEY_keygen(fips, Key("RSA", bits, "none"), works, pair, TRUE)
  <1> SUFFICES /\ SilentUnlessDone(rsa) /\ SilentUnlessDone(rsa_ex) /\ SilentUnlessDone(keygen)
               /\ rsa.key => rsa.rv = 1 /\ (fips => pair)
               /\ rsa_ex.rv = 1 => rsa = rsa_ex
               /\ Approves(rsa) => fips /\ bits >= 2048
               /\ e = "fits" /\ Makes(bits) /\ works /\ pair =>
                    (Approves(rsa) <=> Approves(keygen) \/ (fips /\ Large(bits)))
    BY Zenon DEF RSAKeyReports
  <1>1. /\ SilentUnlessDone(rsa_ex) /\ SilentUnlessDone(rsa)
        /\ rsa_ex.rv = 1 <=> /\ works /\ bits \in 512 .. 16384 /\ (fips => pair)
                             /\ fips => bits \in 2048 .. 8192 /\ e = "fits"
        /\ Approves(rsa) <=> fips /\ rsa_ex.rv = 1
        /\ rsa.key <=> rsa.rv = 1
        /\ rsa.rv = rsa_ex.rv
        /\ rsa_ex.rv = 1 => rsa = rsa_ex
    BY TellingRSAKeys, SMTT(30)
  <1>2. /\ SilentUnlessDone(keygen)
        /\ (bits >= 2048 /\ bits <= 4096) \/ ~Approves(keygen)
        /\ Approves(keygen) => works /\ fips
        /\ works /\ fips /\ pair /\ (bits >= 2048 /\ bits <= 4096) => Approves(keygen)
    <2> DEFINE k == Key("RSA", bits, "none")
               id == PKEY_FIPS_id(k)
    <2>1. /\ id.approved <=> (bits >= 2048 /\ bits <= 4096)
          /\ id.check \in {"pair", "none"}
      BY IdentifiedRSA
    <2> HIDE DEF k
    <2>2. /\ SilentUnlessDone(keygen)
          /\ Approves(keygen) <=> /\ works /\ fips /\ id.approved /\ id.check # "verify"
                                  /\ ~(id.check = "pair" /\ TRUE /\ ~pair)
      BY TellingKeys DEF k
    <2> HIDE DEF id, keygen
    <2> QED
      BY <2>1, <2>2
  <1> HIDE DEF rsa, rsa_ex, keygen
  <1>3. Approves(rsa) => fips /\ bits >= 2048
    BY <1>1
  <1>4. e = "fits" /\ Makes(bits) /\ works /\ pair =>
          (Approves(rsa) <=> Approves(keygen) \/ (fips /\ Large(bits)))
    BY <1>1, <1>2 DEF Makes, Large
  <1>5. rsa_ex.rv = 1 => rsa = rsa_ex
    BY <1>1
  <1>6. rsa.key => rsa.rv = 1 /\ (fips => pair)
    BY <1>1
  <1>7. SilentUnlessDone(rsa) /\ SilentUnlessDone(rsa_ex) /\ SilentUnlessDone(keygen)
    BY <1>1, <1>2
  <1> QED
    BY <1>3, <1>4, <1>5, <1>6, <1>7

LEMMA OtherKeyReported ==
  ASSUME NEW bits \in Nat, NEW fips \in BOOLEAN, NEW wrong \in BOOLEAN, NEW works \in BOOLEAN,
         NEW pair \in BOOLEAN, NEW bad \in Nat
  PROVE  OtherKeyReports(bits, fips, wrong, works, pair, bad)
  <1> DEFINE dsa    == my_DSA_generate_key(fips, wrong, works, bad)
             ec     == my_EC_KEY_generate_key(fips, wrong, bits, works, pair)
             params == {my_DH_generate_parameters(works), my_DSA_generate_parameters(works)}
             dh     == my_DH_generate_key(Key("DH", bits, "none"), works)
  <1>1. \A call \in params : SilentUnlessDone(call) /\ ~Approves(call)
    BY TellingOtherKeys, SMTT(30) DEF my_DH_generate_parameters, my_DSA_generate_parameters
  <1>2. ~Approves(dsa) /\ (fips /\ dsa.key => ~wrong /\ bad < 5)
    BY TellingOtherKeys
  <1>3. fips /\ ec.rv = 1 => ~wrong /\ pair
    BY TellingOtherKeys
  <1>4. ASSUME NEW curve \in CurveNames
        PROVE  CurveReports(curve, fips, works)
    <2> DEFINE k == Key("EC", 256, curve)
    <2> SUFFICES ASSUME Approves(my_EC_KEY_new_by_curve_name(curve, works))
                 PROVE  Strong(k) /\ (fips => Approves(my_EVP_PKEY_keygen(fips, k, works, TRUE, TRUE)))
      BY DEF CurveReports
    <2>1. works /\ curve \in ApprovedCurves
      BY TellingOtherKeys
    <2>2. PKEY_FIPS_id(k).approved /\ PKEY_FIPS_id(k).check = "pair" /\ Strong(k)
      BY <2>1, IdentifiedCurve
    <2> HIDE DEF k
    <2> QED
      BY <2>1, <2>2, TellingKeys
  <1>5. SilentUnlessDone(dh) /\ (Approves(dh) => bits > 2040)
    <2>1. Key("DH", bits, "none").bits = bits
      BY DEF Key
    <2>2. BytesIn(bits) \in 256 .. 1024 => bits > 2040
      BY SizesInBytes
    <2> QED
      BY <2>1, <2>2, TellingDHKeys
  <1>6. \A curve \in CurveNames : CurveReports(curve, fips, works)
    BY <1>4
  <1>7. fips /\ dsa.key => ~wrong /\ bad < 5
    BY <1>2
  <1>8. Approves(dh) => bits > 2040
    BY <1>5
  <1>9. SilentUnlessDone(dh) /\ ~Approves(dsa)
    BY <1>2, <1>5
  <1> QED
    BY <1>1, <1>3, <1>6, <1>7, <1>8, <1>9 DEF OtherKeyReports

-----------------------------------------------------------------------------
\* One call tried.
LEMMA IndicatorTried ==
  ASSUME KeyServicesNext
  PROVE  IndicatorSound'
  <1>1. CASE TryKey
    <2>1. PICK k \in EachKey, fips \in BOOLEAN, works \in BOOLEAN, pair \in BOOLEAN, memory \in BOOLEAN,
               md \in DigestNames : input' = <<"key", k, fips, works, pair, memory, md>>
      BY <1>1 DEF TryKey
    <2>2. ~Is("generate")' /\ ~Is("use")' /\ ~Is("name")' /\ ~Is("stretch")'
      BY <2>1 DEF Is
    <2>3. /\ input'[2] = k /\ input'[3] = fips /\ input'[4] = works /\ input'[5] = pair
          /\ input'[6] = memory /\ input'[7] = md
      BY <2>1
    <2> QED
      BY <2>2, <2>3, KeyReported DEF IndicatorSound
  <1>2. CASE TryGenerate
    <2>1. PICK bits \in Sizes, e \in {"fits", "small"}, fips \in BOOLEAN, wrong \in BOOLEAN,
               works \in BOOLEAN, pair \in BOOLEAN, bad \in 0 .. 6 :
            input' = <<"generate", bits, e, fips, wrong, works, pair, bad>>
      BY <1>2 DEF TryGenerate
    <2>2. ~Is("key")' /\ ~Is("use")' /\ ~Is("name")' /\ ~Is("stretch")'
      BY <2>1 DEF Is
    <2>3. /\ input'[2] = bits /\ input'[3] = e /\ input'[4] = fips /\ input'[5] = wrong
          /\ input'[6] = works /\ input'[7] = pair /\ input'[8] = bad
      BY <2>1
    <2>4. bits \in Nat /\ bad \in Nat
      BY KeyServicesAssumption
    <2> QED
      BY <2>2, <2>3, <2>4, RSAKeyReported, OtherKeyReported DEF IndicatorSound
  <1>3. CASE TryUse
    <2>1. PICK bits \in Sizes, length \in {-1, 0, 1, 20, 256}, unmodified \in BOOLEAN :
            input' = <<"use", bits, length, unmodified>>
      BY <1>3 DEF TryUse
    <2>2. ~Is("key")' /\ ~Is("generate")' /\ ~Is("name")' /\ ~Is("stretch")'
      BY <2>1 DEF Is
    <2>3. input'[2] = bits /\ input'[3] = length /\ input'[4] = unmodified
      BY <2>1
    <2>4. bits \in Nat
      BY KeyServicesAssumption
    <2> QED
      BY <2>2, <2>3, <2>4, UseReported DEF IndicatorSound
  <1>4. CASE TryName
    <2>1. PICK table \in {C_diglist, C_ciplist},
               name \in DOMAIN Standing \cup DOMAIN C_diglist \cup DOMAIN C_ciplist :
            /\ name \in DOMAIN Standing \cup DOMAIN table
            /\ input' = <<"name", table, name>>
      BY <1>4 DEF TryName
    <2>2. ~Is("key")' /\ ~Is("generate")' /\ ~Is("use")' /\ ~Is("stretch")'
      BY <2>1 DEF Is
    <2>3. input'[2] = table /\ input'[3] = name
      BY <2>1
    <2> QED
      BY <2>1, <2>2, <2>3, NameReported DEF IndicatorSound
  <1>5. CASE TryStretch
    <2>1. PICK md \in DigestNames \ {"none"}, pass \in {9, 10}, salt \in {15, 16}, iters \in {999, 1000},
               keylen \in {13, 14}, kl \in {8, 16, 24, 32, 128, 192, 256}, works \in BOOLEAN :
            input' = <<"stretch", md, pass, salt, iters, keylen, kl, works>>
      BY <1>5 DEF TryStretch
    <2>2. ~Is("key")' /\ ~Is("generate")' /\ ~Is("use")' /\ ~Is("name")'
      BY <2>1 DEF Is
    <2>3. /\ input'[2] = md /\ input'[3] = pass /\ input'[4] = salt /\ input'[5] = iters
          /\ input'[6] = keylen /\ input'[7] = kl /\ input'[8] = works
      BY <2>1
    <2>4. pass \in Nat /\ salt \in Nat /\ iters \in Nat /\ keylen \in Nat /\ kl \in Nat
      OBVIOUS
    <2> QED
      BY <2>2, <2>3, <2>4, StretchReported DEF IndicatorSound
  <1>6. CASE TryWrap
    <2>1. ~Is("key")' /\ ~Is("generate")' /\ ~Is("use")' /\ ~Is("name")' /\ ~Is("stretch")'
      BY <1>6 DEF TryWrap, Is
    <2> QED
      BY <2>1 DEF IndicatorSound
  <1> QED
    BY <1>1, <1>2, <1>3, <1>4, <1>5, <1>6 DEF KeyServicesNext

(***************************************************************************)
(* The indicator approves no key, algorithm or call that is not, whatever  *)
(* the key is made or used by (the wrappers of icclib.c, nid_cache.c), and *)
(* the ways to make a key agree: for any sizes of keys, curves, digests    *)
(* and names, where OpenSSL has a number for every digest.                 *)
(***************************************************************************)
THEOREM IndicatorReports == KeyServicesSpec => []IndicatorSound
  <1>1. input \in {<<kind>> : kind \in KeyServiceKind} => IndicatorSound
    BY DEF IndicatorSound, Is
  <1>2. IndicatorSound /\ UNCHANGED input => IndicatorSound'
    BY DEF IndicatorSound, Is
  <1> QED
    BY <1>1, <1>2, IndicatorTried, PTL DEF KeyServicesSpec

-----------------------------------------------------------------------------
(***************************************************************************)
(* Key wrapping: what is wrapped is unwrapped.                             *)
(***************************************************************************)
Semiblock == [1 .. 8 -> Octet]
Block     == [1 .. 16 -> Octet]

\* The cipher and its inverse, with one key.
Permutes(key) ==
  \A block \in Block :
    /\ Encipher(key, block) \in Block /\ Decipher(key, block) \in Block
    /\ Decipher(key, Encipher(key, block)) = block
    /\ Encipher(key, Decipher(key, block)) = block

\* What it enciphers it deciphers, in both directions.
LEMMA CipherBack ==
  ASSUME NEW key, Permutes(key), NEW isEnc \in BOOLEAN, NEW block \in Block
  PROVE  /\ Forward(key, isEnc, block) \in Block
         /\ Backward(key, isEnc, Forward(key, isEnc, block)) = block
  BY DEF Permutes, Forward, Backward

\* The number of a step is in the tag twice.
LEMMA CountBack ==
  ASSUME NEW A \in Semiblock, NEW t \in Nat, t < 4294967296
  PROVE  XorCount(A, t) \in Semiblock /\ XorCount(XorCount(A, t), t) = A
  <1> DEFINE mask == [i \in 1 .. 8 |-> IF i <= 4 THEN 0 ELSE FourBytes(t)[i - 4]]
  <1>1. t \div 16777216 \in 0 .. 255
    OBVIOUS
  <1>2. /\ FourBytes(t)[1] = t \div 16777216 /\ FourBytes(t)[2] = (t \div 65536) % 256
        /\ FourBytes(t)[3] = (t \div 256) % 256 /\ FourBytes(t)[4] = t % 256
    BY DEF FourBytes
  <1>3. \A j \in 1 .. 4 : FourBytes(t)[j] \in Octet
    BY <1>1, <1>2 DEF Octet
  <1>4. mask \in Semiblock
    <2> SUFFICES ASSUME NEW i \in 1 .. 8 PROVE mask[i] \in Octet
      BY DEF Semiblock
    <2>1. CASE i <= 4
      BY <2>1 DEF Octet
    <2>2. CASE i > 4
      BY <2>2, <1>3
    <2> QED
      BY <2>1, <2>2
  <1> HIDE DEF mask
  <1>5. \A S \in Semiblock : XorCount(S, t) = [i \in 1 .. 8 |-> BitXor(S[i], mask[i])]
    BY DEF XorCount, mask
  <1>6. \A S \in Semiblock : XorCount(S, t) \in Semiblock
    BY <1>4, <1>5, BitXorAssumption DEF Semiblock
  <1>7. \A i \in 1 .. 8 : XorCount(XorCount(A, t), t)[i] = A[i]
    BY <1>4, <1>5, <1>6, BitXorAssumption DEF Semiblock
  <1>8. XorCount(XorCount(A, t), t) \in Semiblock
    BY <1>6
  <1> QED
    BY <1>6, <1>7, <1>8 DEF Semiblock

\* A block of the cipher is a tag and a semiblock.
LEMMA BlockOf ==
  ASSUME NEW A \in Semiblock, NEW b \in Semiblock
  PROVE  /\ Tagged(A, <<b>>) \in Block
         /\ Semiblocks(Tagged(A, <<b>>))[1] = A /\ Semiblocks(Tagged(A, <<b>>))[2] = b
  <1> DEFINE B == Tagged(A, <<b>>)
  <1>1. B = [k \in 1 .. 16 |-> IF k <= 8 THEN A[k] ELSE b[((k - 1) % 8) + 1]]
    <2>1. \A k \in 1 .. 16 : k > 8 => <<b>>[(k - 1) \div 8] = b
      OBVIOUS
    <2> QED
      BY <2>1 DEF Tagged
  <1>2. B \in Block
    BY <1>1 DEF Block, Semiblock
  <1> HIDE DEF B
  <1>3. Len(B) = 16
    BY <1>2 DEF Block
  <1>4. Semiblocks(B) = [i \in 1 .. 2 |-> [j \in 1 .. 8 |-> B[8 * (i - 1) + j]]]
    BY <1>3 DEF Semiblocks
  <1>5. \A j \in 1 .. 8 : B[8 * (1 - 1) + j] = A[j] /\ B[8 * (2 - 1) + j] = b[j]
    BY <1>1
  <1> QED
    BY <1>2, <1>4, <1>5 DEF Semiblock, B

\* And every block is.
LEMMA HalvesOf ==
  ASSUME NEW B \in Block
  PROVE  /\ Semiblocks(B)[1] \in Semiblock /\ Semiblocks(B)[2] \in Semiblock
         /\ Tagged(Semiblocks(B)[1], <<Semiblocks(B)[2]>>) = B
  <1>1. Len(B) = 16
    BY DEF Block
  <1>2. Semiblocks(B) = [i \in 1 .. 2 |-> [j \in 1 .. 8 |-> B[8 * (i - 1) + j]]]
    BY <1>1 DEF Semiblocks
  <1>3. /\ Semiblocks(B)[1] = [j \in 1 .. 8 |-> B[j]]
        /\ Semiblocks(B)[2] = [j \in 1 .. 8 |-> B[8 + j]]
    BY <1>2
  <1>4. Semiblocks(B)[1] \in Semiblock /\ Semiblocks(B)[2] \in Semiblock
    BY <1>3 DEF Semiblock, Block
  <1> DEFINE A == Semiblocks(B)[1]  b == Semiblocks(B)[2]
  <1>5. \A k \in 1 .. 16 : k > 8 => <<b>>[(k - 1) \div 8] = b
    OBVIOUS
  <1>6. \A k \in 1 .. 16 : IF k <= 8 THEN A[k] = B[k] ELSE b[((k - 1) % 8) + 1] = B[k]
    BY <1>3
  <1> HIDE DEF A, b
  <1>7. Tagged(A, <<b>>) = B
    BY <1>5, <1>6 DEF Tagged, Block
  <1> QED
    BY <1>4, <1>7 DEF A, b

\* The rotations work on a tag and n semiblocks, in fewer steps than fit 32 bits.
Rotating(n) == [A : Semiblock, R : [1 .. n -> Semiblock]]

Turnable == {n \in Nat : n > 0 /\ n <= 268435456}

\* A step of unwrapping undoes the step of wrapping with the same number.
LEMMA StepBack ==
  ASSUME NEW key, Permutes(key), NEW isEnc \in BOOLEAN, NEW n \in Turnable,
         NEW t \in 1 .. 6 * n, NEW w \in Rotating(n)
  PROVE  /\ WrapStep(key, isEnc, n, t, w) \in Rotating(n)
         /\ UnwrapStep(key, isEnc, n, t, WrapStep(key, isEnc, n, t, w)) = w
  <1> DEFINE i    == Turning(n, t)
             T    == Tagged(w.A, <<w.R[i]>>)
             C    == Forward(key, isEnc, T)
             B    == Semiblocks(C)
             next == WrapStep(key, isEnc, n, t, w)
  <1>1. n \in Nat /\ n > 0 /\ t \in Nat /\ t < 4294967296
    BY DEF Turnable
  <1>2. i \in 1 .. n
    BY <1>1 DEF Turning
  <1>3. PICK A \in Semiblock, R \in [1 .. n -> Semiblock] : w = [A |-> A, R |-> R]
    BY DEF Rotating
  <1>4. w.A = A /\ w.R = R /\ R[i] \in Semiblock
    BY <1>2, <1>3
  <1>5. T \in Block /\ Semiblocks(T)[1] = A /\ Semiblocks(T)[2] = R[i]
    BY <1>4, BlockOf
  <1> HIDE DEF T
  <1>6. C \in Block /\ Backward(key, isEnc, C) = T
    BY <1>5, CipherBack
  <1> HIDE DEF C
  <1>7. B[1] \in Semiblock /\ B[2] \in Semiblock /\ Tagged(B[1], <<B[2]>>) = C
    BY <1>6, HalvesOf
  <1>8. next = [A |-> XorCount(B[1], t), R |-> [R EXCEPT ![i] = B[2]]]
    BY <1>4 DEF WrapStep, B, C, T
  <1> HIDE DEF B, i
  <1>9. XorCount(B[1], t) \in Semiblock /\ XorCount(XorCount(B[1], t), t) = B[1]
    BY <1>1, <1>7, CountBack
  <1>10. [R EXCEPT ![i] = B[2]] \in [1 .. n -> Semiblock] /\ [R EXCEPT ![i] = B[2]][i] = B[2]
    BY <1>2, <1>3, <1>7
  <1> HIDE DEF next
  <1>11. next.A = XorCount(B[1], t) /\ next.R = [R EXCEPT ![i] = B[2]] /\ next.R[i] = B[2]
    BY <1>8, <1>10
  <1>12. next \in Rotating(n)
    BY <1>8, <1>9, <1>10 DEF Rotating
  <1>13. Backward(key, isEnc, Tagged(XorCount(next.A, t), <<next.R[i]>>)) = T
    BY <1>6, <1>7, <1>9, <1>11
  <1>14. UnwrapStep(key, isEnc, n, t, next) = [A |-> A, R |-> [next.R EXCEPT ![i] = R[i]]]
    BY <1>5, <1>13 DEF UnwrapStep, i
  <1>15. [next.R EXCEPT ![i] = R[i]] = R
    BY <1>2, <1>3, <1>11
  <1> QED
    BY <1>3, <1>12, <1>14, <1>15 DEF next

\* What the steps of wrapping come to, one after the other.
After(key, isEnc, n, w, steps) ==
  /\ steps \in [0 .. 6 * n -> Rotating(n)] /\ steps[0] = w
  /\ \A i \in 1 .. 6 * n : steps[i] = WrapStep(key, isEnc, n, i, steps[i - 1])

\* There are such steps, and Rotate is the last.
LEMMA Rotated ==
  ASSUME NEW key, Permutes(key), NEW isEnc \in BOOLEAN, NEW n \in Turnable, NEW w \in Rotating(n)
  PROVE  \E steps : After(key, isEnc, n, w, steps) /\ Rotate(key, isEnc, n, w) = steps[6 * n]
  <1> DEFINE Step(i, s) == WrapStep(key, isEnc, n, i, s)
             Upto(m, f) == f = [i \in 0 .. m |-> IF i = 0 THEN w ELSE Step(i, f[i - 1])]
             Some       == {m \in Nat : \E f : Upto(m, f)}
  <1>1. n \in Nat /\ 6 * n \in Nat
    BY DEF Turnable
  <1>2. Rotate(key, isEnc, n, w) = (CHOOSE f : Upto(6 * n, f))[6 * n]
    BY DEF Rotate
  <1>3. \A i \in 1 .. 6 * n, s \in Rotating(n) : Step(i, s) \in Rotating(n)
    BY StepBack
  <1>4. \A i, s : Step(i, s) = WrapStep(key, isEnc, n, i, s)
    OBVIOUS
  <1> HIDE DEF Step
  <1>5. 0 \in Some
    <2>1. Upto(0, [i \in 0 .. 0 |-> w])
      OBVIOUS
    <2> QED
      BY <2>1
  <1>6. ASSUME NEW m \in Nat, m \in Some PROVE m + 1 \in Some
    <2>1. PICK f : Upto(m, f)
      BY <1>6
    <2> DEFINE g == [i \in 0 .. m + 1 |-> IF i <= m THEN f[i] ELSE Step(m + 1, f[m])]
    <2>2. \A i \in 0 .. m + 1 : g[i] = IF i = 0 THEN w ELSE Step(i, g[i - 1])
      BY <2>1
    <2>3. Upto(m + 1, g)
      <3>1. g = [i \in 0 .. m + 1 |-> g[i]]
        OBVIOUS
      <3> HIDE DEF g
      <3> QED
        BY <2>2, <3>1
    <2> HIDE DEF g, Upto
    <2> QED
      BY <2>3
  <1>7. 6 * n \in Some
    <2> HIDE DEF Some
    <2> QED
      BY <1>1, <1>5, <1>6, EveryNumber
  <1>8. PICK f : Upto(6 * n, f)
    BY <1>7
  <1> DEFINE steps == CHOOSE h : Upto(6 * n, h)
  <1>9. Upto(6 * n, steps)
    BY <1>8
  <1>10. \A i \in 0 .. 6 * n : steps[i] = IF i = 0 THEN w ELSE Step(i, steps[i - 1])
    BY <1>9
  <1>11. DOMAIN steps = 0 .. 6 * n /\ steps = [i \in 0 .. 6 * n |-> steps[i]]
    BY <1>9
  <1>12. Rotate(key, isEnc, n, w) = steps[6 * n]
    BY <1>2
  <1> HIDE DEF steps, Upto
  <1> DEFINE Fine == {m \in Nat : m <= 6 * n => steps[m] \in Rotating(n)}
  <1>13. 0 \in Fine
    BY <1>1, <1>10
  <1>14. ASSUME NEW m \in Nat, m \in Fine PROVE m + 1 \in Fine
    <2>1. CASE m + 1 <= 6 * n
      <3>1. steps[m + 1] = Step(m + 1, steps[m]) /\ steps[m] \in Rotating(n)
        BY <1>1, <1>10, <1>14, <2>1
      <3> QED
        BY <1>1, <1>3, <2>1, <3>1
    <2> QED
      BY <1>1, <2>1
  <1>15. Nat \subseteq Fine
    <2> HIDE DEF Fine
    <2> QED
      BY <1>13, <1>14, EveryNumber
  <1>16. \A i \in 0 .. 6 * n : steps[i] \in Rotating(n)
    BY <1>1, <1>15
  <1>17. \A i \in 1 .. 6 * n : steps[i] = WrapStep(key, isEnc, n, i, steps[i - 1])
    BY <1>1, <1>4, <1>10
  <1>18. After(key, isEnc, n, w, steps)
    <2>1. steps \in [0 .. 6 * n -> Rotating(n)]
      BY <1>11, <1>16
    <2>2. steps[0] = w
      BY <1>1, <1>10
    <2> QED
      BY <1>17, <2>1, <2>2 DEF After
  <1> QED
    BY <1>12, <1>18

\* Unwrapping takes them back, the last first.
LEMMA RotatedBack ==
  ASSUME NEW key, Permutes(key), NEW isEnc \in BOOLEAN, NEW n \in Turnable, NEW w \in Rotating(n)
  PROVE  /\ Rotate(key, isEnc, n, w) \in Rotating(n)
         /\ RotateBack(key, isEnc, n, Rotate(key, isEnc, n, w)) = w
  <1>1. PICK steps : After(key, isEnc, n, w, steps) /\ Rotate(key, isEnc, n, w) = steps[6 * n]
    BY Rotated
  <1>2. n \in Nat /\ 6 * n \in Nat
    BY DEF Turnable
  <1> DEFINE last == steps[6 * n]
             Back(i, s) == UnwrapStep(key, isEnc, n, 6 * n - i + 1, s)
             Undone(f) == f = [i \in 0 .. 6 * n |-> IF i = 0 THEN last ELSE Back(i, f[i - 1])]
             back == [i \in 0 .. 6 * n |-> steps[6 * n - i]]
  <1>3. \A i \in 0 .. 6 * n : steps[i] \in Rotating(n)
    BY <1>1 DEF After
  <1>4. \A t \in 1 .. 6 * n : UnwrapStep(key, isEnc, n, t, steps[t]) = steps[t - 1]
    <2> TAKE t \in 1 .. 6 * n
    <2>1. t - 1 \in 0 .. 6 * n
      BY <1>2
    <2>2. steps[t] = WrapStep(key, isEnc, n, t, steps[t - 1]) /\ steps[t - 1] \in Rotating(n)
      BY <1>1, <1>3, <2>1 DEF After
    <2> QED
      BY <2>2, StepBack
  <1>5. \A i \in 1 .. 6 * n : Back(i, back[i - 1]) = back[i]
    <2> TAKE i \in 1 .. 6 * n
    <2> DEFINE t == 6 * n - i + 1
    <2>1. t \in 1 .. 6 * n /\ 6 * n - (i - 1) = t /\ 6 * n - i = t - 1
      BY <1>2
    <2>2. back[i - 1] = steps[t] /\ back[i] = steps[t - 1]
      BY <1>2, <2>1
    <2>3. Back(i, back[i - 1]) = UnwrapStep(key, isEnc, n, t, steps[t])
      BY <2>2
    <2> QED
      BY <1>4, <2>1, <2>2, <2>3
  <1>6. back[0] = last /\ back[6 * n] = w
    BY <1>1, <1>2 DEF After
  <1> HIDE DEF Back, last
  <1>7. Undone(back)
    <2>1. back = [i \in 0 .. 6 * n |-> back[i]]
      OBVIOUS
    <2> HIDE DEF back
    <2>2. \A i \in 0 .. 6 * n : back[i] = IF i = 0 THEN last ELSE Back(i, back[i - 1])
      BY <1>2, <1>5, <1>6
    <2> QED
      BY <2>1, <2>2
  <1> HIDE DEF back
  <1> DEFINE chosen == CHOOSE f : Undone(f)
  <1>8. Undone(chosen)
    BY <1>7
  <1>9. RotateBack(key, isEnc, n, last) = chosen[6 * n]
    BY DEF RotateBack, Back
  <1> HIDE DEF chosen
  <1>10. \A i \in 0 .. 6 * n : /\ chosen[i] = IF i = 0 THEN last ELSE Back(i, chosen[i - 1])
                               /\ back[i] = IF i = 0 THEN last ELSE Back(i, back[i - 1])
    BY <1>7, <1>8
  <1> DEFINE Same == {m \in Nat : m <= 6 * n => chosen[m] = back[m]}
  <1>11. 0 \in Same
    BY <1>2, <1>10
  <1>12. ASSUME NEW m \in Nat, m \in Same PROVE m + 1 \in Same
    <2>1. CASE m + 1 <= 6 * n
      <3>1. /\ chosen[m + 1] = Back(m + 1, chosen[m]) /\ back[m + 1] = Back(m + 1, back[m])
            /\ chosen[m] = back[m]
        BY <1>2, <1>10, <1>12, <2>1
      <3> QED
        BY <3>1
    <2> QED
      BY <1>2, <2>1
  <1>13. 6 * n \in Same
    <2> HIDE DEF Same
    <2> QED
      BY <1>2, <1>11, <1>12, EveryNumber
  <1> QED
    BY <1>1, <1>2, <1>3, <1>6, <1>9, <1>13 DEF last

\* A buffer of whole semiblocks is its semiblocks,
LEMMA WholeBlocks ==
  ASSUME NEW s \in Seq(Octet), NEW m \in Nat, Len(s) = 8 * m
  PROVE  Semiblocks(s) \in [1 .. m -> Semiblock] /\ Octets(Semiblocks(s)) = s
  <1>1. /\ Len(s) \div 8 = m
        /\ \A i \in 1 .. m, j \in 1 .. 8 : 8 * (i - 1) + j \in 1 .. Len(s)
    OBVIOUS
  <1>2. Semiblocks(s) = [i \in 1 .. m |-> [j \in 1 .. 8 |-> s[8 * (i - 1) + j]]]
    BY <1>1 DEF Semiblocks
  <1>3. \A k \in 1 .. Len(s) : s[k] \in Octet
    OBVIOUS
  <1>4. Semiblocks(s) \in [1 .. m -> Semiblock]
    BY <1>1, <1>2, <1>3 DEF Semiblock
  <1>5. ASSUME NEW k \in 1 .. 8 * m
        PROVE  Semiblocks(s)[(k - 1) \div 8 + 1][((k - 1) % 8) + 1] = s[k]
    <2> DEFINE i == (k - 1) \div 8 + 1  j == ((k - 1) % 8) + 1
    <2>1. i \in 1 .. m /\ j \in 1 .. 8 /\ 8 * (i - 1) + j = k
      OBVIOUS
    <2> HIDE DEF i, j
    <2>2. Semiblocks(s)[i][j] = s[8 * (i - 1) + j]
      BY <1>2, <2>1
    <2> QED
      BY <2>1, <2>2 DEF i, j
  <1>6. Len(Semiblocks(s)) = m
    BY <1>4
  <1>7. Octets(Semiblocks(s)) = [k \in 1 .. 8 * m |-> s[k]]
    BY <1>5, <1>6 DEF Octets
  <1>8. s = [k \in 1 .. 8 * m |-> s[k]]
    OBVIOUS
  <1> QED
    BY <1>4, <1>7, <1>8

\* also with a tag before them.
LEMMA TaggedBlocks ==
  ASSUME NEW A \in Semiblock, NEW m \in Nat, NEW R \in [1 .. m -> Semiblock]
  PROVE  /\ Len(Tagged(A, R)) = 8 * (m + 1)
         /\ Head(Semiblocks(Tagged(A, R))) = A /\ Tail(Semiblocks(Tagged(A, R))) = R
  <1> DEFINE s == Tagged(A, R)  C == Semiblocks(s)
  <1>1. Len(R) = m
    OBVIOUS
  <1>2. s = [k \in 1 .. 8 * (m + 1) |-> IF k <= 8 THEN A[k] ELSE R[(k - 1) \div 8][((k - 1) % 8) + 1]]
    BY <1>1 DEF Tagged
  <1>3. Len(s) = 8 * (m + 1) /\ Len(s) \div 8 = m + 1
    BY <1>2
  <1>4. C = [i \in 1 .. m + 1 |-> [j \in 1 .. 8 |-> s[8 * (i - 1) + j]]]
    BY <1>3 DEF Semiblocks
  <1>5. \A j \in 1 .. 8 : s[8 * (1 - 1) + j] = A[j]
    BY <1>2
  <1>6. C[1] = A
    BY <1>4, <1>5 DEF Semiblock
  <1>7. ASSUME NEW i \in 1 .. m PROVE C[i + 1] = R[i]
    <2>1. ASSUME NEW j \in 1 .. 8 PROVE s[8 * (i + 1 - 1) + j] = R[i][j]
      <3>1. /\ 8 * (i + 1 - 1) + j \in 1 .. 8 * (m + 1) /\ 8 * (i + 1 - 1) + j > 8
            /\ (8 * (i + 1 - 1) + j - 1) \div 8 = i /\ ((8 * (i + 1 - 1) + j - 1) % 8) + 1 = j
        OBVIOUS
      <3> QED
        BY <1>2, <3>1
    <2>2. C[i + 1] = [j \in 1 .. 8 |-> s[8 * (i + 1 - 1) + j]]
      BY <1>4
    <2> QED
      BY <2>1, <2>2 DEF Semiblock
  <1> HIDE DEF C
  <1>8. C \in Seq(Semiblock) /\ Len(C) = m + 1
    <2>1. DOMAIN C = 1 .. m + 1 /\ C = [i \in 1 .. m + 1 |-> C[i]]
      BY <1>4
    <2>2. \A i \in 1 .. m + 1 : C[i] \in Semiblock
      <3> TAKE i \in 1 .. m + 1
      <3>1. CASE i = 1
        BY <1>6, <3>1
      <3>2. CASE i > 1
        <4>1. i - 1 \in 1 .. m /\ i = (i - 1) + 1
          BY <3>2
        <4> QED
          BY <1>7, <4>1
      <3> QED
        BY <3>1, <3>2
    <2> QED
      BY <2>1, <2>2
  <1>9. Head(C) = A
    BY <1>6, <1>8
  <1>10. Tail(C) = [i \in 1 .. m |-> R[i]]
    <2> DEFINE rest == Tail(C)
    <2>1. /\ rest \in Seq(Semiblock) /\ Len(rest) = m
          /\ \A i \in 1 .. m : rest[i] = C[i + 1]
      BY <1>8, HeadTailProperties
    <2> HIDE DEF rest
    <2>2. rest = [i \in 1 .. m |-> rest[i]]
      BY <2>1
    <2>3. rest = [i \in 1 .. m |-> R[i]]
      BY <1>7, <2>1, <2>2
    <2> QED
      BY <2>3 DEF rest
  <1> QED
    BY <1>3, <1>9, <1>10 DEF C

\* What is left to do when the rotations are undone.
Opened(w, isPad, calloced) ==
  IF ~isPad THEN Unpadded(w)
  ELSE IF \A i \in 1 .. 4 : w.A[i] = AP(0)[i]
       THEN Stripped(w, LengthIn(w.A), calloced)
       ELSE Answer("MAC", <<>>)

\* The long way, through the rotations,
LEMMA UnwrapLong ==
  ASSUME NEW key, Permutes(key), NEW kl, GetCipher(kl), NEW isEnc \in BOOLEAN, NEW isPad \in BOOLEAN,
         NEW n \in Turnable, n >= 2, NEW w \in Rotating(n), NEW v, v = Rotate(key, isEnc, n, w)
  PROVE  KU(Tagged(v.A, v.R), key, kl, isEnc, isPad) = Opened(w, isPad, 8 * (n + 1))
  <1> DEFINE in == Tagged(v.A, v.R)
  <1>1. n \in Nat
    BY DEF Turnable
  <1>2. v \in Rotating(n) /\ RotateBack(key, isEnc, n, v) = w
    BY RotatedBack
  <1>3. v.A \in Semiblock /\ v.R \in [1 .. n -> Semiblock] /\ v = [A |-> v.A, R |-> v.R]
    BY <1>2 DEF Rotating
  <1>4. Len(in) = 8 * (n + 1) /\ Head(Semiblocks(in)) = v.A /\ Tail(Semiblocks(in)) = v.R
    BY <1>1, <1>3, TaggedBlocks
  <1> HIDE DEF in
  <1>5. Len(in) \div 8 = n + 1 /\ Len(in) % 8 = 0 /\ n + 1 # 2 /\ (n + 1) - 1 = n /\ ~(n + 1 < 3)
    BY <1>1, <1>4
  <1>6. UnwrapCheck(in, kl, isPad) = "OK"
    BY <1>5 DEF UnwrapCheck, CryptInit
  <1>7. [A |-> Head(Semiblocks(in)), R |-> Tail(Semiblocks(in))] = v
    BY <1>3, <1>4
  <1>8. (Len(in) \div 8) - 1 = n
    BY <1>1, <1>5
  <1>9. KU(in, key, kl, isEnc, isPad) = Opened(w, isPad, Len(in))
    BY <1>2, <1>5, <1>6, <1>7, <1>8 DEF KU, Opened
  <1> QED
    BY <1>4, <1>9 DEF in

\* and the short way, for one semiblock.
LEMMA UnwrapShort ==
  ASSUME NEW key, Permutes(key), NEW kl, GetCipher(kl), NEW isEnc \in BOOLEAN,
         NEW isPad \in BOOLEAN, isPad, NEW w \in Rotating(1)
  PROVE  KU(Forward(key, isEnc, Tagged(w.A, w.R)), key, kl, isEnc, isPad) = Opened(w, isPad, 16)
  <1> DEFINE T == Tagged(w.A, w.R)  in == Forward(key, isEnc, T)
  <1>1. w.A \in Semiblock /\ w.R \in [1 .. 1 -> Semiblock] /\ w = [A |-> w.A, R |-> w.R]
    BY DEF Rotating
  <1>2. w.R = <<w.R[1]>> /\ w.R[1] \in Semiblock
    BY <1>1
  <1>3. T \in Block
    BY <1>1, <1>2, BlockOf
  <1>4. Head(Semiblocks(T)) = w.A /\ Tail(Semiblocks(T)) = w.R
    BY <1>1, TaggedBlocks
  <1> HIDE DEF T
  <1>5. in \in Block /\ Backward(key, isEnc, in) = T
    BY <1>3, CipherBack
  <1> HIDE DEF in
  <1>6. Len(in) = 16
    BY <1>5 DEF Block
  <1>7. /\ Len(in) \div 8 = 2 /\ Len(in) % 8 = 0
        /\ UnwrapCheck(in, kl, isPad) = "OK"
    BY <1>6 DEF UnwrapCheck, CryptInit
  <1>8. [A |-> Head(Semiblocks(T)), R |-> Tail(Semiblocks(T))] = w
    BY <1>1, <1>4
  <1>9. KU(in, key, kl, isEnc, isPad) = Opened(w, isPad, Len(in))
    BY <1>5, <1>6, <1>7, <1>8 DEF KU, Opened
  <1> QED
    BY <1>6, <1>9 DEF in, T

\* The tags, byte by byte.
LEMMA TagsAre ==
  ASSUME NEW length \in Nat, length <= MaxPadded
  PROVE  /\ A0 \in Semiblock /\ AP(length) \in Semiblock
         /\ \A i \in 1 .. 4 : AP(length)[i] = AP(0)[i]
         /\ LengthIn(AP(length)) = length
  <1> DEFINE high == length \div 256  low == length % 256
  <1>1. length \div 16777216 = 0
    BY DEF MaxPadded
  <1>2. length \div 65536 = 0
    BY DEF MaxPadded
  <1>3. high \in Nat /\ high <= 255 /\ low \in Nat /\ low <= 255 /\ 256 * high + low = length
    BY DEF MaxPadded
  <1>4. high % 256 = high
    BY <1>3
  <1>5. FourBytes(length) = <<0, 0, high, low>>
    BY <1>1, <1>2, <1>4 DEF FourBytes
  <1> HIDE DEF high, low
  <1>6. AP(length) = <<166, 89, 89, 166, 0, 0, high, low>>
    BY <1>5 DEF AP
  <1>7. \A b : \A i \in 1 .. 4 : <<166, 89, 89, 166, b[1], b[2], b[3], b[4]>>[i] = <<166, 89, 89, 166>>[i]
    OBVIOUS
  <1>8. AP(length) \in Semiblock
    BY <1>3, <1>6 DEF Semiblock, Octet
  <1>9. \A i \in 1 .. 4 : AP(length)[i] = AP(0)[i]
    BY <1>7 DEF AP
  <1>10. LengthIn(AP(length)) = length
    BY <1>3, <1>6 DEF LengthIn
  <1>11. A0 \in Semiblock
    BY DEF A0, Semiblock, Octet
  <1> QED
    BY <1>8, <1>9, <1>10, <1>11

\* Zeros fill a buffer up to its size.
LEMMA Padded ==
  ASSUME NEW s \in Seq(Octet), NEW m \in Nat
  PROVE  ZeroPad(s, m) \in Seq(Octet) /\ Len(ZeroPad(s, m)) = m
  <1>1. ASSUME NEW k \in 1 .. m PROVE (IF k <= Len(s) THEN s[k] ELSE 0) \in Octet
    <2>1. CASE k <= Len(s)
      BY <2>1
    <2>2. CASE ~(k <= Len(s))
      BY <2>2 DEF Octet
    <2> QED
      BY <2>1, <2>2
  <1> QED
    BY <1>1 DEF ZeroPad

\* Lengths in bytes and in semiblocks.
Rounds(length, n) ==
  /\ n \in Nat /\ 8 * n \in Nat /\ length <= 8 * n /\ (length % 8 = 0 => 8 * n = length)
  /\ 8 * ((length \div 8) + 1) \in Nat /\ 8 * ((length \div 8) + 1) <= 8 * (n + 1)
  /\ (length \div 8 < 2 <=> ~(length >= 16))
  /\ (length > 8 => n >= 2) /\ (0 < length /\ length <= 8 => n = 1)
  /\ (length <= MaxIn => n <= 268435456)

LEMMA Rounded ==
  ASSUME NEW length \in Nat
  PROVE  Rounds(length, (length + 7) \div 8)
  <1> DEFINE q == length \div 8  r == length % 8  n == (length + 7) \div 8
  <1>1. q \in Nat /\ r \in 0 .. 7 /\ length = 8 * q + r
    OBVIOUS
  <1> HIDE DEF q, r
  <1>2. CASE r = 0
    <2>1. n = q
      BY <1>1, <1>2
    <2>2. length = 8 * q
      BY <1>1, <1>2
    <2> QED
      BY <1>1, <1>2, <2>1, <2>2 DEF q, r, Rounds, MaxIn
  <1>3. CASE r > 0
    <2>1. n = q + 1
      BY <1>1, <1>3
    <2> QED
      BY <1>1, <1>3, <2>1 DEF q, r, Rounds, MaxIn
  <1> QED
    BY <1>1, <1>2, <1>3

\* What the rotations begin with.
Begins(in, pad, n, w) ==
  /\ n = (Len(in) + 7) \div 8
  /\ IF pad THEN Len(in) <= MaxPadded ELSE Len(in) % 8 = 0
  /\ w = [A |-> IF pad THEN AP(Len(in)) ELSE A0, R |-> Semiblocks(ZeroPad(in, 8 * n))]

\* A key that was wrapped comes out of what is left to do.
LEMMA OpenedWhole ==
  ASSUME NEW in \in Seq(Octet), NEW pad \in BOOLEAN, NEW n, NEW w, Begins(in, pad, n, w)
  PROVE  w \in Rotating(n) /\ Opened(w, pad, 8 * (n + 1)) = Answer("OK", in)
  <1> DEFINE whole == ZeroPad(in, 8 * n)
  <1>0. Len(in) \in Nat /\ in = [k \in 1 .. Len(in) |-> in[k]]
    OBVIOUS
  <1>1. /\ n \in Nat /\ 8 * n \in Nat /\ Len(in) <= 8 * n /\ (Len(in) % 8 = 0 => 8 * n = Len(in))
        /\ 8 * ((Len(in) \div 8) + 1) \in Nat /\ 8 * ((Len(in) \div 8) + 1) <= 8 * (n + 1)
    <2>1. Rounds(Len(in), n)
      BY <1>0, Rounded DEF Begins
    <2> QED
      BY <2>1 DEF Rounds
  <1>2. whole \in Seq(Octet) /\ Len(whole) = 8 * n
    BY <1>1, Padded
  <1>3. whole = [k \in 1 .. 8 * n |-> IF k <= Len(in) THEN in[k] ELSE 0]
    BY DEF ZeroPad
  <1> HIDE DEF whole
  <1>4. Semiblocks(whole) \in [1 .. n -> Semiblock] /\ Octets(Semiblocks(whole)) = whole
    BY <1>1, <1>2, WholeBlocks
  <1>5. w.A = (IF pad THEN AP(Len(in)) ELSE A0) /\ w.R = Semiblocks(whole) /\ w = [A |-> w.A, R |-> w.R]
    BY DEF whole, Begins
  <1>6. w.A \in Semiblock
    <2>1. CASE pad
      BY <1>0, <1>5, <2>1, TagsAre DEF Begins
    <2>2. CASE ~pad
      BY <1>5, <2>2 DEF A0, Semiblock, Octet
    <2> QED
      BY <2>1, <2>2
  <1>7. w \in Rotating(n)
    BY <1>4, <1>5, <1>6 DEF Rotating
  <1>8. CASE ~pad
    <2>1. 8 * n = Len(in)
      BY <1>1, <1>8 DEF Begins
    <2>2. whole = in
      <3>1. whole = [k \in 1 .. Len(in) |-> IF k <= Len(in) THEN in[k] ELSE 0]
        BY <1>3, <2>1
      <3>2. \A k \in 1 .. Len(in) : (IF k <= Len(in) THEN in[k] ELSE 0) = in[k]
        BY <1>0
      <3> QED
        BY <1>0, <3>1, <3>2
    <2>3. Opened(w, pad, 8 * (n + 1)) = Unpadded(w)
      BY <1>8 DEF Opened
    <2> QED
      BY <1>4, <1>5, <1>7, <1>8, <2>2, <2>3 DEF Unpadded
  <1>9. CASE pad
    <2> DEFINE R   == ZeroPad(whole, 8 * (n + 1))
               end == 8 * ((Len(in) \div 8) + 1)
               clean == \A k \in Len(in) + 1 .. end : R[k] = 0
    <2>1. Len(in) <= MaxPadded
      BY <1>9 DEF Begins
    <2>2. (\A i \in 1 .. 4 : w.A[i] = AP(0)[i]) /\ LengthIn(w.A) = Len(in)
      BY <1>0, <1>5, <1>9, <2>1, TagsAre
    <2>3. /\ end <= 8 * (n + 1) /\ Len(in) <= 8 * n /\ 8 * n <= 8 * (n + 1)
          /\ 8 * (n + 1) \in Nat /\ end \in Nat
      BY <1>1
    <2>4. R = [k \in 1 .. 8 * (n + 1) |-> IF k <= Len(in) THEN in[k] ELSE 0]
      <3>1. \A k \in 1 .. 8 * (n + 1) : (IF k <= 8 * n THEN whole[k] ELSE 0) = IF k <= Len(in) THEN in[k] ELSE 0
        <4> TAKE k \in 1 .. 8 * (n + 1)
        <4>1. CASE k <= 8 * n
          <5>1. k \in 1 .. 8 * n
            BY <1>1, <4>1
          <5> QED
            BY <1>3, <4>1, <5>1
        <4>2. CASE ~(k <= 8 * n)
          <5>1. k \in Nat /\ n \in Nat /\ Len(in) \in Nat /\ Len(in) <= 8 * n
            BY <1>0, <1>1
          <5>2. ~(k <= Len(in))
            BY <4>2, <5>1
          <5> QED
            BY <4>2, <5>2
        <4> QED
          BY <4>1, <4>2
      <3> QED
        BY <1>2, <3>1 DEF ZeroPad
    <2>5. R \in Seq(Octet) /\ Len(R) = 8 * (n + 1)
      BY <1>2, <2>3, Padded
    <2> HIDE DEF R, end
    <2>6. clean
      BY <1>0, <2>3, <2>4
    <2>7. SubSeq(R, 1, Len(in)) = in
      <3>1. Len(in) <= Len(R)
        BY <1>0, <1>1, <2>3, <2>5
      <3>2. SubSeq(R, 1, Len(in)) = [k \in 1 .. Len(in) |-> R[k]]
        BY <1>0, <2>5, <3>1
      <3>3. ASSUME NEW k \in 1 .. Len(in) PROVE R[k] = in[k]
        <4>1. k \in 1 .. 8 * (n + 1) /\ k <= Len(in)
          BY <1>0, <1>1
        <4> QED
          BY <2>4, <4>1
      <3> QED
        BY <1>0, <3>2, <3>3
    <2>8. Stripped(w, Len(in), 8 * (n + 1)) =
            IF clean THEN Answer("OK", SubSeq(R, 1, Len(in))) ELSE Answer("MAC", <<>>)
      BY <1>4, <1>5 DEF Stripped, R, end
    <2> HIDE DEF clean
    <2>9. Stripped(w, Len(in), 8 * (n + 1)) = Answer("OK", in)
      BY <2>6, <2>7, <2>8
    <2> QED
      BY <1>7, <1>9, <2>2, <2>9 DEF Opened
  <1> QED
    BY <1>8, <1>9

(***************************************************************************)
(* What KW wraps KU unwraps to itself, and KW refuses exactly the lengths  *)
(* of SP800-38F it does not support (SP80038F.c): for any bytes, any key   *)
(* of the cipher, both directions, with and without padding.               *)
(***************************************************************************)
THEOREM WrappedBack ==
  ASSUME NEW key, Permutes(key), NEW in \in Seq(Octet), Len(in) <= MaxIn,
         NEW kl, NEW isEnc \in BOOLEAN, NEW pad \in BOOLEAN
  PROVE  LET w == KW(in, key, kl, isEnc, pad)
         IN  /\ w.rv = "OK" <=> Wrappable(in, kl, pad)
             /\ w.rv = "OK" => KU(w.out, key, kl, isEnc, pad) = Answer("OK", in)
  <1> DEFINE n     == (Len(in) + 7) \div 8
             tag   == IF pad THEN AP(Len(in)) ELSE A0
             R     == Semiblocks(ZeroPad(in, 8 * n))
             start == [A |-> tag, R |-> R]
             v     == Rotate(key, isEnc, n, start)
  <1>1. Len(in) \in Nat /\ Rounds(Len(in), n)
    BY Rounded
  <1>2. WrapCheck(in, kl, pad) = "OK" <=> Wrappable(in, kl, pad)
    <2>1. Len(in) \div 8 < 2 <=> ~(Len(in) >= 16)
      BY <1>1 DEF Rounds
    <2>3. CASE ~GetCipher(kl)
      BY <2>3 DEF WrapCheck, Wrappable, CryptInit
    <2>4. CASE GetCipher(kl) /\ pad
      BY <1>1, <2>4 DEF WrapCheck, Wrappable, CryptInit, MaxPadded
    <2>5. CASE GetCipher(kl) /\ ~pad
      BY <1>1, <2>1, <2>5 DEF WrapCheck, Wrappable, CryptInit
    <2> QED
      BY <2>3, <2>4, <2>5
  <1>3. KW(in, key, kl, isEnc, pad) =
          IF WrapCheck(in, kl, pad) # "OK" THEN Answer(WrapCheck(in, kl, pad), <<>>)
          ELSE Answer("OK", IF pad /\ Len(in) <= 8 THEN Forward(key, isEnc, Tagged(start.A, start.R))
                            ELSE Tagged(v.A, v.R))
    BY DEF KW
  <1>4. KW(in, key, kl, isEnc, pad).rv = "OK" <=> Wrappable(in, kl, pad)
    BY <1>2, <1>3 DEF Answer
  <1>5. ASSUME Wrappable(in, kl, pad)
        PROVE  KU(KW(in, key, kl, isEnc, pad).out, key, kl, isEnc, pad) = Answer("OK", in)
    <2>1. /\ GetCipher(kl) /\ (pad => Len(in) > 0 /\ Len(in) <= MaxPadded)
          /\ (~pad => Len(in) % 8 = 0 /\ Len(in) >= 16)
      BY <1>1, <1>5 DEF Wrappable
    <2>2. Begins(in, pad, n, start)
      BY <2>1 DEF Begins
    <2> HIDE DEF start
    <2>3. start \in Rotating(n) /\ Opened(start, pad, 8 * (n + 1)) = Answer("OK", in)
      BY <2>2, OpenedWhole
    <2>4. CASE pad /\ Len(in) <= 8
      <3>1. n = 1 /\ 8 * (n + 1) = 16
        BY <1>1, <2>1, <2>4 DEF Rounds
      <3>2. KW(in, key, kl, isEnc, pad).out = Forward(key, isEnc, Tagged(start.A, start.R))
        BY <1>2, <1>3, <1>5, <2>4 DEF Answer
      <3>3. start \in Rotating(1) /\ Opened(start, pad, 16) = Answer("OK", in)
        BY <2>3, <3>1
      <3> HIDE DEF n, v
      <3>4. KU(Forward(key, isEnc, Tagged(start.A, start.R)), key, kl, isEnc, pad) = Opened(start, pad, 16)
        BY <2>1, <2>4, <3>3, UnwrapShort
      <3> QED
        BY <3>2, <3>3, <3>4
    <2>5. CASE ~(pad /\ Len(in) <= 8)
      <3>1. Len(in) > 8
        BY <1>1, <2>1, <2>5
      <3>2. n \in Nat /\ n >= 2 /\ n <= 268435456
        BY <1>1, <3>1 DEF Rounds
      <3>3. n \in Turnable
        BY <3>2 DEF Turnable
      <3>4. KW(in, key, kl, isEnc, pad).out = Tagged(v.A, v.R)
        BY <1>2, <1>3, <1>5, <2>5 DEF Answer
      <3> HIDE DEF n
      <3> QED
        BY <2>1, <2>3, <3>2, <3>3, <3>4, UnwrapLong
    <2> QED
      BY <2>4, <2>5
  <1> QED
    BY <1>4, <1>5

\* A key tried.
LEMMA WrapTried ==
  ASSUME Permutes(Data(16, 2)), KeyServicesNext
  PROVE  WrapRoundTrip'
  <1>1. CASE TryWrap
    <2>1. PICK n \in WrapLengths, kl \in KeyLengths, isEnc \in BOOLEAN, pad \in BOOLEAN,
               change \in {0, 1, 6, 8, 9, 16} :
            input' = <<"wrap", Data(n, 1), kl, isEnc, pad, change>>
      BY <1>1 DEF TryWrap
    <2>2. input'[2] = Data(n, 1) /\ input'[3] = kl /\ input'[4] = isEnc /\ input'[5] = pad
      BY <2>1
    <2>3. n \in Nat /\ n <= MaxIn
      BY KeyServicesAssumption
    <2>4. Data(n, 1) \in Seq(Octet) /\ Len(Data(n, 1)) = n
      <3>1. \A i \in 1 .. n : (97 * i + 13 * n + 31 * 1) % 256 \in Octet
        BY <2>3 DEF Octet
      <3> QED
        BY <2>3, <3>1 DEF Data
    <2> QED
      BY <2>2, <2>3, <2>4, WrappedBack DEF WrapRoundTrip
  <1>2. CASE ~TryWrap
    <2>1. ~Is("wrap")'
      BY <1>2 DEF KeyServicesNext, TryKey, TryGenerate, TryUse, TryName, TryStretch, Is
    <2> QED
      BY <2>1 DEF WrapRoundTrip
  <1> QED
    BY <1>1, <1>2

(***************************************************************************)
(* What KW wraps KU unwraps to itself, padded or not, and what cannot be   *)
(* wrapped is refused (SP80038F.c): for keys of any length, whatever the   *)
(* cipher is, as long as its inverse is one.                               *)
(***************************************************************************)
THEOREM WrapsRoundTrip ==
  ASSUME Permutes(Data(16, 2))
  PROVE  KeyServicesSpec => []WrapRoundTrip
  <1>1. input \in {<<kind>> : kind \in KeyServiceKind} => WrapRoundTrip
    BY DEF WrapRoundTrip, Is
  <1>2. WrapRoundTrip /\ UNCHANGED input => WrapRoundTrip'
    BY DEF WrapRoundTrip, Is
  <1>3. WrapRoundTrip /\ KeyServicesNext => WrapRoundTrip'
    BY WrapTried
  <1> QED
    BY <1>1, <1>2, <1>3, PTL DEF KeyServicesSpec

-----------------------------------------------------------------------------
(***************************************************************************)
(* The settings of a library.                                              *)
(***************************************************************************)
Fields ==
  {"build", "hardware", "device", "override", "lie", "failure", "mask", "runPost", "trng", "userSet",
   "upgraded", "trngSet", "prng", "instances", "excluded", "plain", "mode", "post", "pcb"}

ContextFields == {"fips", "lock", "callback"}

IsSettings(s) ==
  /\ s = [field \in Fields |-> s[field]]
  /\ s.pcb = [field \in ContextFields |-> s.pcb[field]]
  /\ s.build \in {"FIPS", "non_FIPS"} /\ s.lie \in BOOLEAN /\ s.trngSet \in BOOLEAN
  /\ s.mode \in BOOLEAN /\ s.post \in BOOLEAN /\ s.runPost \in BOOLEAN
  /\ s.hardware \in BOOLEAN /\ s.device \in BOOLEAN /\ s.userSet \in BOOLEAN /\ s.upgraded \in BOOLEAN
  /\ s.pcb.fips \in BOOLEAN /\ s.pcb.lock \in BOOLEAN
  /\ Strong256(s.prng)

\* While a library is loaded no mode is entered and the self test is not waived.
Loading(s) == IsSettings(s) /\ ~s.mode /\ s.post

\* What a change of the source leaves alone.
SourceOnly(s, t) ==
  /\ IsSettings(t)
  /\ t.build = s.build /\ t.lie = s.lie /\ t.trngSet = s.trngSet /\ t.mode = s.mode
  /\ t.hardware = s.hardware /\ t.device = s.device
  /\ t.post = s.post /\ t.runPost = s.runPost /\ t.pcb = s.pcb

\* The generator there is at first is strong.
LEMMA FirstStrong == Strong256("SHA256")
  <1>1. sha256PRNG \in AnyType /\ sha256PRNG.name = "SHA256"
    BY TypesListed, NamesOf
  <1>2. TheType("SHA256") = sha256PRNG
    BY <1>1, TypeOfName
  <1>3. sha256PRNG.FIPS /\ sha256PRNG.strengths = <<112, 128, 192, 256>>
    BY DEF sha256PRNG, PRNG, Generator
  <1>4. <<112, 128, 192, 256>>[4] = 256 /\ 4 \in DOMAIN <<112, 128, 192, 256>>
    OBVIOUS
  <1> QED
    BY <1>2, <1>3, <1>4 DEF Strong256, Range

\* A library not loaded yet.
LEMMA UnloadedLoading ==
  ASSUME NEW build \in {"FIPS", "non_FIPS"}, NEW hardware \in BOOLEAN, NEW device \in BOOLEAN
  PROVE  Loading(Unloaded(build, hardware, device))
  <1> DEFINE s == Unloaded(build, hardware, device)
  <1>1. s = [field \in Fields |-> s[field]]
    BY DEF Unloaded, Fields
  <1>2. s.pcb = [fips |-> FALSE, lock |-> FALSE, callback |-> "none"]
    BY DEF Unloaded
  <1>3. /\ s.hardware = hardware /\ s.device = device /\ s.userSet = FALSE /\ s.upgraded = FALSE
        /\ s.build = build /\ s.lie = FALSE /\ s.trngSet = FALSE /\ s.mode = FALSE /\ s.post = TRUE
        /\ s.runPost = (build = "FIPS") /\ s.prng = "SHA256"
    BY DEF Unloaded
  <1> HIDE DEF s
  <1>4. s.pcb = [field \in ContextFields |-> s.pcb[field]] /\ s.pcb.fips = FALSE /\ s.pcb.lock = FALSE
    <2> DEFINE pcb == [fips |-> FALSE, lock |-> FALSE, callback |-> "none"]
    <2>1. pcb = [field \in ContextFields |-> pcb[field]] /\ pcb.fips = FALSE /\ pcb.lock = FALSE
      BY DEF ContextFields
    <2> HIDE DEF pcb
    <2>2. s.pcb = pcb
      BY <1>2 DEF pcb
    <2> QED
      BY <2>1, <2>2
  <1>5. IsSettings(s)
    BY <1>1, <1>3, <1>4, FirstStrong DEF IsSettings
  <1> QED
    BY <1>3, <1>5 DEF Loading, s

\* A source set or upgraded changes the source only.
LEMMA SourceSet ==
  ASSUME NEW s, IsSettings(s), NEW trng
  PROVE  SourceOnly(s, SetDefaultTrng(s, trng))
  <1> DEFINE t == SetDefaultTrng(s, trng)
  <1>1. t = s \/ t = [s EXCEPT !.trng = trng, !.userSet = TRUE]
    BY DEF SetDefaultTrng
  <1> HIDE DEF t
  <1>2. CASE t = s
    BY <1>2 DEF SourceOnly, t
  <1>3. CASE t = [s EXCEPT !.trng = trng, !.userSet = TRUE]
    <2>1. IsSettings(t)
      BY <1>3 DEF IsSettings, Fields
    <2>2. SourceOnly(s, t)
      BY <1>3, <2>1 DEF IsSettings, SourceOnly, Fields
    <2> QED
      BY <2>2 DEF t
  <1> QED
    BY <1>1, <1>2, <1>3

\* The upgrade leaves a FIPS source, and a FIPS build, what they are.
LEMMA SourceUpgraded ==
  ASSUME NEW s, IsSettings(s)
  PROVE  /\ SourceOnly(s, Upgraded(s))
         /\ s.build = "FIPS" \/ s.trng = "TRNG_FIPS" => Upgraded(s).trng = s.trng
  <1> DEFINE t     == Upgraded(s)
             stays == s.build = "FIPS" \/ s.trng = "TRNG_FIPS"
  <1>1. \/ t = s
        \/ \E trng : (stays => trng = s.trng) /\ t = [s EXCEPT !.upgraded = TRUE, !.trng = trng]
    BY DEF Upgraded
  <1> HIDE DEF t
  <1>2. CASE t = s
    BY <1>2 DEF SourceOnly, t
  <1>3. ASSUME NEW trng, stays => trng = s.trng, t = [s EXCEPT !.upgraded = TRUE, !.trng = trng]
        PROVE  SourceOnly(s, t) /\ (stays => t.trng = s.trng)
    <2>1. IsSettings(t)
      BY <1>3 DEF IsSettings, Fields
    <2>2. SourceOnly(s, t) /\ t.trng = trng
      BY <1>3, <2>1 DEF IsSettings, SourceOnly, Fields
    <2> QED
      BY <1>3, <2>2
  <1> QED
    BY <1>1, <1>2, <1>3 DEF t

\* A source set by its name.
LEMMA SourceNamed ==
  ASSUME NEW s, IsSettings(s), NEW name
  PROVE  SourceOnly(s, SetTRNGName(s, name))
  <1> DEFINE trng == checkTRNGAlias(s, name)
             t    == SetDefaultTrng(s, trng)
  <1>1. SourceOnly(s, t)
    BY SourceSet
  <1>2. SourceOnly(s, Upgraded(t))
    <2>1. IsSettings(t)
      BY <1>1 DEF SourceOnly
    <2> HIDE DEF t
    <2> QED
      BY <1>1, <2>1, SourceUpgraded DEF SourceOnly
  <1>3. SourceOnly(s, s)
    BY DEF SourceOnly
  <1> QED
    BY <1>2, <1>3 DEF SetTRNGName

\* A generator set by its name is found, and strong.
LEMMA GeneratorNamed ==
  ASSUME NEW s, IsSettings(s), NEW name
  PROVE  SourceOnly(s, SetPRNGName(s, name)) /\ SetPRNGName(s, name).trng = s.trng
  <1> DEFINE found == \E type \in get_RNGbyname(name, TRUE, s.hardware, {}, s.excluded) : 256 \in Range(type.strengths)
  <1>1. found => Strong256(name)
    <2> SUFFICES ASSUME NEW type \in get_RNGbyname(name, TRUE, s.hardware, {}, s.excluded),
                        256 \in Range(type.strengths)
                 PROVE  Strong256(name)
      OBVIOUS
    <2>1. type \in AnyType /\ type.name = name /\ type.FIPS
      BY DEF get_RNGbyname
    <2>2. TheType(name) = type
      BY <2>1, TypeOfName
    <2> QED
      BY <2>1, <2>2 DEF Strong256
  <1>2. SetPRNGName(s, name) = IF found THEN [s EXCEPT !.prng = name] ELSE s
    BY DEF SetPRNGName
  <1> HIDE DEF found
  <1>3. CASE found
    <2>1. Strong256(name)
      BY <1>1, <1>3
    <2> HIDE DEF Strong256
    <2> QED
      BY <1>2, <1>3, <2>1 DEF IsSettings, SourceOnly, Fields
  <1>4. CASE ~found
    BY <1>2, <1>4 DEF SourceOnly
  <1> QED
    BY <1>3, <1>4

\* A setting, from wherever it comes, enters no mode.
LEMMA SettingTaken ==
  ASSUME NEW s, Loading(s), NEW name, NEW value
  PROVE  /\ Loading(Take(s, name, value))
         /\ Take(s, name, value).build = s.build /\ Take(s, name, value).lie = s.lie
  <1> DEFINE t == Take(s, name, value)
  <1> USE DEF Loading
  <1>1. CASE name = "ICC_TRNG"
    <2> DEFINE u == SetTRNGName(s, value)
    <2>1. SourceOnly(s, u)
      BY SourceNamed
    <2>2. t = [u EXCEPT !.trngSet = TRUE]
      BY <1>1 DEF Take, Plain
    <2> HIDE DEF t, u
    <2>3. Loading(t) /\ t.build = s.build /\ t.lie = s.lie
      BY <2>1, <2>2 DEF SourceOnly, IsSettings, Fields
    <2> QED
      BY <2>3 DEF t
  <1>2. CASE name = "ICC_RANDOM_GENERATOR"
    <2>1. t = SetPRNGName(s, value)
      BY <1>2 DEF Take, Plain
    <2> QED
      BY <2>1, GeneratorNamed DEF SourceOnly
  <1>3. CASE name \notin {"ICC_TRNG", "ICC_RANDOM_GENERATOR"}
    <2>1. \/ t = s
          \/ t = [s EXCEPT !.failure = value]
          \/ t = [s EXCEPT !.mask = value]
          \/ t = [s EXCEPT !.runPost = value # 0]
          \/ t = [s EXCEPT !.instances = value]
          \/ t = [s EXCEPT !.plain = [s.plain EXCEPT ![name] = value]]
          \/ t = [s EXCEPT !.excluded = value]
      BY <1>3 DEF Take, SetRNGInstances
    <2> HIDE DEF t
    <2>2. Loading(t) /\ t.build = s.build /\ t.lie = s.lie
      BY <2>1 DEF IsSettings, Fields
    <2> QED
      BY <2>2 DEF t
  <1> QED
    BY <1>1, <1>2, <1>3

\* Settings taken in an order: the states between them.
Between(s, items, taken) ==
  taken = [i \in 0 .. Len(items) |-> IF i = 0 THEN s ELSE Take(taken[i - 1], items[i][1], items[i][2])]

\* There are such states, for a list of any length.
LEMMA SettingsTaken ==
  ASSUME NEW s, NEW items, Len(items) \in Nat
  PROVE  \E taken : Between(s, items, taken) /\ TakeAll(s, items) = taken[Len(items)]
  <1> DEFINE Step(t, i) == Take(t, items[i][1], items[i][2])
             Upto(n, f) == f = [i \in 0 .. n |-> IF i = 0 THEN s ELSE Step(f[i - 1], i)]
             Some       == {n \in Nat : \E f : Upto(n, f)}
  <1>1. \A f : Between(s, items, f) <=> Upto(Len(items), f)
    BY DEF Between
  <1>2. TakeAll(s, items) = (CHOOSE f : Upto(Len(items), f))[Len(items)]
    BY DEF TakeAll
  <1> HIDE DEF Step
  <1>3. 0 \in Some
    <2>1. Upto(0, [i \in 0 .. 0 |-> s])
      OBVIOUS
    <2> QED
      BY <2>1
  <1>4. ASSUME NEW n \in Nat, n \in Some PROVE n + 1 \in Some
    <2>1. PICK f : Upto(n, f)
      BY <1>4
    <2> DEFINE g == [i \in 0 .. n + 1 |-> IF i <= n THEN f[i] ELSE Step(f[n], n + 1)]
    <2>2. \A i \in 0 .. n + 1 : g[i] = IF i = 0 THEN s ELSE Step(g[i - 1], i)
      BY <2>1
    <2>3. Upto(n + 1, g)
      <3>1. g = [i \in 0 .. n + 1 |-> g[i]]
        OBVIOUS
      <3> HIDE DEF g
      <3> QED
        BY <2>2, <3>1
    <2> HIDE DEF g, Upto
    <2> QED
      BY <2>3
  <1>5. Len(items) \in Some
    <2> HIDE DEF Some
    <2> QED
      BY <1>3, <1>4, EveryNumber
  <1>6. PICK f : Upto(Len(items), f)
    BY <1>5
  <1> DEFINE taken == CHOOSE h : Upto(Len(items), h)
  <1>7. Upto(Len(items), taken)
    BY <1>6
  <1> QED
    BY <1>1, <1>2, <1>7

\* No list of settings enters a mode: by induction over its length.
LEMMA AllTaken ==
  ASSUME NEW s, Loading(s), NEW items, Len(items) \in Nat
  PROVE  /\ Loading(TakeAll(s, items))
         /\ TakeAll(s, items).build = s.build /\ TakeAll(s, items).lie = s.lie
  <1>1. PICK taken : Between(s, items, taken) /\ TakeAll(s, items) = taken[Len(items)]
    BY SettingsTaken
  <1> DEFINE Kept(t) == Loading(t) /\ t.build = s.build /\ t.lie = s.lie
             Same    == {n \in Nat : n <= Len(items) => Kept(taken[n])}
  <1>2. \A i \in 0 .. Len(items) : taken[i] = IF i = 0 THEN s ELSE Take(taken[i - 1], items[i][1], items[i][2])
    BY <1>1 DEF Between
  <1>3. \A t, name, value : Kept(t) => Kept(Take(t, name, value))
    BY SettingTaken
  <1>4. Kept(s)
    OBVIOUS
  <1> HIDE DEF Kept
  <1>5. 0 \in Same
    BY <1>2, <1>4
  <1>6. ASSUME NEW n \in Nat, n \in Same PROVE n + 1 \in Same
    <2> SUFFICES ASSUME n + 1 <= Len(items) PROVE Kept(taken[n + 1])
      OBVIOUS
    <2>1. Kept(taken[n])
      BY <1>6
    <2>2. taken[n + 1] = Take(taken[n], items[n + 1][1], items[n + 1][2])
      BY <1>2
    <2> QED
      BY <1>3, <2>1, <2>2
  <1>7. Len(items) \in Same
    <2> HIDE DEF Same
    <2> QED
      BY <1>5, <1>6, EveryNumber
  <1>8. Kept(TakeAll(s, items))
    BY <1>1, <1>7
  <1> QED
    BY <1>8 DEF Kept

\* What ContextSound says of the library.
ModeSound(s) ==
  /\ s.mode => s.trng = "TRNG_FIPS"
  /\ s.build = "FIPS" => s.post /\ (s.trng = "TRNG_FIPS" => s.mode) /\ (~s.lie => s.mode)
  /\ s.build # "FIPS" /\ s.lie => s.mode /\ s.post

\* The mode that is entered at last is the one of the source.
LEMMA ModeEntered ==
  ASSUME NEW s, Loading(s)
  PROVE  IsSettings(EnterMode(s)) /\ ModeSound(EnterMode(s))
  <1> DEFINE t == IF ~s.lie THEN [s EXCEPT !.post = FALSE]
                  ELSE IF s.trngSet THEN [s EXCEPT !.lie = FALSE]
                  ELSE [SetDefaultTrng(s, "TRNG_FIPS") EXCEPT !.mode = TRUE]
             e == EnterMode(s)
  <1> USE DEF Loading
  <1>1. CASE s.build = "FIPS"
    <2>1. e = IF s.trng = "TRNG_FIPS" THEN [s EXCEPT !.mode = TRUE] ELSE [s EXCEPT !.lie = TRUE]
      BY <1>1 DEF EnterMode, isFipsTrng
    <2> HIDE DEF e
    <2>2. IsSettings(e)
      BY <2>1 DEF IsSettings, Fields
    <2>3. ModeSound(e)
      BY <1>1, <2>1 DEF IsSettings, Fields, ModeSound
    <2> QED
      BY <2>2, <2>3 DEF e
  <1>2. CASE s.build # "FIPS"
    <2>1. e = [t EXCEPT !.post = t.post \/ t.runPost]
      BY <1>2 DEF EnterMode
    <2> DEFINE u == SetDefaultTrng(s, "TRNG_FIPS")
    <2>2. SourceOnly(s, u)
      BY SourceSet
    <2>3. u.trng = "TRNG_FIPS"
      BY DEF SetDefaultTrng, Sources, Avail, IsSettings, Fields
    <2>4. IsSettings(t) /\ t.build = s.build /\ (t.mode => t.trng = "TRNG_FIPS") /\ (t.lie => t.mode /\ t.post)
      <3> HIDE DEF u
      <3>1. t = IF ~s.lie THEN [s EXCEPT !.post = FALSE]
                ELSE IF s.trngSet THEN [s EXCEPT !.lie = FALSE] ELSE [u EXCEPT !.mode = TRUE]
        BY DEF u
      <3> HIDE DEF t
      <3> QED
        BY <2>2, <2>3, <3>1 DEF SourceOnly, IsSettings, Fields
    <2> HIDE DEF t, e
    <2>5. IsSettings(e)
      BY <2>1, <2>4 DEF IsSettings, Fields
    <2>6. e.build = s.build /\ e.mode = t.mode /\ e.trng = t.trng /\ e.lie = t.lie /\ (t.post => e.post)
      BY <2>1, <2>4 DEF IsSettings, Fields
    <2> QED
      BY <1>2, <2>4, <2>5, <2>6 DEF ModeSound, e
  <1> QED
    BY <1>1, <1>2

\* A list written as a function has its length.
LEMMA LengthIs ==
  ASSUME NEW n \in Nat, NEW f, f = [i \in 1 .. n |-> f[i]]
  PROVE  Len(f) = n
  <1>1. f \in Seq({f[i] : i \in 1 .. n}) /\ DOMAIN f = 1 .. n
    OBVIOUS
  <1> QED
    BY <1>1

\* Whatever is configured, the library that is loaded is sound.
LEMMA LoadedSound ==
  ASSUME NEW build \in {"FIPS", "non_FIPS"}, NEW hardware \in BOOLEAN, NEW device \in BOOLEAN,
         NEW env, NEW override \in BOOLEAN, NEW file, Len(file) \in Nat
  PROVE  LET loaded == Load(Unloaded(build, hardware, device), env, override, file, TRUE)
         IN  IsSettings(loaded) /\ ModeSound(loaded)
  <1> DEFINE s     == Unloaded(build, hardware, device)
             fips  == IF s.build = "FIPS" THEN SetDefaultTrng(s, "TRNG_FIPS") ELSE s
             said  == [fips EXCEPT !.override = override, !.lie = override]
             set   == [said EXCEPT !.plain = [said.plain EXCEPT !["ICC_ALLOW_2KEY3DES"] = 1]]
             taken == TakeAll(set, Env(env))
             read  == TakeAll(taken, ReadConfigItems(file))
  <1>1. Load(s, env, override, file, TRUE) = EnterMode(read)
    BY DEF Load, TakeEnvVars, ReadEnv, ReadFile, SetParams
  <1>2. Loading(s)
    BY UnloadedLoading
  <1> HIDE DEF s
  <1>3. Loading(fips)
    <2>1. SourceOnly(s, SetDefaultTrng(s, "TRNG_FIPS"))
      BY <1>2, SourceSet DEF Loading
    <2>2. Loading(SetDefaultTrng(s, "TRNG_FIPS"))
      BY <1>2, <2>1 DEF Loading, SourceOnly
    <2> QED
      BY <1>2, <2>2
  <1> HIDE DEF fips
  <1>4. Loading(said)
    BY <1>3 DEF Loading, IsSettings, Fields
  <1> HIDE DEF said
  <1>5. Loading(set)
    BY <1>4 DEF Loading, IsSettings, Fields
  <1> HIDE DEF set
  <1>6. Len(Env(env)) \in Nat
    <2>1. Len(EnvOrder) \in Nat
      BY DEF EnvOrder
    <2>2. Env(env) = [i \in 1 .. Len(EnvOrder) |-> Env(env)[i]]
      BY DEF Env
    <2> QED
      BY <2>1, <2>2, LengthIs
  <1>7. Loading(taken)
    BY <1>5, <1>6, AllTaken
  <1> HIDE DEF taken
  <1>8. Len(ReadConfigItems(file)) \in Nat
    <2>1. ReadConfigItems(file) = [i \in 1 .. Len(file) |-> ReadConfigItems(file)[i]]
      BY DEF ReadConfigItems
    <2> QED
      BY <2>1, LengthIs
  <1>9. Loading(read)
    BY <1>7, <1>8, AllTaken
  <1> HIDE DEF read
  <1> QED
    BY <1>1, <1>9, ModeEntered DEF s

-----------------------------------------------------------------------------
(***************************************************************************)
(* The contexts of a library.                                              *)
(***************************************************************************)
\* A library that has the callback of an application stays in the mode.
LibrarySound(s) ==
  /\ IsSettings(s) /\ ContextSound(s)
  /\ s.build = "FIPS" /\ ~s.lie /\ s.pcb.callback # "none" => s.pcb.fips

\* A new context is sound,
LEMMA ContextMade ==
  ASSUME NEW s, IsSettings(s), ModeSound(s)
  PROVE  LibrarySound(NewContext(s))
  <1> DEFINE t   == IF s.build = "FIPS" THEN s ELSE Upgraded(s)
             new == [fips |-> s.build # "FIPS" /\ isFipsTrng(t.trng), lock |-> FALSE, callback |-> "none"]
             c   == NewContext(s)
  <1>1. c = [t EXCEPT !.pcb = new]
    BY DEF NewContext
  <1>2. SourceOnly(s, t) /\ (s.build = "FIPS" \/ s.trng = "TRNG_FIPS" => t.trng = s.trng)
    BY SourceUpgraded DEF SourceOnly
  <1>3. ModeSound(t) /\ IsSettings(t)
    <2> HIDE DEF t
    <2> QED
      BY <1>2 DEF ModeSound, SourceOnly
  <1>4. /\ new = [field \in ContextFields |-> new[field]]
        /\ new.fips \in BOOLEAN /\ new.lock \in BOOLEAN /\ new.callback = "none"
        /\ new.fips => t.build # "FIPS" /\ t.trng = "TRNG_FIPS"
    <2>1. t.build = s.build
      BY <1>2 DEF SourceOnly
    <2> HIDE DEF t
    <2>2. isFipsTrng(t.trng) = (t.trng = "TRNG_FIPS")
      BY DEF isFipsTrng
    <2>3. CASE s.build # "FIPS" /\ isFipsTrng(t.trng)
      <3>1. new = [fips |-> TRUE, lock |-> FALSE, callback |-> "none"]
        BY <2>3
      <3> HIDE DEF new
      <3> QED
        BY <2>1, <2>2, <2>3, <3>1 DEF ContextFields
    <2>4. CASE ~(s.build # "FIPS" /\ isFipsTrng(t.trng))
      <3>1. new = [fips |-> FALSE, lock |-> FALSE, callback |-> "none"]
        BY <2>4
      <3> HIDE DEF new
      <3> QED
        BY <3>1 DEF ContextFields
    <2> QED
      BY <2>3, <2>4
  <1> HIDE DEF t, new, c
  <1>5. c.pcb = new /\ IsSettings(c)
    BY <1>1, <1>3, <1>4 DEF IsSettings, Fields
  <1>6. /\ c.build = t.build /\ c.mode = t.mode /\ c.trng = t.trng /\ c.lie = t.lie /\ c.post = t.post
        /\ c.prng = t.prng
    BY <1>1, <1>3 DEF IsSettings, Fields
  <1> QED
    BY <1>3, <1>4, <1>5, <1>6 DEF LibrarySound, ContextSound, ModeSound, IsSettings, c

\* and stays so when it is attached,
LEMMA ContextAttached ==
  ASSUME NEW s, LibrarySound(s)
  PROVE  LibrarySound(Attached(s))
  <1> DEFINE t == Attached(s)
  <1>1. t = [s EXCEPT !.pcb = [s.pcb EXCEPT !.lock = TRUE]]
    BY DEF Attached
  <1>2. IsSettings(s)
    BY DEF LibrarySound
  <1> HIDE DEF t
  <1>3. IsSettings(t) /\ t.pcb.fips = s.pcb.fips /\ t.pcb.callback = s.pcb.callback
    BY <1>1, <1>2 DEF IsSettings, Fields, ContextFields
  <1>4. /\ t.build = s.build /\ t.mode = s.mode /\ t.trng = s.trng /\ t.lie = s.lie /\ t.post = s.post
        /\ t.prng = s.prng
    BY <1>1, <1>2 DEF IsSettings, Fields
  <1> QED
    BY <1>3, <1>4 DEF LibrarySound, ContextSound, t

\* The answers of SetValue.
LEMMA ValueSet ==
  ASSUME NEW s, NEW id \in ValueID, NEW value
  PROVE  LET call == SetValue(s, id, value)
         IN  \/ call.s = s /\ call.rv # "OK"
             \/ /\ id = "ICC_FIPS_APPROVED_MODE" /\ ~s.pcb.lock /\ call.rv = "OK"
                /\ \/ /\ value = "on" /\ (s.build = "FIPS" \/ s.lie)
                      /\ call.s = [s EXCEPT !.pcb = [s.pcb EXCEPT !.fips = TRUE]]
                   \/ /\ value = "off" /\ (s.build # "FIPS" \/ s.lie)
                      /\ call.s = [s EXCEPT !.pcb = [s.pcb EXCEPT !.fips = FALSE]]
             \/ /\ id = "ICC_INDUCED_FAILURE" /\ call.rv = "OK" /\ value # <<>>
                /\ call.s = [s EXCEPT !.failure = value[1]]
             \/ /\ id = "ICC_FIPS_CALLBACK" /\ call.rv = "OK" /\ s.pcb.callback = "none" /\ s.pcb.fips
                /\ call.s = [s EXCEPT !.pcb = [s.pcb EXCEPT !.callback = value]]
  BY DEF SetValue, SetMode, SetInducedFailure, SetFIPSCallback, Set, ValueID

\* and whatever value is set.
LEMMA LibraryKept ==
  ASSUME NEW s, LibrarySound(s), NEW id \in ValueID, NEW value
  PROVE  LibrarySound(SetValue(s, id, value).s)
  <1> DEFINE t == SetValue(s, id, value).s
  <1>1. IsSettings(s)
    BY DEF LibrarySound
  <1>2. \/ t = s
        \/ t = [s EXCEPT !.pcb = [s.pcb EXCEPT !.fips = TRUE]] /\ (s.build = "FIPS" \/ s.lie)
        \/ t = [s EXCEPT !.pcb = [s.pcb EXCEPT !.fips = FALSE]] /\ (s.build # "FIPS" \/ s.lie)
        \/ t = [s EXCEPT !.failure = value[1]]
        \/ s.pcb.fips /\ t = [s EXCEPT !.pcb = [s.pcb EXCEPT !.callback = value]]
    <2> DEFINE call == SetValue(s, id, value)
    <2>1. \/ call.s = s /\ call.rv # "OK"
          \/ /\ id = "ICC_FIPS_APPROVED_MODE" /\ ~s.pcb.lock /\ call.rv = "OK"
             /\ \/ /\ value = "on" /\ (s.build = "FIPS" \/ s.lie)
                   /\ call.s = [s EXCEPT !.pcb = [s.pcb EXCEPT !.fips = TRUE]]
                \/ /\ value = "off" /\ (s.build # "FIPS" \/ s.lie)
                   /\ call.s = [s EXCEPT !.pcb = [s.pcb EXCEPT !.fips = FALSE]]
          \/ /\ id = "ICC_INDUCED_FAILURE" /\ call.rv = "OK" /\ value # <<>>
             /\ call.s = [s EXCEPT !.failure = value[1]]
          \/ /\ id = "ICC_FIPS_CALLBACK" /\ call.rv = "OK" /\ s.pcb.callback = "none" /\ s.pcb.fips
             /\ call.s = [s EXCEPT !.pcb = [s.pcb EXCEPT !.callback = value]]
      BY ValueSet
    <2> HIDE DEF call
    <2> QED
      BY <2>1 DEF call
  <1> HIDE DEF t
  <1>3. CASE t = s
    BY <1>3 DEF t
  <1>4. ASSUME NEW v \in BOOLEAN, t = [s EXCEPT !.pcb = [s.pcb EXCEPT !.fips = v]],
               v => s.build = "FIPS" \/ s.lie, ~v => s.build # "FIPS" \/ s.lie
        PROVE  LibrarySound(t)
    <2>1. IsSettings(t) /\ t.pcb.fips = v /\ t.pcb.callback = s.pcb.callback
      BY <1>1, <1>4 DEF IsSettings, Fields, ContextFields
    <2>2. /\ t.build = s.build /\ t.mode = s.mode /\ t.trng = s.trng /\ t.lie = s.lie /\ t.post = s.post
          /\ t.prng = s.prng
      BY <1>1, <1>4 DEF IsSettings, Fields
    <2> QED
      BY <1>4, <2>1, <2>2 DEF LibrarySound, ContextSound, IsSettings
  <1>5. CASE t = [s EXCEPT !.failure = value[1]]
    <2>1. /\ IsSettings(t) /\ t.pcb = s.pcb
          /\ t.build = s.build /\ t.mode = s.mode /\ t.trng = s.trng /\ t.lie = s.lie /\ t.post = s.post
          /\ t.prng = s.prng
      BY <1>1, <1>5 DEF IsSettings, Fields
    <2> QED
      BY <2>1 DEF LibrarySound, ContextSound, t
  <1>6. CASE s.pcb.fips /\ t = [s EXCEPT !.pcb = [s.pcb EXCEPT !.callback = value]]
    <2>1. IsSettings(t) /\ t.pcb.fips = s.pcb.fips
      BY <1>1, <1>6 DEF IsSettings, Fields, ContextFields
    <2>2. /\ t.build = s.build /\ t.mode = s.mode /\ t.trng = s.trng /\ t.lie = s.lie /\ t.post = s.post
          /\ t.prng = s.prng
      BY <1>1, <1>6 DEF IsSettings, Fields
    <2> QED
      BY <1>6, <2>1, <2>2 DEF LibrarySound, ContextSound, t
  <1> QED
    BY <1>2, <1>3, <1>4, <1>5, <1>6 DEF t

\* In a sound library the values set are the values got.
LEMMA ValuesKept ==
  ASSUME NEW s, LibrarySound(s)
  PROVE  ValuesSound(s)
  <1> SUFFICES ASSUME NEW id \in ValueID, NEW value \in ValuesOf(id)
               PROVE  LET call == SetValue(s, id, value)  told == GetValue(call.s, id, 20)
                      IN  /\ call.rv # "OK" => call.s = s
                          /\ call.rv = "OK" => told = Get("OK", IF id = "ICC_INDUCED_FAILURE" THEN value[1] ELSE value)
                          /\ s.pcb.lock => call.s.pcb.fips = s.pcb.fips
                          /\ s.pcb.callback # "none" =>
                               /\ call.s.pcb.callback = s.pcb.callback
                               /\ s.build = "FIPS" /\ ~s.lie => call.s.pcb.fips
    BY DEF ValuesSound
  <1> DEFINE call == SetValue(s, id, value)
             t    == call.s
  <1>1. IsSettings(s) /\ LibrarySound(t)
    BY LibraryKept DEF LibrarySound
  <1>2. \/ t = s /\ call.rv # "OK"
        \/ /\ id = "ICC_FIPS_APPROVED_MODE" /\ ~s.pcb.lock /\ call.rv = "OK"
           /\ \/ /\ value = "on" /\ (s.build = "FIPS" \/ s.lie)
                 /\ t = [s EXCEPT !.pcb = [s.pcb EXCEPT !.fips = TRUE]]
              \/ /\ value = "off" /\ (s.build # "FIPS" \/ s.lie)
                 /\ t = [s EXCEPT !.pcb = [s.pcb EXCEPT !.fips = FALSE]]
        \/ /\ id = "ICC_INDUCED_FAILURE" /\ call.rv = "OK" /\ value # <<>>
           /\ t = [s EXCEPT !.failure = value[1]]
        \/ /\ id = "ICC_FIPS_CALLBACK" /\ call.rv = "OK" /\ s.pcb.callback = "none" /\ s.pcb.fips
           /\ t = [s EXCEPT !.pcb = [s.pcb EXCEPT !.callback = value]]
    BY ValueSet
  <1> HIDE DEF call, t
  <1>3. \/ t = s
        \/ id = "ICC_FIPS_APPROVED_MODE" /\ ~s.pcb.lock /\ t.pcb.callback = s.pcb.callback
        \/ t.pcb = s.pcb
        \/ s.pcb.callback = "none" /\ t.pcb.fips = s.pcb.fips
    BY <1>1, <1>2 DEF IsSettings, Fields, ContextFields
  <1>4. s.build = "FIPS" /\ ~s.lie => t.build = "FIPS" /\ ~t.lie
    BY <1>1, <1>2 DEF IsSettings, Fields
  <1>5. call.rv = "OK" => GetValue(t, id, 20) = Get("OK", IF id = "ICC_INDUCED_FAILURE" THEN value[1] ELSE value)
    <2> SUFFICES ASSUME call.rv = "OK"
                 PROVE  GetValue(t, id, 20) = Get("OK", IF id = "ICC_INDUCED_FAILURE" THEN value[1] ELSE value)
      OBVIOUS
    <2>1. id \in {"ICC_FIPS_APPROVED_MODE", "ICC_INDUCED_FAILURE", "ICC_FIPS_CALLBACK"}
      BY <1>2
    <2>2. ValueOf(t, id) = IF id = "ICC_INDUCED_FAILURE" THEN value[1] ELSE value
      BY <1>1, <1>2 DEF ValueOf, IsSettings, Fields, ContextFields
    <2>3. GetValue(t, id, 20) = Get("OK", ValueOf(t, id))
      BY <2>1 DEF GetValue, SizeOf, NumberID
    <2> QED
      BY <2>2, <2>3
  <1>6. s.pcb.callback # "none" => t.pcb.callback = s.pcb.callback /\ (s.build = "FIPS" /\ ~s.lie => t.pcb.fips)
    BY <1>1, <1>3, <1>4 DEF LibrarySound
  <1> QED
    BY <1>2, <1>3, <1>5, <1>6 DEF call, t

\* What is tried is a library configured, or one loaded that is sound.
SettingsInv ==
  /\ Is("config") =>
       \E env, file : \E build \in {"FIPS", "non_FIPS"}, hardware, device, override \in BOOLEAN :
         Len(file) \in Nat /\ input = <<"config", Unloaded(build, hardware, device), env, override, file>>
  /\ Is("settings") => LibrarySound(input[2])

\* A kind of its own, for the library loaded and for the one configured.
LEMMA SettingTried ==
  ASSUME SettingsNext
  PROVE  /\ Is("config")' => TryConfig
         /\ Is("settings")' => CallLoad \/ CallSetValue \/ CallAttach \/ CallNewContext
  <1>1. TryConfig => input'[1] = "config"
    BY DEF TryConfig
  <1>2. CallLoad => input'[1] = "settings"
    BY DEF CallLoad
  <1>3. CallSetValue => input'[1] = "settings"
    BY DEF CallSetValue
  <1>4. CallAttach => input'[1] = "settings"
    BY DEF CallAttach
  <1>5. CallNewContext => input'[1] = "settings"
    BY DEF CallNewContext
  <1> QED
    BY <1>1, <1>2, <1>3, <1>4, <1>5 DEF SettingsNext, Is

\* Every step loads a library, or changes one that is sound into a sound one.
LEMMA SettingsStep ==
  ASSUME SettingsInv, SettingsNext
  PROVE  SettingsInv'
  <1>1. ASSUME Is("config")'
        PROVE  \E env, file : \E build \in {"FIPS", "non_FIPS"}, hardware, device, override \in BOOLEAN :
                 /\ Len(file) \in Nat
                 /\ input' = <<"config", Unloaded(build, hardware, device), env, override, file>>
    <2>1. TryConfig
      BY <1>1, SettingTried
    <2>2. PICK build \in {"FIPS", "non_FIPS"}, hardware \in BOOLEAN, device \in BOOLEAN, override \in BOOLEAN,
               items \in Environment, file \in File :
            input' = <<"config", Unloaded(build, hardware, device), EnvOf(items), override, file>>
      BY <2>1 DEF TryConfig
    <2>3. PICK k \in 0 .. MaxItems : file \in [1 .. k -> FileLines]
      BY DEF File
    <2>4. Len(file) \in Nat
      BY <2>3, SettingsAssumption, LengthIs
    <2> QED
      BY <2>2, <2>4
  <1>2. ASSUME Is("settings")'
        PROVE  LibrarySound(input'[2])
    <2>1. CASE CallLoad
      <3>1. Is("config") /\ input' = <<"settings", NewContext(Loaded)>>
        BY <2>1 DEF CallLoad
      <3>2. PICK env, file, build, hardware, device, override :
              /\ build \in {"FIPS", "non_FIPS"} /\ hardware \in BOOLEAN /\ device \in BOOLEAN
              /\ override \in BOOLEAN /\ Len(file) \in Nat
              /\ input = <<"config", Unloaded(build, hardware, device), env, override, file>>
        BY <3>1 DEF SettingsInv
      <3>3. Loaded = Load(Unloaded(build, hardware, device), env, override, file, TRUE)
        BY <3>2 DEF Loaded
      <3>4. IsSettings(Loaded) /\ ModeSound(Loaded)
        BY <3>2, <3>3, LoadedSound
      <3>5. LibrarySound(NewContext(Loaded))
        BY <3>4, ContextMade
      <3> QED
        BY <3>1, <3>5
    <2>2. CASE CallSetValue
      <3>1. PICK id \in ValueID : \E value \in ValuesOf(id) :
              input' = <<"settings", SetValue(input[2], id, value).s>>
        BY <2>2 DEF CallSetValue
      <3>2. LibrarySound(input[2])
        BY <2>2 DEF CallSetValue, SettingsInv
      <3> QED
        BY <3>1, <3>2, LibraryKept
    <2>3. CASE CallAttach
      BY <2>3, ContextAttached DEF CallAttach, SettingsInv
    <2>4. CASE CallNewContext
      <3>1. IsSettings(input[2]) /\ ModeSound(input[2]) /\ input' = <<"settings", NewContext(input[2])>>
        BY <2>4 DEF CallNewContext, SettingsInv, LibrarySound, ContextSound, ModeSound
      <3> QED
        BY <3>1, ContextMade
    <2> QED
      BY <1>2, <2>1, <2>2, <2>3, <2>4, SettingTried
  <1> QED
    BY <1>1, <1>2 DEF SettingsInv, Is

(***************************************************************************)
(* Whatever the environment and the signature file say, and whatever is    *)
(* set on a context in whatever order, mode, source, self test and default *)
(* generator agree, and a context keeps what it was told (ICCLoad,         *)
(* lib_init, lib_attach, SetValue, GetValue): for lists of settings of any *)
(* length and any values.                                                  *)
(***************************************************************************)
THEOREM ContextsAreSound == SettingsSpec => []ContextsSound
  <1>1. input \in {<<kind>> : kind \in SettingKind} => SettingsInv
    BY DEF SettingsInv, Is
  <1>2. SettingsInv /\ [SettingsNext]_input => SettingsInv'
    <2>1. SettingsInv /\ UNCHANGED input => SettingsInv'
      BY DEF SettingsInv, Is
    <2> QED
      BY <2>1, SettingsStep
  <1>3. SettingsInv => ContextsSound
    BY ValuesKept DEF SettingsInv, ContextsSound, LibrarySound
  <1> QED
    BY <1>1, <1>2, <1>3, PTL DEF SettingsSpec

-----------------------------------------------------------------------------
(***************************************************************************)
(* What is loaded is what was asked for.                                   *)
(***************************************************************************)
\* The source a library will have once the upgrade was tried.
Destined(s) ==
  IF s.build = "FIPS" \/ s.userSet \/ s.trng = "TRNG_FIPS" \/ ~s.hardware THEN s.trng ELSE "TRNG_HW"

\* An upgrade was tried in vain, or is done.
UpgradeDone(s) == s.upgraded => s.build = "FIPS" \/ Destined(s) = s.trng

Choosing(s, value) == checkTRNGAlias(s, value) \in Sources /\ Avail(s, checkTRNGAlias(s, value))

\* The upgrade gives the destined source,
LEMMA UpgradeEffect ==
  ASSUME NEW s, IsSettings(s), UpgradeDone(s)
  PROVE  /\ Upgraded(s).trng = Destined(s) /\ Upgraded(s).userSet = s.userSet
         /\ Destined(Upgraded(s)) = Destined(s) /\ UpgradeDone(Upgraded(s))
         /\ Upgraded(s).prng = s.prng /\ Upgraded(s).excluded = s.excluded
         /\ s.build # "FIPS" => Upgraded(s).upgraded
  BY DEF IsSettings, Fields, UpgradeDone, Destined, Upgraded

\* and so does a source asked for by its name.
LEMMA SourceEffect ==
  ASSUME NEW s, IsSettings(s), UpgradeDone(s), NEW value
  PROVE  LET t == SetTRNGName(s, value)
         IN  /\ UpgradeDone(t) /\ t.prng = s.prng /\ t.excluded = s.excluded
             /\ Destined(t) = IF Choosing(s, value) THEN checkTRNGAlias(s, value) ELSE Destined(s)
  <1> DEFINE trng == checkTRNGAlias(s, value)
             u    == SetDefaultTrng(s, trng)
             t    == SetTRNGName(s, value)
  <1>1. t = IF trng \in Sources THEN Upgraded(u) ELSE s
    BY DEF SetTRNGName
  <1>2. u = IF Choosing(s, value) THEN [s EXCEPT !.trng = trng, !.userSet = TRUE] ELSE s
    BY DEF SetDefaultTrng, Choosing
  <1>3. SourceOnly(s, u)
    BY SourceSet
  <1>4. Choosing(s, value) => trng \in Sources
    BY DEF Choosing
  <1> HIDE DEF trng, u, t
  <1>5. CASE Choosing(s, value)
    <2>1. u = [s EXCEPT !.trng = trng, !.userSet = TRUE]
      BY <1>2, <1>5
    <2>2. u.trng = trng /\ u.userSet = TRUE /\ u.prng = s.prng /\ u.excluded = s.excluded /\ u.build = s.build
      BY <2>1 DEF IsSettings, Fields
    <2>3. UpgradeDone(u) /\ Destined(u) = trng
      BY <2>2 DEF UpgradeDone, Destined
    <2> QED
      BY <1>1, <1>3, <1>4, <1>5, <2>2, <2>3, UpgradeEffect DEF SourceOnly, t, trng
  <1>6. CASE ~Choosing(s, value)
    BY <1>1, <1>2, <1>6, UpgradeEffect DEF t
  <1> QED
    BY <1>5, <1>6

\* What one setting does.
LEMMA SettingEffect ==
  ASSUME NEW s, Loading(s), UpgradeDone(s), NEW name, NEW value
  PROVE  LET t == Take(s, name, value)
         IN  /\ t.hardware = s.hardware /\ t.device = s.device /\ UpgradeDone(t)
             /\ t.trngSet <=> s.trngSet \/ name = "ICC_TRNG"
             /\ Destined(t) = IF name = "ICC_TRNG" /\ Choosing(s, value) THEN checkTRNGAlias(s, value)
                              ELSE Destined(s)
             /\ \/ t.prng = s.prng
                \/ name = "ICC_RANDOM_GENERATOR" /\ t.prng = value /\ ~Excluded(value, s.excluded)
             /\ t.excluded = s.excluded \/ name = "ICC_RNG_EXCLUDED"
             /\ name = "ICC_RNG_EXCLUDED" => t.prng = s.prng
  <1> DEFINE t == Take(s, name, value)
  <1> USE DEF Loading
  <1>1. CASE name = "ICC_TRNG"
    <2> DEFINE u == SetTRNGName(s, value)
    <2>1. SourceOnly(s, u)
      BY SourceNamed
    <2>2. t = [u EXCEPT !.trngSet = TRUE]
      BY <1>1 DEF Take, Plain
    <2>3. /\ UpgradeDone(u) /\ u.prng = s.prng /\ u.excluded = s.excluded
          /\ Destined(u) = IF Choosing(s, value) THEN checkTRNGAlias(s, value) ELSE Destined(s)
      BY SourceEffect
    <2> HIDE DEF t, u
    <2>4. /\ t.trngSet /\ t.hardware = s.hardware /\ t.device = s.device /\ t.build = u.build /\ t.trng = u.trng
          /\ t.userSet = u.userSet /\ t.upgraded = u.upgraded /\ t.prng = u.prng /\ t.excluded = u.excluded
          /\ t.hardware = u.hardware
      BY <2>1, <2>2 DEF SourceOnly, IsSettings, Fields
    <2>5. Destined(t) = Destined(u) /\ UpgradeDone(t)
      BY <2>3, <2>4 DEF Destined, UpgradeDone
    <2> QED
      BY <1>1, <2>3, <2>4, <2>5 DEF t
  <1>2. CASE name = "ICC_RANDOM_GENERATOR"
    <2>1. t = SetPRNGName(s, value)
      BY <1>2 DEF Take, Plain
    <2>2. \/ t = s
          \/ t = [s EXCEPT !.prng = value] /\ ~Excluded(value, s.excluded)
      <3> DEFINE found == get_RNGbyname(value, TRUE, s.hardware, {}, s.excluded)
      <3>1. found # {} => ~Excluded(value, s.excluded)
        BY DEF get_RNGbyname
      <3>2. t = IF \E type \in found : 256 \in Range(type.strengths) THEN [s EXCEPT !.prng = value] ELSE s
        BY <2>1 DEF SetPRNGName
      <3> HIDE DEF found, t
      <3> QED
        BY <3>1, <3>2
    <2> HIDE DEF t
    <2>3. CASE t = s
      BY <1>2, <2>3 DEF t
    <2>4. CASE t = [s EXCEPT !.prng = value] /\ ~Excluded(value, s.excluded)
      <3>1. /\ t.prng = value /\ t.hardware = s.hardware /\ t.device = s.device /\ t.build = s.build
            /\ t.trng = s.trng /\ t.userSet = s.userSet /\ t.upgraded = s.upgraded
            /\ t.excluded = s.excluded /\ t.trngSet = s.trngSet
        BY <2>4 DEF IsSettings, Fields
      <3>2. Destined(t) = Destined(s) /\ UpgradeDone(t)
        BY <3>1 DEF Destined, UpgradeDone
      <3> QED
        BY <1>2, <2>4, <3>1, <3>2 DEF t
    <2> QED
      BY <2>2, <2>3, <2>4
  <1>3. CASE name \notin {"ICC_TRNG", "ICC_RANDOM_GENERATOR"}
    <2>1. \/ t = s
          \/ t = [s EXCEPT !.failure = value]
          \/ t = [s EXCEPT !.mask = value]
          \/ t = [s EXCEPT !.runPost = value # 0]
          \/ t = [s EXCEPT !.instances = value]
          \/ t = [s EXCEPT !.plain = [s.plain EXCEPT ![name] = value]]
          \/ name = "ICC_RNG_EXCLUDED" /\ t = [s EXCEPT !.excluded = value]
      BY <1>3 DEF Take, SetRNGInstances, Plain
    <2> HIDE DEF t
    <2>2. /\ t.hardware = s.hardware /\ t.device = s.device /\ t.build = s.build /\ t.prng = s.prng
          /\ t.trng = s.trng /\ t.userSet = s.userSet /\ t.upgraded = s.upgraded
          /\ t.trngSet = s.trngSet /\ (t.excluded = s.excluded \/ name = "ICC_RNG_EXCLUDED")
      BY <2>1 DEF IsSettings, Fields
    <2>3. Destined(t) = Destined(s) /\ UpgradeDone(t)
      BY <2>2 DEF Destined, UpgradeDone
    <2> QED
      BY <1>3, <2>2, <2>3 DEF t
  <1> QED
    BY <1>1, <1>2, <1>3

\* The source asked for does not depend on what was taken before.
LEMMA SameChoice ==
  ASSUME NEW s, NEW t, t.hardware = s.hardware, t.device = s.device, NEW value
  PROVE  /\ Choosing(t, value) <=> Choosing(s, value)
         /\ checkTRNGAlias(t, value) = checkTRNGAlias(s, value)
  <1>1. checkTRNGAlias(t, value) = checkTRNGAlias(s, value)
    BY DEF checkTRNGAlias
  <1> QED
    BY <1>1 DEF Choosing, Avail

Asks(s, item) == item[1] = "ICC_TRNG" /\ Choosing(s, item[2])

\* What the first settings have made of a library.
TakenUpto(s, items, n, t) ==
  /\ Loading(t) /\ UpgradeDone(t)
  /\ t.hardware = s.hardware /\ t.device = s.device /\ t.build = s.build /\ t.lie = s.lie
  /\ t.trngSet <=> \E i \in 1 .. n : items[i][1] = "ICC_TRNG"
  /\ \/ Destined(t) = Destined(s) /\ \A i \in 1 .. n : ~Asks(s, items[i])
     \/ \E i \in 1 .. n : /\ Asks(s, items[i]) /\ Destined(t) = checkTRNGAlias(s, items[i][2])
                          /\ \A j \in i + 1 .. n : ~Asks(s, items[j])
  /\ \/ t.prng = s.prng
     \/ \E i \in 1 .. n : /\ items[i][1] = "ICC_RANDOM_GENERATOR" /\ items[i][2] = t.prng
                          /\ Excluded(t.prng, t.excluded) =>
                               \E j \in i + 1 .. n : items[j][1] = "ICC_RNG_EXCLUDED"

\* One setting more.
LEMMA TakenNext ==
  ASSUME NEW s, NEW items, NEW n \in Nat, NEW t, TakenUpto(s, items, n, t)
  PROVE  TakenUpto(s, items, n + 1, Take(t, items[n + 1][1], items[n + 1][2]))
  <1> DEFINE name  == items[n + 1][1]
             value == items[n + 1][2]
             u     == Take(t, name, value)
  <1>1. /\ Loading(t) /\ UpgradeDone(t)
        /\ t.hardware = s.hardware /\ t.device = s.device /\ t.build = s.build /\ t.lie = s.lie
    BY DEF TakenUpto
  <1>2. Loading(u) /\ u.build = t.build /\ u.lie = t.lie
    BY <1>1, SettingTaken
  <1>3. /\ u.hardware = t.hardware /\ u.device = t.device /\ UpgradeDone(u)
        /\ u.trngSet <=> t.trngSet \/ name = "ICC_TRNG"
        /\ Destined(u) = IF name = "ICC_TRNG" /\ Choosing(t, value) THEN checkTRNGAlias(t, value) ELSE Destined(t)
        /\ \/ u.prng = t.prng
           \/ name = "ICC_RANDOM_GENERATOR" /\ u.prng = value /\ ~Excluded(value, t.excluded)
        /\ u.excluded = t.excluded \/ name = "ICC_RNG_EXCLUDED"
        /\ name = "ICC_RNG_EXCLUDED" => u.prng = t.prng
    BY <1>1, SettingEffect
  <1>4. /\ Choosing(t, value) <=> Choosing(s, value)
        /\ checkTRNGAlias(t, value) = checkTRNGAlias(s, value)
    BY <1>1, SameChoice
  <1> HIDE DEF u
  <1>5. u.trngSet <=> \E i \in 1 .. n + 1 : items[i][1] = "ICC_TRNG"
    <2>1. t.trngSet <=> \E i \in 1 .. n : items[i][1] = "ICC_TRNG"
      BY DEF TakenUpto
    <2> QED
      BY <1>3, <2>1
  <1>6. \/ Destined(u) = Destined(s) /\ \A i \in 1 .. n + 1 : ~Asks(s, items[i])
        \/ \E i \in 1 .. n + 1 : /\ Asks(s, items[i]) /\ Destined(u) = checkTRNGAlias(s, items[i][2])
                                 /\ \A j \in i + 1 .. n + 1 : ~Asks(s, items[j])
    <2>1. Asks(s, items[n + 1]) <=> name = "ICC_TRNG" /\ Choosing(t, value)
      BY <1>4 DEF Asks
    <2>2. CASE Asks(s, items[n + 1])
      <3>1. Destined(u) = checkTRNGAlias(s, items[n + 1][2])
        BY <1>3, <1>4, <2>1, <2>2
      <3>2. \A j \in (n + 1) + 1 .. n + 1 : ~Asks(s, items[j])
        OBVIOUS
      <3> QED
        BY <2>2, <3>1, <3>2
    <2>3. CASE ~Asks(s, items[n + 1])
      <3>1. Destined(u) = Destined(t)
        BY <1>3, <2>1, <2>3
      <3>2. CASE Destined(t) = Destined(s) /\ \A i \in 1 .. n : ~Asks(s, items[i])
        <4>1. \A i \in 1 .. n + 1 : ~Asks(s, items[i])
          BY <2>3, <3>2
        <4> QED
          BY <3>1, <3>2, <4>1
      <3>3. ASSUME NEW i \in 1 .. n, Asks(s, items[i]), Destined(t) = checkTRNGAlias(s, items[i][2]),
                   \A j \in i + 1 .. n : ~Asks(s, items[j])
            PROVE  \E k \in 1 .. n + 1 : /\ Asks(s, items[k]) /\ Destined(u) = checkTRNGAlias(s, items[k][2])
                                         /\ \A j \in k + 1 .. n + 1 : ~Asks(s, items[j])
        <4>1. \A j \in i + 1 .. n + 1 : ~Asks(s, items[j])
          BY <2>3, <3>3
        <4>2. i \in 1 .. n + 1
          OBVIOUS
        <4> QED
          BY <3>1, <3>3, <4>1, <4>2
      <3> QED
        BY <3>2, <3>3 DEF TakenUpto
    <2> QED
      BY <2>2, <2>3
  <1>7. \/ u.prng = s.prng
        \/ \E i \in 1 .. n + 1 : /\ items[i][1] = "ICC_RANDOM_GENERATOR" /\ items[i][2] = u.prng
                                 /\ Excluded(u.prng, u.excluded) =>
                                      \E j \in i + 1 .. n + 1 : items[j][1] = "ICC_RNG_EXCLUDED"
    <2>1. CASE name = "ICC_RANDOM_GENERATOR" /\ u.prng = value /\ ~Excluded(value, t.excluded)
      <3>1. u.excluded = t.excluded
        BY <1>3, <2>1
      <3>2. n + 1 \in 1 .. n + 1
        OBVIOUS
      <3> QED
        BY <2>1, <3>1, <3>2
    <2>2. CASE u.prng = t.prng
      <3>1. CASE t.prng = s.prng
        BY <2>2, <3>1
      <3>2. ASSUME NEW i \in 1 .. n, items[i][1] = "ICC_RANDOM_GENERATOR", items[i][2] = t.prng,
                   Excluded(t.prng, t.excluded) => \E j \in i + 1 .. n : items[j][1] = "ICC_RNG_EXCLUDED"
            PROVE  \E k \in 1 .. n + 1 : /\ items[k][1] = "ICC_RANDOM_GENERATOR" /\ items[k][2] = u.prng
                                         /\ Excluded(u.prng, u.excluded) =>
                                              \E j \in k + 1 .. n + 1 : items[j][1] = "ICC_RNG_EXCLUDED"
        <4>1. ASSUME Excluded(u.prng, u.excluded)
              PROVE  \E j \in i + 1 .. n + 1 : items[j][1] = "ICC_RNG_EXCLUDED"
          <5>1. CASE u.excluded = t.excluded
            <6>1. PICK j \in i + 1 .. n : items[j][1] = "ICC_RNG_EXCLUDED"
              BY <2>2, <3>2, <4>1, <5>1
            <6>2. j \in i + 1 .. n + 1
              OBVIOUS
            <6> QED
              BY <6>1, <6>2
          <5>2. CASE name = "ICC_RNG_EXCLUDED"
            <6>1. n + 1 \in i + 1 .. n + 1
              OBVIOUS
            <6> QED
              BY <5>2, <6>1
          <5> QED
            BY <1>3, <5>1, <5>2
        <4>2. i \in 1 .. n + 1
          OBVIOUS
        <4> QED
          BY <2>2, <3>2, <4>1, <4>2
      <3> QED
        BY <3>1, <3>2 DEF TakenUpto
    <2> QED
      BY <1>3, <2>1, <2>2
  <1> QED
    BY <1>1, <1>2, <1>3, <1>5, <1>6, <1>7 DEF TakenUpto, u

\* All of them: by induction over the settings.
LEMMA TakenWhole ==
  ASSUME NEW s, Loading(s), UpgradeDone(s), ~s.trngSet, NEW items, Len(items) \in Nat
  PROVE  TakenUpto(s, items, Len(items), TakeAll(s, items))
  <1>1. PICK taken : Between(s, items, taken) /\ TakeAll(s, items) = taken[Len(items)]
    BY SettingsTaken
  <1> DEFINE Same == {n \in Nat : n <= Len(items) => TakenUpto(s, items, n, taken[n])}
  <1>2. \A i \in 0 .. Len(items) : taken[i] = IF i = 0 THEN s ELSE Take(taken[i - 1], items[i][1], items[i][2])
    BY <1>1 DEF Between
  <1>3. TakenUpto(s, items, 0, s)
    BY DEF TakenUpto
  <1>4. 0 \in Same
    BY <1>2, <1>3
  <1>5. ASSUME NEW n \in Nat, n \in Same PROVE n + 1 \in Same
    <2> SUFFICES ASSUME n + 1 <= Len(items) PROVE TakenUpto(s, items, n + 1, taken[n + 1])
      OBVIOUS
    <2>1. TakenUpto(s, items, n, taken[n])
      BY <1>5
    <2>2. taken[n + 1] = Take(taken[n], items[n + 1][1], items[n + 1][2])
      BY <1>2
    <2> QED
      BY <2>1, <2>2, TakenNext
  <1>6. Len(items) \in Same
    <2> HIDE DEF Same
    <2> QED
      BY <1>4, <1>5, EveryNumber
  <1> QED
    BY <1>1, <1>6

\* Two lists, one after the other.
LEMMA AppendedIs ==
  ASSUME NEW a, NEW b, NEW m \in Nat, NEW n \in Nat,
         a = [i \in 1 .. m |-> a[i]], b = [i \in 1 .. n |-> b[i]]
  PROVE  /\ Len(a) = m /\ Len(b) = n /\ Len(a \o b) = m + n /\ DOMAIN (a \o b) = 1 .. m + n
         /\ \A i \in 1 .. m + n : (a \o b)[i] = IF i <= m THEN a[i] ELSE b[i - m]
  <1> DEFINE S == {a[i] : i \in 1 .. m} \cup {b[i] : i \in 1 .. n}
  <1>1. a \in Seq(S) /\ Len(a) = m
    <2>1. \A i \in 1 .. m : a[i] \in S
      OBVIOUS
    <2> HIDE DEF S
    <2> QED
      BY <2>1, LengthIs
  <1>2. b \in Seq(S) /\ Len(b) = n
    <2>1. \A i \in 1 .. n : b[i] \in S
      OBVIOUS
    <2> HIDE DEF S
    <2> QED
      BY <2>1, LengthIs
  <1> HIDE DEF S
  <1> QED
    BY <1>1, <1>2

\* One setting after the other.
TakeItem(t, item) == Take(t, item[1], item[2])

TakenBy(taken, s, items, n, t) ==
  taken[0] = s /\ taken[n] = t /\ \A i \in 1 .. n : taken[i] = TakeItem(taken[i - 1], items[i])

\* The states between them, from one to the next.
LEMMA TakenBetween ==
  ASSUME NEW s, NEW items, NEW n \in Nat, Len(items) = n
  PROVE  \E taken : TakenBy(taken, s, items, n, TakeAll(s, items))
  <1>1. PICK taken : Between(s, items, taken) /\ TakeAll(s, items) = taken[n]
    BY SettingsTaken
  <1>2. \A i \in 0 .. n : taken[i] = IF i = 0 THEN s ELSE Take(taken[i - 1], items[i][1], items[i][2])
    BY <1>1 DEF Between
  <1>3. taken[0] = s /\ \A i \in 1 .. n : taken[i] = TakeItem(taken[i - 1], items[i])
    BY <1>2 DEF TakeItem
  <1> QED
    BY <1>1, <1>3 DEF TakenBy

\* The settings of the file are taken after those of the environment.
LEMMA TakenTogether ==
  ASSUME NEW s, NEW a, NEW b, NEW m \in Nat, NEW n \in Nat,
         a = [i \in 1 .. m |-> a[i]], b = [i \in 1 .. n |-> b[i]]
  PROVE  TakeAll(TakeAll(s, a), b) = TakeAll(s, a \o b)
  <1> DEFINE c == a \o b
  <1>1. /\ Len(a) = m /\ Len(b) = n /\ Len(c) = m + n
        /\ \A i \in 1 .. m + n : c[i] = IF i <= m THEN a[i] ELSE b[i - m]
    BY AppendedIs
  <1> HIDE DEF c
  <1> DEFINE t == TakeAll(s, a)
  <1>2. PICK f : TakenBy(f, s, a, m, t)
    BY <1>1, TakenBetween
  <1>3. PICK g : TakenBy(g, t, b, n, TakeAll(t, b))
    BY <1>1, TakenBetween
  <1>4. PICK h : TakenBy(h, s, c, m + n, TakeAll(s, c))
    <2>1. m + n \in Nat /\ Len(c) = m + n
      BY <1>1
    <2> QED
      BY <2>1, TakenBetween
  <1>5. f[0] = s /\ t = f[m] /\ \A i \in 1 .. m : f[i] = TakeItem(f[i - 1], a[i])
    BY <1>2 DEF TakenBy
  <1>6. g[0] = t /\ TakeAll(t, b) = g[n] /\ \A i \in 1 .. n : g[i] = TakeItem(g[i - 1], b[i])
    BY <1>3 DEF TakenBy
  <1>7. h[0] = s /\ TakeAll(s, c) = h[m + n] /\ \A i \in 1 .. m + n : h[i] = TakeItem(h[i - 1], c[i])
    BY <1>4 DEF TakenBy
  <1> HIDE DEF t
  <1> DEFINE Earlier  == {i \in Nat : i <= m => h[i] = f[i]}
             Later == {i \in Nat : i <= n => h[m + i] = g[i]}
  <1>8. m \in Earlier
    <2>1. 0 \in Earlier
      BY <1>5, <1>7
    <2>2. ASSUME NEW i \in Nat, i \in Earlier PROVE i + 1 \in Earlier
      <3> SUFFICES ASSUME i + 1 <= m PROVE h[i + 1] = f[i + 1]
        OBVIOUS
      <3>1. h[i] = f[i] /\ c[i + 1] = a[i + 1]
        BY <1>1, <2>2
      <3>2. h[i + 1] = TakeItem(h[i], c[i + 1]) /\ f[i + 1] = TakeItem(f[i], a[i + 1])
        BY <1>5, <1>7
      <3> QED
        BY <3>1, <3>2
    <2> HIDE DEF Earlier
    <2> QED
      BY <2>1, <2>2, EveryNumber
  <1>9. n \in Later
    <2>1. 0 \in Later
      BY <1>5, <1>6, <1>8
    <2>2. ASSUME NEW i \in Nat, i \in Later PROVE i + 1 \in Later
      <3> SUFFICES ASSUME i + 1 <= n PROVE h[m + (i + 1)] = g[i + 1]
        OBVIOUS
      <3>0. m + (i + 1) \in 1 .. m + n /\ ~(m + (i + 1) <= m) /\ (m + (i + 1)) - m = i + 1
            /\ (m + (i + 1)) - 1 = m + i /\ (i + 1) - 1 = i
        OBVIOUS
      <3>3. c[m + (i + 1)] = b[(m + (i + 1)) - m]
        BY <1>1, <3>0
      <3>4. h[m + i] = g[i]
        BY <2>2
      <3>1. h[m + i] = g[i] /\ c[m + (i + 1)] = b[i + 1]
        BY <3>0, <3>3, <3>4
      <3>2. h[m + (i + 1)] = TakeItem(h[m + i], c[m + (i + 1)]) /\ g[i + 1] = TakeItem(g[i], b[i + 1])
        BY <1>6, <1>7, <3>0
      <3> QED
        BY <3>1, <3>2
    <2> HIDE DEF Later
    <2> QED
      BY <2>1, <2>2, EveryNumber
  <1> QED
    <2>1. h[m + n] = g[n]
      BY <1>9
    <2>2. TakeAll(t, b) = TakeAll(s, c)
      BY <1>6, <1>7, <2>1
    <2> QED
      BY <2>2 DEF c, t

\* What the mode leaves alone.
LEMMA ModeEffect ==
  ASSUME NEW s, Loading(s), UpgradeDone(s)
  PROVE  LET t == EnterMode(s)
         IN  /\ UpgradeDone(t) /\ t.build = s.build /\ t.hardware = s.hardware
             /\ t.prng = s.prng /\ t.excluded = s.excluded
             /\ Destined(t) = IF s.build # "FIPS" /\ s.lie /\ ~s.trngSet THEN "TRNG_FIPS" ELSE Destined(s)
             /\ t.lie => IF s.build = "FIPS" THEN s.lie \/ t.trng # "TRNG_FIPS" ELSE s.lie
             /\ s.build # "FIPS" /\ s.lie => t.post
  <1> DEFINE t == EnterMode(s)
  <1> USE DEF Loading
  <1>1. CASE s.build = "FIPS"
    <2>1. t = IF s.trng = "TRNG_FIPS" THEN [s EXCEPT !.mode = TRUE] ELSE [s EXCEPT !.lie = TRUE]
      BY <1>1 DEF EnterMode, isFipsTrng
    <2> HIDE DEF t
    <2>2. /\ t.build = s.build /\ t.hardware = s.hardware /\ t.prng = s.prng /\ t.excluded = s.excluded
          /\ t.trng = s.trng /\ t.userSet = s.userSet /\ t.upgraded = s.upgraded
          /\ t.lie => s.lie \/ t.trng # "TRNG_FIPS"
      BY <2>1 DEF IsSettings, Fields
    <2>3. Destined(t) = Destined(s) /\ UpgradeDone(t)
      BY <2>2 DEF Destined, UpgradeDone
    <2> QED
      BY <1>1, <2>2, <2>3 DEF t
  <1>2. CASE s.build # "FIPS"
    <2> DEFINE v == SetDefaultTrng(s, "TRNG_FIPS")
               u == IF ~s.lie THEN [s EXCEPT !.post = FALSE]
                    ELSE IF s.trngSet THEN [s EXCEPT !.lie = FALSE]
                    ELSE [v EXCEPT !.mode = TRUE]
    <2>1. t = [u EXCEPT !.post = u.post \/ u.runPost]
      BY <1>2 DEF EnterMode
    <2>2. v = [s EXCEPT !.trng = "TRNG_FIPS", !.userSet = TRUE]
      BY DEF SetDefaultTrng, Sources, Avail
    <2> HIDE DEF v
    <2>3. /\ u.build = s.build /\ u.hardware = s.hardware /\ u.prng = s.prng /\ u.excluded = s.excluded
          /\ u.upgraded = s.upgraded /\ u.post \in BOOLEAN /\ u.runPost \in BOOLEAN
          /\ (u.lie => s.lie) /\ (s.lie => u.post) /\ "post" \in DOMAIN u
          /\ IF s.lie /\ ~s.trngSet THEN u.trng = "TRNG_FIPS" /\ u.userSet
             ELSE u.trng = s.trng /\ u.userSet = s.userSet
          /\ u = [field \in Fields |-> u[field]]
      <3>1. CASE ~s.lie
        <4>1. u = [s EXCEPT !.post = FALSE]
          BY <3>1
        <4> HIDE DEF u
        <4> QED
          BY <3>1, <4>1 DEF IsSettings, Fields
      <3>2. CASE s.lie /\ s.trngSet
        <4>1. u = [s EXCEPT !.lie = FALSE]
          BY <3>2
        <4> HIDE DEF u
        <4> QED
          BY <3>2, <4>1 DEF IsSettings, Fields
      <3>3. CASE s.lie /\ ~s.trngSet
        <4>1. u = [v EXCEPT !.mode = TRUE]
          BY <3>3
        <4> HIDE DEF u
        <4> QED
          BY <2>2, <3>3, <4>1 DEF IsSettings, Fields
      <3> QED
        BY <3>1, <3>2, <3>3 DEF IsSettings
    <2> HIDE DEF t, u
    <2>4. /\ t.build = u.build /\ t.hardware = u.hardware /\ t.prng = u.prng /\ t.excluded = u.excluded
          /\ t.upgraded = u.upgraded /\ t.trng = u.trng /\ t.userSet = u.userSet /\ t.lie = u.lie
          /\ (u.post => t.post)
      BY <2>1, <2>3 DEF Fields
    <2>5. Destined(t) = IF s.lie /\ ~s.trngSet THEN "TRNG_FIPS" ELSE Destined(s)
      BY <1>2, <2>3, <2>4 DEF Destined
    <2>6. UpgradeDone(t)
      BY <1>2, <2>3, <2>4 DEF Destined, UpgradeDone
    <2> QED
      BY <1>2, <2>3, <2>4, <2>5, <2>6 DEF t
  <1> QED
    BY <1>1, <1>2

\* A new context asks for the source at last.
LEMMA ContextEffect ==
  ASSUME NEW s, IsSettings(s), UpgradeDone(s)
  PROVE  LET c == NewContext(s)
         IN  /\ c.trng = Destined(s) /\ c.build = s.build
             /\ c.pcb.fips => s.build # "FIPS" /\ c.trng = "TRNG_FIPS"
             /\ IsSettings(c) => UpgradeDone(c) /\ Destined(c) = Destined(s)
  <1> DEFINE t   == IF s.build = "FIPS" THEN s ELSE Upgraded(s)
             new == [fips |-> s.build # "FIPS" /\ isFipsTrng(t.trng), lock |-> FALSE, callback |-> "none"]
             c   == NewContext(s)
  <1>1. c = [t EXCEPT !.pcb = new]
    BY DEF NewContext
  <1>2. /\ t.trng = Destined(s) /\ Destined(t) = Destined(s) /\ UpgradeDone(t)
        /\ t.build = s.build /\ IsSettings(t)
    <2>1. SourceOnly(s, Upgraded(s))
      BY SourceUpgraded
    <2>2. CASE s.build = "FIPS"
      BY <2>2 DEF Destined
    <2>3. CASE s.build # "FIPS"
      BY <2>1, <2>3, UpgradeEffect DEF SourceOnly
    <2> QED
      BY <2>2, <2>3
  <1>3. new.fips => s.build # "FIPS" /\ t.trng = "TRNG_FIPS"
    BY DEF isFipsTrng
  <1> HIDE DEF t, new, c
  <1>4. /\ c.pcb = new /\ c.build = t.build /\ c.trng = t.trng /\ c.hardware = t.hardware
        /\ c.userSet = t.userSet /\ c.upgraded = t.upgraded
    BY <1>1, <1>2 DEF IsSettings, Fields
  <1>5. Destined(c) = Destined(t) /\ UpgradeDone(c)
    BY <1>2, <1>4 DEF Destined, UpgradeDone
  <1> QED
    BY <1>2, <1>3, <1>4, <1>5 DEF c

\* The two lists a library reads.
LEMMA ListsAre ==
  ASSUME NEW env, NEW file, Len(file) \in Nat
  PROVE  \E m, n \in Nat : /\ Env(env) = [i \in 1 .. m |-> Env(env)[i]]
                           /\ ReadConfigItems(file) = [i \in 1 .. n |-> ReadConfigItems(file)[i]]
  <1>1. Len(EnvOrder) \in Nat
    BY DEF EnvOrder
  <1>2. Env(env) = [i \in 1 .. Len(EnvOrder) |-> Env(env)[i]]
    BY DEF Env
  <1>3. ReadConfigItems(file) = [i \in 1 .. Len(file) |-> ReadConfigItems(file)[i]]
    BY DEF ReadConfigItems
  <1> QED
    BY <1>1, <1>2, <1>3

\* The last of the places that ask, if any.
LEMMA LastChosen ==
  ASSUME NEW s, NEW settings, NEW n \in Nat, DOMAIN settings = 1 .. n, NEW i \in 1 .. n,
         Asks(s, settings[i]), \A j \in i + 1 .. n : ~Asks(s, settings[j])
  PROVE  Chosen(s, settings) # {} /\ Max(Chosen(s, settings)) = i
  <1>1. \A j : j \in Chosen(s, settings) <=> j \in 1 .. n /\ Asks(s, settings[j])
    BY DEF Chosen, At, Asks, Choosing
  <1>2. i \in Chosen(s, settings) /\ \A j \in Chosen(s, settings) : j \in Int /\ i >= j
    BY <1>1
  <1>3. \A k \in Chosen(s, settings) : (\A j \in Chosen(s, settings) : k >= j) => k = i
    BY <1>2
  <1> QED
    BY <1>2, <1>3 DEF Max

\* The library as it is before the first setting is taken.
Begun(s, override) ==
  LET fips == IF s.build = "FIPS" THEN SetDefaultTrng(s, "TRNG_FIPS") ELSE s
      said == [fips EXCEPT !.override = override, !.lie = override]
  IN  [said EXCEPT !.plain = [said.plain EXCEPT !["ICC_ALLOW_2KEY3DES"] = 1]]

\* What it is: nothing chosen, no upgrade tried in vain.
LEMMA BegunIs ==
  ASSUME NEW build \in {"FIPS", "non_FIPS"}, NEW hardware \in BOOLEAN, NEW device \in BOOLEAN,
         NEW override \in BOOLEAN
  PROVE  LET s == Unloaded(build, hardware, device)  t == Begun(s, override)
         IN  /\ Loading(t) /\ UpgradeDone(t) /\ ~t.trngSet /\ t.lie = override
             /\ t.build = build /\ t.hardware = hardware /\ t.device = device
             /\ s.build = build /\ s.hardware = hardware /\ s.device = device
             /\ t.prng = s.prng /\ t.excluded = {}
             /\ Destined(t) = IF build = "FIPS" THEN "TRNG_FIPS" ELSE IF hardware THEN "TRNG_HW" ELSE "TRNG_OS"
  <1> DEFINE s    == Unloaded(build, hardware, device)
             fips == IF s.build = "FIPS" THEN SetDefaultTrng(s, "TRNG_FIPS") ELSE s
             said == [fips EXCEPT !.override = override, !.lie = override]
             t    == Begun(s, override)
  <1>1. Loading(s)
    BY UnloadedLoading
  <1>2. /\ s.build = build /\ s.hardware = hardware /\ s.device = device /\ s.userSet = FALSE
        /\ s.upgraded = FALSE /\ s.trngSet = FALSE /\ s.excluded = {}
        /\ s.trng = IF build = "FIPS" THEN "TRNG_FIPS" ELSE "TRNG_OS"
    BY DEF Unloaded
  <1>3. t = [said EXCEPT !.plain = [said.plain EXCEPT !["ICC_ALLOW_2KEY3DES"] = 1]]
    BY DEF Begun
  <1> HIDE DEF s
  <1>4. fips = IF build = "FIPS" THEN [s EXCEPT !.trng = "TRNG_FIPS", !.userSet = TRUE] ELSE s
    BY <1>2 DEF SetDefaultTrng, Sources, Avail
  <1> HIDE DEF fips
  <1>5. /\ Loading(fips) /\ fips.build = build /\ fips.hardware = hardware /\ fips.device = device
        /\ fips.upgraded = FALSE /\ fips.trngSet = FALSE /\ fips.excluded = {} /\ fips.prng = s.prng
        /\ fips.trng = IF build = "FIPS" THEN "TRNG_FIPS" ELSE "TRNG_OS"
        /\ fips.userSet = (build = "FIPS")
    <2>1. CASE build = "FIPS"
      BY <1>1, <1>2, <1>4, <2>1 DEF Loading, IsSettings, Fields
    <2>2. CASE build # "FIPS"
      BY <1>1, <1>2, <1>4, <2>2
    <2> QED
      BY <2>1, <2>2
  <1>6. /\ Loading(said) /\ said.build = build /\ said.hardware = hardware /\ said.device = device
        /\ said.upgraded = FALSE /\ said.trngSet = FALSE /\ said.excluded = {} /\ said.prng = s.prng
        /\ said.trng = fips.trng /\ said.userSet = fips.userSet /\ said.lie = override
    BY <1>5 DEF Loading, IsSettings, Fields
  <1> HIDE DEF said, t
  <1>7. /\ Loading(t) /\ t.build = build /\ t.hardware = hardware /\ t.device = device
        /\ t.upgraded = FALSE /\ t.trngSet = FALSE /\ t.excluded = {} /\ t.prng = s.prng
        /\ t.trng = fips.trng /\ t.userSet = fips.userSet /\ t.lie = override
    BY <1>3, <1>6 DEF Loading, IsSettings, Fields
  <1>8. Destined(t) = IF build = "FIPS" THEN "TRNG_FIPS" ELSE IF hardware THEN "TRNG_HW" ELSE "TRNG_OS"
    BY <1>5, <1>7 DEF Destined
  <1>9. UpgradeDone(t)
    BY <1>7 DEF UpgradeDone
  <1> QED
    BY <1>2, <1>7, <1>8, <1>9 DEF t, s

\* Nothing to take changes nothing.
LEMMA NothingTaken ==
  ASSUME NEW s
  PROVE  TakeAll(s, ReadConfigItems(<<>>)) = s
  <1> DEFINE items == ReadConfigItems(<<>>)
  <1>1. items = [i \in 1 .. 0 |-> items[i]]
    BY DEF ReadConfigItems
  <1> HIDE DEF items
  <1>2. Len(items) = 0
    BY <1>1, LengthIs
  <1>3. PICK taken : TakenBy(taken, s, items, 0, TakeAll(s, items))
    BY <1>2, TakenBetween
  <1> QED
    BY <1>3 DEF TakenBy, items

\* Whatever it is asked to be, a library loaded is that.
LEMMA LoadedIsAsked ==
  ASSUME NEW build \in {"FIPS", "non_FIPS"}, NEW hardware \in BOOLEAN, NEW device \in BOOLEAN,
         NEW env, NEW override \in BOOLEAN, NEW file, Len(file) \in Nat
  PROVE  LoadedAsAsked(Unloaded(build, hardware, device), env, override, file)
  <1> DEFINE s        == Unloaded(build, hardware, device)
             begun    == Begun(s, override)
             a        == Env(env)
             b        == ReadConfigItems(file)
             settings == InOrder(env, file)
             read     == TakeAll(begun, settings)
             loaded   == Load(s, env, override, file, TRUE)
             unread   == Load(s, env, override, file, FALSE)
             first    == NewContext(loaded)
  <1>1. PICK m \in Nat, n \in Nat : a = [i \in 1 .. m |-> a[i]] /\ b = [i \in 1 .. n |-> b[i]]
    BY ListsAre
  <1>2. settings = a \o b
    BY DEF InOrder
  <1>3. /\ loaded = EnterMode(TakeAll(TakeAll(begun, a), b)) /\ unread = EnterMode(TakeAll(begun, a))
        /\ Load(s, env, override, <<>>, TRUE) = EnterMode(TakeAll(TakeAll(begun, a), ReadConfigItems(<<>>)))
    BY DEF Load, TakeEnvVars, ReadEnv, ReadFile, SetParams, Begun
  <1>4. /\ Loading(begun) /\ UpgradeDone(begun) /\ ~begun.trngSet /\ begun.lie = override
        /\ begun.build = build /\ begun.hardware = hardware /\ begun.device = device
        /\ s.build = build /\ s.hardware = hardware /\ s.device = device
        /\ begun.prng = s.prng
        /\ Destined(begun) = IF build = "FIPS" THEN "TRNG_FIPS" ELSE IF hardware THEN "TRNG_HW" ELSE "TRNG_OS"
    BY BegunIs
  <1> HIDE DEF s, begun, a, b
  <1>5. unread = Load(s, env, override, <<>>, TRUE)
    BY <1>3, NothingTaken
  <1>6. loaded = EnterMode(read)
    <2>1. TakeAll(TakeAll(begun, a), b) = TakeAll(begun, a \o b)
      BY <1>1, TakenTogether
    <2>2. read = TakeAll(begun, a \o b)
      BY <1>2
    <2> HIDE DEF read, loaded
    <2> QED
      BY <1>3, <2>1, <2>2
  <1> DEFINE k == m + n
  <1>7. Len(settings) = k /\ DOMAIN settings = 1 .. k /\ k \in Nat
    BY <1>1, <1>2, AppendedIs
  <1> HIDE DEF k, settings
  <1>8. TakenUpto(begun, settings, k, read)
    BY <1>4, <1>7, TakenWhole
  <1> HIDE DEF read, loaded, unread
  <1>9. /\ Loading(read) /\ UpgradeDone(read) /\ read.build = build /\ read.hardware = hardware /\ read.lie = override
        /\ read.trngSet <=> At(settings, "ICC_TRNG") # {}
    <2>1. read.trngSet <=> \E i \in 1 .. k : settings[i][1] = "ICC_TRNG"
      BY <1>8 DEF TakenUpto
    <2> QED
      BY <1>4, <1>7, <1>8, <2>1 DEF TakenUpto, At
  <1>10. \A i : Asks(begun, settings[i]) <=> Asks(s, settings[i])
    BY <1>4, SameChoice DEF Asks
  <1>11. \A i : checkTRNGAlias(begun, settings[i][2]) = checkTRNGAlias(s, settings[i][2])
    BY <1>4, SameChoice
  <1> DEFINE chosen == Chosen(s, settings)
  <1>12. /\ chosen = {} => Destined(read) = Destined(begun)
         /\ chosen # {} => Destined(read) = checkTRNGAlias(s, settings[Max(chosen)][2])
    <2>1. CASE Destined(read) = Destined(begun) /\ \A i \in 1 .. k : ~Asks(begun, settings[i])
      <3>1. chosen = {}
        BY <1>7, <1>10, <2>1 DEF Chosen, At, Asks, Choosing
      <3> QED
        BY <2>1, <3>1
    <2>2. ASSUME NEW i \in 1 .. k, Asks(begun, settings[i]), Destined(read) = checkTRNGAlias(begun, settings[i][2]),
                 \A j \in i + 1 .. k : ~Asks(begun, settings[j])
          PROVE  chosen # {} /\ Destined(read) = checkTRNGAlias(s, settings[Max(chosen)][2])
      <3>1. Asks(s, settings[i]) /\ \A j \in i + 1 .. k : ~Asks(s, settings[j])
        BY <1>10, <2>2
      <3>2. chosen # {} /\ Max(chosen) = i
        BY <1>7, <3>1, LastChosen
      <3> QED
        BY <1>11, <2>2, <3>2
    <2> QED
      BY <1>8, <2>1, <2>2 DEF TakenUpto
  <1>13. chosen # {} => At(settings, "ICC_TRNG") # {}
    BY DEF Chosen
  <1> HIDE DEF chosen
  <1>14. /\ UpgradeDone(loaded) /\ loaded.build = build /\ IsSettings(loaded)
         /\ loaded.prng = read.prng /\ loaded.excluded = read.excluded
         /\ Destined(loaded) = IF build # "FIPS" /\ override /\ ~read.trngSet THEN "TRNG_FIPS" ELSE Destined(read)
         /\ loaded.lie => IF build = "FIPS" THEN override \/ loaded.trng # "TRNG_FIPS" ELSE override
         /\ build # "FIPS" /\ override => loaded.post
    BY <1>6, <1>9, ModeEffect, ModeEntered
  <1>15. /\ first.trng = Destined(loaded) /\ first.build = build
         /\ first.pcb.fips => build # "FIPS" /\ first.trng = "TRNG_FIPS"
    BY <1>14, ContextEffect
  <1>16. NewContext(first).trng = first.trng
    <2>1. ModeSound(loaded)
      BY <1>6, <1>9, ModeEntered
    <2>2. IsSettings(first)
      BY <1>14, <2>1, ContextMade DEF LibrarySound
    <2>3. UpgradeDone(first) /\ Destined(first) = Destined(loaded)
      BY <1>14, <2>2, ContextEffect
    <2> HIDE DEF first
    <2> QED
      BY <1>15, <2>2, <2>3, ContextEffect
  <1> HIDE DEF first
  <1>17. first.trng = SourceFor(s, settings, override)
    <2>1. CASE build # "FIPS" /\ override /\ At(settings, "ICC_TRNG") = {}
      BY <1>4, <1>9, <1>13, <1>14, <1>15, <2>1 DEF SourceFor, chosen
    <2>2. CASE ~(build # "FIPS" /\ override /\ At(settings, "ICC_TRNG") = {}) /\ chosen # {}
      BY <1>4, <1>9, <1>12, <1>13, <1>14, <1>15, <2>2 DEF SourceFor, chosen
    <2>3. CASE ~(build # "FIPS" /\ override /\ At(settings, "ICC_TRNG") = {}) /\ chosen = {}
      BY <1>4, <1>9, <1>12, <1>14, <1>15, <2>3 DEF SourceFor, chosen
    <2> QED
      BY <2>1, <2>2, <2>3
  <1>18. loaded.lie => override \/ (s.build = "FIPS" /\ loaded.trng # "TRNG_FIPS")
    BY <1>4, <1>14
  <1>19. first.pcb.fips /\ ~loaded.post => At(settings, "ICC_TRNG") # {}
    BY <1>4, <1>12, <1>13, <1>14, <1>15
  <1>20. Excluded(loaded.prng, loaded.excluded) => loaded.prng = s.prng \/ ChosenBefore(loaded.prng, settings)
    <2> SUFFICES ASSUME Excluded(read.prng, read.excluded), read.prng # s.prng
                 PROVE  ChosenBefore(read.prng, settings)
      BY <1>14
    <2>1. PICK i \in 1 .. k : /\ settings[i][1] = "ICC_RANDOM_GENERATOR" /\ settings[i][2] = read.prng
                              /\ \E j \in i + 1 .. k : settings[j][1] = "ICC_RNG_EXCLUDED"
      BY <1>4, <1>8 DEF TakenUpto
    <2>2. PICK j \in i + 1 .. k : settings[j][1] = "ICC_RNG_EXCLUDED"
      BY <2>1
    <2>3. j \in 1 .. k /\ i < j
      BY <1>7
    <2> QED
      BY <1>7, <2>1, <2>2, <2>3 DEF ChosenBefore, At
  <1> QED
    BY <1>5, <1>16, <1>17, <1>18, <1>19, <1>20 DEF LoadedAsAsked, s, loaded, unread, first, settings

(***************************************************************************)
(* A library is configured as it was asked to be, whatever the             *)
(* environment and the signature file say (ICCLoad, EnvVars, SetParams,    *)
(* icclib.c, GetDefaultTrng, ICC_NRBG.c): the source is the last one       *)
(* chosen that is there, no upgrade replaces it, and only a list read      *)
(* later excludes the default generator: for any number of settings.       *)
(***************************************************************************)
THEOREM LoadsAsAsked == SettingsSpec => []SettingsSound
  <1>1. input \in {<<kind>> : kind \in SettingKind} => SettingsInv
    BY DEF SettingsInv, Is
  <1>2. SettingsInv /\ [SettingsNext]_input => SettingsInv'
    <2>1. SettingsInv /\ UNCHANGED input => SettingsInv'
      BY DEF SettingsInv, Is
    <2> QED
      BY <2>1, SettingsStep
  <1>3. SettingsInv => SettingsSound
    <2> SUFFICES ASSUME SettingsInv, Is("config")
                 PROVE  LoadedAsAsked(input[2], input[3], input[4], input[5])
      BY DEF SettingsSound
    <2>1. PICK env, file, build, hardware, device, override :
            /\ build \in {"FIPS", "non_FIPS"} /\ hardware \in BOOLEAN /\ device \in BOOLEAN
            /\ override \in BOOLEAN /\ Len(file) \in Nat
            /\ input = <<"config", Unloaded(build, hardware, device), env, override, file>>
      BY DEF SettingsInv
    <2>2. /\ input[2] = Unloaded(build, hardware, device) /\ input[3] = env /\ input[4] = override
          /\ input[5] = file
      BY <2>1
    <2>3. LoadedAsAsked(Unloaded(build, hardware, device), env, override, file)
      BY <2>1, LoadedIsAsked
    <2> QED
      BY <2>2, <2>3
  <1> QED
    BY <1>1, <1>2, <1>3, PTL DEF SettingsSpec

-----------------------------------------------------------------------------
(***************************************************************************)
(* The self tests: one that passes has found every operation right.        *)
(***************************************************************************)
\* A list of checks is fine only when each of them is.
LEMMA AllFine ==
  ASSUME NEW n \in Nat, NEW checks, DOMAIN checks = 1 .. n, FirstBad(checks) = "ok"
  PROVE  \A i \in 1 .. n : checks[i] = "ok"
  <1> DEFINE bad == {i \in DOMAIN checks : checks[i] # "ok"}
             first == CHOOSE i \in bad : \A j \in bad : i <= j
  <1>1. SUFFICES bad = {}
    OBVIOUS
  <1>2. SUFFICES ASSUME bad # {} PROVE FALSE
    OBVIOUS
  <1>3. bad \subseteq Nat
    OBVIOUS
  <1> HIDE DEF bad
  <1>4. \E i \in bad : \A j \in bad : i <= j
    BY <1>2, <1>3, HasLeast
  <1>5. first \in bad
    BY <1>4
  <1>6. checks[first] = "ok"
    BY <1>2 DEF FirstBad, bad
  <1> QED
    BY <1>5, <1>6 DEF bad

\* For lists of so many checks.
LEMMA BothFine ==
  ASSUME NEW a, NEW b, FirstBad(<<a, b>>) = "ok"
  PROVE  a = "ok" /\ b = "ok"
  <1> DEFINE checks == <<a, b>>
  <1>1. /\ DOMAIN checks = 1 .. 2
        /\ checks[1] = a /\ checks[2] = b
    OBVIOUS
  <1>2. FirstBad(checks) = "ok"
    OBVIOUS
  <1> HIDE DEF checks
  <1>3. \A i \in 1 .. 2 : checks[i] = "ok"
    BY <1>1, <1>2, AllFine
  <1> QED
    BY <1>1, <1>3

LEMMA ThreeFine ==
  ASSUME NEW a, NEW b, NEW c, FirstBad(<<a, b, c>>) = "ok"
  PROVE  a = "ok" /\ b = "ok" /\ c = "ok"
  <1> DEFINE checks == <<a, b, c>>
  <1>1. /\ DOMAIN checks = 1 .. 3
        /\ checks[1] = a /\ checks[2] = b /\ checks[3] = c
    OBVIOUS
  <1>2. FirstBad(checks) = "ok"
    OBVIOUS
  <1> HIDE DEF checks
  <1>3. \A i \in 1 .. 3 : checks[i] = "ok"
    BY <1>1, <1>2, AllFine
  <1> QED
    BY <1>1, <1>3

LEMMA FourFine ==
  ASSUME NEW a, NEW b, NEW c, NEW d, FirstBad(<<a, b, c, d>>) = "ok"
  PROVE  a = "ok" /\ b = "ok" /\ c = "ok" /\ d = "ok"
  <1> DEFINE checks == <<a, b, c, d>>
  <1>1. /\ DOMAIN checks = 1 .. 4
        /\ checks[1] = a /\ checks[2] = b /\ checks[3] = c /\ checks[4] = d
    OBVIOUS
  <1>2. FirstBad(checks) = "ok"
    OBVIOUS
  <1> HIDE DEF checks
  <1>3. \A i \in 1 .. 4 : checks[i] = "ok"
    BY <1>1, <1>2, AllFine
  <1> QED
    BY <1>1, <1>3

LEMMA FiveFine ==
  ASSUME NEW a, NEW b, NEW c, NEW d, NEW e, FirstBad(<<a, b, c, d, e>>) = "ok"
  PROVE  a = "ok" /\ b = "ok" /\ c = "ok" /\ d = "ok" /\ e = "ok"
  <1> DEFINE checks == <<a, b, c, d, e>>
  <1>1. /\ DOMAIN checks = 1 .. 5
        /\ checks[1] = a /\ checks[2] = b /\ checks[3] = c /\ checks[4] = d
        /\ checks[5] = e
    OBVIOUS
  <1>2. FirstBad(checks) = "ok"
    OBVIOUS
  <1> HIDE DEF checks
  <1>3. \A i \in 1 .. 5 : checks[i] = "ok"
    BY <1>1, <1>2, AllFine
  <1> QED
    BY <1>1, <1>3

LEMMA SixFine ==
  ASSUME NEW a, NEW b, NEW c, NEW d, NEW e, NEW f, FirstBad(<<a, b, c, d, e, f>>) = "ok"
  PROVE  a = "ok" /\ b = "ok" /\ c = "ok" /\ d = "ok" /\ e = "ok" /\ f = "ok"
  <1> DEFINE checks == <<a, b, c, d, e, f>>
  <1>1. /\ DOMAIN checks = 1 .. 6
        /\ checks[1] = a /\ checks[2] = b /\ checks[3] = c /\ checks[4] = d
        /\ checks[5] = e /\ checks[6] = f
    OBVIOUS
  <1>2. FirstBad(checks) = "ok"
    OBVIOUS
  <1> HIDE DEF checks
  <1>3. \A i \in 1 .. 6 : checks[i] = "ok"
    BY <1>1, <1>2, AllFine
  <1> QED
    BY <1>1, <1>3

LEMMA SevenFine ==
  ASSUME NEW a, NEW b, NEW c, NEW d, NEW e, NEW f, NEW g, FirstBad(<<a, b, c, d, e, f, g>>) = "ok"
  PROVE  a = "ok" /\ b = "ok" /\ c = "ok" /\ d = "ok" /\ e = "ok" /\ f = "ok" /\ g = "ok"
  <1> DEFINE checks == <<a, b, c, d, e, f, g>>
  <1>1. /\ DOMAIN checks = 1 .. 7
        /\ checks[1] = a /\ checks[2] = b /\ checks[3] = c /\ checks[4] = d
        /\ checks[5] = e /\ checks[6] = f /\ checks[7] = g
    OBVIOUS
  <1>2. FirstBad(checks) = "ok"
    OBVIOUS
  <1> HIDE DEF checks
  <1>3. \A i \in 1 .. 7 : checks[i] = "ok"
    BY <1>1, <1>2, AllFine
  <1> QED
    BY <1>1, <1>3

LEMMA EightFine ==
  ASSUME NEW a, NEW b, NEW c, NEW d, NEW e, NEW f, NEW g, NEW k,
         FirstBad(<<a, b, c, d, e, f, g, k>>) = "ok"
  PROVE  /\ a = "ok" /\ b = "ok" /\ c = "ok" /\ d = "ok"
         /\ e = "ok" /\ f = "ok" /\ g = "ok" /\ k = "ok"
  <1> DEFINE checks == <<a, b, c, d, e, f, g, k>>
  <1>1. /\ DOMAIN checks = 1 .. 8
        /\ checks[1] = a /\ checks[2] = b /\ checks[3] = c /\ checks[4] = d
        /\ checks[5] = e /\ checks[6] = f /\ checks[7] = g /\ checks[8] = k
    OBVIOUS
  <1>2. FirstBad(checks) = "ok"
    OBVIOUS
  <1> HIDE DEF checks
  <1>3. \A i \in 1 .. 8 : checks[i] = "ok"
    BY <1>1, <1>2, AllFine
  <1> QED
    BY <1>1, <1>3

\* An operation that gives what it should when it is tried.
Right(h, alg, what) == h[alg, what] \in {"good", "lax"}

\* What a known answer test that passes tells of the operation.
LEMMA AnswerRight ==
  ASSUME NEW op, iccCheckKnownAnswer(op) = "ok" PROVE op \in {"good", "lax"}
  BY DEF iccCheckKnownAnswer, Fatal

\* Two operations, there and back.
LEMMA TripRight ==
  ASSUME NEW enc, NEW dec, RoundTrip(enc, dec) = "ok"
  PROVE  enc \in {"good", "lax"} /\ dec \in {"good", "lax"}
  BY BothFine, AnswerRight DEF RoundTrip

\* The tests of the digests,
LEMMA DigestsRight ==
  ASSUME NEW h, NEW oom, FirstBad(Digests(h, oom)) = "ok"
  PROVE  /\ Right(h, "SHA1", "digest") /\ Right(h, "SHA256", "digest") /\ Right(h, "SHA512", "digest")
         /\ Right(h, "SHA3-512", "digest") /\ Right(h, "SHAKE128", "xof")
  <1>1. ASSUME NEW alg, iccDigest(h, alg, oom) = "ok" PROVE Right(h, alg, "digest")
    BY <1>1, FourFine, AnswerRight DEF iccDigest, Right
  <1>2. ASSUME NEW alg, iccXOF(h, alg, oom) = "ok" PROVE Right(h, alg, "xof")
    BY <1>2, FourFine, AnswerRight DEF iccXOF, Right
  <1> QED
    BY <1>1, <1>2, FiveFine DEF Digests

\* of the RSA keys,
LEMMA KeysRight ==
  ASSUME NEW h, NEW oom, FirstBad(Keys(h, oom)) = "ok"
  PROVE  /\ Right(h, "RSA", "private-encrypt") /\ Right(h, "RSA", "public-decrypt")
         /\ Right(h, "RSA", "public-encrypt") /\ Right(h, "RSA", "private-decrypt")
  <1>1. iccRSACipherTest(h, "RSA", oom) = "ok"
    BY FourFine DEF Keys
  <1> DEFINE sign == h["RSA", "private-encrypt"]  opened == h["RSA", "public-decrypt"]
             seal == h["RSA", "public-encrypt"]   unseal == h["RSA", "private-decrypt"]
  <1>2. FirstBad(<<Memory(oom, "RSA"), Works(sign), iccCheckKnownAnswer(sign), Works(opened),
                   iccCheckKnownAnswer(opened), Works(seal), Works(unseal), RoundTrip(seal, unseal)>>) = "ok"
    BY <1>1 DEF iccRSACipherTest
  <1> HIDE DEF sign, opened, seal, unseal
  <1>3. /\ iccCheckKnownAnswer(sign) = "ok" /\ iccCheckKnownAnswer(opened) = "ok"
        /\ RoundTrip(seal, unseal) = "ok"
    BY <1>2, EightFine
  <1>4. /\ iccCheckKnownAnswer(h["RSA", "private-encrypt"]) = "ok"
        /\ iccCheckKnownAnswer(h["RSA", "public-decrypt"]) = "ok"
        /\ RoundTrip(h["RSA", "public-encrypt"], h["RSA", "private-decrypt"]) = "ok"
    BY <1>3 DEF sign, opened, seal, unseal
  <1> QED
    BY <1>4, AnswerRight, TripRight DEF Right

\* of the MACs and a cipher,
LEMMA MacsRight ==
  ASSUME NEW h, NEW oom, FirstBad(Macs(h, oom)) = "ok"
  PROVE  /\ Right(h, "SHA1", "hmac") /\ Right(h, "SHA256", "hmac") /\ Right(h, "SHA3-512", "hmac")
         /\ Right(h, "AES-256-CMAC", "cmac")
         /\ Right(h, "AES-256-CBC", "encrypt") /\ Right(h, "AES-256-CBC", "decrypt")
  <1>1. ASSUME NEW alg, iccHMACTest(h, alg, oom) = "ok" PROVE Right(h, alg, "hmac")
    BY <1>1, ThreeFine, AnswerRight DEF iccHMACTest, Right
  <1>2. ASSUME NEW alg, iccCMACTest(h, alg, oom) = "ok" PROVE Right(h, alg, "cmac")
    <2>1. iccCheckKnownAnswer(h[alg, "cmac"]) = "ok"
      BY <1>2, ThreeFine DEF iccCMACTest
    <2> QED
      BY <2>1, AnswerRight DEF Right
  <1>3. ASSUME NEW alg, iccCipherTest(h, alg, oom) = "ok"
        PROVE  Right(h, alg, "encrypt") /\ Right(h, alg, "decrypt")
    <2>1. iccSymEnc(h[alg, "encrypt"]) = "ok" /\ iccSymDec(h[alg, "decrypt"]) = "ok"
      BY <1>3, FourFine DEF iccCipherTest
    <2>2. iccCheckKnownAnswer(h[alg, "encrypt"]) = "ok" /\ iccCheckKnownAnswer(h[alg, "decrypt"]) = "ok"
      BY <2>1, BothFine DEF iccSymEnc, iccSymDec
    <2> QED
      BY <2>2, AnswerRight DEF Right
  <1> QED
    BY <1>1, <1>2, <1>3, FiveFine DEF Macs

\* of the noise and the agreement of keys,
LEMMA CurvesRight ==
  ASSUME NEW h, NEW oom, FirstBad(Curves(h, oom)) = "ok"
  PROVE  /\ Right(h, "pmax4", "test") /\ Right(h, "AP", "test") /\ Right(h, "RC", "test")
         /\ Right(h, "ECDH", "derive")
  <1>1. RNGAlgTests(h) = "ok" /\ iccECDHVerifyKAS(h, "ECDH") = "ok"
    BY FiveFine DEF Curves
  <1>2. /\ iccCheckKnownAnswer(h["pmax4", "test"]) = "ok" /\ iccCheckKnownAnswer(h["AP", "test"]) = "ok"
        /\ iccCheckKnownAnswer(h["RC", "test"]) = "ok"
    BY <1>1, ThreeFine DEF RNGAlgTests
  <1> QED
    BY <1>1, <1>2, AnswerRight DEF Right, iccECDHVerifyKAS

\* of the modes of a cipher, the generators and the KDFs,
LEMMA CiphersRight ==
  ASSUME NEW h, NEW oom, FirstBad(Ciphers(h, oom)) = "ok"
  PROVE  /\ \A alg \in {"AES-CCM", "AES-GCM", "AES-128-XTS"} :
              Right(h, alg, "encrypt") /\ Right(h, alg, "decrypt")
         /\ Right(h, "SHA256-DRBG", "generate") /\ Right(h, "SHA256-CTR", "derive")
  <1>1. /\ iccAES_CCMTest(h, "AES-CCM", oom) = "ok" /\ iccAES_GCMTest(h, "AES-GCM", oom) = "ok"
        /\ iccAES_XTSTest(h, "AES-128-XTS", oom) = "ok" /\ iccSP800_90Test(h, "SHA256-DRBG", oom) = "ok"
        /\ iccSP800_108Test(h, "SHA256-CTR") = "ok"
    BY FiveFine DEF Ciphers
  <1>2. Right(h, "AES-CCM", "encrypt") /\ Right(h, "AES-CCM", "decrypt")
    BY <1>1, BothFine, TripRight DEF iccAES_CCMTest, Right
  <1>3. Right(h, "AES-GCM", "encrypt") /\ Right(h, "AES-GCM", "decrypt")
    BY <1>1, BothFine, TripRight DEF iccAES_GCMTest, Right
  <1>4. Right(h, "AES-128-XTS", "encrypt") /\ Right(h, "AES-128-XTS", "decrypt")
    <2>1. RoundTrip(h["AES-128-XTS", "encrypt"], h["AES-128-XTS", "decrypt"]) = "ok"
      BY <1>1, ThreeFine DEF iccAES_XTSTest
    <2> QED
      BY <2>1, TripRight DEF Right
  <1>5. Right(h, "SHA256-DRBG", "generate")
    BY <1>1, ThreeFine, AnswerRight DEF iccSP800_90Test, Right
  <1>6. Right(h, "SHA256-CTR", "derive")
    BY <1>1, AnswerRight DEF iccSP800_108Test, Right
  <1> QED
    BY <1>2, <1>3, <1>4, <1>5, <1>6

\* and of the derivation of keys, where the TLS KDF can be skipped.
LEMMA DerivationsRight ==
  ASSUME NEW h, NEW oom, FirstBad(Derivations(h, oom)) = "ok"
  PROVE  /\ \A alg \in {"KW", "KWP"} : Right(h, alg, "encrypt") /\ Right(h, alg, "decrypt")
         /\ Right(h, "HKDF", "extract") /\ Right(h, "HKDF", "expand")
         /\ oom = "TLS1-PRF" \/ h["TLS1-PRF", "derive"] = "absent" \/ Right(h, "TLS1-PRF", "derive")
         /\ Right(h, "FFDHE", "derive") /\ Right(h, "ChaCha20-Poly1305", "encrypt")
         /\ Right(h, "PBKDF2", "derive")
  <1>1. /\ iccCheckKW(h, "KW", oom) = "ok" /\ iccCheckKW(h, "KWP", oom) = "ok"
        /\ iccHKDFTest(h, "HKDF", oom) = "ok" /\ iccTestTLS_KDF(h, "TLS1-PRF", oom) = "ok"
        /\ iccDHTest(h, "FFDHE", oom) = "ok" /\ iccChaChaPolyTest(h, "ChaCha20-Poly1305", oom) = "ok"
        /\ iccPBKDF2Test(h, "PBKDF2", oom) = "ok"
    BY SevenFine DEF Derivations
  <1>2. ASSUME NEW alg, iccCheckKW(h, alg, oom) = "ok"
        PROVE  Right(h, alg, "encrypt") /\ Right(h, alg, "decrypt")
    BY <1>2, BothFine, TripRight DEF iccCheckKW, Right
  <1>3. Right(h, "HKDF", "extract") /\ Right(h, "HKDF", "expand")
    <2> DEFINE extract == h["HKDF", "extract"]
               expand  == h["HKDF", "expand"]
    <2>1. /\ iccCheckKnownAnswer(h["HKDF", "extract"]) = "ok"
          /\ iccCheckKnownAnswer(h["HKDF", "expand"]) = "ok"
      <3>1. FirstBad(<<Memory(oom, "HKDF"), Found(extract), iccCheckKnownAnswer(extract),
                       iccCheckKnownAnswer(expand)>>) = "ok"
        BY <1>1 DEF iccHKDFTest
      <3> HIDE DEF extract, expand
      <3>2. iccCheckKnownAnswer(extract) = "ok" /\ iccCheckKnownAnswer(expand) = "ok"
        BY <3>1, FourFine
      <3> QED
        BY <3>2 DEF extract, expand
    <2> QED
      BY <2>1, AnswerRight DEF Right
  <1>4. oom = "TLS1-PRF" \/ h["TLS1-PRF", "derive"] = "absent" \/ Right(h, "TLS1-PRF", "derive")
    BY <1>1, AnswerRight DEF iccTestTLS_KDF, Right
  <1>5. Right(h, "FFDHE", "derive")
    BY <1>1, ThreeFine, AnswerRight DEF iccDHTest, Right
  <1>6. Right(h, "ChaCha20-Poly1305", "encrypt")
    BY <1>1, BothFine, AnswerRight DEF iccChaChaPolyTest, Right
  <1>7. Right(h, "PBKDF2", "derive")
    BY <1>1, ThreeFine, AnswerRight DEF iccPBKDF2Test, Right
  <1> QED
    BY <1>1, <1>2, <1>3, <1>4, <1>5, <1>6, <1>7

\* The signatures, unless memory ran out where a known one is repeated.
LEMMA SignaturesRight ==
  ASSUME NEW h, NEW oom, NEW known \in BOOLEAN, AllTests(h, oom, known) = "ok",
         NEW alg \in {"RSA-PKCS1"} \cup Randomized, ~(known /\ oom = alg)
  PROVE  /\ Right(h, alg, "verify")
         /\ Right(h, alg, "sign") \/ h[alg, "verify"] = "lax"
  <1>1. FirstBad([i \in DOMAIN Signatures |-> SignatureTest(h, Signatures[i], oom, known)]) = "ok"
    BY BothFine DEF AllTests
  <1>2. DOMAIN Signatures = 1 .. 6 /\ \E i \in 1 .. 6 : Signatures[i] = alg
    BY DEF Signatures, Randomized
  <1>3. \A i \in 1 .. 6 : SignatureTest(h, Signatures[i], oom, known) = "ok"
    <2> DEFINE tests == [i \in DOMAIN Signatures |-> SignatureTest(h, Signatures[i], oom, known)]
    <2>1. DOMAIN tests = 1 .. 6 /\ \A i \in 1 .. 6 : tests[i] = SignatureTest(h, Signatures[i], oom, known)
      BY <1>2
    <2> HIDE DEF tests
    <2>2. \A i \in 1 .. 6 : tests[i] = "ok"
      BY <1>1, <2>1, AllFine DEF tests
    <2> QED
      BY <2>1, <2>2
  <1>4. SignatureTest(h, alg, oom, known) = "ok"
    BY <1>2, <1>3
  <1>5. CASE known
    <2>1. KATest_broken(h, alg, oom, "constant") = "ok"
      BY <1>4, <1>5 DEF SignatureTest
    <2>2. /\ VerifySig(h[alg, "verify"], TRUE) = "ok"
          /\ Fatal(Repeats(h[alg, "sign"], alg, "constant")) = "ok"
      BY <1>5, <2>1, ThreeFine DEF KATest_broken
    <2> QED
      BY <2>2 DEF VerifySig, Fatal, Repeats, Right
  <1>6. CASE ~known
    <2>1. KATest(h, alg, oom, "random") = "ok"
      BY <1>4, <1>6 DEF SignatureTest
    <2> DEFINE good == h[alg, "sign"] = "good"
    <2>2. FirstBad(<<Memory(oom, alg), VerifySig(h[alg, "verify"], TRUE),
                     GenerateSig(h[alg, "sign"], alg, "random"), VerifySig(h[alg, "verify"], good)>>) = "ok"
      BY <2>1 DEF KATest
    <2> HIDE DEF good
    <2>3. VerifySig(h[alg, "verify"], TRUE) = "ok" /\ VerifySig(h[alg, "verify"], good) = "ok"
      BY <2>2, FourFine
    <2> QED
      BY <2>3 DEF VerifySig, Fatal, Right, good
  <1> QED
    BY <1>5, <1>6

\* What the tests try, by the algorithm and what it does.
LEMMA Operations ==
  ASSUME NEW op \in Operation
  PROVE  /\ op = <<op[1], op[2]>>
         /\ \/ op[1] \in {"SHA1", "SHA256", "SHA512", "SHA3-512"} /\ op[2] = "digest"
            \/ op[1] \in {"SHA1", "SHA256", "SHA3-512"} /\ op[2] = "hmac"
            \/ op = <<"SHAKE128", "xof">> \/ op = <<"AES-256-CMAC", "cmac">>
            \/ op = <<"SHA256-DRBG", "generate">>
            \/ op[1] = "RSA" /\ op[2] \in {"private-encrypt", "public-decrypt", "public-encrypt", "private-decrypt"}
            \/ op[1] \in {"RSA-PKCS1"} \cup Randomized /\ op[2] \in {"sign", "verify"}
            \/ op[1] \in Symmetric /\ op[2] \in {"encrypt", "decrypt"}
            \/ op = <<"ChaCha20-Poly1305", "encrypt">> \/ op = <<"HKDF", "extract">> \/ op = <<"HKDF", "expand">>
            \/ op[1] \in {"ECDH", "FFDHE", "SHA256-CTR", "TLS1-PRF", "PBKDF2"} /\ op[2] = "derive"
            \/ op[1] \in {"pmax4", "AP", "RC"} /\ op[2] = "test"
  <1>1. op = <<op[1], op[2]>>
    BY DEF Operation
  <1> QED
    BY <1>1 DEF Operation

\* Together: a self test that passes has found every operation right but the
\* ones it skipped.
LEMMA AllRight ==
  ASSUME NEW h, NEW oom, NEW known \in BOOLEAN, AllTests(h, oom, known) = "ok", NEW op \in Operation
  PROVE  \/ h[op] \in {"good", "lax"}
         \/ op = <<"TLS1-PRF", "derive">> /\ h[op] = "absent"
         \/ op[2] = "sign" /\ h[op[1], "verify"] = "lax"
         \/ SkippedSilently(op, oom, known)
  <1>1. iccDoKnownAnswer(h, oom) = "ok"
    BY BothFine DEF AllTests
  <1>2. /\ FirstBad(Digests(h, oom)) = "ok" /\ FirstBad(Keys(h, oom)) = "ok"
        /\ FirstBad(Macs(h, oom)) = "ok" /\ FirstBad(Curves(h, oom)) = "ok"
        /\ FirstBad(Ciphers(h, oom)) = "ok" /\ FirstBad(Derivations(h, oom)) = "ok"
    BY <1>1, SixFine DEF iccDoKnownAnswer
  <1> DEFINE alg  == op[1]
             what == op[2]
  <1>0. op = <<alg, what>>
    BY Operations
  <1>3. CASE (alg \in {"SHA1", "SHA256", "SHA512", "SHA3-512"} /\ what = "digest") \/ op = <<"SHAKE128", "xof">>
    BY <1>0, <1>2, <1>3, DigestsRight DEF Right
  <1>4. CASE /\ alg = "RSA"
             /\ what \in {"private-encrypt", "public-decrypt", "public-encrypt", "private-decrypt"}
    BY <1>0, <1>2, <1>4, KeysRight DEF Right
  <1>5. CASE \/ alg \in {"SHA1", "SHA256", "SHA3-512"} /\ what = "hmac"
             \/ op = <<"AES-256-CMAC", "cmac">>
             \/ alg = "AES-256-CBC" /\ what \in {"encrypt", "decrypt"}
    BY <1>0, <1>2, <1>5, MacsRight DEF Right
  <1>6. CASE (alg \in {"pmax4", "AP", "RC"} /\ what = "test") \/ (alg = "ECDH" /\ what = "derive")
    BY <1>0, <1>2, <1>6, CurvesRight DEF Right
  <1>7. CASE \/ alg \in {"AES-CCM", "AES-GCM", "AES-128-XTS"} /\ what \in {"encrypt", "decrypt"}
             \/ op = <<"SHA256-DRBG", "generate">> \/ (alg = "SHA256-CTR" /\ what = "derive")
    BY <1>0, <1>2, <1>7, CiphersRight DEF Right
  <1>8. CASE \/ alg \in {"KW", "KWP"} /\ what \in {"encrypt", "decrypt"}
             \/ op = <<"HKDF", "extract">> \/ op = <<"HKDF", "expand">>
             \/ op = <<"ChaCha20-Poly1305", "encrypt">>
             \/ alg \in {"FFDHE", "PBKDF2"} /\ what = "derive"
    BY <1>0, <1>2, <1>8, DerivationsRight DEF Right
  <1>9. CASE alg = "TLS1-PRF" /\ what = "derive"
    BY <1>0, <1>2, <1>9, DerivationsRight DEF Right, SkippedSilently
  <1>10. CASE alg \in {"RSA-PKCS1"} \cup Randomized /\ what \in {"sign", "verify"}
    <2>3. CASE known /\ oom = alg
      BY <1>10, <2>3 DEF SkippedSilently
    <2>4. CASE ~(known /\ oom = alg)
      <3>1. Right(h, alg, "verify") /\ (Right(h, alg, "sign") \/ h[alg, "verify"] = "lax")
        BY <1>10, <2>4, SignaturesRight
      <3> QED
        BY <1>0, <1>10, <3>1 DEF Right
    <2> QED
      BY <2>3, <2>4
  <1> QED
    BY <1>3, <1>4, <1>5, <1>6, <1>7, <1>8, <1>9, <1>10, Operations DEF Symmetric

(***************************************************************************)
(* A self test that passes has tried every algorithm and mode it names,    *)
(* and found each right: only the tests that it is allowed to skip can     *)
(* miss an operation that is wrong (SelfTest and iccDoKnownAnswer,         *)
(* fips.c), whatever is wrong.                                             *)
(***************************************************************************)
THEOREM SelfTestMisses == SelfTestsSpec => []NothingElseMissed
<1>1. input = <<"test">> => NothingElseMissed
  BY DEF NothingElseMissed, Is
<1>2. NothingElseMissed /\ [TryTest]_input => NothingElseMissed'
  <2> SUFFICES ASSUME NothingElseMissed, [TryTest]_input PROVE NothingElseMissed'
    OBVIOUS
  <2>1. CASE UNCHANGED input
    BY <2>1 DEF NothingElseMissed, Is
  <2>2. CASE TryTest
    <3>1. PICK op \in Operation, health \in Health, oom \in {"none"} \cup Algorithm, known \in BOOLEAN :
            CanBe(op, health) /\ input' = <<"test", op, health, oom, known>>
      BY <2>2 DEF TryTest
    <3>2. input'[2] = op /\ input'[3] = health /\ input'[4] = oom /\ input'[5] = known
      BY <3>1
    <3> DEFINE h == Ill(op, health)
    <3>3. h[op] = health /\ (op[2] = "sign" => h[op[1], "verify"] # "lax")
      <4>1. h[op] = health /\ \A other \in Operation \ {op} : h[other] = "good"
        BY DEF Ill, AllGood
      <4>2. ASSUME op[2] = "sign" PROVE <<op[1], "verify">> \in Operation \ {op}
        BY <4>2 DEF Operation, Symmetric, Randomized
      <4> QED
        BY <4>1, <4>2
    <3> HIDE DEF h
    <3>4. ASSUME AllTests(h, oom, known) = "ok"
          PROVE  Unseen(op, health) \/ SkippedSilently(op, oom, known)
      <4>1. \/ h[op] \in {"good", "lax"}
            \/ op = <<"TLS1-PRF", "derive">> /\ h[op] = "absent"
            \/ op[2] = "sign" /\ h[op[1], "verify"] = "lax"
            \/ SkippedSilently(op, oom, known)
        BY <3>4, AllRight
      <4>2. health # "good"
        BY <3>1 DEF CanBe
      <4> QED
        BY <3>3, <4>1, <4>2 DEF Unseen
    <3> QED
      BY <3>2, <3>4 DEF NothingElseMissed, h
  <2> QED
    BY <2>1, <2>2
<1> QED
  BY <1>1, <1>2, PTL DEF SelfTestsSpec

-----------------------------------------------------------------------------
(***************************************************************************)
(* The mechanisms of the generators: what their recursive definitions      *)
(* come to.                                                                *)
(***************************************************************************)
\* f begins with start, and goes on by the steps as long as it stays in S.
Follows(n, S, start, step, f) ==
  f[0] = start /\ \A i \in 1 .. n : f[i - 1] \in S => f[i] = step[i][f[i - 1]]

\* g is the sequence in S that does.
Taken(n, S, start, step, g) ==
  /\ g \in [0 .. n -> S] /\ g[0] = start
  /\ \A i \in 1 .. n : g[i] = step[i][g[i - 1]]
  /\ \A f : Follows(n, S, start, step, f) => \A i \in 0 .. n : f[i] = g[i]

\* There is one.
LEMMA StepsTaken ==
  ASSUME NEW n \in Nat, NEW S, NEW start \in S, NEW step \in [1 .. n -> [S -> S]]
  PROVE  \E g : Taken(n, S, start, step, g)
  <1> DEFINE Upto(m, g) == g \in [0 .. m -> S] /\ g[0] = start /\ \A i \in 1 .. m : g[i] = step[i][g[i - 1]]
             Some       == {m \in Nat : m <= n => \E g : Upto(m, g)}
  <1>1. 0 \in Some
    <2>1. Upto(0, [i \in 0 .. 0 |-> start])
      OBVIOUS
    <2> QED
      BY <2>1
  <1>2. ASSUME NEW m \in Nat, m \in Some PROVE m + 1 \in Some
    <2>1. CASE m + 1 <= n
      <3>1. PICK g : Upto(m, g)
        BY <1>2, <2>1
      <3> DEFINE h == [i \in 0 .. m + 1 |-> IF i <= m THEN g[i] ELSE step[m + 1][g[m]]]
      <3>2. m + 1 \in 1 .. n /\ g[m] \in S
        BY <2>1, <3>1
      <3>3. step[m + 1][g[m]] \in S
        BY <3>2
      <3>4. h \in [0 .. m + 1 -> S]
        BY <3>1, <3>3
      <3>5. h[0] = start /\ \A i \in 1 .. m + 1 : h[i] = step[i][h[i - 1]]
        <4>1. h[0] = start
          BY <3>1
        <4>2. \A i \in 1 .. m + 1 : h[i] = step[i][h[i - 1]]
          <5> TAKE i \in 1 .. m + 1
          <5>1. CASE i <= m
            <6>1. h[i] = g[i] /\ h[i - 1] = g[i - 1] /\ i \in 1 .. m
              BY <5>1
            <6> QED
              BY <3>1, <6>1
          <5>2. CASE i = m + 1
            <6>1. h[i] = step[m + 1][g[m]] /\ h[i - 1] = g[m]
              BY <5>2
            <6> QED
              BY <5>2, <6>1
          <5> QED
            BY <5>1, <5>2
        <4> QED
          BY <4>1, <4>2
      <3> HIDE DEF h
      <3> QED
        BY <3>4, <3>5
    <2> QED
      BY <2>1
  <1>3. n \in Some
    <2> HIDE DEF Some
    <2> QED
      BY <1>1, <1>2, EveryNumber
  <1>4. PICK g : Upto(n, g)
    BY <1>3
  <1>5. ASSUME NEW f, Follows(n, S, start, step, f) PROVE \A i \in 0 .. n : f[i] = g[i]
    <2> DEFINE Same == {m \in Nat : m <= n => f[m] = g[m]}
    <2>1. 0 \in Same
      BY <1>4, <1>5 DEF Follows
    <2>2. ASSUME NEW m \in Nat, m \in Same PROVE m + 1 \in Same
      <3>1. CASE m + 1 <= n
        <4>1. m + 1 \in 1 .. n /\ f[m] = g[m] /\ g[m] \in S /\ (m + 1) - 1 = m
          BY <1>4, <2>2, <3>1
        <4>2. f[m + 1] = step[m + 1][f[m]]
          BY <1>5, <4>1 DEF Follows
        <4>3. g[m + 1] = step[m + 1][g[m]]
          BY <1>4, <4>1
        <4> QED
          BY <4>1, <4>2, <4>3
      <3> QED
        BY <3>1
    <2>3. Nat \subseteq Same
      <3> HIDE DEF Same
      <3> QED
        BY <2>1, <2>2, EveryNumber
    <2> QED
      BY <2>3
  <1> QED
    BY <1>4, <1>5 DEF Taken

\* 256 to the power of a number is 256 times the power before.
LEMMA Powers ==
  ASSUME NEW n \in Nat
  PROVE  Power(n) \in Nat \ {0} /\ Power(0) = 1 /\ Power(n + 1) = 256 * Power(n)
  <1> DEFINE Upto(m, f) == f = [i \in 0 .. m |-> IF i = 0 THEN 1 ELSE 256 * f[i - 1]]
             Positive      == Nat \ {0}
             times(m)   == [i \in 1 .. m |-> [x \in Positive |-> 256 * x]]
             power(m)   == CHOOSE f : Upto(m, f)
  <1>1. ASSUME NEW m \in Nat
        PROVE  \E g \in [0 .. m -> Positive] :
                 /\ g[0] = 1 /\ \A i \in 1 .. m : g[i] = 256 * g[i - 1]
                 /\ \A i \in 0 .. m : power(m)[i] = g[i]
    <2> DEFINE step == times(m)
    <2>1. /\ step \in [1 .. m -> [Positive -> Positive]] /\ 1 \in Positive
          /\ \A i \in 1 .. m, x \in Positive : step[i][x] = 256 * x
      OBVIOUS
    <2> HIDE DEF step, Positive
    <2>2. PICK g : Taken(m, Positive, 1, step, g)
      BY <2>1, StepsTaken
    <2>3. g \in [0 .. m -> Positive] /\ g[0] = 1 /\ \A i \in 1 .. m : g[i] = step[i][g[i - 1]]
      BY <2>2 DEF Taken
    <2>4. \A i \in 1 .. m : g[i] = 256 * g[i - 1]
      BY <2>1, <2>3
    <2>5. Upto(m, g)
      BY <2>3, <2>4
    <2>6. Upto(m, power(m))
      BY <2>5
    <2> HIDE DEF power
    <2>7. \A i \in 0 .. m : power(m)[i] = IF i = 0 THEN 1 ELSE 256 * power(m)[i - 1]
      BY <2>6
    <2>8. Follows(m, Positive, 1, step, power(m))
      BY <2>1, <2>7 DEF Follows
    <2>9. \A i \in 0 .. m : power(m)[i] = g[i]
      BY <2>2, <2>8 DEF Taken
    <2> QED
      BY <2>3, <2>4, <2>9
  <1>2. \A m \in Nat : Power(m) = power(m)[m]
    BY DEF Power
  <1> HIDE DEF power
  <1>3. PICK g \in [0 .. n -> Nat \ {0}] :
          /\ g[0] = 1 /\ \A i \in 1 .. n : g[i] = 256 * g[i - 1]
          /\ \A i \in 0 .. n : power(n)[i] = g[i]
    BY <1>1
  <1>4. n + 1 \in Nat
    OBVIOUS
  <1>5. PICK h \in [0 .. n + 1 -> Nat \ {0}] :
          /\ h[0] = 1 /\ \A i \in 1 .. n + 1 : h[i] = 256 * h[i - 1]
          /\ \A i \in 0 .. n + 1 : power(n + 1)[i] = h[i]
    BY <1>1, <1>4
  <1>6. power(0)[0] = 1
    <2>1. PICK z \in [0 .. 0 -> Positive] : z[0] = 1 /\ \A i \in 0 .. 0 : power(0)[i] = z[i]
      BY <1>1
    <2> QED
      BY <2>1
  <1> DEFINE Same == {m \in Nat : m <= n => g[m] = h[m]}
  <1>7. 0 \in Same
    BY <1>3, <1>5
  <1>8. ASSUME NEW m \in Nat, m \in Same PROVE m + 1 \in Same
    <2>1. CASE m + 1 <= n
      <3>1. g[m + 1] = 256 * g[(m + 1) - 1] /\ h[m + 1] = 256 * h[(m + 1) - 1]
        BY <1>3, <1>5, <2>1
      <3> QED
        BY <1>8, <2>1, <3>1
    <2> QED
      BY <2>1
  <1>9. n \in Same
    <2> HIDE DEF Same
    <2> QED
      BY <1>7, <1>8, EveryNumber
  <1>10. h[n + 1] = 256 * h[(n + 1) - 1]
    BY <1>5
  <1>11. Power(n) = g[n] /\ Power(n + 1) = h[n + 1] /\ Power(0) = 1
    <2>1. Power(n) = power(n)[n] /\ Power(n + 1) = power(n + 1)[n + 1] /\ Power(0) = power(0)[0]
      BY <1>2, <1>4
    <2>2. power(n)[n] = g[n]
      BY <1>3
    <2>3. power(n + 1)[n + 1] = h[n + 1]
      BY <1>5
    <2> QED
      BY <1>6, <2>1, <2>2, <2>3
  <1> QED
    BY <1>3, <1>9, <1>10, <1>11

\* The values of the last bytes of s, of so many.
DigitValues(s, m, v) ==
  /\ v \in [0 .. m -> Nat] /\ v[0] = 0
  /\ \A i \in 1 .. m : v[i] = v[i - 1] + Power(i - 1) * s[m - i + 1]

\* A product of numbers is a number, and no smaller for a larger factor.
LEMMA Product ==
  ASSUME NEW P \in Nat, NEW x \in Nat, NEW y \in Nat, x <= y
  PROVE  P * x \in Nat /\ P * x <= P * y
  OBVIOUS

\* The number of bytes, by its sums from the last byte on.
LEMMA IntOfIs ==
  ASSUME NEW m \in Nat, NEW s \in [1 .. m -> Octet]
  PROVE  \E v : DigitValues(s, m, v) /\ IntOf(s) = v[m] /\ \A i \in 0 .. m : v[i] < Power(i)
  <1> DEFINE Upto(f) == f = [i \in 0 .. m |-> IF i = 0 THEN 0 ELSE f[i - 1] + Power(i - 1) * s[m - i + 1]]
             more    == [i \in 1 .. m |-> [x \in Nat |-> x + Power(i - 1) * s[m - i + 1]]]
             value   == CHOOSE f : Upto(f)
  <1>1. Len(s) = m
    OBVIOUS
  <1>2. \A i \in 1 .. m : /\ Power(i - 1) \in Nat \ {0} /\ Power(i) = 256 * Power(i - 1)
                          /\ s[m - i + 1] \in 0 .. 255
    <2> TAKE i \in 1 .. m
    <2>1. i - 1 \in Nat /\ (i - 1) + 1 = i /\ m - i + 1 \in 1 .. m
      OBVIOUS
    <2>2. Power(i - 1) \in Nat \ {0} /\ Power((i - 1) + 1) = 256 * Power(i - 1)
      BY <2>1, Powers
    <2> QED
      BY <2>1, <2>2 DEF Octet
  <1>3. \A i \in 1 .. m : /\ Power(i - 1) * s[m - i + 1] \in Nat
                          /\ Power(i - 1) * s[m - i + 1] <= Power(i - 1) * 255
    <2> TAKE i \in 1 .. m
    <2> DEFINE P == Power(i - 1)  x == s[m - i + 1]
    <2>1. P \in Nat \ {0} /\ x \in 0 .. 255
      BY <1>2
    <2> HIDE DEF P, x
    <2>2. P * x \in Nat /\ P * x <= P * 255
      BY <2>1, Product
    <2> QED
      BY <2>2 DEF P, x
  <1>4. /\ more \in [1 .. m -> [Nat -> Nat]] /\ 0 \in Nat
        /\ \A i \in 1 .. m, x \in Nat : more[i][x] = x + Power(i - 1) * s[m - i + 1]
    BY <1>3
  <1> HIDE DEF more
  <1>5. PICK v : Taken(m, Nat, 0, more, v)
    BY <1>4, StepsTaken
  <1>6. v \in [0 .. m -> Nat] /\ v[0] = 0 /\ \A i \in 1 .. m : v[i] = more[i][v[i - 1]]
    BY <1>5 DEF Taken
  <1>7. v[0] = 0 /\ \A i \in 1 .. m : v[i] = v[i - 1] + Power(i - 1) * s[m - i + 1]
    <2>1. \A i \in 1 .. m : v[i - 1] \in Nat
      BY <1>6
    <2> QED
      BY <1>4, <1>6, <2>1
  <1>8. Upto(v)
    BY <1>7, <1>6
  <1>9. Upto(value)
    BY <1>8
  <1>10. IntOf(s) = value[m]
    BY <1>1 DEF IntOf
  <1> HIDE DEF value
  <1>11. \A i \in 0 .. m : value[i] = IF i = 0 THEN 0 ELSE value[i - 1] + Power(i - 1) * s[m - i + 1]
    BY <1>9
  <1>12. Follows(m, Nat, 0, more, value)
    <2>1. value[0] = 0
      BY <1>11
    <2>2. \A i \in 1 .. m : value[i] = value[i - 1] + Power(i - 1) * s[m - i + 1]
      BY <1>11
    <2> QED
      BY <1>4, <2>1, <2>2 DEF Follows
  <1>13. IntOf(s) = v[m]
    BY <1>5, <1>10, <1>12 DEF Taken
  <1> DEFINE Less == {i \in Nat : i <= m => v[i] < Power(i)}
  <1>14. 0 \in Less
    <2>1. Power(0) = 1
      BY Powers
    <2> QED
      BY <1>7, <2>1
  <1>15. ASSUME NEW i \in Nat, i \in Less PROVE i + 1 \in Less
    <2>1. CASE i + 1 <= m
      <3>1. i + 1 \in 1 .. m /\ (i + 1) - 1 = i
        BY <2>1
      <3>2. v[i + 1] = v[i] + Power(i) * s[m - (i + 1) + 1]
        BY <1>7, <3>1
      <3>3. /\ Power(i) \in Nat \ {0} /\ Power(i + 1) = 256 * Power(i)
            /\ Power(i) * s[m - (i + 1) + 1] \in Nat /\ Power(i) * s[m - (i + 1) + 1] <= Power(i) * 255
        BY <1>2, <1>3, <3>1
      <3>4. v[i] \in Nat /\ v[i] < Power(i)
        BY <1>15, <1>6, <2>1
      <3> DEFINE P == Power(i)  x == P * s[m - (i + 1) + 1]
      <3>5. x \in Nat /\ P \in Nat /\ x <= P * 255 /\ v[i + 1] = v[i] + x /\ Power(i + 1) = 256 * P
        BY <3>2, <3>3
      <3> HIDE DEF P, x
      <3>6. v[i] < P
        BY <3>4 DEF P
      <3>7. v[i + 1] < Power(i + 1)
        BY <3>4, <3>5, <3>6
      <3> QED
        BY <3>7
    <2> QED
      BY <2>1
  <1>16. Nat \subseteq Less
    <2> HIDE DEF Less
    <2> QED
      BY <1>14, <1>15, EveryNumber
  <1>17. \A i \in 0 .. m : v[i] < Power(i)
    BY <1>16
  <1>18. DigitValues(s, m, v)
    BY <1>7, <1>6 DEF DigitValues
  <1> QED
    BY <1>13, <1>17, <1>18

\* A string written out whole is that string.
LEMMA WholeIs ==
  ASSUME NEW n \in Nat, NEW S, NEW s \in [1 .. n -> S]
  PROVE  Whole(s) = s /\ s \in Seq(S) /\ Len(s) = n
  <1>1. s \in Seq(S) /\ Len(s) = n
    OBVIOUS
  <1> QED
    BY <1>1, ConcatEmptySeq DEF Whole

\* A sum of two bytes and a carry is a byte and a carry.
LEMMA Carries ==
  ASSUME NEW x \in 0 .. 511
  PROVE  /\ x % 256 \in Octet /\ x \div 256 \in 0 .. 1
         /\ \E q \in 0 .. 1, r \in Octet : x = 256 * q + r /\ x \div 256 = q /\ x % 256 = r
  <1>1. x % 256 \in Octet
    BY DEF Octet
  <1>2. x \div 256 \in 0 .. 1
    OBVIOUS
  <1>3. CASE x < 256
    <2>1. x \div 256 = 0 /\ x % 256 = x /\ x = 256 * 0 + x
      BY <1>3
    <2>2. x \in Octet
      BY <1>3 DEF Octet
    <2> QED
      BY <1>1, <1>2, <2>1, <2>2
  <1>4. CASE x >= 256
    <2>1. x \div 256 = 1 /\ x = 256 * 1 + (x - 256)
      BY <1>4
    <2>2. x % 256 = x - 256
      BY <1>4
    <2>3. x - 256 \in Octet
      BY <1>4 DEF Octet
    <2> QED
      BY <1>1, <1>2, <2>1, <2>2, <2>3
  <1> QED
    BY <1>3, <1>4

\* The sums of Add_BE, each with its carry.
Sums(a, b, m, k, c) ==
  /\ c \in [0 .. m -> 0 .. 511] /\ c[0] = 0
  /\ \A i \in 1 .. m : c[i] = a[m - i + 1] + (IF i <= k THEN b[k - i + 1] ELSE 0) + c[i - 1] \div 256
  /\ Add_BE(a, b) = [j \in 1 .. m |-> c[m - j + 1] % 256]

\* There are such sums, and Add_BE takes its bytes from them.
LEMMA SumsOf ==
  ASSUME NEW m \in Nat, NEW k \in Nat, NEW a \in [1 .. m -> Octet], NEW b \in [1 .. k -> Octet]
  PROVE  \E c : Sums(a, b, m, k, c)
  <1> DEFINE A(i) == a[m - i + 1]
             B(i) == IF i <= k THEN b[k - i + 1] ELSE 0
             Upto(f) == f = [i \in 0 .. m |-> IF i = 0 THEN 0 ELSE A(i) + B(i) + f[i - 1] \div 256]
             Sum == 0 .. 511
             next == [i \in 1 .. m |-> [x \in Sum |-> A(i) + B(i) + x \div 256]]
             sum == CHOOSE f : Upto(f)
  <1>1. Len(a) = m /\ Len(b) = k
    OBVIOUS
  <1>2. \A i \in 1 .. m : A(i) \in 0 .. 255
    <2> TAKE i \in 1 .. m
    <2>1. m - i + 1 \in 1 .. m
      OBVIOUS
    <2> QED
      BY <2>1 DEF Octet
  <1>3. \A i \in 1 .. m : B(i) \in 0 .. 255
    <2> TAKE i \in 1 .. m
    <2>1. i <= k => k - i + 1 \in 1 .. k
      OBVIOUS
    <2> QED
      BY <2>1 DEF Octet
  <1>4. Add_BE(a, b) = Whole([j \in 1 .. m |-> sum[m - j + 1] % 256])
    BY <1>1 DEF Add_BE
  <1>5. \A i \in 1 .. m : A(i) + B(i) = a[m - i + 1] + (IF i <= k THEN b[k - i + 1] ELSE 0)
    OBVIOUS
  <1> HIDE DEF A, B
  <1>6. /\ next \in [1 .. m -> [Sum -> Sum]] /\ 0 \in Sum
        /\ \A i \in 1 .. m, x \in Sum : next[i][x] = A(i) + B(i) + x \div 256
    <2>1. \A i \in 1 .. m, x \in Sum : A(i) + B(i) + x \div 256 \in Sum
      <3>1. \A p, q \in 0 .. 255, r \in 0 .. 1 : p + q + r \in Sum
        OBVIOUS
      <3>2. \A x \in Sum : x \div 256 \in 0 .. 1
        BY Carries
      <3> HIDE DEF Sum
      <3> QED
        BY <1>2, <1>3, <3>1, <3>2
    <2>2. 0 \in Sum
      OBVIOUS
    <2> HIDE DEF Sum
    <2> QED
      BY <2>1, <2>2
  <1> HIDE DEF next, Sum
  <1>7. PICK c : Taken(m, Sum, 0, next, c)
    BY <1>6, StepsTaken
  <1>8. c \in [0 .. m -> Sum] /\ c[0] = 0 /\ \A i \in 1 .. m : c[i] = next[i][c[i - 1]]
    BY <1>7 DEF Taken
  <1>9. \A i \in 1 .. m : c[i] = A(i) + B(i) + c[i - 1] \div 256
    <2>1. \A i \in 1 .. m : c[i - 1] \in Sum
      BY <1>8
    <2> QED
      BY <1>6, <1>8, <2>1
  <1>10. Upto(c)
    BY <1>8, <1>9
  <1>11. Upto(sum)
    BY <1>10
  <1> HIDE DEF sum
  <1>12. Follows(m, Sum, 0, next, sum)
    <2>1. \A i \in 0 .. m : sum[i] = IF i = 0 THEN 0 ELSE A(i) + B(i) + sum[i - 1] \div 256
      BY <1>11
    <2>2. sum[0] = 0
      BY <2>1
    <2>3. \A i \in 1 .. m : sum[i] = A(i) + B(i) + sum[i - 1] \div 256
      BY <2>1
    <2> QED
      BY <1>6, <2>2, <2>3 DEF Follows
  <1>13. \A i \in 0 .. m : sum[i] = c[i]
    BY <1>7, <1>12 DEF Taken
  <1>14. Whole([j \in 1 .. m |-> c[m - j + 1] % 256]) = [j \in 1 .. m |-> c[m - j + 1] % 256]
    <2> DEFINE s == [j \in 1 .. m |-> c[m - j + 1] % 256]
    <2>1. s \in [1 .. m -> Octet]
      <3> SUFFICES ASSUME NEW j \in 1 .. m PROVE c[m - j + 1] % 256 \in Octet
        OBVIOUS
      <3>1. m - j + 1 \in 0 .. m
        OBVIOUS
      <3>2. c[m - j + 1] \in 0 .. 511
        BY <1>8, <3>1 DEF Sum
      <3> QED
        BY <3>2, Carries
    <2> HIDE DEF s
    <2>2. Whole(s) = s
      BY <2>1, WholeIs
    <2> QED
      BY <2>2 DEF s
  <1>15. Add_BE(a, b) = [j \in 1 .. m |-> c[m - j + 1] % 256]
    <2>1. \A j \in 1 .. m : sum[m - j + 1] = c[m - j + 1]
      BY <1>13
    <2>2. [j \in 1 .. m |-> sum[m - j + 1] % 256] = [j \in 1 .. m |-> c[m - j + 1] % 256]
      BY <2>1
    <2> QED
      BY <1>4, <1>14, <2>2
  <1>16. Sums(a, b, m, k, c)
    BY <1>5, <1>8, <1>9, <1>15 DEF Sums, Sum
  <1> QED
    BY <1>16

\* A sum has the bytes of its first term.
LEMMA AddTyped ==
  ASSUME NEW m \in Nat, NEW k \in Nat, NEW a \in [1 .. m -> Octet], NEW b \in [1 .. k -> Octet]
  PROVE  Add_BE(a, b) \in [1 .. m -> Octet]
  <1>1. PICK c : Sums(a, b, m, k, c)
    BY SumsOf
  <1>2. \A j \in 1 .. m : c[m - j + 1] \in 0 .. 511
    <2> TAKE j \in 1 .. m
    <2>1. m - j + 1 \in 0 .. m
      OBVIOUS
    <2> QED
      BY <1>1, <2>1 DEF Sums
  <1>3. \A j \in 1 .. m : c[m - j + 1] % 256 \in Octet
    BY <1>2, Carries
  <1> QED
    BY <1>1, <1>3 DEF Sums

\* Products, as the solver needs them.
LEMMA Carried ==
  ASSUME NEW P \in Nat, NEW q \in Nat, NEW r \in Nat
  PROVE  P * (256 * q + r) = (256 * P) * q + P * r
  OBVIOUS

LEMMA Distributed ==
  ASSUME NEW P \in Nat, NEW x \in Nat, NEW y \in Nat, NEW z \in Nat
  PROVE  P * (x + y + z) = P * x + P * y + P * z
  OBVIOUS

\* One value for one division.
LEMMA Divided ==
  ASSUME NEW M \in Nat \ {0}, NEW r \in 0 .. M - 1, NEW q \in Nat
  PROVE  (M * q + r) % M = r /\ (M * q + r) \div M = q
  OBVIOUS

\* More of products.
LEMMA Associated ==
  ASSUME NEW P \in Nat, NEW h \in Nat, NEW g \in Nat, NEW x \in Nat
  PROVE  /\ P * (h + g * x) = P * h + (P * g) * x /\ P * (256 * g) = 256 * (P * g)
         /\ h + g * x \in Nat /\ 256 * g \in Nat
  <1>1. g * x \in Nat
    BY Product
  <1>2. P * (g * x) = (P * g) * x
    OBVIOUS
  <1> DEFINE y == g * x
  <1>3. P * (h + y) = P * h + P * y
    <2> HIDE DEF y
    <2>1. y \in Nat
      BY <1>1 DEF y
    <2> QED
      BY <2>1
  <1>4. P * (256 * g) = 256 * (P * g)
    OBVIOUS
  <1> QED
    BY <1>1, <1>2, <1>3, <1>4

\* The digits before the last j are a multiple of what j digits can count.
LEMMA ValueSplit ==
  ASSUME NEW m \in Nat, NEW s \in [1 .. m -> Octet], NEW v, DigitValues(s, m, v), NEW j \in 0 .. m
  PROVE  \E h \in Nat : v[m] = v[j] + Power(j) * h
  <1>1. v \in [0 .. m -> Nat] /\ \A i \in 1 .. m : v[i] = v[i - 1] + Power(i - 1) * s[m - i + 1]
    BY DEF DigitValues
  <1>2. Power(j) \in Nat \ {0}
    <2>1. j \in Nat
      OBVIOUS
    <2> QED
      BY <2>1, Powers
  <1> DEFINE P == Power(j)
             Good(i) == \E h, g \in Nat : v[i] = v[j] + P * h /\ Power(i) = P * g
             All == {n \in Nat : j + n <= m => Good(j + n)}
  <1>3. 0 \in All
    <2>1. v[j] = v[j] + P * 0 /\ P = P * 1
      BY <1>1, <1>2
    <2> QED
      BY <2>1
  <1>4. ASSUME NEW n \in Nat, n \in All PROVE n + 1 \in All
    <2>1. CASE j + (n + 1) <= m
      <3> DEFINE i == j + n
                 x == s[m - (i + 1) + 1]
      <3>1. i \in Nat /\ i + 1 \in 1 .. m /\ i \in 0 .. m /\ (i + 1) - 1 = i
        BY <2>1
      <3>2. PICK h \in Nat, g \in Nat : v[i] = v[j] + P * h /\ Power(i) = P * g
        BY <1>4, <2>1
      <3>3. v[i + 1] = v[i] + Power(i) * x
        BY <1>1, <3>1
      <3>4. x \in Nat
        <4>1. m - (i + 1) + 1 \in 1 .. m
          BY <3>1
        <4>2. x \in Octet
          BY <4>1
        <4>3. Octet \subseteq Nat
          BY DEF Octet
        <4> HIDE DEF x
        <4> QED
          BY <4>2, <4>3
      <3>5. Power(i + 1) = 256 * Power(i)
        BY <3>1, Powers
      <3> HIDE DEF x, P
      <3>6. /\ P * (h + g * x) = P * h + (P * g) * x /\ P * (256 * g) = 256 * (P * g)
            /\ h + g * x \in Nat /\ 256 * g \in Nat
        <4>1. P \in Nat
          BY <1>2 DEF P
        <4> QED
          BY <3>4, <4>1, Associated
      <3>7. Power(i + 1) = P * (256 * g)
        BY <3>2, <3>5, <3>6
      <3>8. v[i + 1] = v[j] + P * (h + g * x)
        <4> DEFINE p == P * h  q == (P * g) * x
        <4>1. v[i + 1] = (v[j] + p) + q
          BY <3>2, <3>3
        <4>2. P * (h + g * x) = p + q
          BY <3>6
        <4>3. v[j] \in Nat /\ p \in Nat /\ q \in Nat
          BY <1>1, <1>2, <3>4 DEF P
        <4> HIDE DEF p, q
        <4> QED
          BY <4>1, <4>2, <4>3
      <3>9. Good(i + 1)
        BY <3>6, <3>7, <3>8
      <3>10. i + 1 = j + (n + 1)
        OBVIOUS
      <3> HIDE DEF Good, i
      <3> QED
        BY <3>9, <3>10
    <2> QED
      BY <2>1
  <1>5. Nat \subseteq All
    <2> HIDE DEF All
    <2> QED
      BY <1>3, <1>4, EveryNumber
  <1>6. m - j \in All /\ j + (m - j) = m
    BY <1>5
  <1> HIDE DEF Good
  <1>7. Good(m)
    BY <1>6
  <1> QED
    BY <1>7 DEF Good

\* Add_BE adds, as far as the first string is long (utils.c).
LEMMA AddIs ==
  ASSUME NEW m \in Nat, NEW k \in Nat, NEW a \in [1 .. m -> Octet], NEW b \in [1 .. k -> Octet]
  PROVE  IntOf(Add_BE(a, b)) = (IntOf(a) + IntOf(b)) % Power(m)
  <1> DEFINE out == Add_BE(a, b)
  <1>1. PICK c : Sums(a, b, m, k, c)
    BY SumsOf
  <1>2. out \in [1 .. m -> Octet]
    BY AddTyped
  <1>3. PICK va : DigitValues(a, m, va) /\ IntOf(a) = va[m] /\ \A i \in 0 .. m : va[i] < Power(i)
    BY IntOfIs
  <1>4. PICK vb : DigitValues(b, k, vb) /\ IntOf(b) = vb[k] /\ \A i \in 0 .. k : vb[i] < Power(i)
    BY IntOfIs
  <1> HIDE DEF out
  <1>5. PICK vo : DigitValues(out, m, vo) /\ IntOf(out) = vo[m] /\ \A i \in 0 .. m : vo[i] < Power(i)
    BY <1>2, IntOfIs
  <1>6. /\ c \in [0 .. m -> 0 .. 511] /\ c[0] = 0
        /\ \A i \in 1 .. m : c[i] = a[m - i + 1] + (IF i <= k THEN b[k - i + 1] ELSE 0) + c[i - 1] \div 256
        /\ out = [j \in 1 .. m |-> c[m - j + 1] % 256]
    BY <1>1 DEF Sums, out
  <1>7. /\ va \in [0 .. m -> Nat] /\ va[0] = 0
        /\ \A i \in 1 .. m : va[i] = va[i - 1] + Power(i - 1) * a[m - i + 1]
    BY <1>3 DEF DigitValues
  <1>8. /\ vb \in [0 .. k -> Nat] /\ vb[0] = 0
        /\ \A i \in 1 .. k : vb[i] = vb[i - 1] + Power(i - 1) * b[k - i + 1]
    BY <1>4 DEF DigitValues
  <1>9. /\ vo \in [0 .. m -> Nat] /\ vo[0] = 0
        /\ \A i \in 1 .. m : vo[i] = vo[i - 1] + Power(i - 1) * out[m - i + 1]
    BY <1>5 DEF DigitValues
  <1> DEFINE low(i) == vb[IF i <= k THEN i ELSE k]
             Good(i) == vo[i] + Power(i) * (c[i] \div 256) = va[i] + low(i)
             All == {n \in Nat : n <= m => Good(n)}
  <1>10. 0 \in All
    <2>1. Power(0) = 1
      BY Powers
    <2>2. c[0] \div 256 = 0
      BY <1>6
    <2>3. low(0) = 0
      BY <1>8
    <2>4. vo[0] = 0 /\ va[0] = 0
      BY <1>7, <1>9
    <2>5. Good(0)
      <3> HIDE DEF low
      <3> QED
        BY <2>1, <2>2, <2>3, <2>4
    <2> HIDE DEF Good
    <2> QED
      BY <2>5
  <1>11. ASSUME NEW n \in Nat, n \in All PROVE n + 1 \in All
    <2>1. CASE n + 1 <= m
      <3> DEFINE P == Power(n)
                 x == a[m - (n + 1) + 1]
                 y == IF n + 1 <= k THEN b[k - (n + 1) + 1] ELSE 0
                 z == c[n] \div 256
      <3>1. n + 1 \in 1 .. m /\ n \in 0 .. m /\ (n + 1) - 1 = n /\ m - (n + 1) + 1 \in 1 .. m
        BY <2>1
      <3>2. P \in Nat /\ Power(n + 1) = 256 * P
        BY Powers
      <3>3. c[n] \in 0 .. 511 /\ c[n + 1] \in 0 .. 511
        <4>1. n + 1 \in 0 .. m
          BY <3>1
        <4>2. c \in [0 .. m -> 0 .. 511]
          BY <1>6
        <4> QED
          BY <3>1, <4>1, <4>2
      <3>4. PICK q \in 0 .. 1, r \in Octet :
              c[n + 1] = 256 * q + r /\ c[n + 1] \div 256 = q /\ c[n + 1] % 256 = r
        BY <3>3, Carries
      <3>5. z \in 0 .. 1
        BY <3>3, Carries
      <3>6. x \in Nat /\ y \in Nat /\ z \in Nat /\ q \in Nat /\ r \in Nat
        <4>1. x \in Octet
          BY <3>1
        <4>2. y \in Octet
          <5>1. CASE n + 1 <= k
            <6>1. k - (n + 1) + 1 \in 1 .. k
              BY <5>1
            <6> QED
              BY <5>1, <6>1
          <5>2. CASE ~(n + 1 <= k)
            BY <5>2 DEF Octet
          <5> QED
            BY <5>1, <5>2
        <4> HIDE DEF x, y, z
        <4> QED
          BY <3>5, <4>1, <4>2 DEF Octet
      <3>7. c[n + 1] = x + y + z
        BY <1>6, <3>1
      <3>8. out[m - (n + 1) + 1] = r
        <4>1. m - (m - (n + 1) + 1) + 1 = n + 1
          OBVIOUS
        <4> QED
          BY <1>6, <3>1, <3>4, <4>1
      <3>9. vo[n + 1] = vo[n] + P * r
        BY <1>9, <3>1, <3>8
      <3>10. va[n + 1] = va[n] + P * x
        BY <1>7, <3>1
      <3>11. low(n + 1) = low(n) + P * y
        <4>1. CASE n + 1 <= k
          <5>1. n + 1 \in 1 .. k /\ n <= k
            BY <4>1
          <5>2. vb[n + 1] = vb[n] + P * b[k - (n + 1) + 1]
            BY <1>8, <3>1, <5>1
          <5> QED
            BY <4>1, <5>1, <5>2
        <4>2. CASE ~(n + 1 <= k)
          <5>1. low(n + 1) = vb[k] /\ y = 0
            BY <4>2
          <5>2. low(n) = vb[k]
            BY <4>2
          <5>3. P * 0 = 0 /\ vb[k] \in Nat
            BY <1>8, <3>2
          <5> HIDE DEF y, low
          <5> QED
            BY <5>1, <5>2, <5>3
        <4> QED
          BY <4>1, <4>2
      <3>12. vo[n] + P * z = va[n] + low(n)
        BY <1>11, <2>1
      <3>13. low(n) \in Nat /\ va[n] \in Nat /\ vo[n] \in Nat
        BY <1>7, <1>8, <1>9, <3>1
      <3> HIDE DEF P, x, y, z, low
      <3>14. P * (256 * q + r) = (256 * P) * q + P * r
        BY <3>2, <3>6, Carried
      <3>15. P * (x + y + z) = P * x + P * y + P * z
        BY <3>2, <3>6, Distributed
      <3>16. 256 * q + r = x + y + z
        BY <3>4, <3>7
      <3>17. vo[n + 1] + Power(n + 1) * q = va[n + 1] + low(n + 1)
        <4> DEFINE Px == P * x  Py == P * y  Pz == P * z  Pr == P * r  Pq == (256 * P) * q
        <4>1. Px \in Nat /\ Py \in Nat /\ Pz \in Nat /\ Pr \in Nat /\ Pq \in Nat
          BY <3>2, <3>6
        <4>2. Pq + Pr = Px + Py + Pz
          BY <3>14, <3>15, <3>16
        <4>3. vo[n + 1] = vo[n] + Pr /\ va[n + 1] = va[n] + Px /\ low(n + 1) = low(n) + Py
          BY <3>9, <3>10, <3>11
        <4>4. vo[n] + Pz = va[n] + low(n)
          BY <3>12
        <4>5. Power(n + 1) * q = Pq
          BY <3>2
        <4> DEFINE O == vo[n]  A == va[n]  L == low(n)
        <4>6. O \in Nat /\ A \in Nat /\ L \in Nat /\ O + Pz = A + L
          BY <3>13, <4>4
        <4> HIDE DEF Px, Py, Pz, Pr, Pq, O, A, L
        <4>7. (O + Pr) + Pq = (A + Px) + (L + Py)
          BY <4>1, <4>2, <4>6
        <4>8. (vo[n] + Pr) + Pq = (va[n] + Px) + (low(n) + Py)
          BY <4>7 DEF O, A, L
        <4> QED
          BY <4>3, <4>5, <4>8
      <3>18. Good(n + 1)
        BY <3>4, <3>17
      <3> HIDE DEF Good
      <3> QED
        BY <3>18
    <2> QED
      BY <2>1
  <1>12. Good(m)
    <2>1. Nat \subseteq All
      <3> HIDE DEF All
      <3> QED
        BY <1>10, <1>11, EveryNumber
    <2> HIDE DEF Good
    <2> QED
      BY <2>1
  <1> DEFINE M == Power(m)  q == c[m] \div 256
  <1>13. M \in Nat \ {0} /\ vo[m] \in Nat /\ vo[m] < M /\ va[m] \in Nat
    BY <1>5, <1>7, <1>9, Powers
  <1>14. q \in Nat
    <2>1. c[m] \in 0 .. 511
      <3> HIDE DEF M, q
      <3>1. m \in 0 .. m
        OBVIOUS
      <3> QED
        BY <1>6, <3>1
    <2>2. q \in 0 .. 1
      BY <2>1, Carries
    <2> HIDE DEF q
    <2> QED
      BY <2>2
  <1>15. vo[m] + M * q = va[m] + low(m)
    BY <1>12
  <1>16. \E h \in Nat : vb[k] = low(m) + M * h
    <2>1. CASE m <= k
      <3>1. m \in 0 .. k /\ low(m) = vb[m]
        BY <2>1
      <3> HIDE DEF low
      <3> QED
        BY <1>4, <3>1, ValueSplit
    <2>2. CASE k < m
      <3>1. low(m) = vb[k] /\ vb[k] \in Nat
        BY <1>8, <2>2
      <3> HIDE DEF low, M
      <3>2. vb[k] = low(m) + M * 0
        BY <1>13, <3>1
      <3> QED
        BY <3>2
    <2> QED
      BY <2>1, <2>2
  <1>17. PICK h \in Nat : vb[k] = low(m) + M * h
    BY <1>16
  <1>18. low(m) \in Nat
    BY <1>8
  <1> HIDE DEF low, M, q
  <1>19. va[m] + vb[k] = M * (q + h) + vo[m]
    <2> DEFINE Mq == M * q  Mh == M * h
    <2>1. Mq \in Nat /\ Mh \in Nat /\ M * (q + h) = Mq + Mh
      BY <1>13, <1>14
    <2>2. vo[m] + Mq = va[m] + low(m) /\ vb[k] = low(m) + Mh
      BY <1>15, <1>17
    <2> DEFINE O == vo[m]  A == va[m]  L == low(m)
    <2>3. O \in Nat /\ A \in Nat /\ L \in Nat /\ O + Mq = A + L
      BY <1>13, <1>18, <2>2
    <2> HIDE DEF Mq, Mh, O, A, L
    <2>4. A + (L + Mh) = (Mq + Mh) + O
      BY <2>1, <2>3
    <2>5. va[m] + (low(m) + Mh) = (Mq + Mh) + vo[m]
      BY <2>4 DEF O, A, L
    <2> QED
      BY <2>1, <2>2, <2>5
  <1>20. (M * (q + h) + vo[m]) % M = vo[m]
    <2>1. q + h \in Nat /\ vo[m] \in 0 .. M - 1
      BY <1>13, <1>14
    <2> QED
      BY <1>13, <2>1, Divided
  <1> QED
    BY <1>3, <1>4, <1>5, <1>19, <1>20 DEF M, out

\* A number divided, and the remainder of a sum.
LEMMA Division ==
  ASSUME NEW M \in Nat \ {0}, NEW x \in Nat
  PROVE  \E q \in Nat, r \in 0 .. M - 1 : x = M * q + r /\ x % M = r
  <1> DEFINE Good(y) == \E q \in Nat, r \in 0 .. M - 1 : y = M * q + r
             All     == {y \in Nat : Good(y)}
  <1>1. 0 \in All
    <2>1. 0 \in 0 .. M - 1 /\ 0 = M * 0 + 0
      OBVIOUS
    <2> QED
      BY <2>1
  <1>2. ASSUME NEW y \in Nat, y \in All PROVE y + 1 \in All
    <2>1. PICK q \in Nat, r \in 0 .. M - 1 : y = M * q + r
      BY <1>2
    <2>2. CASE r + 1 < M
      <3>1. r + 1 \in 0 .. M - 1 /\ y + 1 = M * q + (r + 1)
        BY <2>1, <2>2
      <3> QED
        BY <3>1
    <2>3. CASE r + 1 = M
      <3>1. M * (q + 1) = M * q + M
        OBVIOUS
      <3>2. y + 1 = M * (q + 1) + 0
        BY <2>1, <2>3, <3>1
      <3> DEFINE t == q + 1  z == 0
      <3>3. t \in Nat /\ z \in 0 .. M - 1
        OBVIOUS
      <3>4. y + 1 = M * t + z
        BY <3>2
      <3> HIDE DEF t, z
      <3>5. Good(y + 1)
        BY <3>3, <3>4
      <3> HIDE DEF Good
      <3> QED
        BY <3>5
    <2> QED
      BY <2>2, <2>3
  <1>3. x \in All
    <2> HIDE DEF All
    <2> QED
      BY <1>1, <1>2, EveryNumber
  <1>4. PICK q \in Nat, r \in 0 .. M - 1 : x = M * q + r
    BY <1>3
  <1> QED
    BY <1>4, Divided

\* What is left of a sum is left of its terms.
LEMMA RemainderOfSum ==
  ASSUME NEW M \in Nat \ {0}, NEW x \in Nat, NEW y \in Nat
  PROVE  ((x % M) + y) % M = (x + y) % M /\ x % M \in Nat
  <1>1. PICK q \in Nat, r \in 0 .. M - 1 : x = M * q + r /\ x % M = r
    BY Division
  <1>2. r + y \in Nat
    OBVIOUS
  <1>3. PICK t \in Nat, z \in 0 .. M - 1 : r + y = M * t + z /\ (r + y) % M = z
    BY <1>2, Division
  <1>4. x + y = M * (q + t) + z
    <2> DEFINE Mq == M * q  Mt == M * t
    <2>1. Mq \in Nat /\ Mt \in Nat /\ M * (q + t) = Mq + Mt
      OBVIOUS
    <2>2. x = Mq + r /\ r + y = Mt + z
      BY <1>1, <1>3
    <2> HIDE DEF Mq, Mt
    <2> QED
      BY <2>1, <2>2
  <1>5. (M * (q + t) + z) % M = z
    <2>1. q + t \in Nat
      OBVIOUS
    <2> QED
      BY <2>1, Divided
  <1> QED
    BY <1>1, <1>3, <1>4, <1>5

\* The bytes of the number that bytes are, are those bytes.
LEMMA DigitsBack ==
  ASSUME HashSeedlen \in Nat, NEW s \in [1 .. HashSeedlen -> Octet]
  PROVE  BytesOf(IntOf(s)) = s /\ IntOf(s) \in Nat /\ IntOf(s) < Modulus
  <1> DEFINE m == HashSeedlen
  <1>1. PICK v : DigitValues(s, m, v) /\ IntOf(s) = v[m] /\ \A i \in 0 .. m : v[i] < Power(i)
    BY IntOfIs
  <1>2. v \in [0 .. m -> Nat] /\ \A i \in 1 .. m : v[i] = v[i - 1] + Power(i - 1) * s[m - i + 1]
    BY <1>1 DEF DigitValues
  <1>3. ASSUME NEW i \in 1 .. m
        PROVE  (v[m] \div Power(m - i)) % 256 = s[i]
    <2> DEFINE j == m - i
               P == Power(j)
    <2>1. j \in 0 .. m /\ j + 1 \in 1 .. m /\ j + 1 \in 0 .. m /\ (j + 1) - 1 = j /\ m - (j + 1) + 1 = i /\ j \in Nat
      OBVIOUS
    <2>2. P \in Nat \ {0} /\ Power(j + 1) = 256 * P
      BY <2>1, Powers
    <2>3. v[j + 1] = v[j] + P * s[i]
      BY <1>2, <2>1
    <2>4. \E h \in Nat : v[m] = v[j + 1] + Power(j + 1) * h
      <3> DEFINE J == j + 1
      <3>1. J \in 0 .. m
        BY <2>1
      <3> HIDE DEF J
      <3>2. \E h \in Nat : v[m] = v[J] + Power(J) * h
        BY <1>1, <3>1, ValueSplit
      <3> QED
        BY <3>2 DEF J
    <2>5. PICK h \in Nat : v[m] = v[j + 1] + Power(j + 1) * h
      BY <2>4
    <2>6. v[j] \in Nat /\ v[j] < P
      BY <1>1, <1>2, <2>1
    <2>7. s[i] \in Octet
      OBVIOUS
    <2> DEFINE x == s[i]  low == v[j]
    <2>8. v[m] = (low + P * x) + (256 * P) * h
      BY <2>2, <2>3, <2>5
    <2>9. x \in 0 .. 255 /\ low \in 0 .. P - 1
      BY <2>2, <2>6, <2>7 DEF Octet
    <2> HIDE DEF P, x, low, j
    <2>10. P * (256 * h + x) = (256 * P) * h + P * x
      BY <2>2, <2>9, Carried
    <2>11. v[m] = P * (256 * h + x) + low
      <3> DEFINE Ph == (256 * P) * h  Px == P * x
      <3>1. Ph \in Nat /\ Px \in Nat /\ low \in Nat /\ v[m] = (low + Px) + Ph /\ P * (256 * h + x) = Ph + Px
        BY <2>2, <2>8, <2>9, <2>10
      <3> HIDE DEF Ph, Px
      <3>2. (low + Px) + Ph = (Ph + Px) + low
        BY <3>1
      <3> QED
        BY <3>1, <3>2
    <2>12. (P * (256 * h + x) + low) \div P = 256 * h + x
      <3>1. 256 * h + x \in Nat
        BY <2>9
      <3> QED
        BY <2>2, <2>9, <3>1, Divided
    <2>13. (256 * h + x) % 256 = x
      BY <2>9
    <2>14. (v[m] \div P) % 256 = x
      BY <2>11, <2>12, <2>13
    <2> QED
      BY <2>14 DEF P, x, j
  <1>4. BytesOf(v[m]) = [i \in 1 .. m |-> s[i]]
    BY <1>3 DEF BytesOf
  <1>5. [i \in 1 .. m |-> s[i]] = s
    OBVIOUS
  <1>6. v[m] \in Nat /\ v[m] < Power(m)
    BY <1>1, <1>2
  <1> QED
    BY <1>1, <1>4, <1>5, <1>6 DEF Modulus

\* Four bytes are a number of 32 bits.
Word == {n \in Nat : n <= 4294967295}

\* A count as four bytes is that count.
LEMMA FourBytesIs ==
  ASSUME NEW n \in Word
  PROVE  FourBytes(n) \in [1 .. 4 -> Octet] /\ IntOf(FourBytes(n)) = n
  <1> DEFINE a == n \div 16777216  b == (n \div 65536) % 256  c == (n \div 256) % 256  d == n % 256
             s == FourBytes(n)
  <1>1. a \in 0 .. 255 /\ b \in 0 .. 255 /\ c \in 0 .. 255 /\ d \in 0 .. 255
    BY DEF Word
  <1>2. 16777216 * a + 65536 * b + 256 * c + d = n
    BY DEF Word
  <1> n \in Nat
    BY DEF Word
  <1>3. s = <<a, b, c, d>>
    BY DEF FourBytes
  <1> HIDE DEF a, b, c, d, s
  <1>4. s \in [1 .. 4 -> Octet] /\ s[1] = a /\ s[2] = b /\ s[3] = c /\ s[4] = d
    BY <1>1, <1>3 DEF Octet
  <1>5. PICK v : DigitValues(s, 4, v) /\ IntOf(s) = v[4]
    <2> DEFINE k == 4
    <2>1. k \in Nat /\ s \in [1 .. k -> Octet]
      BY <1>4
    <2> HIDE DEF k
    <2>2. \E v : DigitValues(s, k, v) /\ IntOf(s) = v[k] /\ \A i \in 0 .. k : v[i] < Power(i)
      BY <2>1, IntOfIs
    <2> QED
      BY <2>2 DEF k
  <1>6. v[0] = 0 /\ \A i \in 1 .. 4 : v[i] = v[i - 1] + Power(i - 1) * s[4 - i + 1]
    BY <1>5 DEF DigitValues
  <1>7. Power(0) = 1 /\ Power(1) = 256 /\ Power(2) = 65536 /\ Power(3) = 16777216
    <2>1. Power(0) = 1 /\ Power(0 + 1) = 256 * Power(0)
      BY Powers
    <2>2. Power(1 + 1) = 256 * Power(1)
      BY Powers
    <2>3. Power(2 + 1) = 256 * Power(2)
      BY Powers
    <2> QED
      BY <2>1, <2>2, <2>3
  <1>8. v[1] = Power(0) * s[4] /\ v[2] = v[1] + Power(1) * s[3]
    BY <1>1, <1>4, <1>6, <1>7
  <1>9. v[3] = v[2] + Power(2) * s[2] /\ v[4] = v[3] + Power(3) * s[1]
    BY <1>6
  <1>10. v[4] = d + 256 * c + 65536 * b + 16777216 * a
    BY <1>1, <1>4, <1>7, <1>8, <1>9
  <1>11. IntOf(s) = n
    BY <1>1, <1>2, <1>5, <1>10
  <1> QED
    BY <1>4, <1>11 DEF s

\* Adding one changes the bytes before which there are none but 255.
LEMMA OneMore ==
  ASSUME NEW m \in Nat, NEW V \in [1 .. m -> Octet]
  PROVE  Add_BE(V, <<1>>) = Successor(V) /\ <<1>> \in [1 .. 1 -> Octet]
  <1> DEFINE b == <<1>>
             ends(i) == \A j \in m - i + 1 .. m : V[j] = 255
             one(i)  == IF ends(i) THEN 1 ELSE 0
  <1>1. b \in [1 .. 1 -> Octet] /\ b[1] = 1
    BY DEF Octet
  <1>2. PICK c : Sums(V, b, m, 1, c)
    <2> DEFINE k == 1
    <2>1. k \in Nat /\ b \in [1 .. k -> Octet]
      BY <1>1
    <2> HIDE DEF k, b
    <2>2. \E c : Sums(V, b, m, k, c)
      BY <2>1, SumsOf
    <2> QED
      BY <2>2 DEF k
  <1> HIDE DEF b
  <1>3. /\ c \in [0 .. m -> 0 .. 511] /\ c[0] = 0
        /\ \A i \in 1 .. m : c[i] = V[m - i + 1] + (IF i <= 1 THEN b[1 - i + 1] ELSE 0) + c[i - 1] \div 256
        /\ Add_BE(V, b) = [j \in 1 .. m |-> c[m - j + 1] % 256]
    BY <1>2 DEF Sums
  <1> DEFINE Good(i) == c[i] = V[m - i + 1] + one(i - 1)
             All == {n \in Nat : n + 1 <= m => Good(n + 1)}
  <1>4. 0 \in All
    <2>1. CASE 1 <= m
      <3>1. c[1] = V[m - 1 + 1] + 1 + c[0] \div 256
        BY <1>1, <1>3, <2>1
      <3>2. one(0) = 1
        OBVIOUS
      <3>3. V[m - 1 + 1] \in 0 .. 255 /\ c[0] \div 256 = 0
        BY <1>3, <2>1 DEF Octet
      <3> DEFINE x == V[m - 1 + 1]  carry == c[0] \div 256
      <3>4. c[1] = x + 1 + carry /\ x \in 0 .. 255 /\ carry = 0
        BY <3>1, <3>3
      <3> HIDE DEF x, carry
      <3>5. c[1] = x + 1
        BY <3>4
      <3>6. c[1] = V[m - 1 + 1] + 1
        BY <3>5 DEF x
      <3> QED
        BY <3>2, <3>6
    <2> QED
      BY <2>1
  <1>5. ASSUME NEW n \in Nat, n \in All PROVE n + 1 \in All
    <2>1. CASE (n + 1) + 1 <= m
      <3> DEFINE i == n + 1
                 x == V[m - i + 1]
      <3>1. i \in 1 .. m /\ i + 1 \in 1 .. m /\ (i + 1) - 1 = i /\ ~(i + 1 <= 1) /\ m - i + 1 \in 1 .. m
            /\ m - (i + 1) + 1 \in 1 .. m
        BY <2>1
      <3>2. c[i] = x + one(i - 1)
        BY <1>5, <3>1
      <3>3. c[i + 1] = V[m - (i + 1) + 1] + 0 + c[i] \div 256
        BY <1>3, <3>1
      <3>4. x \in 0 .. 255
        BY <3>1 DEF Octet
      <3>5. ends(i) <=> x = 255 /\ ends(i - 1)
        BY <3>1
      <3>6. c[i] \div 256 = one(i)
        <4> DEFINE e == one(i - 1)
        <4>1. e \in 0 .. 1 /\ (e = 1 <=> ends(i - 1))
          OBVIOUS
        <4>2. c[i] = x + e
          BY <3>2
        <4>3. one(i) = IF x = 255 /\ e = 1 THEN 1 ELSE 0
          BY <3>5, <4>1
        <4> HIDE DEF x, e, one, ends
        <4>4. (x + e) \div 256 = IF x = 255 /\ e = 1 THEN 1 ELSE 0
          <5>1. CASE x = 255 /\ e = 1
            BY <5>1
          <5>2. CASE ~(x = 255 /\ e = 1)
            BY <3>4, <4>1, <5>2
          <5> QED
            BY <5>1, <5>2
        <4> QED
          BY <4>2, <4>3, <4>4
      <3>7. V[m - (i + 1) + 1] \in 0 .. 255 /\ one(i) \in 0 .. 1
        BY <3>1 DEF Octet
      <3> DEFINE y == V[m - (i + 1) + 1]  o == one(i)
      <3>8. c[i + 1] = y + 0 + o /\ y \in 0 .. 255 /\ o \in 0 .. 1
        BY <3>3, <3>6, <3>7
      <3> HIDE DEF y, o
      <3>9. c[i + 1] = y + o
        BY <3>8
      <3>10. Good(i + 1)
        BY <3>1, <3>9 DEF y, o
      <3> HIDE DEF Good
      <3> QED
        BY <3>10
    <2> QED
      BY <2>1
  <1>6. Nat \subseteq All
    <2> HIDE DEF All
    <2> QED
      BY <1>4, <1>5, EveryNumber
  <1> DEFINE byte(i) == IF \A j \in i + 1 .. m : V[j] = 255 THEN (V[i] + 1) % 256 ELSE V[i]
  <1>7. ASSUME NEW j \in 1 .. m
        PROVE  c[m - j + 1] % 256 = byte(j) /\ byte(j) \in Octet
    <2>1. m - j \in Nat /\ (m - j) + 1 <= m /\ m - ((m - j) + 1) + 1 = j /\ ((m - j) + 1) - 1 = m - j
      OBVIOUS
    <2>2. c[(m - j) + 1] = V[j] + one(m - j)
      BY <1>6, <2>1
    <2>3. m - (m - j) + 1 = j + 1
      OBVIOUS
    <2>4. ends(m - j) <=> \A l \in j + 1 .. m : V[l] = 255
      BY <2>3
    <2>5. V[j] \in 0 .. 255
      BY DEF Octet
    <2> DEFINE x == V[j]  e == one(m - j)
    <2>6. e \in 0 .. 1 /\ byte(j) = IF e = 1 THEN (x + 1) % 256 ELSE x
      BY <2>4
    <2>7. c[m - j + 1] = x + e /\ x \in 0 .. 255
      BY <2>2, <2>5
    <2> HIDE DEF x, e, byte, one, ends
    <2>8. CASE e = 1
      <3>1. (x + 1) % 256 \in Octet
        BY <2>7 DEF Octet
      <3> QED
        BY <2>6, <2>7, <2>8, <3>1
    <2>9. CASE e = 0
      <3>1. (x + 0) % 256 = x /\ x \in Octet
        BY <2>7 DEF Octet
      <3> QED
        BY <2>6, <2>7, <2>9, <3>1
    <2> QED
      BY <2>6, <2>8, <2>9
  <1>8. Add_BE(V, b) = [j \in 1 .. m |-> byte(j)]
    BY <1>3, <1>7
  <1>9. Successor(V) = Whole([j \in 1 .. m |-> byte(j)])
    <2>1. Len(V) = m
      OBVIOUS
    <2> QED
      BY <2>1 DEF Successor
  <1>10. Whole([j \in 1 .. m |-> byte(j)]) = [j \in 1 .. m |-> byte(j)]
    <2> DEFINE s == [j \in 1 .. m |-> byte(j)]
    <2>1. s \in [1 .. m -> Octet]
      BY <1>7
    <2> HIDE DEF s
    <2>2. Whole(s) = s
      BY <2>1, WholeIs
    <2> QED
      BY <2>2 DEF s
  <1> QED
    BY <1>1, <1>8, <1>9, <1>10 DEF b

\* The counters: adding one so many times, in both ways, is adding the number.
LEMMA CountedIs ==
  ASSUME NEW m \in Nat, NEW V \in [1 .. m -> Octet], NEW n \in Nat
  PROVE  /\ Counted(V, n) \in [1 .. m -> Octet] /\ Counted(V, n) = Plus(V, n)
         /\ IntOf(Counted(V, n)) = (IntOf(V) + n) % Power(m)
  <1> DEFINE String == [1 .. m -> Octet]
             More(W) == Add_BE(W, <<1>>)
             Upto(f) == f = [i \in 0 .. n |-> IF i = 0 THEN V ELSE More(f[i - 1])]
             UptoS(f) == f = [i \in 0 .. n |-> IF i = 0 THEN V ELSE Successor(f[i - 1])]
             more == [i \in 1 .. n |-> [W \in String |-> More(W)]]
             after == CHOOSE f : Upto(f)
             afterS == CHOOSE f : UptoS(f)
  <1>1. ASSUME NEW W \in String
        PROVE  /\ More(W) \in String /\ More(W) = Successor(W)
               /\ IntOf(More(W)) = (IntOf(W) + 1) % Power(m)
    <2> DEFINE k == 1  b == <<1>>
    <2>1. More(W) = Successor(W) /\ b \in [1 .. k -> Octet] /\ k \in Nat
      BY OneMore
    <2> HIDE DEF k, b
    <2>2. Add_BE(W, b) \in [1 .. m -> Octet]
      BY <2>1, AddTyped
    <2>3. IntOf(Add_BE(W, b)) = (IntOf(W) + IntOf(b)) % Power(m)
      BY <2>1, AddIs
    <2>4. IntOf(b) = 1
      <3>1. PICK v : DigitValues(b, k, v) /\ IntOf(b) = v[k]
        BY <2>1, IntOfIs
      <3>2. v[0] = 0 /\ v[1] = v[0] + Power(0) * b[1]
        BY <3>1 DEF DigitValues, k
      <3>3. Power(0) = 1 /\ b[1] = 1
        BY Powers DEF b
      <3> QED
        BY <3>1, <3>2, <3>3 DEF k
    <2> QED
      BY <2>1, <2>2, <2>3, <2>4 DEF b
  <1>2. Counted(V, n) = after[n] /\ Plus(V, n) = afterS[n]
    BY DEF Counted, Plus
  <1> HIDE DEF More
  <1>3. more \in [1 .. n -> [String -> String]] /\ V \in String
        /\ \A i \in 1 .. n, W \in String : more[i][W] = More(W)
    <2>1. V \in String
      OBVIOUS
    <2> HIDE DEF String
    <2> QED
      BY <1>1, <2>1
  <1> HIDE DEF more, String
  <1>4. PICK g : Taken(n, String, V, more, g)
    BY <1>3, StepsTaken
  <1>5. g \in [0 .. n -> String] /\ g[0] = V /\ \A i \in 1 .. n : g[i] = More(g[i - 1])
    <2>1. g \in [0 .. n -> String] /\ g[0] = V /\ \A i \in 1 .. n : g[i] = more[i][g[i - 1]]
      BY <1>4 DEF Taken
    <2>2. \A i \in 1 .. n : g[i - 1] \in String
      BY <2>1
    <2> QED
      BY <1>3, <2>1, <2>2
  <1>6. Upto(g)
    BY <1>5
  <1>7. UptoS(g)
    <2>1. \A i \in 1 .. n : g[i - 1] \in String
      BY <1>5
    <2>2. \A i \in 1 .. n : g[i] = Successor(g[i - 1])
      BY <1>1, <1>5, <2>1
    <2> QED
      BY <1>5, <2>2
  <1>8. Upto(after) /\ UptoS(afterS)
    BY <1>6, <1>7
  <1> HIDE DEF after, afterS
  <1>9. \A i \in 0 .. n : after[i] = g[i]
    <2>1. \A i \in 0 .. n : after[i] = IF i = 0 THEN V ELSE More(after[i - 1])
      BY <1>8
    <2>2. Follows(n, String, V, more, after)
      <3>1. after[0] = V
        BY <2>1
      <3>2. \A i \in 1 .. n : after[i] = More(after[i - 1])
        BY <2>1
      <3> QED
        BY <1>3, <3>1, <3>2 DEF Follows
    <2> QED
      BY <1>4, <2>2 DEF Taken
  <1>10. \A i \in 0 .. n : afterS[i] = g[i]
    <2>1. \A i \in 0 .. n : afterS[i] = IF i = 0 THEN V ELSE Successor(afterS[i - 1])
      BY <1>8
    <2>2. Follows(n, String, V, more, afterS)
      <3>1. afterS[0] = V
        BY <2>1
      <3>2. \A i \in 1 .. n : afterS[i] = Successor(afterS[i - 1])
        BY <2>1
      <3> QED
        BY <1>1, <1>3, <3>1, <3>2 DEF Follows
    <2> QED
      BY <1>4, <2>2 DEF Taken
  <1> DEFINE M == Power(m)
             Good(i) == IntOf(g[i]) = (IntOf(V) + i) % M
             All == {i \in Nat : i <= n => Good(i)}
  <1>11. M \in Nat \ {0} /\ IntOf(V) \in Nat /\ IntOf(V) < M
    <2>1. PICK v : DigitValues(V, m, v) /\ IntOf(V) = v[m] /\ \A i \in 0 .. m : v[i] < Power(i)
      BY IntOfIs
    <2>2. v[m] \in Nat /\ v[m] < Power(m)
      BY <2>1 DEF DigitValues
    <2> QED
      BY <2>1, <2>2, Powers
  <1> DEFINE z == IntOf(V)
  <1> HIDE DEF M, z
  <1>12. 0 \in All
    <2>1. (z + 0) % M = z
      BY <1>11 DEF z
    <2> QED
      BY <1>5, <2>1 DEF z
  <1>13. ASSUME NEW i \in Nat, i \in All PROVE i + 1 \in All
    <2>1. CASE i + 1 <= n
      <3>1. IntOf(g[i]) = (z + i) % M /\ g[i] \in String
        BY <1>5, <1>13, <2>1 DEF z
      <3>2. g[i + 1] = More(g[i])
        <4>1. i + 1 \in 1 .. n /\ (i + 1) - 1 = i
          BY <2>1
        <4> QED
          BY <1>5, <4>1
      <3>3. IntOf(g[i + 1]) = (IntOf(g[i]) + 1) % M
        BY <1>1, <3>1, <3>2 DEF M
      <3> DEFINE y == z + i  u == 1
      <3>4. y \in Nat /\ u \in Nat
        BY <1>11 DEF z
      <3> HIDE DEF y, u
      <3>5. ((y % M) + u) % M = (y + u) % M
        BY <1>11, <3>4, RemainderOfSum
      <3>6. y + u = z + (i + 1)
        BY <1>11 DEF y, u, z
      <3>7. Good(i + 1)
        BY <3>1, <3>3, <3>5, <3>6 DEF y, u, z
      <3> HIDE DEF Good
      <3> QED
        BY <3>7
    <2> QED
      BY <2>1
  <1>14. Nat \subseteq All
    <2> HIDE DEF All
    <2> QED
      BY <1>12, <1>13, EveryNumber
  <1>15. IntOf(g[n]) = (IntOf(V) + n) % M
    BY <1>14
  <1>16. after[n] = g[n] /\ afterS[n] = g[n] /\ g[n] \in String
    BY <1>5, <1>9, <1>10
  <1> QED
    BY <1>2, <1>15, <1>16 DEF String, M

-----------------------------------------------------------------------------
(***************************************************************************)
(* Digests, MACs and blocks are as long as their algorithms have them.     *)
(***************************************************************************)
Digest      == [1 .. DigestOBL -> Octet]
CipherBlock == [1 .. CipherOBL -> Octet]

PrimitivesFit ==
  /\ \A s : Hash(s) \in Digest
  /\ \A k, s : Mac(k, s) \in Digest
  /\ \A k, s : Encrypt(k, s) \in CipherBlock

\* There is a block for every byte.
LEMMA BlockFor ==
  ASSUME NEW size \in Nat \ {0}, NEW length \in Nat, NEW k \in 1 .. length
  PROVE  /\ (k - 1) \div size + 1 \in 1 .. Ceiling(length, size)
         /\ ((k - 1) % size) + 1 \in 1 .. size
  <1>1. PICK q \in Nat, r \in 0 .. size - 1 : k - 1 = size * q + r /\ (k - 1) % size = r
    <2> DEFINE x == k - 1
    <2>1. x \in Nat
      OBVIOUS
    <2> HIDE DEF x
    <2>2. \E q \in Nat, r \in 0 .. size - 1 : x = size * q + r /\ x % size = r
      BY <2>1, Division
    <2> QED
      BY <2>2 DEF x
  <1>2. (k - 1) \div size = q
    BY <1>1, Divided
  <1> DEFINE l == length + size - 1
  <1>3. PICK t \in Nat, z \in 0 .. size - 1 : l = size * t + z
    <2>1. l \in Nat
      OBVIOUS
    <2> HIDE DEF l
    <2> QED
      BY <2>1, Division
  <1>4. l \div size = t
    <2> HIDE DEF l
    <2> QED
      BY <1>3, Divided
  <1>5. q < t
    <2> SUFFICES ASSUME t <= q PROVE FALSE
      OBVIOUS
    <2>1. size * t <= size * q /\ size * t \in Nat
      BY Product
    <2> DEFINE a == size * t  b == size * q
    <2>2. a <= b /\ a \in Nat /\ b \in Nat /\ length + size - 1 = a + z /\ k - 1 = b + r
      BY <1>1, <1>3, <2>1
    <2> HIDE DEF a, b
    <2> QED
      BY <2>2
  <1>6. Ceiling(length, size) = t
    BY <1>4 DEF Ceiling
  <1> QED
    BY <1>1, <1>2, <1>5, <1>6

\* Blocks joined are the bytes there are.
LEMMA JoinedTyped ==
  ASSUME NEW size \in Nat \ {0}, NEW length \in Nat,
         NEW f \in [1 .. Ceiling(length, size) -> [1 .. size -> Octet]]
  PROVE  Joined(Whole(f), size, length) \in [1 .. length -> Octet]
  <1> DEFINE n == Ceiling(length, size)
  <1>1. n \in Nat
    <2>1. length + size - 1 \in Nat
      OBVIOUS
    <2> QED
      BY <2>1 DEF Ceiling
  <1> HIDE DEF n
  <1>2. f \in [1 .. n -> [1 .. size -> Octet]]
    BY DEF n
  <1>3. Whole(f) = f
    BY <1>1, <1>2, WholeIs
  <1>4. ASSUME NEW k \in 1 .. length
        PROVE  f[(k - 1) \div size + 1][((k - 1) % size) + 1] \in Octet
    <2> DEFINE i == (k - 1) \div size + 1  j == ((k - 1) % size) + 1
    <2>1. i \in 1 .. n /\ j \in 1 .. size
      BY BlockFor DEF n
    <2> HIDE DEF i, j
    <2>2. f[i] \in [1 .. size -> Octet]
      BY <1>2, <2>1
    <2>3. f[i][j] \in Octet
      BY <2>1, <2>2
    <2> QED
      BY <2>3 DEF i, j
  <1> QED
    BY <1>3, <1>4 DEF Joined

\* A string of no bytes, and two strings one after the other.
LEMMA FillsOf ==
  ASSUME NEW n \in Nat, NEW x \in Octet
  PROVE  /\ Fill(n, x) \in [1 .. n -> Octet] /\ Fill(n, x) \in Seq(Int)
         /\ Fill(0, x) = <<>> /\ <<>> \in Seq(Int)
  BY DEF Fill, Octet

(***************************************************************************)
(* The input of the derivation function is what SP800-90A has, and a block *)
(* of zeros more where that has none.                                      *)
(***************************************************************************)
LEMMA DfInputIs ==
  ASSUME NEW n \in Nat, NEW s \in [1 .. n -> Octet]
  PROVE  /\ DfInput(s) = StdDfInput(s) \o (IF Full(s) THEN Fill(CipherOBL, 0) ELSE <<>>)
         /\ ~Full(s) => DfInput(s) = StdDfInput(s)
  <1> DEFINE B == CipherOBL
             x1 == uint2BS(Len(s))
             x2 == uint2BS(CipherSeedlen)
             x3 == <<128>>
             start == x1 \o x2 \o s \o x3
  <1>1. B \in Nat \ {0} /\ CipherSeedlen \in Nat /\ Len(s) = n
    BY LengthsAreUsable DEF CipherSeedlen
  <1>2. ASSUME NEW z \in Nat PROVE uint2BS(z) \in Seq(Int) /\ Len(uint2BS(z)) = 4
    BY DEF uint2BS, FourBytes
  <1>3. x1 \in Seq(Int) /\ x2 \in Seq(Int) /\ Len(x1) = 4 /\ Len(x2) = 4
    BY <1>1, <1>2
  <1>4. s \in Seq(Int) /\ x3 \in Seq(Int) /\ Len(x3) = 1
    <2>1. s \in [1 .. n -> Int]
      <3>1. Octet \subseteq Int
        BY DEF Octet
      <3>2. \A i \in 1 .. n : s[i] \in Int
        BY <3>1
      <3> QED
        BY <3>2
    <2>2. s \in Seq(Int)
      BY <2>1, WholeIs
    <2> QED
      BY <2>2
  <1> HIDE DEF x1, x2, x3
  <1>5. start \in Seq(Int) /\ Len(start) = n + 9
    <2>1. x1 \o x2 \in Seq(Int) /\ Len(x1 \o x2) = 8
      <3>1. x1 \o x2 \in Seq(Int) /\ Len(x1 \o x2) = Len(x1) + Len(x2)
        BY <1>3, ConcatProperties
      <3> QED
        BY <1>3, <3>1
    <2> DEFINE y == x1 \o x2
    <2> HIDE DEF y
    <2>2. y \o s \in Seq(Int) /\ Len(y \o s) = 8 + n
      BY <1>1, <1>4, <2>1, ConcatProperties DEF y
    <2> DEFINE w == y \o s
    <2> HIDE DEF w
    <2>3. w \o x3 \in Seq(Int) /\ Len(w \o x3) = n + 9
      <3>1. w \in Seq(Int) /\ Len(w) = 8 + n
        BY <2>2 DEF w
      <3>2. w \o x3 \in Seq(Int) /\ Len(w \o x3) = Len(w) + Len(x3)
        BY <1>4, <3>1, ConcatProperties
      <3> QED
        BY <1>4, <3>1, <3>2
    <2> QED
      BY <2>3 DEF w, y
  <1>6. /\ DfInput(s) = start \o Fill(B - (Len(start) % B), 0)
        /\ StdDfInput(s) = start \o Fill(B * Ceiling(Len(start), B) - Len(start), 0)
    BY DEF DfInput, StdDfInput, DfStart, x1, x2, x3
  <1>7. Full(s) <=> (n + 9) % B = 0
    <2>1. 8 + Len(s) + 1 = n + 9
      BY <1>1
    <2> QED
      BY <2>1 DEF Full
  <1> HIDE DEF start, B
  <1>8. PICK q \in Nat, r \in 0 .. B - 1 : n + 9 = B * q + r /\ (n + 9) % B = r
    <2>1. n + 9 \in Nat
      OBVIOUS
    <2> QED
      BY <1>1, <2>1, Division
  <1> DEFINE Bq == B * q
  <1>9. CASE r = 0
    <2>1. n + 9 + B - 1 = B * q + (B - 1) /\ B - 1 \in 0 .. B - 1
      BY <1>1, <1>8, <1>9
    <2>2. Ceiling(n + 9, B) = q
      BY <1>1, <2>1, Divided DEF Ceiling
    <2>3. B * Ceiling(n + 9, B) - (n + 9) = 0 /\ B - ((n + 9) % B) = B
      BY <1>1, <1>8, <1>9, <2>2
    <2>4. DfInput(s) = start \o Fill(B, 0) /\ StdDfInput(s) = start \o Fill(0, 0)
      BY <1>5, <1>6, <2>3
    <2>5. Fill(0, 0) = <<>>
      BY DEF Fill
    <2>6. start \o <<>> = start
      BY <1>5, ConcatEmptySeq
    <2> QED
      BY <1>7, <1>8, <1>9, <2>4, <2>5, <2>6 DEF B
  <1>10. CASE r # 0
    <2>1. n + 9 + B - 1 = B * (q + 1) + (r - 1) /\ r - 1 \in 0 .. B - 1 /\ B * (q + 1) = B * q + B
      BY <1>1, <1>8, <1>10
    <2>2. Ceiling(n + 9, B) = q + 1
      BY <1>1, <2>1, Divided DEF Ceiling
    <2>3. B * Ceiling(n + 9, B) - (n + 9) = B - r /\ B - ((n + 9) % B) = B - r
      BY <1>1, <1>8, <2>1, <2>2
    <2>4. DfInput(s) = start \o Fill(B - r, 0) /\ StdDfInput(s) = start \o Fill(B - r, 0)
      BY <1>5, <1>6, <2>3
    <2>5. B - r \in Nat
      BY <1>1
    <2>6. Fill(B - r, 0) \in Seq(Int)
      <3>1. 0 \in Octet
        BY DEF Octet
      <3> QED
        BY <2>5, <3>1, FillsOf
    <2>7. start \o Fill(B - r, 0) \in Seq(Int)
      BY <1>5, <2>6, ConcatProperties
    <2>8. (start \o Fill(B - r, 0)) \o <<>> = start \o Fill(B - r, 0)
      BY <2>7, ConcatEmptySeq
    <2> QED
      BY <1>7, <1>8, <1>10, <2>4, <2>8
  <1> QED
    BY <1>9, <1>10

Kept == [1 .. HashSeedlen -> Octet]

\* The lengths, as numbers.
LEMMA LengthsAre ==
  /\ DigestOBL \in Nat \ {0} /\ HashSeedlen \in Nat \ {0} /\ CipherOBL \in Nat \ {0}
  /\ KeyLen \in Nat \ {0} /\ CipherSeedlen \in Nat /\ CipherSeedlen - KeyLen = CipherOBL
  BY LengthsAreUsable DEF CipherSeedlen

\* Blocks made of the bytes of digests, or of blocks of the cipher.
LEMMA DigestsJoined ==
  ASSUME NEW length \in Nat, NEW f \in [1 .. Ceiling(length, DigestOBL) -> Digest]
  PROVE  Joined(Whole(f), DigestOBL, length) \in [1 .. length -> Octet]
  BY JoinedTyped, LengthsAre DEF Digest

LEMMA CipherJoined ==
  ASSUME NEW length \in Nat, NEW f \in [1 .. Ceiling(length, CipherOBL) -> CipherBlock]
  PROVE  Joined(Whole(f), CipherOBL, length) \in [1 .. length -> Octet]
  BY JoinedTyped, LengthsAre DEF CipherBlock

-----------------------------------------------------------------------------
(***************************************************************************)
(* The Hash generator: V and C are the bytes of the numbers SP800-90A has. *)
(***************************************************************************)
\* The derivation function is the one of the document.
LEMMA HashDfIs ==
  ASSUME PrimitivesFit, NEW in
  PROVE  Hash_df(in, HashSeedlen) = StdHashDf(in, HashSeedlen) /\ Hash_df(in, HashSeedlen) \in Kept
  <1> DEFINE f == [i \in 1 .. Ceiling(HashSeedlen, DigestOBL) |->
                     Hash(<<i>> \o uint2BS(HashSeedlen * 8) \o in)]
  <1>1. /\ Hash_df(in, HashSeedlen) = Joined(Whole(f), DigestOBL, HashSeedlen)
        /\ StdHashDf(in, HashSeedlen) = Joined(Whole(f), DigestOBL, HashSeedlen)
    BY DEF Hash_df, StdHashDf, Blocks
  <1>2. f \in [1 .. Ceiling(HashSeedlen, DigestOBL) -> Digest]
    BY DEF PrimitivesFit
  <1> HIDE DEF f
  <1>3. HashSeedlen \in Nat
    BY LengthsAre
  <1>4. Joined(Whole(f), DigestOBL, HashSeedlen) \in Kept
    BY <1>2, <1>3, DigestsJoined DEF Kept
  <1> QED
    BY <1>1, <1>4

\* The code's state p is the document's state w, after at most n calls.
HashAgrees(p, w, n) ==
  /\ p.V \in Kept /\ p.C \in Kept /\ p.count \in 1 .. n
  /\ w = [V |-> IntOf(p.V), C |-> IntOf(p.C), n |-> p.count]

\* Seeded, at first
LEMMA HashSeeded ==
  ASSUME PrimitivesFit, NEW n \in Nat, n >= 1, NEW seed
  PROVE  HashAgrees(SHA_Instantiate(seed), StdHashSeed(seed), n)
  <1> DEFINE V == Hash_df(seed, HashSeedlen)
             C == Hash_df(<<0>> \o V, HashSeedlen)
  <1>1. V \in Kept /\ V = StdHashDf(seed, HashSeedlen)
    BY HashDfIs
  <1> HIDE DEF V
  <1>2. C \in Kept /\ C = StdHashDf(<<0>> \o V, HashSeedlen)
    BY HashDfIs
  <1> HIDE DEF C
  <1>3. SHA_Instantiate(seed) = [V |-> V, C |-> C, count |-> 1]
    BY DEF SHA_Instantiate, V, C
  <1>4. StdHashSeed(seed) = [V |-> IntOf(V), C |-> IntOf(C), n |-> 1]
    BY <1>1, <1>2 DEF StdHashSeed
  <1> QED
    BY <1>1, <1>2, <1>3, <1>4 DEF HashAgrees

\* and later.
LEMMA HashReseeded ==
  ASSUME PrimitivesFit, NEW n \in Nat, n >= 1, NEW p, NEW w, NEW k, HashAgrees(p, w, k), NEW seed
  PROVE  HashAgrees(SHA_ReSeed(p, seed), StdHashSeed(<<1>> \o BytesOf(w.V) \o seed), n)
  <1>1. BytesOf(w.V) = p.V
    <2>1. p.V \in Kept /\ w.V = IntOf(p.V)
      BY DEF HashAgrees
    <2> QED
      BY <2>1, DigitsBack, LengthsAre DEF Kept
  <1>2. SHA_ReSeed(p, seed) = SHA_Instantiate(<<1>> \o p.V \o seed)
    BY DEF SHA_ReSeed, SHA_Instantiate
  <1>3. HashAgrees(SHA_Instantiate(<<1>> \o p.V \o seed), StdHashSeed(<<1>> \o p.V \o seed), n)
    BY HashSeeded
  <1> QED
    BY <1>1, <1>2, <1>3

\* Reducing every sum is reducing the last.
Reduced(M, v, h, c, n) == (((((v + h) % M) + c) % M) + n) % M = (v + h + c + n) % M

\* Reducing after every addition is reducing once.
LEMMA ReducedLast ==
  ASSUME NEW M \in Nat \ {0}, NEW v \in Nat, NEW h \in Nat, NEW c \in Nat, NEW n \in Nat
  PROVE  Reduced(M, v, h, c, n)
  <1> DEFINE x == v + h
  <1>1. x \in Nat
    OBVIOUS
  <1> HIDE DEF x
  <1>2. ((x % M) + c) % M = (x + c) % M
    BY <1>1, RemainderOfSum
  <1> DEFINE y == x + c
  <1>3. y \in Nat
    BY <1>1
  <1> HIDE DEF y
  <1>4. ((y % M) + n) % M = (y + n) % M
    BY <1>3, RemainderOfSum
  <1>5. y + n = v + h + c + n
    BY DEF x, y
  <1> QED
    BY <1>2, <1>4, <1>5 DEF x, y, Reduced

\* Four numbers added as bytes are their sum, below 256^HashSeedlen.
LEMMA FourAdded ==
  ASSUME NEW V \in Kept, NEW H \in Digest, NEW C \in Kept, NEW n \in Word
  PROVE  /\ Add_BE(Add_BE(Add_BE(V, H), C), uint2BS(n)) \in Kept
         /\ IntOf(Add_BE(Add_BE(Add_BE(V, H), C), uint2BS(n)))
              = (IntOf(V) + IntOf(H) + IntOf(C) + n) % Modulus
  <1> DEFINE m == HashSeedlen  d == DigestOBL  k == 4
             B == uint2BS(n)
             V1 == Add_BE(V, H)
             V2 == Add_BE(V1, C)
             V3 == Add_BE(V2, B)
             M == Power(m)
  <1>1. m \in Nat /\ d \in Nat /\ k \in Nat /\ M \in Nat \ {0}
    BY LengthsAre, Powers
  <1>2. B \in [1 .. k -> Octet] /\ IntOf(B) = n
    BY FourBytesIs DEF uint2BS
  <1>3. V \in [1 .. m -> Octet] /\ H \in [1 .. d -> Octet] /\ C \in [1 .. m -> Octet]
    BY DEF Kept, Digest
  <1> HIDE DEF m, d, k, B
  <1>4. V1 \in [1 .. m -> Octet] /\ IntOf(V1) = (IntOf(V) + IntOf(H)) % M
    BY <1>1, <1>3, AddTyped, AddIs
  <1> HIDE DEF V1
  <1>5. V2 \in [1 .. m -> Octet] /\ IntOf(V2) = (IntOf(V1) + IntOf(C)) % M
    BY <1>1, <1>3, <1>4, AddTyped, AddIs
  <1> HIDE DEF V2
  <1>6. V3 \in [1 .. m -> Octet] /\ IntOf(V3) = (IntOf(V2) + IntOf(B)) % M
    BY <1>1, <1>2, <1>5, AddTyped, AddIs
  <1> HIDE DEF V3, M
  <1>7. ASSUME NEW l \in Nat, NEW s \in [1 .. l -> Octet] PROVE IntOf(s) \in Nat
    <2>1. PICK v : DigitValues(s, l, v) /\ IntOf(s) = v[l]
      BY IntOfIs
    <2> QED
      BY <2>1 DEF DigitValues
  <1> DEFINE v == IntOf(V)  h == IntOf(H)  c == IntOf(C)
  <1>8. v \in Nat /\ h \in Nat /\ c \in Nat
    BY <1>1, <1>3, <1>7
  <1> HIDE DEF v, h, c
  <1>9. IntOf(V3) = (((((v + h) % M) + c) % M) + n) % M
    BY <1>2, <1>4, <1>5, <1>6 DEF v, h, c
  <1>10. IntOf(V3) = (v + h + c + n) % M
    <2>1. n \in Nat
      BY DEF Word
    <2>2. Reduced(M, v, h, c, n)
      BY <1>1, <1>8, <2>1, ReducedLast
    <2> QED
      BY <1>9, <2>2 DEF Reduced
  <1> QED
    BY <1>6, <1>10 DEF Kept, Modulus, V1, V2, V3, B, M, m, v, h, c

\* What is output, and what is kept.
LEMMA HashGenerated ==
  ASSUME PrimitivesFit, NEW n \in Word, NEW p, NEW w, HashAgrees(p, w, n),
         NEW length \in Nat, NEW adata
  PROVE  /\ SHA_Generate(p, length, adata).out = StdHashGenerate(w, length, adata).out
         /\ HashAgrees(SHA_Generate(p, length, adata).p, StdHashGenerate(w, length, adata).w, n + 1)
  <1> DEFINE V0 == IF adata = <<>> THEN p.V ELSE Add_BE(p.V, Hash(<<2>> \o p.V \o adata))
             H  == Hash(<<3>> \o V0)
             v  == IF adata = <<>> THEN w.V ELSE (w.V + IntOf(Hash(<<2>> \o BytesOf(w.V) \o adata))) % Modulus
             V3 == Add_BE(Add_BE(Add_BE(V0, H), p.C), uint2BS(p.count))
             f  == [i \in 1 .. Ceiling(length, DigestOBL) |-> Hash(Counted(V0, i - 1))]
             fs == [i \in 1 .. Ceiling(length, DigestOBL) |-> Hash(BytesOf((v + i - 1) % Modulus))]
  <1>1. p.V \in Kept /\ p.C \in Kept /\ p.count \in 1 .. n /\ w = [V |-> IntOf(p.V), C |-> IntOf(p.C), n |-> p.count]
    BY DEF HashAgrees
  <1>2. w.V = IntOf(p.V) /\ w.C = IntOf(p.C) /\ w.n = p.count
    BY <1>1
  <1>3. BytesOf(w.V) = p.V
    BY <1>1, <1>2, DigitsBack, LengthsAre DEF Kept
  <1>4. V0 \in Kept /\ v = IntOf(V0)
    <2>1. CASE adata = <<>>
      BY <1>1, <1>2, <2>1
    <2>2. CASE adata # <<>>
      <3> DEFINE A == Hash(<<2>> \o p.V \o adata)  m == HashSeedlen  d == DigestOBL
      <3>1. A \in [1 .. d -> Octet] /\ m \in Nat /\ d \in Nat /\ p.V \in [1 .. m -> Octet]
        BY <1>1, LengthsAre DEF PrimitivesFit, Digest, Kept
      <3>2. V0 = Add_BE(p.V, A) /\ v = (IntOf(p.V) + IntOf(A)) % Power(m)
        BY <1>2, <1>3, <2>2 DEF Modulus
      <3> HIDE DEF A, m, d
      <3>3. Add_BE(p.V, A) \in [1 .. m -> Octet] /\ IntOf(Add_BE(p.V, A)) = (IntOf(p.V) + IntOf(A)) % Power(m)
        BY <3>1, AddTyped, AddIs
      <3> HIDE DEF V0, v
      <3> QED
        BY <3>2, <3>3 DEF m, Kept
    <2> QED
      BY <2>1, <2>2
  <1>5. SHA_Generate(p, length, adata) =
          [out |-> Joined(Whole(f), DigestOBL, length), p |-> [V |-> V3, C |-> p.C, count |-> p.count + 1]]
    BY DEF SHA_Generate, Blocks
  <1>6. StdHashGenerate(w, length, adata) =
          [out |-> Joined(Whole(fs), DigestOBL, length),
           w   |-> [V |-> (v + IntOf(Hash(<<3>> \o BytesOf(v))) + w.C + w.n) % Modulus, C |-> w.C, n |-> w.n + 1]]
    BY DEF StdHashGenerate, Blocks
  <1> HIDE DEF V0, v
  <1>7. BytesOf(v) = V0
    BY <1>4, DigitsBack, LengthsAre DEF Kept
  <1>8. V3 \in Kept /\ IntOf(V3) = (v + IntOf(H) + IntOf(p.C) + p.count) % Modulus
    <2>1. H \in Digest
      BY DEF PrimitivesFit
    <2>2. p.count \in Word
      BY <1>1 DEF Word
    <2> HIDE DEF H
    <2> QED
      BY <1>1, <1>4, <2>1, <2>2, FourAdded
  <1>9. \A i \in 1 .. Ceiling(length, DigestOBL) : BytesOf((v + i - 1) % Modulus) = Counted(V0, i - 1)
    <2> TAKE i \in 1 .. Ceiling(length, DigestOBL)
    <2> DEFINE j == i - 1  m == HashSeedlen  W == Counted(V0, j)
    <2>1. j \in Nat /\ m \in Nat /\ V0 \in [1 .. m -> Octet] /\ v \in Nat
      <3>1. v \in Nat
        BY <1>4, DigitsBack, LengthsAre DEF Kept
      <3> QED
        BY <1>4, <3>1, LengthsAre DEF Kept
    <2>2. v + i - 1 = v + j
      BY <2>1
    <2> HIDE DEF j, m
    <2>3. W \in [1 .. m -> Octet] /\ IntOf(W) = (IntOf(V0) + j) % Power(m)
      BY <2>1, CountedIs
    <2> HIDE DEF W
    <2>4. BytesOf(IntOf(W)) = W
      BY <2>3, DigitsBack, LengthsAre DEF m
    <2>5. IntOf(W) = (v + i - 1) % Modulus
      BY <1>4, <2>2, <2>3 DEF Modulus, m
    <2> QED
      BY <2>4, <2>5 DEF W, j
  <1>10. f = fs
    BY <1>9
  <1> HIDE DEF f, fs, V3
  <1>11. SHA_Generate(p, length, adata).out = StdHashGenerate(w, length, adata).out
    BY <1>5, <1>6, <1>10
  <1>12. StdHashGenerate(w, length, adata).w = [V |-> IntOf(V3), C |-> IntOf(p.C), n |-> p.count + 1]
    BY <1>2, <1>6, <1>7, <1>8
  <1>13. SHA_Generate(p, length, adata).p = [V |-> V3, C |-> p.C, count |-> p.count + 1]
    BY <1>5
  <1>14. p.count + 1 \in 1 .. n + 1
    BY <1>1 DEF Word
  <1> QED
    BY <1>1, <1>8, <1>11, <1>12, <1>13, <1>14 DEF HashAgrees

-----------------------------------------------------------------------------
(***************************************************************************)
(* The HMAC generator: the chain, read and reset, is the data each time.   *)
(***************************************************************************)
LEMMA HmacUpdated ==
  ASSUME NEW p, NEW data
  PROVE  /\ SP_HMAC_Update(p, Chain(data)) = StdHmacUpdate(p, data)
         /\ DS_Reset(Drained(Chain(data))) = Chain(data)
  <1>1. Extracted(Chain(data)) = data /\ Chain(data).data = data
    BY DEF Extracted, Chain
  <1>2. DS_Reset(Drained(Chain(data))) = Chain(data)
    BY DEF DS_Reset, Drained, Chain
  <1> DEFINE K1 == Mac(p.K, p.V \o <<0>> \o data)
             V1 == Mac(K1, p.V)
             K2 == Mac(K1, V1 \o <<1>> \o data)
             once == MacStep(p, 0, data)
  <1>3. once = [K |-> K1, V |-> V1]
    BY DEF MacStep
  <1>4. once.K = K1 /\ once.V = V1
    BY <1>3
  <1>5. MacStep(once, 1, data) = [K |-> K2, V |-> Mac(K2, V1)]
    BY <1>4 DEF MacStep
  <1>6. SP_HMAC_Update(p, Chain(data)) = IF data = <<>> THEN once ELSE MacStep(once, 1, data)
    BY <1>1 DEF SP_HMAC_Update
  <1>7. StdHmacUpdate(p, data) =
          IF data = <<>> THEN [K |-> K1, V |-> V1] ELSE [K |-> K2, V |-> Mac(K2, V1)]
    BY DEF StdHmacUpdate
  <1> HIDE DEF K1, V1, K2, once
  <1>8. SP_HMAC_Update(p, Chain(data)) = StdHmacUpdate(p, data)
    BY <1>3, <1>5, <1>6, <1>7
  <1> QED
    BY <1>2, <1>8

\* The chain read by the first update is reset for the last.
LEMMA HmacGenerated ==
  ASSUME NEW p, NEW length, NEW adata
  PROVE  /\ SP_HMAC_Generate(p, length, adata).out = StdHmacGenerate(p, length, adata).out
         /\ SP_HMAC_Generate(p, length, adata).p = StdHmacGenerate(p, length, adata).w
  <1> DEFINE p1 == IF adata = <<>> THEN p ELSE SP_HMAC_Update(p, Chain(adata))
             w1 == IF adata = <<>> THEN p ELSE StdHmacUpdate(p, adata)
             n  == Ceiling(length, DigestOBL)
             V  == CHOOSE f : f = [i \in 0 .. n |-> IF i = 0 THEN p1.V ELSE Mac(p1.K, f[i - 1])]
             W  == CHOOSE f : f = [i \in 0 .. n |-> IF i = 0 THEN w1.V ELSE Mac(w1.K, f[i - 1])]
             Out(f) == Joined(Whole([i \in 1 .. n |-> f[i]]), DigestOBL, length)
  <1>1. p1 = w1
    BY HmacUpdated
  <1>2. V = W
    BY <1>1
  <1>3. SP_HMAC_Generate(p, length, adata) =
          [out |-> Out(V), p |-> SP_HMAC_Update([K |-> p1.K, V |-> V[n]], DS_Reset(Drained(Chain(adata))))]
    BY DEF SP_HMAC_Generate, Blocks
  <1>4. StdHmacGenerate(p, length, adata) =
          [out |-> Out(W), w |-> StdHmacUpdate([K |-> w1.K, V |-> W[n]], adata)]
    BY DEF StdHmacGenerate, Blocks
  <1> HIDE DEF p1, w1, V, W, Out, n
  <1>5. /\ SP_HMAC_Generate(p, length, adata).out = Out(V)
        /\ SP_HMAC_Generate(p, length, adata).p =
             SP_HMAC_Update([K |-> p1.K, V |-> V[n]], DS_Reset(Drained(Chain(adata))))
    BY <1>3
  <1>6. /\ StdHmacGenerate(p, length, adata).out = Out(W)
        /\ StdHmacGenerate(p, length, adata).w = StdHmacUpdate([K |-> w1.K, V |-> W[n]], adata)
    BY <1>4
  <1> QED
    BY <1>1, <1>2, <1>5, <1>6, HmacUpdated

-----------------------------------------------------------------------------
(***************************************************************************)
(* The CTR generator.                                                      *)
(***************************************************************************)
Filled == [1 .. CipherSeedlen -> Octet]

LEMMA CipherDfIs ==
  ASSUME PrimitivesFit, NEW in
  PROVE  /\ Cipher_df(in) \in Filled
         /\ DfInput(in) = StdDfInput(in) => Cipher_df(in) = StdCipherDf(in)
  <1> DEFINE n == Ceiling(CipherSeedlen, CipherOBL)
             K == [i \in 1 .. KeyLen |-> i - 1]
             Lead(i) == uint2BS(i - 1) \o Fill(CipherOBL - 4, 0)
             Part(d) == [i \in 1 .. n |-> BCC(K, Lead(i) \o d)]
             T(d)    == Joined(Whole(Part(d)), CipherOBL, CipherSeedlen)
             X(t)    == CHOOSE f : f = [i \in 0 .. n |->
                          IF i = 0 THEN Rest(t, KeyLen) ELSE Encrypt(First(t, KeyLen), f[i - 1])]
             LastOf(t) == [i \in 1 .. n |-> Encrypt(First(t, KeyLen), X(t)[i - 1])]
             Df(t)   == Joined(Whole(LastOf(t)), CipherOBL, CipherSeedlen)
  <1>1. Cipher_df(in) = Df(T(DfInput(in)))
    BY DEF Cipher_df, Blocks
  <1>2. \A key, d : BCC(key, d) = StdBCC(key, d)
    BY DEF BCC, StdBCC
  <1>3. \A d : Part(d) = [i \in 1 .. n |-> StdBCC(K, Lead(i) \o d)]
    BY <1>2
  <1>4. StdCipherDf(in) = Df(Joined(Whole([i \in 1 .. n |-> StdBCC(K, Lead(i) \o StdDfInput(in))]),
                                    CipherOBL, CipherSeedlen))
    BY DEF StdCipherDf, Blocks
  <1> HIDE DEF K, Lead, X
  <1>5. \A t : LastOf(t) \in [1 .. n -> CipherBlock]
    BY DEF PrimitivesFit
  <1> HIDE DEF Part, LastOf
  <1>6. \A t : Df(t) \in Filled
    <2> TAKE t
    <2> DEFINE f == LastOf(t)
    <2>1. f \in [1 .. Ceiling(CipherSeedlen, CipherOBL) -> CipherBlock] /\ CipherSeedlen \in Nat
      BY <1>5, LengthsAre
    <2> HIDE DEF f
    <2>2. Joined(Whole(f), CipherOBL, CipherSeedlen) \in [1 .. CipherSeedlen -> Octet]
      BY <2>1, CipherJoined
    <2> QED
      BY <2>2 DEF f, Filled
  <1> HIDE DEF Df, n
  <1>7. StdCipherDf(in) = Df(T(StdDfInput(in)))
    BY <1>3, <1>4
  <1> QED
    BY <1>1, <1>6, <1>7

\* The exclusive or, the first bytes, and the rest.
LEMMA HalvesTyped ==
  ASSUME NEW B \in Filled, NEW C \in Filled
  PROVE  Rest(xor(B, C), KeyLen) \in CipherBlock
  <1> DEFINE T == xor(B, C)
             m == CipherSeedlen
  <1>1. T \in [1 .. m -> Octet]
    <2>1. B \in [1 .. m -> Octet] /\ C \in [1 .. m -> Octet]
      BY DEF Filled
    <2> HIDE DEF m
    <2>2. T = [i \in 1 .. m |-> BitXor(B[i], C[i])]
      BY <2>1 DEF xor
    <2>3. \A i \in 1 .. m : BitXor(B[i], C[i]) \in Octet
      BY <2>1, BitXorAssumption
    <2> HIDE DEF T
    <2> QED
      BY <2>2, <2>3
  <1>2. m \in Nat /\ KeyLen \in Nat /\ CipherOBL \in Nat /\ m - KeyLen = CipherOBL
    BY LengthsAre
  <1> HIDE DEF T, m
  <1>3. Len(T) = m
    BY <1>1, <1>2
  <1> DEFINE s == [i \in 1 .. CipherOBL |-> T[KeyLen + i]]
  <1>4. Rest(T, KeyLen) = Whole(s)
    BY <1>2, <1>3 DEF Rest
  <1>5. s \in [1 .. CipherOBL -> Octet]
    <2> SUFFICES ASSUME NEW i \in 1 .. CipherOBL PROVE T[KeyLen + i] \in Octet
      OBVIOUS
    <2>1. KeyLen + i \in 1 .. m
      BY <1>2
    <2> QED
      BY <1>1, <2>1
  <1> HIDE DEF s
  <1>6. Whole(s) = s
    BY <1>2, <1>5, WholeIs
  <1> QED
    BY <1>4, <1>5, <1>6 DEF T, CipherBlock

CtrAgrees(p, w) == w = [K |-> p.K, V |-> p.V]

\* An update, of a state with the data in C.
LEMMA CtrUpdated ==
  ASSUME PrimitivesFit, NEW K, NEW V \in CipherBlock, NEW C \in Filled
  PROVE  /\ Update([K |-> K, V |-> V, C |-> C]).V \in CipherBlock
         /\ Update([K |-> K, V |-> V, C |-> C]).C = C
         /\ CtrAgrees(Update([K |-> K, V |-> V, C |-> C]), StdCtrUpdate([K |-> K, V |-> V], C))
  <1> DEFINE n  == Ceiling(CipherSeedlen, CipherOBL)
             f  == [i \in 1 .. n |-> Encrypt(K, Counted(V, i))]
             fs == [i \in 1 .. n |-> Encrypt(K, Plus(V, i))]
             B  == Joined(Whole(f), CipherOBL, CipherSeedlen)
             Bs == Joined(Whole(fs), CipherOBL, CipherSeedlen)
             u  == Update([K |-> K, V |-> V, C |-> C])
  <1>1. \A i \in 1 .. n : Counted(V, i) = Plus(V, i)
    <2> TAKE i \in 1 .. n
    <2>1. i \in Nat /\ CipherOBL \in Nat
      BY LengthsAre
    <2> QED
      BY <2>1, CountedIs DEF CipherBlock
  <1>2. f = fs
    BY <1>1
  <1>3. u = [K |-> First(xor(B, C), KeyLen), V |-> Rest(xor(B, C), KeyLen), C |-> C]
    BY DEF Update, SetKV, Blocks
  <1>4. StdCtrUpdate([K |-> K, V |-> V], C) = [K |-> First(xor(Bs, C), KeyLen), V |-> Rest(xor(Bs, C), KeyLen)]
    BY DEF StdCtrUpdate, Blocks
  <1>5. f \in [1 .. Ceiling(CipherSeedlen, CipherOBL) -> CipherBlock]
    BY DEF PrimitivesFit
  <1> HIDE DEF f, fs
  <1>6. B \in Filled
    BY <1>5, CipherJoined, LengthsAre DEF Filled
  <1>7. B = Bs
    BY <1>2
  <1> HIDE DEF B, Bs, u
  <1>8. Rest(xor(B, C), KeyLen) \in CipherBlock
    BY <1>6, HalvesTyped
  <1>9. u.K = First(xor(B, C), KeyLen) /\ u.V = Rest(xor(B, C), KeyLen) /\ u.C = C
    BY <1>3
  <1> QED
    BY <1>4, <1>7, <1>8, <1>9 DEF u, CtrAgrees

\* The data of a call without any.
LEMMA NoDataTyped ==
  /\ NoData \in Filled /\ Fill(CipherOBL, 0) \in CipherBlock
  BY LengthsAre DEF NoData, Filled, CipherBlock, Fill, Octet

\* A seed, at first and later.
LEMMA CtrSeeded ==
  ASSUME PrimitivesFit, NEW seed
  PROVE  /\ CIPHER_Instantiate(seed).V \in CipherBlock
         /\ DfInput(seed) = StdDfInput(seed) =>
              CtrAgrees(CIPHER_Instantiate(seed),
                        StdCtrUpdate([K |-> Fill(KeyLen, 0), V |-> Fill(CipherOBL, 0)], StdCipherDf(seed)))
  <1> DEFINE K == Fill(KeyLen, 0)  V == Fill(CipherOBL, 0)  C == Cipher_df(seed)
             u == Update([K |-> K, V |-> V, C |-> C])
  <1>1. V \in CipherBlock /\ C \in Filled
    BY CipherDfIs, NoDataTyped
  <1>2. DfInput(seed) = StdDfInput(seed) => C = StdCipherDf(seed)
    BY CipherDfIs
  <1>3. CIPHER_Instantiate(seed) = [K |-> u.K, V |-> u.V, C |-> NoData]
    BY DEF CIPHER_Instantiate, Cleared
  <1> HIDE DEF K, V, C
  <1>4. u.V \in CipherBlock /\ CtrAgrees(u, StdCtrUpdate([K |-> K, V |-> V], C))
    BY <1>1, CtrUpdated
  <1> HIDE DEF u
  <1>5. CIPHER_Instantiate(seed).K = u.K /\ CIPHER_Instantiate(seed).V = u.V
    BY <1>3
  <1> QED
    BY <1>2, <1>4, <1>5 DEF CtrAgrees, K, V, C

LEMMA CtrReseeded ==
  ASSUME PrimitivesFit, NEW p, NEW w, p.V \in CipherBlock, NEW seed
  PROVE  /\ CIPHER_ReSeed(p, seed).V \in CipherBlock
         /\ CtrAgrees(p, w) /\ DfInput(seed) = StdDfInput(seed) =>
              CtrAgrees(CIPHER_ReSeed(p, seed), StdCtrUpdate(w, StdCipherDf(seed)))
  <1> DEFINE K == p.K  V == p.V  C == Cipher_df(seed)
             u == Update([K |-> K, V |-> V, C |-> C])
  <1>1. V \in CipherBlock /\ C \in Filled
    BY CipherDfIs
  <1>2. DfInput(seed) = StdDfInput(seed) => C = StdCipherDf(seed)
    BY CipherDfIs
  <1>3. CIPHER_ReSeed(p, seed) = [K |-> u.K, V |-> u.V, C |-> NoData]
    BY DEF CIPHER_ReSeed, Cleared
  <1>4. CtrAgrees(p, w) => w = [K |-> K, V |-> V]
    BY DEF CtrAgrees
  <1> HIDE DEF K, V, C
  <1>5. u.V \in CipherBlock /\ CtrAgrees(u, StdCtrUpdate([K |-> K, V |-> V], C))
    BY <1>1, CtrUpdated
  <1> HIDE DEF u
  <1>6. CIPHER_ReSeed(p, seed).K = u.K /\ CIPHER_ReSeed(p, seed).V = u.V
    BY <1>3
  <1>7. CtrAgrees(u, StdCtrUpdate([K |-> K, V |-> V], C)) =>
          CtrAgrees(CIPHER_ReSeed(p, seed), StdCtrUpdate([K |-> K, V |-> V], C))
    BY <1>6 DEF CtrAgrees
  <1> QED
    BY <1>2, <1>4, <1>5, <1>6, <1>7

\* What is output, and what is kept.
LEMMA CtrGenerated ==
  ASSUME PrimitivesFit, NEW p, NEW w, p.V \in CipherBlock, NEW length \in Nat, NEW adata
  PROVE  /\ CIPHER_Generate(p, length, adata).p.V \in CipherBlock
         /\ CtrAgrees(p, w) /\ (adata = <<>> \/ DfInput(adata) = StdDfInput(adata)) =>
              /\ CIPHER_Generate(p, length, adata).out = StdCtrGenerate(w, length, adata).out
              /\ CtrAgrees(CIPHER_Generate(p, length, adata).p, StdCtrGenerate(w, length, adata).w)
  <1> DEFINE n  == Ceiling(length, CipherOBL)
             C  == IF adata = <<>> THEN NoData ELSE Cipher_df(adata)
             p0 == [K |-> p.K, V |-> p.V, C |-> C]
             p1 == IF adata = <<>> THEN p0 ELSE Update(p0)
             V  == Counted(p1.V, n)
             u  == Update([K |-> p1.K, V |-> V, C |-> p1.C])
             Out(k, v) == Joined(Whole([i \in 1 .. n |-> Encrypt(k, Counted(v, i))]), CipherOBL, length)
             g  == CIPHER_Generate(p, length, adata)
  <1>1. C \in Filled
    BY CipherDfIs, NoDataTyped
  <1>2. g = [out |-> Out(p1.K, p1.V), p |-> [K |-> u.K, V |-> u.V, C |-> NoData]]
    BY DEF CIPHER_Generate, Cleared, Blocks
  <1>3. p1.V \in CipherBlock /\ p1.C = C
    <2>1. p0.V \in CipherBlock /\ p0.C = C
      OBVIOUS
    <2>2. Update(p0).V \in CipherBlock /\ Update(p0).C = C
      <3> DEFINE k == p.K  v == p.V
      <3>1. v \in CipherBlock
        OBVIOUS
      <3> HIDE DEF k, v, C
      <3>2. Update([K |-> k, V |-> v, C |-> C]).V \in CipherBlock /\ Update([K |-> k, V |-> v, C |-> C]).C = C
        BY <1>1, <3>1, CtrUpdated
      <3> QED
        BY <3>2 DEF k, v
    <2> HIDE DEF p0
    <2> QED
      BY <2>1, <2>2
  <1>4. n \in Nat
    <2>1. length + CipherOBL - 1 \in Nat /\ CipherOBL \in Nat \ {0}
      BY LengthsAre
    <2> QED
      BY <2>1 DEF Ceiling
  <1>5. \A v \in CipherBlock : /\ Counted(v, n) \in CipherBlock
                               /\ \A i \in Nat : Counted(v, i) = Plus(v, i)
    <2> TAKE v \in CipherBlock
    <2>1. CipherOBL \in Nat
      BY LengthsAre
    <2> HIDE DEF n
    <2> QED
      BY <1>4, <2>1, CountedIs DEF CipherBlock
  <1>6. V \in CipherBlock
    <2> HIDE DEF p1, n
    <2> QED
      BY <1>3, <1>5
  <1>7. /\ u.V \in CipherBlock
        /\ CtrAgrees(u, StdCtrUpdate([K |-> p1.K, V |-> V], C))
    <2> DEFINE k == p1.K
    <2> HIDE DEF p1, V, C, k
    <2>1. /\ Update([K |-> k, V |-> V, C |-> C]).V \in CipherBlock
          /\ CtrAgrees(Update([K |-> k, V |-> V, C |-> C]), StdCtrUpdate([K |-> k, V |-> V], C))
      BY <1>1, <1>6, CtrUpdated
    <2> QED
      BY <1>3, <2>1 DEF k
  <1>8. g.p.V = u.V /\ g.p.K = u.K /\ g.out = Out(p1.K, p1.V)
    <2> HIDE DEF p1, u, Out, g
    <2> QED
      BY <1>2
  <1>9. ASSUME CtrAgrees(p, w), adata = <<>> \/ DfInput(adata) = StdDfInput(adata)
        PROVE  /\ g.out = StdCtrGenerate(w, length, adata).out
               /\ CtrAgrees(g.p, StdCtrGenerate(w, length, adata).w)
    <2> DEFINE data == IF adata = <<>> THEN NoData ELSE StdCipherDf(adata)
               w1   == IF adata = <<>> THEN w ELSE StdCtrUpdate(w, data)
               OutS(k, v) == Joined(Whole([i \in 1 .. n |-> Encrypt(k, Plus(v, i))]), CipherOBL, length)
               std  == StdCtrGenerate(w, length, adata)
    <2>1. data = C
      BY <1>9, CipherDfIs
    <2>2. std = [out |-> OutS(w1.K, w1.V), w |-> StdCtrUpdate([K |-> w1.K, V |-> Plus(w1.V, n)], data)]
      BY DEF StdCtrGenerate, Blocks
    <2>3. w1.K = p1.K /\ w1.V = p1.V
      <3>1. w = [K |-> p.K, V |-> p.V]
        BY <1>9 DEF CtrAgrees
      <3>2. CASE adata = <<>>
        BY <3>1, <3>2
      <3>3. CASE adata # <<>>
        <4> DEFINE k == p.K  v == p.V
        <4>1. v \in CipherBlock /\ w1 = StdCtrUpdate([K |-> k, V |-> v], C) /\ p1 = Update([K |-> k, V |-> v, C |-> C])
          BY <2>1, <3>1, <3>3
        <4> HIDE DEF k, v, C, w1, p1
        <4>2. CtrAgrees(Update([K |-> k, V |-> v, C |-> C]), StdCtrUpdate([K |-> k, V |-> v], C))
          BY <1>1, <4>1, CtrUpdated
        <4>3. w1 = [K |-> p1.K, V |-> p1.V]
          BY <4>1, <4>2 DEF CtrAgrees
        <4> QED
          BY <4>3
      <3> QED
        BY <3>2, <3>3
    <2>4. \A k : Out(k, p1.V) = OutS(k, p1.V)
      <3> DEFINE v == p1.V
      <3>1. v \in CipherBlock
        BY <1>3
      <3> HIDE DEF v
      <3>2. \A k : [i \in 1 .. n |-> Encrypt(k, Counted(v, i))] = [i \in 1 .. n |-> Encrypt(k, Plus(v, i))]
        <4>1. \A i \in 1 .. n : Counted(v, i) = Plus(v, i)
          <5> HIDE DEF n
          <5>1. \A i \in 1 .. n : i \in Nat
            OBVIOUS
          <5> QED
            BY <1>5, <3>1, <5>1
        <4> QED
          BY <4>1
      <3> QED
        BY <3>2 DEF v
    <2>5. Plus(p1.V, n) = V
      <3> HIDE DEF p1, n
      <3> QED
        BY <1>3, <1>4, <1>5
    <2> HIDE DEF data, w1, p1, u, V, C, Out, OutS, std, g, n
    <2>6. std.out = OutS(w1.K, w1.V) /\ std.w = StdCtrUpdate([K |-> w1.K, V |-> Plus(w1.V, n)], data)
      BY <2>2
    <2>7. std.w = StdCtrUpdate([K |-> p1.K, V |-> V], C)
      BY <2>1, <2>3, <2>5, <2>6
    <2>8. std.out = Out(p1.K, p1.V)
      BY <2>3, <2>4, <2>6
    <2>9. CtrAgrees(g.p, std.w)
      BY <1>7, <1>8, <2>7 DEF CtrAgrees
    <2> QED
      BY <1>8, <2>8, <2>9 DEF std
  <1> QED
    BY <1>7, <1>8, <1>9

-----------------------------------------------------------------------------
(***************************************************************************)
(* Key derivation: the blocks of the feedback mode follow one another.     *)
(***************************************************************************)
Fed(Ki, fixed, n, f) ==
  f = [i \in 0 .. n |-> IF i = 0 THEN Fill(DigestOBL, 0) ELSE Mac(Ki, f[i - 1] \o uint2BS(i) \o fixed)]

\* There is one such chain.
LEMMA FeedbackIs ==
  ASSUME PrimitivesFit, NEW Ki, NEW fixed, NEW n \in Nat
  PROVE  Fed(Ki, fixed, n, CHOOSE f : Fed(Ki, fixed, n, f))
  <1> DEFINE next == [i \in 1 .. n |-> [s \in Digest |-> Mac(Ki, s \o uint2BS(i) \o fixed)]]
             start == Fill(DigestOBL, 0)
  <1>1. /\ next \in [1 .. n -> [Digest -> Digest]] /\ start \in Digest
        /\ \A i \in 1 .. n, s \in Digest : next[i][s] = Mac(Ki, s \o uint2BS(i) \o fixed)
    <2>1. start \in Digest
      BY LengthsAre DEF Digest, Fill, Octet
    <2>2. \A i \in 1 .. n, s \in Digest : Mac(Ki, s \o uint2BS(i) \o fixed) \in Digest
      BY DEF PrimitivesFit
    <2> HIDE DEF start
    <2> QED
      BY <2>1, <2>2
  <1> HIDE DEF next, start
  <1>2. PICK g : Taken(n, Digest, start, next, g)
    BY <1>1, StepsTaken
  <1>3. g \in [0 .. n -> Digest] /\ g[0] = start /\ \A i \in 1 .. n : g[i] = next[i][g[i - 1]]
    BY <1>2 DEF Taken
  <1>4. \A i \in 1 .. n : g[i - 1] \in Digest
    BY <1>3
  <1>5. \A i \in 1 .. n : g[i] = Mac(Ki, g[i - 1] \o uint2BS(i) \o fixed)
    BY <1>1, <1>3, <1>4
  <1>6. Fed(Ki, fixed, n, g)
    BY <1>3, <1>5 DEF Fed, start
  <1> QED
    BY <1>6

\* The two modes that feed a block or a MAC back.
LEMMA DerivesAs ==
  ASSUME PrimitivesFit, NEW mode \in {"FB", "DP"}, NEW Ki, NEW label, NEW context, NEW L \in Nat
  PROVE  Derive(mode, Ki, label, context, L) = StdDerive(mode, Ki, label, context, L)
  <1> DEFINE fixed == label \o <<0>> \o context \o uint2BS(L * 8)
             n     == Ceiling(L, DigestOBL)
             K     == CHOOSE f : Fed(Ki, fixed, n, f)
             A     == CHOOSE f : f = [i \in 0 .. n |-> IF i = 0 THEN fixed ELSE Mac(Ki, f[i - 1])]
             Out(f) == Joined(Whole(f), DigestOBL, L)
  <1>1. n \in Nat
    <2>1. L + DigestOBL - 1 \in Nat /\ DigestOBL \in Nat \ {0}
      BY LengthsAre
    <2> QED
      BY <2>1 DEF Ceiling
  <1>2. CASE mode = "FB"
    <2>1. Derive(mode, Ki, label, context, L) = Out([i \in 1 .. n |-> K[i]])
      BY <1>2 DEF Derive, KDF_FB, Fixed, Blocks, Fed
    <2>2. StdDerive(mode, Ki, label, context, L) = Out([i \in 1 .. n |-> Mac(Ki, K[i - 1] \o uint2BS(i) \o fixed)])
      BY <1>2 DEF StdDerive, Blocks, Fed
    <2> HIDE DEF fixed, n
    <2>3. Fed(Ki, fixed, n, K)
      BY <1>1, FeedbackIs
    <2> HIDE DEF K
    <2>4. \A i \in 0 .. n : K[i] = IF i = 0 THEN Fill(DigestOBL, 0) ELSE Mac(Ki, K[i - 1] \o uint2BS(i) \o fixed)
      BY <2>3 DEF Fed
    <2>5. \A i \in 1 .. n : K[i] = Mac(Ki, K[i - 1] \o uint2BS(i) \o fixed)
      BY <1>1, <2>4
    <2>6. [i \in 1 .. n |-> K[i]] = [i \in 1 .. n |-> Mac(Ki, K[i - 1] \o uint2BS(i) \o fixed)]
      BY <2>5
    <2> QED
      BY <2>1, <2>2, <2>6
  <1>3. CASE mode = "DP"
    <2>1. Derive(mode, Ki, label, context, L) = Out([i \in 1 .. n |-> Mac(Ki, A[i] \o uint2BS(i) \o fixed)])
      BY <1>3 DEF Derive, KDF_DP, Fixed, Blocks
    <2> DEFINE Before(i) == CASE mode = "CTR" -> <<>> [] mode = "FB" -> K[i - 1] [] mode = "DP" -> A[i]
    <2>2. StdDerive(mode, Ki, label, context, L) = Out([i \in 1 .. n |-> Mac(Ki, Before(i) \o uint2BS(i) \o fixed)])
      BY DEF StdDerive, Blocks, Fed
    <2>3. \A i : Before(i) = A[i]
      <3> HIDE DEF A, K
      <3> QED
        BY <1>3
    <2> HIDE DEF Before, fixed, n, A
    <2>4. [i \in 1 .. n |-> Mac(Ki, Before(i) \o uint2BS(i) \o fixed)] = [i \in 1 .. n |-> Mac(Ki, A[i] \o uint2BS(i) \o fixed)]
      BY <2>3
    <2> QED
      BY <2>1, <2>2, <2>4
  <1> QED
    BY <1>2, <1>3

-----------------------------------------------------------------------------
(***************************************************************************)
(* A generator tried call by call: the inductive invariant.                *)
(***************************************************************************)
\* No input of the derivation function filled its last block so far.
NoneFull(run) == \A n \in run.derived : ~Full(Data(n, 3))

StatesAgree(type, run) ==
  /\ type = "hash" => HashAgrees(run.p, run.w, run.calls + 1)
  /\ type = "hmac" => run.p = run.w
  /\ type = "ctr"  => run.p.V \in CipherBlock /\ (NoneFull(run) => CtrAgrees(run.p, run.w))

RunFits(type, run) ==
  /\ run.derived \subseteq Nat /\ run.calls \in 0 .. MaxCalls
  /\ (type = "ctr" => NoneFull(run)) => run.out = run.std
  /\ StatesAgree(type, run)

\* What the bytes given are, and when they fill a block.
LEMMA DataIs ==
  ASSUME NEW n \in Nat, NEW use \in Nat
  PROVE  /\ Data(n, use) \in [1 .. n -> Octet] /\ Len(Data(n, use)) = n
         /\ Full(Data(n, use)) <=> Full(Data(n, 3))
         /\ ~Full(Data(n, use)) => DfInput(Data(n, use)) = StdDfInput(Data(n, use))
  <1>1. ASSUME NEW u \in Nat PROVE Data(n, u) \in [1 .. n -> Octet] /\ Len(Data(n, u)) = n
    <2>1. \A i \in 1 .. n : (97 * i + 13 * n + 31 * u) % 256 \in Octet
      BY DEF Octet
    <2> QED
      BY <2>1 DEF Data
  <1>2. Len(Data(n, use)) = n /\ Len(Data(n, 3)) = n
    BY <1>1
  <1>3. Full(Data(n, use)) <=> Full(Data(n, 3))
    BY <1>2 DEF Full
  <1>4. ASSUME ~Full(Data(n, use)) PROVE DfInput(Data(n, use)) = StdDfInput(Data(n, use))
    <2> DEFINE s == Data(n, use)
    <2>1. s \in [1 .. n -> Octet] /\ ~Full(s) /\ Len(s) = n
      BY <1>1, <1>4
    <2> HIDE DEF s
    <2>2. DfInput(s) = StdDfInput(s)
      BY <2>1, DfInputIs
    <2> QED
      BY <2>2 DEF s
  <1> QED
    BY <1>1, <1>3, <1>4

LEMMA TypeIs ==
  ASSUME NEW type \in Type
  PROVE  type = "hash" \/ type = "hmac" \/ type = "ctr"
  BY DEF Type

\* A generator started fits,
LEMMA RunStarted ==
  ASSUME PrimitivesFit, NEW type \in Type, NEW n \in Nat
  PROVE  RunFits(type, Started(type, n))
  <1> DEFINE run == Started(type, n)  seed == Data(n, 3)
  <1>1. /\ run.p = Inst(type, seed) /\ run.w = StdInstantiate(type, seed) /\ run.out = run.std
        /\ run.derived = {n} /\ run.calls = 0
    BY DEF Started
  <1> HIDE DEF run
  <1>2. run.derived \subseteq Nat /\ run.calls \in 0 .. MaxCalls
    BY <1>1, MechanismServicesAssumption
  <1>3. NoneFull(run) => DfInput(seed) = StdDfInput(seed)
    BY <1>1, DataIs DEF NoneFull
  <1> HIDE DEF seed
  <1>4. ASSUME type = "hash" PROVE RunFits(type, run)
    <2>1. run.p = SHA_Instantiate(seed) /\ run.w = StdHashSeed(seed)
      BY <1>1, <1>4 DEF Inst, StdInstantiate
    <2>2. HashAgrees(SHA_Instantiate(seed), StdHashSeed(seed), 1)
      BY HashSeeded
    <2>3. run.calls + 1 = 1
      BY <1>1
    <2> QED
      BY <1>1, <1>2, <1>4, <2>1, <2>2, <2>3 DEF RunFits, StatesAgree
  <1>5. ASSUME type = "hmac" PROVE RunFits(type, run)
    <2>1. run.p = SP_HMAC_Instantiate(seed)
          /\ run.w = StdHmacUpdate([K |-> Fill(DigestOBL, 0), V |-> Fill(DigestOBL, 1)], seed)
      BY <1>1, <1>5 DEF Inst, StdInstantiate
    <2>2. run.p = run.w
      BY <2>1, HmacUpdated DEF SP_HMAC_Instantiate
    <2> QED
      BY <1>1, <1>2, <1>5, <2>2 DEF RunFits, StatesAgree
  <1>6. ASSUME type = "ctr" PROVE RunFits(type, run)
    <2>1. run.p = CIPHER_Instantiate(seed)
          /\ run.w = StdCtrUpdate([K |-> Fill(KeyLen, 0), V |-> Fill(CipherOBL, 0)], StdCipherDf(seed))
      BY <1>1, <1>6 DEF Inst, StdInstantiate
    <2>2. run.p.V \in CipherBlock /\ (NoneFull(run) => CtrAgrees(run.p, run.w))
      BY <1>3, <2>1, CtrSeeded
    <2> QED
      BY <1>1, <1>2, <1>6, <2>2 DEF RunFits, StatesAgree
  <1> QED
    BY <1>4, <1>5, <1>6, TypeIs DEF run

\* and so does one reseeded,
LEMMA RunReseeded ==
  ASSUME PrimitivesFit, NEW type \in Type, NEW run, RunFits(type, run), run.calls < MaxCalls, NEW n \in Nat
  PROVE  RunFits(type, Reseeded(type, run, n))
  <1> DEFINE next == Reseeded(type, run, n)  seed == Data(n, 4)
  <1>1. /\ next.p = Res(type, run.p, seed) /\ next.w = StdReSeed(type, run.w, seed) /\ next.out = next.std
        /\ next.derived = run.derived \cup {n} /\ next.calls = run.calls + 1
    BY DEF Reseeded
  <1> HIDE DEF next
  <1>2. next.derived \subseteq Nat /\ next.calls \in 0 .. MaxCalls /\ run.calls \in Nat
    BY <1>1, MechanismServicesAssumption DEF RunFits
  <1>3. NoneFull(next) => NoneFull(run) /\ DfInput(seed) = StdDfInput(seed)
    BY <1>1, DataIs DEF NoneFull
  <1> HIDE DEF seed
  <1>4. ASSUME type = "hash" PROVE RunFits(type, next)
    <2>1. next.p = SHA_ReSeed(run.p, seed) /\ next.w = StdHashSeed(<<1>> \o BytesOf(run.w.V) \o seed)
      BY <1>1, <1>4 DEF Res, StdReSeed
    <2>2. HashAgrees(run.p, run.w, run.calls + 1)
      BY <1>4 DEF RunFits, StatesAgree
    <2>3. next.calls + 1 \in Nat /\ next.calls + 1 >= 1
      BY <1>2
    <2>4. HashAgrees(next.p, next.w, next.calls + 1)
      BY <2>1, <2>2, <2>3, HashReseeded
    <2> QED
      BY <1>1, <1>2, <1>4, <2>4 DEF RunFits, StatesAgree
  <1>5. ASSUME type = "hmac" PROVE RunFits(type, next)
    <2>1. next.p = SP_HMAC_ReSeed(run.p, seed) /\ next.w = StdHmacUpdate(run.w, seed)
      BY <1>1, <1>5 DEF Res, StdReSeed
    <2>2. run.p = run.w
      BY <1>5 DEF RunFits, StatesAgree
    <2>3. next.p = next.w
      BY <2>1, <2>2, HmacUpdated DEF SP_HMAC_ReSeed
    <2> QED
      BY <1>1, <1>2, <1>5, <2>3 DEF RunFits, StatesAgree
  <1>6. ASSUME type = "ctr" PROVE RunFits(type, next)
    <2>1. next.p = CIPHER_ReSeed(run.p, seed) /\ next.w = StdCtrUpdate(run.w, StdCipherDf(seed))
      BY <1>1, <1>6 DEF Res, StdReSeed
    <2>2. run.p.V \in CipherBlock /\ (NoneFull(run) => CtrAgrees(run.p, run.w))
      BY <1>6 DEF RunFits, StatesAgree
    <2>3. next.p.V \in CipherBlock /\ (NoneFull(next) => CtrAgrees(next.p, next.w))
      BY <1>3, <2>1, <2>2, CtrReseeded
    <2> QED
      BY <1>1, <1>2, <1>6, <2>3 DEF RunFits, StatesAgree
  <1> QED
    BY <1>4, <1>5, <1>6, TypeIs DEF next

\* or asked for output.
LEMMA RunGenerated ==
  ASSUME PrimitivesFit, NEW type \in Type, NEW run, RunFits(type, run), run.calls < MaxCalls,
         NEW length \in Nat, NEW n \in Nat
  PROVE  RunFits(type, Generated(type, run, length, n))
  <1> DEFINE next == Generated(type, run, length, n)
             data == Data(n, 5)
             code == Gen(type, run.p, length, data)
             std  == StdGenerate(type, run.w, length, data)
  <1>1. /\ next.p = code.p /\ next.w = std.w /\ next.out = code.out /\ next.std = std.out
        /\ next.derived = (IF n = 0 THEN run.derived ELSE run.derived \cup {n}) /\ next.calls = run.calls + 1
    BY DEF Generated
  <1> HIDE DEF next
  <1>2. next.derived \subseteq Nat /\ next.calls \in 0 .. MaxCalls /\ run.calls \in Nat
    BY <1>1, MechanismServicesAssumption DEF RunFits
  <1>3. NoneFull(next) => NoneFull(run) /\ (data = <<>> \/ DfInput(data) = StdDfInput(data))
    <2>1. CASE n = 0
      <3>1. data = <<>>
        BY <2>1 DEF Data
      <3> HIDE DEF data
      <3> QED
        BY <1>1, <2>1, <3>1 DEF NoneFull
    <2>2. CASE n # 0
      BY <1>1, <2>2, DataIs DEF NoneFull
    <2> QED
      BY <2>1, <2>2
  <1> HIDE DEF data
  <1>4. ASSUME type = "hash" PROVE RunFits(type, next)
    <2>1. code = SHA_Generate(run.p, length, data) /\ std = StdHashGenerate(run.w, length, data)
      BY <1>4 DEF Gen, StdGenerate
    <2>2. HashAgrees(run.p, run.w, run.calls + 1)
      BY <1>4 DEF RunFits, StatesAgree
    <2>3. run.calls + 1 \in Word
      BY <1>2, MechanismServicesAssumption DEF Word
    <2> HIDE DEF code, std
    <2>4. code.out = std.out /\ HashAgrees(code.p, std.w, (run.calls + 1) + 1)
      <3> DEFINE k == run.calls + 1
      <3>1. k \in Word /\ HashAgrees(run.p, run.w, k)
        BY <2>2, <2>3
      <3> HIDE DEF k
      <3>2. /\ SHA_Generate(run.p, length, data).out = StdHashGenerate(run.w, length, data).out
            /\ HashAgrees(SHA_Generate(run.p, length, data).p, StdHashGenerate(run.w, length, data).w, k + 1)
        BY <3>1, HashGenerated
      <3>3. code.out = std.out /\ HashAgrees(code.p, std.w, k + 1)
        BY <2>1, <3>2
      <3> QED
        BY <3>3 DEF k
    <2> QED
      BY <1>1, <1>2, <1>4, <2>4 DEF RunFits, StatesAgree
  <1>5. ASSUME type = "hmac" PROVE RunFits(type, next)
    <2>1. code = SP_HMAC_Generate(run.p, length, data) /\ std = StdHmacGenerate(run.w, length, data)
      BY <1>5 DEF Gen, StdGenerate
    <2>2. run.p = run.w
      BY <1>5 DEF RunFits, StatesAgree
    <2> HIDE DEF code, std
    <2>3. code.out = std.out /\ code.p = std.w
      BY <2>1, <2>2, HmacGenerated
    <2> QED
      BY <1>1, <1>2, <1>5, <2>3 DEF RunFits, StatesAgree
  <1>6. ASSUME type = "ctr" PROVE RunFits(type, next)
    <2>1. code = CIPHER_Generate(run.p, length, data) /\ std = StdCtrGenerate(run.w, length, data)
      BY <1>6 DEF Gen, StdGenerate
    <2>2. run.p.V \in CipherBlock /\ (NoneFull(run) => CtrAgrees(run.p, run.w))
      BY <1>6 DEF RunFits, StatesAgree
    <2> HIDE DEF code, std
    <2>3. code.p.V \in CipherBlock /\ (NoneFull(next) => code.out = std.out /\ CtrAgrees(code.p, std.w))
      <3> DEFINE p == run.p  w == run.w
      <3>1. p.V \in CipherBlock /\ (NoneFull(run) => CtrAgrees(p, w))
        BY <2>2
      <3>2. code = CIPHER_Generate(p, length, data) /\ std = StdCtrGenerate(w, length, data)
        BY <2>1
      <3> HIDE DEF p, w
      <3>3. /\ CIPHER_Generate(p, length, data).p.V \in CipherBlock
            /\ CtrAgrees(p, w) /\ (data = <<>> \/ DfInput(data) = StdDfInput(data)) =>
                 /\ CIPHER_Generate(p, length, data).out = StdCtrGenerate(w, length, data).out
                 /\ CtrAgrees(CIPHER_Generate(p, length, data).p, StdCtrGenerate(w, length, data).w)
        BY <3>1, CtrGenerated
      <3>4. CASE NoneFull(next)
        BY <1>3, <3>1, <3>2, <3>3, <3>4
      <3>5. CASE ~NoneFull(next)
        BY <3>2, <3>3, <3>5
      <3> QED
        BY <3>4, <3>5
    <2> QED
      BY <1>1, <1>2, <1>6, <2>3 DEF RunFits, StatesAgree
  <1> QED
    BY <1>4, <1>5, <1>6, TypeIs DEF next

\* One that fits agrees with the document.
LEMMA RunAgrees ==
  ASSUME NEW type, NEW run, RunFits(type, run)
  PROVE  GeneratorAgrees(type, run)
  <1>1. \A n \in run.derived : DfInput(Data(n, 3)) = StdDfInput(Data(n, 3)) \o
                                 (IF Full(Data(n, 3)) THEN Fill(CipherOBL, 0) ELSE <<>>)
    <2> TAKE n \in run.derived
    <2>1. n \in Nat
      BY DEF RunFits
    <2> DEFINE s == Data(n, 3)
    <2>2. s \in [1 .. n -> Octet]
      BY <2>1, DataIs
    <2> HIDE DEF s
    <2>3. DfInput(s) = StdDfInput(s) \o (IF Full(s) THEN Fill(CipherOBL, 0) ELSE <<>>)
      BY <2>1, <2>2, DfInputIs
    <2> QED
      BY <2>3 DEF s
  <1> QED
    BY <1>1 DEF GeneratorAgrees, RunFits, NoneFull

\* A key derived.
LEMMA DerivationTried ==
  ASSUME PrimitivesFit, NEW over \in Over, NEW mode \in Mode, NEW memory \in BOOLEAN,
         NEW kilen \in {KeyLen, KeyLen + 1}, NEW L \in Nat
  PROVE  DerivationAgrees(over, mode, memory, kilen, L)
  <1> DEFINE Ki == Data(kilen, 7)  label == Data(2, 8)  context == Data(3, 9)
             d  == SP800_108_KDF(over, mode, memory, Ki, label, context, L)
             good == memory /\ (over = "CMAC" => kilen = KeyLen)
  <1>1. Len(Ki) = kilen
    <2>1. kilen \in Nat
      BY LengthsAre
    <2> QED
      BY <2>1, DataIs
  <1> HIDE DEF Ki, label, context
  <1>2. CASE good
    <2>1. d = [rv |-> 1, K0 |-> Derive(mode, Ki, label, context, L)]
      BY <1>1, <1>2 DEF SP800_108_KDF, Derived
    <2>2. mode # "CTR" => Derive(mode, Ki, label, context, L) = StdDerive(mode, Ki, label, context, L)
      BY DerivesAs DEF Mode
    <2> HIDE DEF d
    <2>3. d.rv = 1 /\ (mode # "CTR" => d.K0 = StdDerive(mode, Ki, label, context, L))
      BY <2>1, <2>2
    <2> QED
      BY <1>2, <2>3 DEF DerivationAgrees, d, Ki, label, context
  <1>3. CASE ~good
    <2>1. d.K0 = <<>>
      <3>1. d = Derived(WrongKey(mode), <<>>) \/ d = Derived(NoContext(over, mode), <<>>)
        BY <1>1, <1>3 DEF SP800_108_KDF
      <3> HIDE DEF d
      <3> QED
        BY <3>1 DEF Derived
    <2> QED
      BY <1>3, <2>1 DEF DerivationAgrees, d, Ki, label, context
  <1> QED
    BY <1>2, <1>3

\* Two numbers of bytes added.
LEMMA AdditionTried ==
  ASSUME NEW a \in [1 .. 3 -> {0, 1, 128, 255}], NEW b \in [1 .. 3 -> {0, 1, 128, 255}], NEW n \in 1 .. 3
  PROVE  IntOf(Add_BE(a, First(b, n))) = (IntOf(a) + IntOf(First(b, n))) % Power(3)
  <1> DEFINE s == [i \in 1 .. n |-> b[i]]  m == 3
  <1>1. m \in Nat /\ n \in Nat /\ a \in [1 .. m -> Octet] /\ s \in [1 .. n -> Octet]
    BY DEF Octet
  <1>2. First(b, n) = Whole(s)
    BY DEF First
  <1> HIDE DEF s, m
  <1>3. First(b, n) = s
    BY <1>1, <1>2, WholeIs
  <1>4. IntOf(Add_BE(a, s)) = (IntOf(a) + IntOf(s)) % Power(m)
    BY <1>1, AddIs
  <1> QED
    BY <1>3, <1>4 DEF m

\* What is tried agrees, and a generator's run is fit to be continued.
AdditionAgrees(a, b) == IntOf(Add_BE(a, b)) = (IntOf(a) + IntOf(b)) % Power(3)

MechanismsFit ==
  /\ Is("generator") => input[2] \in Type /\ RunFits(input[2], input[3])
  /\ Is("derivation") => DerivationAgrees(input[2], input[3], input[4], input[5], input[6])
  /\ Is("addition") => AdditionAgrees(input[2], input[3])

\* Every step tries what agrees, or goes on with a generator that fits.
LEMMA MechanismsStep ==
  ASSUME PrimitivesFit, MechanismsFit, [MechanismsNext]_input
  PROVE  MechanismsFit'
  <1>1. ASSUME NEW type \in Type, NEW run, RunFits(type, run), input' = <<"generator", type, run>>
        PROVE  MechanismsFit'
    <2>1. input'[1] = "generator" /\ input'[2] = type /\ input'[3] = run
      BY <1>1
    <2> QED
      BY <1>1, <2>1 DEF MechanismsFit, Is
  <1>2. CASE TryGenerator
    <2>1. PICK type \in Type, n \in Seeds : input' = <<"generator", type, Started(type, n)>>
      BY <1>2 DEF TryGenerator
    <2>2. n \in Nat
      BY MechanismServicesAssumption
    <2>3. RunFits(type, Started(type, n))
      BY <2>2, RunStarted
    <2> QED
      BY <1>1, <2>1, <2>3
  <1>3. CASE CallReSeed
    <2> DEFINE type == input[2]  run == input[3]
    <2>1. type \in Type /\ RunFits(type, run) /\ run.calls < MaxCalls
      BY <1>3 DEF CallReSeed, MechanismsFit
    <2>2. PICK n \in Seeds : input' = <<"generator", type, Reseeded(type, run, n)>>
      BY <1>3 DEF CallReSeed
    <2>3. n \in Nat
      BY MechanismServicesAssumption
    <2> HIDE DEF type, run
    <2>4. RunFits(type, Reseeded(type, run, n))
      BY <2>1, <2>3, RunReseeded
    <2> QED
      BY <1>1, <2>1, <2>2, <2>4
  <1>4. CASE CallGenerate
    <2> DEFINE type == input[2]  run == input[3]
    <2>1. type \in Type /\ RunFits(type, run) /\ run.calls < MaxCalls
      BY <1>4 DEF CallGenerate, MechanismsFit
    <2>2. PICK length \in Requests, n \in AddedData :
            input' = <<"generator", type, Generated(type, run, length, n)>>
      BY <1>4 DEF CallGenerate
    <2>3. length \in Nat /\ n \in Nat
      BY MechanismServicesAssumption
    <2> HIDE DEF type, run
    <2>4. RunFits(type, Generated(type, run, length, n))
      BY <2>1, <2>3, RunGenerated
    <2> QED
      BY <1>1, <2>1, <2>2, <2>4
  <1>5. CASE TryDerivation
    <2>1. PICK over \in Over, mode \in Mode, memory \in BOOLEAN, kilen \in {KeyLen, KeyLen + 1},
               L \in DerivedKeys :
            input' = <<"derivation", over, mode, memory, kilen, L>>
      BY <1>5 DEF TryDerivation
    <2>2. L \in Nat
      BY MechanismServicesAssumption
    <2>3. DerivationAgrees(over, mode, memory, kilen, L)
      BY <2>2, DerivationTried
    <2>4. /\ input'[1] = "derivation" /\ input'[2] = over /\ input'[3] = mode /\ input'[4] = memory
          /\ input'[5] = kilen /\ input'[6] = L
      BY <2>1
    <2> QED
      BY <2>3, <2>4 DEF MechanismsFit, Is
  <1>6. CASE TryAddition
    <2>1. PICK a, b \in [1 .. 3 -> {0, 1, 128, 255}], n \in 1 .. 3 : input' = <<"addition", a, First(b, n)>>
      BY <1>6 DEF TryAddition
    <2>2. AdditionAgrees(a, First(b, n))
      BY AdditionTried DEF AdditionAgrees
    <2>3. input'[1] = "addition" /\ input'[2] = a /\ input'[3] = First(b, n)
      BY <2>1
    <2> QED
      BY <2>2, <2>3 DEF MechanismsFit, Is
  <1>7. CASE UNCHANGED input
    BY <1>7 DEF MechanismsFit, Is
  <1> QED
    BY <1>2, <1>3, <1>4, <1>5, <1>6, <1>7 DEF MechanismsNext

(***************************************************************************)
(* The generators output what SP800-90A has after every sequence of calls, *)
(* but that the derivation function of the CTR generator adds a block of   *)
(* zeros to an input that fills its last block (SP800-90HashData.c,        *)
(* SP800-90HMAC.c, SP800-90Cipher.c); the feedback and double pipeline     *)
(* modes derive what SP800-108 has (SP800-108.c); and Add_BE is addition   *)
(* (utils.c): for any lengths, and any digest, MAC and cipher that return  *)
(* as many bytes as they declare.                                          *)
(***************************************************************************)
THEOREM MechanismsAre ==
  ASSUME PrimitivesFit
  PROVE  MechanismsSpec => []MechanismsAgree
  <1>1. input \in {<<kind>> : kind \in MechanismKind} => MechanismsFit
    BY DEF MechanismsFit, Is
  <1>2. MechanismsFit /\ [MechanismsNext]_input => MechanismsFit'
    BY MechanismsStep
  <1>3. MechanismsFit => MechanismsAgree
    BY RunAgrees DEF MechanismsFit, MechanismsAgree, AdditionAgrees
  <1> QED
    BY <1>1, <1>2, <1>3, PTL DEF MechanismsSpec

-----------------------------------------------------------------------------
(***************************************************************************)
(* HKDF: each block from the one before.                                   *)
(***************************************************************************)
Chained(prk, info, n, f) ==
  f = [i \in 0 .. n |-> IF i = 0 THEN <<>> ELSE NextBlock(prk, info, f[i - 1], i)]

\* There is one such chain, and its blocks are as long as a digest.
LEMMA ChainIs ==
  ASSUME PrimitivesFit, NEW prk, NEW info, NEW n \in Nat
  PROVE  LET T == CHOOSE f : Chained(prk, info, n, f)
         IN  /\ T[0] = <<>>
             /\ \A i \in 1 .. n : T[i] = NextBlock(prk, info, T[i - 1], i) /\ T[i] \in Digest
  <1> DEFINE S    == Digest \cup {<<>>}
             next == [i \in 1 .. n |-> [s \in S |-> NextBlock(prk, info, s, i)]]
             T    == CHOOSE f : Chained(prk, info, n, f)
  <1>1. /\ next \in [1 .. n -> [S -> S]] /\ <<>> \in S
        /\ \A i \in 1 .. n, s \in S : next[i][s] = NextBlock(prk, info, s, i)
    <2>1. \A i \in 1 .. n, s \in S : NextBlock(prk, info, s, i) \in Digest
      BY DEF PrimitivesFit, NextBlock
    <2> QED
      BY <2>1
  <1>2. \A s, i : NextBlock(prk, info, s, i) \in Digest
    BY DEF PrimitivesFit, NextBlock
  <1> HIDE DEF next, S
  <1>3. PICK g : Taken(n, S, <<>>, next, g)
    BY <1>1, StepsTaken
  <1>4. g \in [0 .. n -> S] /\ g[0] = <<>> /\ \A i \in 1 .. n : g[i] = next[i][g[i - 1]]
    BY <1>3 DEF Taken
  <1>5. \A i \in 1 .. n : g[i - 1] \in S
    BY <1>4
  <1>6. \A i \in 1 .. n : g[i] = NextBlock(prk, info, g[i - 1], i)
    BY <1>1, <1>4, <1>5
  <1>7. Chained(prk, info, n, g)
    BY <1>4, <1>6 DEF Chained
  <1>8. Chained(prk, info, n, T)
    BY <1>7
  <1> HIDE DEF T
  <1>9. \A i \in 0 .. n : T[i] = IF i = 0 THEN <<>> ELSE NextBlock(prk, info, T[i - 1], i)
    BY <1>8 DEF Chained
  <1>10. T[0] = <<>> /\ \A i \in 1 .. n : T[i] = NextBlock(prk, info, T[i - 1], i)
    BY <1>9
  <1> QED
    BY <1>2, <1>10 DEF T

\* A block's bytes: the byte j of block i of size.
LEMMA ByteOfBlock ==
  ASSUME NEW size \in Nat \ {0}, NEW length \in Nat, NEW k \in 1 .. length,
         NEW i \in Nat, i = (k - 1) \div size + 1, i # 1, NEW j \in 1 .. size
  PROVE  /\ (i - 2) * size + j \in 1 .. length
         /\ ((i - 2) * size + j - 1) \div size + 1 = i - 1
         /\ (((i - 2) * size + j - 1) % size) + 1 = j
  <1>1. PICK q \in Nat, r \in 0 .. size - 1 : k - 1 = size * q + r
    <2> DEFINE x == k - 1
    <2>1. x \in Nat
      OBVIOUS
    <2> HIDE DEF x
    <2>2. \E q \in Nat, r \in 0 .. size - 1 : x = size * q + r /\ x % size = r
      BY <2>1, Division
    <2> QED
      BY <2>2 DEF x
  <1>2. i = q + 1
    BY <1>1, Divided
  <1>3. PICK t \in Nat : q = t + 1
    BY <1>2
  <1>4. (i - 2) * size = size * t
    BY <1>2, <1>3
  <1>5. size * q = size * t + size
    BY <1>3
  <1> DEFINE b == size * t
  <1>6. b \in Nat
    OBVIOUS
  <1>7. k - 1 = b + size + r
    BY <1>1, <1>5
  <1> DEFINE z == j - 1
  <1>8. z \in 0 .. size - 1
    OBVIOUS
  <1>9. (size * t + z) % size = z /\ (size * t + z) \div size = t
    <2> HIDE DEF z, b
    <2> QED
      BY <1>8, Divided
  <1>10. (i - 2) * size + j - 1 = size * t + z
    BY <1>4, <1>6
  <1>11. (i - 2) * size + j \in 1 .. length
    <2> HIDE DEF b
    <2>1. (i - 2) * size = b
      BY <1>4 DEF b
    <2> QED
      BY <1>6, <1>7, <2>1
  <1>12. t + 1 = i - 1
    BY <1>2, <1>3
  <1> QED
    BY <1>9, <1>10, <1>11, <1>12

\* What is derived: so many bytes, and those of RFC 5869.
LEMMA ExpandedIs ==
  ASSUME PrimitivesFit, NEW prk, NEW info, NEW n \in Nat, Ceiling(n, DigestOBL) <= MaxBlocks
  PROVE  Len(Expanded(prk, info, n)) = n /\ Conforms(Expanded(prk, info, n), prk, info)
  <1> DEFINE size == DigestOBL
             m    == Ceiling(n, DigestOBL)
             T    == CHOOSE f : Chained(prk, info, m, f)
             f    == [i \in 1 .. m |-> T[i]]
             okm  == Expanded(prk, info, n)
  <1>1. size \in Nat \ {0} /\ m \in Nat
    <2>1. n + DigestOBL - 1 \in Nat /\ DigestOBL \in Nat \ {0}
      BY LengthsAre
    <2> QED
      BY <2>1 DEF Ceiling
  <1>2. T[0] = <<>> /\ \A i \in 1 .. m : T[i] = NextBlock(prk, info, T[i - 1], i) /\ T[i] \in Digest
    <2> HIDE DEF m
    <2> QED
      BY <1>1, ChainIs
  <1>3. okm = Joined(Whole(f), size, n)
    BY DEF Expanded, Blocks, Chained
  <1> HIDE DEF okm, T
  <1>4. \A i \in 1 .. m : f[i] = T[i]
    OBVIOUS
  <1>5. f \in [1 .. m -> Digest]
    BY <1>2
  <1> HIDE DEF f
  <1>6. Whole(f) = f
    <2> HIDE DEF m
    <2> QED
      BY <1>1, <1>5, WholeIs
  <1>7. okm = [k \in 1 .. n |-> f[(k - 1) \div size + 1][((k - 1) % size) + 1]]
    BY <1>3, <1>6 DEF Joined
  <1>8. \A k \in 1 .. n : okm[k] = f[(k - 1) \div size + 1][((k - 1) % size) + 1]
    BY <1>7
  <1>9. Len(okm) = n
    BY <1>7
  <1>10. ASSUME NEW k \in 1 .. n
         PROVE  LET i == (k - 1) \div size + 1
                    before == IF i = 1 THEN <<>> ELSE [j \in 1 .. size |-> okm[(i - 2) * size + j]]
                IN  okm[k] = Mac(prk, before \o info \o <<i>>)[((k - 1) % size) + 1]
    <2> DEFINE i == (k - 1) \div size + 1
               before == IF i = 1 THEN <<>> ELSE [j \in 1 .. size |-> okm[(i - 2) * size + j]]
    <2>1. i \in 1 .. m
      BY <1>1, BlockFor
    <2>2. before = T[i - 1]
      <3>1. CASE i = 1
        <4> HIDE DEF i
        <4> QED
          BY <1>2, <3>1
      <3>2. CASE i # 1
        <4>1. i - 1 \in 1 .. m
          <5> HIDE DEF i, m
          <5> QED
            BY <1>1, <2>1, <3>2
        <4>2. T[i - 1] \in [1 .. size -> Octet]
          <5> HIDE DEF i, m
          <5> QED
            BY <1>2, <4>1 DEF Digest
        <4>3. ASSUME NEW j \in 1 .. size PROVE okm[(i - 2) * size + j] = T[i - 1][j]
          <5> DEFINE h == (i - 2) * size + j
          <5>1. i \in Nat
            <6> HIDE DEF i, m
            <6> QED
              BY <2>1, <1>1
          <5>2. h \in 1 .. n /\ (h - 1) \div size + 1 = i - 1 /\ ((h - 1) % size) + 1 = j
            BY <1>1, <3>2, <5>1, ByteOfBlock
          <5> HIDE DEF h
          <5>3. okm[h] = f[i - 1][j]
            <6> HIDE DEF i
            <6> QED
              BY <1>8, <5>2
          <5>4. okm[h] = T[i - 1][j]
            <6> HIDE DEF i, m
            <6> QED
              BY <1>4, <4>1, <5>3
          <5> QED
            BY <5>4 DEF h
        <4> HIDE DEF i
        <4>4. T[i - 1] = [j \in 1 .. size |-> T[i - 1][j]]
          BY <4>2
        <4> QED
          BY <3>2, <4>3, <4>4
      <3> QED
        BY <3>1, <3>2
    <2> DEFINE p == ((k - 1) % size) + 1
    <2>3. okm[k] = f[i][p]
      BY <1>8
    <2> HIDE DEF i, p, before
    <2>4. okm[k] = T[i][p]
      BY <1>4, <2>1, <2>3
    <2>5. T[i] = NextBlock(prk, info, before, i)
      BY <1>2, <2>1, <2>2
    <2>6. i % (MaxBlocks + 1) = i
      <3>1. i \in 1 .. MaxBlocks /\ MaxBlocks \in Nat
        <4> HIDE DEF m
        <4>1. m <= MaxBlocks
          BY DEF m
        <4> QED
          BY <1>1, <2>1, <4>1, KeyExpansionAssumption
      <3> QED
        BY <3>1
    <2>7. okm[k] = Mac(prk, before \o info \o <<i>>)[p]
      BY <2>4, <2>5, <2>6 DEF NextBlock
    <2> QED
      BY <2>7 DEF i, p, before
  <1> QED
    BY <1>9, <1>10 DEF okm, Conforms

\* As many blocks as there are bytes for.
LEMMA EnoughBlocks ==
  ASSUME NEW n \in Nat, NEW size \in Nat \ {0}, NEW M \in Nat
  PROVE  Ceiling(n, size) <= M <=> n <= M * size
  <1> DEFINE l == n + size - 1
  <1>1. PICK t \in Nat, z \in 0 .. size - 1 : l = size * t + z
    <2>1. l \in Nat
      OBVIOUS
    <2> HIDE DEF l
    <2> QED
      BY <2>1, Division
  <1>2. l \div size = t
    <2> HIDE DEF l
    <2> QED
      BY <1>1, Divided
  <1>3. Ceiling(n, size) = t
    BY <1>2 DEF Ceiling
  <1>4. CASE t <= M
    <2>1. size * t \in Nat /\ size * t <= size * M
      BY <1>4, Product
    <2> DEFINE a == size * t  b == size * M
    <2>2. b = M * size
      OBVIOUS
    <2>3. a \in Nat /\ a <= b /\ b \in Nat /\ n + size - 1 = a + z
      BY <1>1, <2>1
    <2> HIDE DEF a, b
    <2>4. n <= b
      BY <2>3
    <2> QED
      BY <1>3, <1>4, <2>2, <2>4
  <1>5. CASE ~(t <= M)
    <2>1. M + 1 <= t /\ M + 1 \in Nat
      BY <1>5
    <2>2. size * (M + 1) <= size * t
      <3> DEFINE u == M + 1
      <3>1. u \in Nat /\ u <= t
        BY <2>1
      <3> HIDE DEF u
      <3>2. size * u <= size * t
        BY <3>1, Product
      <3> QED
        BY <3>2 DEF u
    <2> DEFINE a == size * t  b == size * M
    <2>3. b = M * size /\ size * (M + 1) = b + size
      OBVIOUS
    <2>4. a \in Nat /\ b \in Nat /\ b + size <= a /\ n + size - 1 = a + z
      BY <1>1, <2>2, <2>3
    <2> HIDE DEF a, b
    <2>5. n > b
      BY <2>4
    <2> QED
      BY <1>3, <1>5, <2>3, <2>4, <2>5
  <1> QED
    BY <1>4, <1>5

\* A digest named is told of by its number.
LEMMA DigestTold ==
  ASSUME NEW md \in DigestNames \ {"none"}
  PROVE  FIPS_byNID(C_diglist, Number(md)) <=> Approved(md)
  <1>1. Number(md) # "none"
    BY PlainNumber, FewBitsNumber, KeyServicesAssumption
  <1> QED
    BY <1>1, DigestByNumber

\* One input tried.
LEMMA ExpansionTried ==
  ASSUME PrimitivesFit, NEW n \in Nat, NEW salt, NEW info, NEW md \in DigestNames \ {"none"}, NEW memory \in BOOLEAN
  PROVE  HKDFAgrees(n, salt, info, md, memory)
  <1> DEFINE prk == Mac(Data(salt, 1), Data(4, 2))
             text == Data(info, 3)
             public == HKDF(Data(salt, 1), Data(4, 2), text, n, md, memory)
             own    == my_HKDF(Data(salt, 1), Data(4, 2), text, n, memory)
             fits == Ceiling(n, DigestOBL) <= MaxBlocks
             okm == Expanded(prk, text, n)
             report == Approval(Number(md), FIPS_byNID(C_diglist, Number(md)))
  <1>1. fits <=> n <= MaxBlocks * DigestOBL
    BY EnoughBlocks, LengthsAre, KeyExpansionAssumption
  <1>2. Ceiling(n, DigestOBL) > MaxBlocks <=> ~fits
    <2>1. n + DigestOBL - 1 \in Nat /\ DigestOBL \in Nat \ {0}
      BY LengthsAre
    <2> QED
      BY <2>1, KeyExpansionAssumption DEF Ceiling
  <1>3. fits => Len(okm) = n /\ Conforms(okm, prk, text)
    BY ExpandedIs
  <1>4. report # <<>> /\ (report[2] <=> Approved(md))
    BY DigestTold DEF Approval
  <1>5. public = IF ~fits \/ ~memory THEN [rv |-> "NULL", okm |-> <<>>, report |-> <<>>]
                 ELSE [rv |-> "okm", okm |-> okm, report |-> report]
    BY <1>2 DEF HKDF, HKDF_Expand, HKDF_Extract
  <1>6. own = [rv  |-> IF ~fits \/ ~memory THEN "NULL" ELSE "okm", okm |-> IF memory THEN okm ELSE <<>>]
    BY <1>2 DEF my_HKDF, my_HKDF_Expand, HKDF_Extract
  <1> HIDE DEF public, own, fits, okm, report, prk, text
  <1>7. CASE fits /\ memory
    <2>1. public.rv = "okm" /\ public.okm = okm /\ public.report = report
      BY <1>5, <1>7
    <2>2. own.rv = "okm" /\ own.okm = okm
      BY <1>6, <1>7
    <2>3. Approves(public) <=> Approved(md)
      BY <1>4, <2>1 DEF Approves
    <2> QED
      BY <1>1, <1>3, <1>7, <2>1, <2>2, <2>3 DEF HKDFAgrees, public, own, prk, text
  <1>8. CASE ~(fits /\ memory)
    <2>1. public.rv = "NULL" /\ public.okm = <<>> /\ public.report = <<>>
      BY <1>5, <1>8
    <2>2. own.rv = "NULL"
      BY <1>6, <1>8
    <2> QED
      BY <1>1, <1>8, <2>1, <2>2 DEF HKDFAgrees, public, own, prk, text
  <1> QED
    BY <1>7, <1>8

(***************************************************************************)
(* HKDF derives what RFC 5869 says, up to its last block and no further,   *)
(* both copies alike, and reports an approved call only for an approved    *)
(* digest (HKDF_Expand and my_HKDF_Expand, icclib.c): for any length, and  *)
(* any MAC that returns as many bytes as it declares.                      *)
(***************************************************************************)
THEOREM HKDFDerives ==
  ASSUME PrimitivesFit
  PROVE  HKDFSpec => []HKDFSound
  <1>1. input = <<"hkdf">> => HKDFSound
    BY DEF HKDFSound, Is
  <1>2. HKDFSound /\ [TryHKDF]_input => HKDFSound'
    <2> SUFFICES ASSUME HKDFSound, [TryHKDF]_input PROVE HKDFSound'
      OBVIOUS
    <2>1. CASE TryHKDF
      <3>1. PICK n \in OkmLengths, salt \in {0, 3}, info \in {0, 3}, md \in DigestNames \ {"none"}, memory \in BOOLEAN :
              input' = <<"hkdf", n, salt, info, md, memory>>
        BY <2>1 DEF TryHKDF
      <3>2. HKDFAgrees(n, salt, info, md, memory)
        BY ExpansionTried, KeyExpansionAssumption
      <3>3. input'[2] = n /\ input'[3] = salt /\ input'[4] = info /\ input'[5] = md /\ input'[6] = memory
        BY <3>1
      <3> QED
        BY <3>2, <3>3 DEF HKDFSound
    <2>2. CASE UNCHANGED input
      BY <2>2 DEF HKDFSound, Is
    <2> QED
      BY <2>1, <2>2
  <1> QED
    BY <1>1, <1>2, PTL DEF HKDFSpec
=============================================================================
