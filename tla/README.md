# A verification development for OpenCryptographyKitC (ICC)

ICC is IBM's cryptographic library: a shared library built on OpenSSL with its
own random generators, self tests and FIPS life cycle, a static stub through
which applications load it, and GSKit's wrapper around both. These modules model
the parts of it that keep state and decide something with it, and the pure
algorithms whose boundaries decide something. The cryptography
itself (digests, ciphers, key arithmetic) is OpenSSL's and is
represented by its outcome, or by a small function with the property the code relies on.

Paths below are relative to `icc/` in the repository.

## 1. Inventory

### The system

```
 application
    | ICC_Init / ICC_Attach / ICC_xxx / ICC_Cleanup
 static stub (icc.c) ---- dlopen ----> shared library (icclib.c)
                                          | lib_init, lib_attach, call tables
                                          | power-on self test (fips.c)
                                          | error state (status.c)
                                          v
   OpenSSL's RAND  <---- callbacks ---- fips-prng-RAND.c (a pool of generators)
                                          |
                                     generators: SP800-90.c (PRNG_CTX)
                                          | seed requests
                                     TRNG: entropy_to_NRBG.c -> noise_to_entropy.c
                                          | refill
                                     noise source: timer_fips.c + nist_algs.c
```

A generator asks its TRNG for a seed, the TRNG conditions noise from a buffer and
refills the buffer from the noise source. An error at the bottom becomes the
library's error (`SetFatalError`, status.c), which removes the entry points from
the call table that contexts were given (`DisableAPI`, icclib.c:335) and makes the
stub's next calls fail.

| component | state | operations | what is hard | what makes it correct |
|---|---|---|---|---|
| generator context, `fips-prng/SP800-90.c` | state, prng, call count, reseed point, flags, PID of last use, block of the continuous test, its TRNG | new, Init, ReSeed, Generate, ctrl, free | legal sequences of calls; failures in the middle of a request; fork | a seed is used a bounded number of times; no two requests get the same bytes; nothing is answered after a fatal error |
| generator types, same file | countdown to the self test, error mark, mutex | lookup, countdown, self test, reload | threads between three critical sections and an unlocked mark | every instantiation is covered by a completed self test |
| TRNG, `TRNG/entropy_to_NRBG.c`, `noise_to_entropy.c`, `entropy_estimator.c` | noise buffer and offset, loop counters, long term estimate, hash of the last seed | request, conditioning, refill, estimate | nested retries; state that outlives failed requests | requests end; noise is used once; seeds differ |
| noise source, `TRNG/timer_fips.c` | its filter, the health test | fill a buffer | the health test in the sampling loop | unhealthy noise is not used |
| health tests, `TRNG/nist_algs.c` | counters of two tests | sample by sample | boundaries | the cut-offs of SP800-90B |
| choice of the TRNG, `TRNG/ICC_NRBG.c` | default type, probe done | set name, default, upgrade | changed while in use | a generator uses the type it reports |
| RAND callbacks, `fips-prng/fips-prng-RAND.c` | a pool of generators with a mutex each, an entropy tap, a status | init, seed, bytes, cleanup | threads sharing slots; partial initialization | a slot is used by one thread at a time, failures are fatal |
| stub, `icc.c` | library handle, reference count, mutex, default status | Init, Attach, Cleanup | concurrent first and last calls; searches that fail half way | no context outlives its library |
| shared library, `icclib.c`, `fips.c`, `status.c` | load state, call tables, error state, self test result | load, lib_init, lib_attach, cleanup, self test | tables rewritten while in use | in FIPS mode nothing is served before the self test passed |
| settings, `icclib.c`, `extsig.c`, `ICC_NRBG.c` | environment, signature file, default source, FIPS mode, values of a context | load, SetValue, GetValue, attach | the same setting from three places, in an order; a pretended FIPS mode | source, mode and what a context reports are one thing |
| wrappers and service indicator, `icclib.c`, `nid_cache.c` | the callback of a context; tables of names | generate, agree, sign, derive, look up | checks, the call, the test of the new key and the report may each fail | nothing is reported approved that is not; a failed call reports nothing |
| wrapper, `iccpkg/gsk_wrap2.c` | the two stubs and their contexts | forwards to either | one of the two failing; switches read without a lock | no context underneath is lost, and the answer says what there is |
| AES-GCM streams, `API/aes_gcm.c` | key, IV, direction, OpenSSL's context, a counter of IVs | Init, Update, Final, GenerateIV | key and IV in any order; IVs changed within a message | no nonce encrypts two messages under one key |
| known answer tests, `fips.c` | none besides the random number method | some fifty tests in a row | a test that cannot run, or that cannot notice | a wrong operation is reported |
| mechanisms, `fips-prng/SP800-90*.c`, `ds.c`, `utils.c` | K, V, C of a context | instantiate, reseed, generate | buffers rewritten in place | SP800-90A |
| key wrap `SP80038F.c`, key derivation `SP800-108.c`, HKDF and key repair `icclib.c` | none | one call each | lengths around a block, counters at their limit | SP800-38F, SP800-108, RFC 5869; a repaired key works |

`PROJECT.json` lists the components with their status and the hazards with their
lines.

## 2. Modules

| module | models |
|---|---|
| `DRBG` | one generator context of `SP800-90.c` in each process of a family of forked processes |
| `PRNGTypes` | one generator type shared by threads: countdown, self test, error mark |
| `TRNG` | one TRNG answering seed requests |
| `SeedSource` | the abstract promise of a TRNG to its generator; `TRNG` implements it |
| `PRNGContract` | what the callers of a generator context rely on; `DRBG` is checked to keep to it, `RandPool` is built on it |
| `RandPool` | the RAND callbacks of `fips-prng-RAND.c` and the key generations that use them, several threads |
| `ICCStub` | the stub's `ICC_Init`, `ICC_Attach`, `ICC_Cleanup` of several users |
| `LibraryHolders` | what those users rely on: one library, there until nobody holds a context of it; `ICCStub` implements it |
| `ICCLib` | the shared library: load, contexts and call tables, run-time self tests, `DisableAPI` under several threads |
| `FIPSModule` | what an application relies on of the library as a cryptographic module: off, operational, failing, disabled; `ICCLib` implements it |
| `KnownAnswers` | the sequence of known answer tests and what each reports |
| `SelfTests` | bench: a self test with one operation ill, or one test without memory |
| `GSKWrap` | GSKit's wrapper around two copies of ICC, several threads |
| `AESGCM` | one `AES_GCM_CTX` with OpenSSL's context behind it, and the generators of IVs |
| `HealthTests` | estimators and health tests of noise |
| `ByteStrings` | strings of bytes: numbers in four bytes, parts, exclusive or |
| `KeyWrap` | KW and KWP |
| `Mechanisms`, `KDF` | Hash, HMAC and CTR generators; counter, feedback and double pipeline derivation |
| `Standards` | what SP800-90A and SP800-108 say of the same, written with integers |
| `MechanismServices` | bench: generators called side by side with `Standards`, keys derived, byte strings added |
| `GeneratorTypes` | tables of generator types, the shape of their vectors, lookup by name, set up of a context |
| `Indicator` | the wrappers that report to the callback, and the tables of names |
| `KeyExpansion` | HKDF, its two copies, tried side by side with RFC 5869 |
| `KeyTools` | repair of RSA keys, check of a DSA generator |
| `Settings` | environment, configuration file, default noise source, SetValue and GetValue |
| `Services` | bench: health tests, lookups, self tests, set-ups, sources and requests in pieces, tried on inputs, with the properties |
| `KeyServices` | bench: the wrappers that report, and key wrapping |
| `Algorithms` | bench: all of these benches, and key repair, changes to wrapped keys |
| `DRBGProofs`, `TRNGProofs`, `RandPoolProofs`, `ICCStubProofs`, `ICCLibProofs`, `GSKWrapProofs`, `AESGCMProofs` | theorems about the module of that name |
| `ServicesProofs` | theorems about `PRNGTypes`, `Services` (with `HealthTests` and `GeneratorTypes`), `KeyServices` (with `Indicator` and `KeyWrap`), `Settings`, `SelfTests` (with `KnownAnswers`) `MechanismServices` (with `Mechanisms`, `KDF`, `Standards`) and `KeyExpansion` |
| `MC...` | values of the constants for TLC |

In every module an operator marked *Mutant* is a changed copy of the definition
after it, used to see that a property would notice; it is part of no specification.

### DRBG

An *image* is everything a process owns that the code touches: the fields of the
`PRNG_CTX` and its `PRNG_Data`, the countdown and error mark of each type, and the
library's error state. `fork()` copies an image. The bytes of a working state are
replaced by an identity: `seed` is the entropy it was derived from, `step` the number of
`Generate` calls of the algorithm made on it; equal pairs mean equal output.
`cached` is the seed that the noise still buffered in the TRNG would yield, which is
what a forked child shares with its parent even after it reseeds.

An instantiation is another matter than a reseed. Without a personalization string `PRNG_Instantiate` makes
one of time, counter and PID, and its state is its own whatever the noise. A string of the caller is used as it
is, and `RNG_CTX_Init` has no fork check: it does not drain, and sets `lastPID` (SP800-90.c:1271), so that no later check does. `copied` names noise
that a fork copied and that may still be in the buffer, until a drain or another TRNG; the state that a string of the caller makes of it has the
identity `-copied`, the same in every process that holds that noise (`InitSeed`). It is the worst case: the strings are equal, and all the noise is
copied. `exposed` is history: the processes whose last instantiation was of this kind, for which no freshness is claimed.
A buffer of copied noise yields one seed to a reseed (`cached`) although its 512 bytes may hold several: the working state
goes into every reseed, so more of them matter only to a process that is `exposed` already.

The internal layer is translated as functions on images: `Cln`, `Inst`, `Res`, `Gen`
(with `GenTail`: continuous test, count, reseed point), `PRNG_self_test`,
`RNG_CTX_Init`, `RNG_ReSeed`, `OldefRNG_Generate`. Each is a whole C function with the
conditions in the C order. The actions apply them: `DoInit`, `DoReSeed`, one action
per ctrl command that changes the context, `StartGenerate` / `GenerateChunk` for
the loop of `RNG_Generate`, `Renew` for free and new, `Fork`, `Exit`. What the environment
decides (TRNG, method, memory, known answer test, a stuck output) is chosen in the
action, among the `Faults` a configuration allows.

A context is not shared between threads (SP800-90.h: "Use one/thread"), so a call is
one step, but for `RNG_Generate`, whose chunks are steps.
"CRASH" is the use of a NULL pointer, which the code reaches in two ways (see 6).

### PRNGTypes

The three critical sections of `RNG_CTX_Init` and `PRNG_self_test` (count, mark, reload)
and the unlocked lookup are separate steps of each thread. `credit` is a history
variable: the instantiations the last completed test still covers.

### TRNG and SeedSource

`Entropy_to_TRNG` is three nested loops around `conditioner` and `trng_raw`. The model
keeps every counter (`pass` = j, `block` = l, `dups` = m, `fails`) and their resets,
the offset into the noise buffer, the long term estimate with its window and the seed
the duplicate test compares with. A unit is one digest. Whether a block is
low, noise is low, or an estimate is out of bounds is a choice: it is what the data
decide. `used`, `rich` and `healthy` are history.

`SeedSource` is what a generator relies on: a request ends with a seed of good blocks
that differs from the one before, or with a fatal error. The refinement maps the
abstract `asked` to the length of the request in progress; `last` and `fatal` are
shared.

### PRNGContract and RandPool

`PRNGContract` gives, for `RNG_CTX_Init`, `RNG_ReSeed` and one chunk of `RNG_Generate`, the states
a call may leave a context in. `DRBG!KeepsContract` checks it of every sequence of
calls; it leaves out what the contract excludes: a context last used by another
process, prediction resistance (whose Init ends in RESEED) and over-long requests,
none of which the callbacks produce.

`RandPool` has two arrays of contexts, `tctx` for `RAND_bytes`, `RAND_seed` and keys, `pctx` for
`RAND_pseudo_bytes`, each slot with a mutex. A callback is cut where it takes or
leaves the mutex and where it calls the generator: entry with its unlocked tests (`Enter`),
`Lock`, `Make` (`init_trng`, `init_prng`), `Reseed` or `Generate`, `Unlock`, `Report` (`SetFatalError`).
The generator's states are reduced to those a callback can tell apart (`Seen`): INIT, answered,
failed. A failed `init_prng` is followed in the code by `RNG_Generate(NULL)`, which
returns CRIT; the result is the same as leaving at once, and `Make` does so. Key
generation (icclib.c) is `StartKey`, `DrawKey` any number of times, `EndKey`; `key` and
`fresh` are history: who generates a key, and whose slot was seeded since it began.
`crashed` is the use of pointers that were never written (see 6).

### ICCStub

Each user has one context and makes one call after another; a call is a sequence of
steps cut where `icc.c` leaves or enters the mutex or calls the loader. The loader's
reference counts are explicit (`maps`) because the search in `ICC_Init` maps and unmaps
libraries that turn out not to be usable. A library that gets mapped may come up in
its error state, and a mapped one may enter it at any time.

`icc.c:405` and `icc.c:619` say that the first call and the last one race and
ask the application to avoid it. The variable `kept` is the two ways to do so: one call
at a time, or another context kept alive while calls run concurrently.

`LibraryHolders` leaves out searching, trying, counting and the mutex. A library is loaded
while the loader has it mapped (`maps`), ill while it is in `libError`; a user holds the library its context
points to (`ctx[u].lib`), attached when the context is a full one. A context without functions, which `ICC_Init`
returns when every path is too long, holds nothing.

### ICCLib and KnownAnswers

`Loader` is the thread in which the loader runs `ICCLoad`; it is alone until it is done.
Its stages are steps: read files, OpenSSL, self test (`SelfTest` through the stages of
`iccDoKnownAnswer` and the signature tests), integrity check, tables. Users then init, attach,
generate, check integrity, clean up and run self tests on contexts of their own. The call
tables are functions from kinds of function to entries (`Func`, `Entry`): the three kinds
`LoadTables` tells apart. `DisableAPI` copies one entry at a time, since that is how it
races with the users who fetch from the table. `rng` and `method` are the random number
method of OpenSSL and the insecure one that `DoVeryBrokenTests` installs and later zeroes.

`FIPSModule` is the finite state model behind the stages, tables and copies. The tests
required are the integrity check and, where the self test runs at load, the known answers (`Required`); which have
passed is told by the loader's verdicts `checked` and `posted` (`Passed`); the phase by the error state and by the entry of the
default table that generates keys (`Phase`: in error it is failing as long as that entry can be called, then disabled); what a
key generation was given by `drawn` (`Given`).

`KnownAnswers` has a test as a list of checks `<<operation, what it must give, status if not>>`. A
*health* says which operation is ill and how: wrong, failing, absent, or accepting
everything. `ICCLib` takes from it the one fact it needs, that a test reports a status.

### GSKWrap

Each wrapper context belongs to one thread, `hasC`, `hasN`, `ignore_fips` and the two `env_tested`
are shared and unlocked. Reading a variable of the environment the first time is two
steps (mark, then read), because the code marks first. `ICC_Attach` is cut at `libsCheck`, the two
`ICC_InitReal`, its `ICC_SetValue` and the attach of what was made.

### AESGCM

The fields of the context that decide (`init`, `enc`, key and IV given, the generator's
counter) and the state of OpenSSL's context behind it. An IV is salt, counter and a length
that fits the buffer or not. `AES_GCM_Init` takes an IV, a key, both or neither. `msgs`, `refused` and `issued` are history: the keys and nonces that
encrypted, that the context has kept an IV it refused, the IVs given out.

What the code checks is an IV that comes alone on a context that has had one. Everything else begins again with whatever the
context then has: a call with the key only, with neither, or with both. In the plain mode the check compares with the last IV only. A pair asked for
in such a way (`Asks`) leaves `msgs`: it is the application that repeats it, not the context. In a TLS mode a checked IV never asks for anything, so there the code
alone must refuse what was used. `MayGive` and `MayUse` are the application:
in a TLS mode it gives IVs of 12 bytes, with a key only before the counting starts, no key of another context, makes no call without an IV after a refusal, and encrypts
nothing with the IV that sets the base; in all modes it stops when it was refused. Leaving out any one of these clauses makes TLC find a repeated nonce.

### The algorithms

`Algorithms` has one variable, `input`: first the kind of service, then one input
of it. A generator, a library and its context are the services with state; they are
called several times. Lengths, counts, error codes and the order of checks are the code's.
The primitives are parameters: TLC gets a sum modulo a prime as digest and cipher, a permutation made of four additions
for wrapping, the bitwise exclusive or as `BitXor`, with
digests of 2 bytes, blocks of 5, keys of 6, a state of 3 for the Hash generator. Odd sizes
make it visible when a length is confused with another. Output made block by block is written
`Blocks(block, size, length)`, a counter after n additions `Counted(V, n)`, and every loop with a
carried value is a recursive function of the number of its turn. `Whole` is the identity: it makes TLC evaluate a
string once and not at each use. `MaxBlocks` is 15
for the 255 of HKDF, the primes of RSA keys are between 101 and 131.

- *Settings*: a library is built FIPS or not, with or without hardware, and configured by up to
  two items of the environment and up to two lines of the file; then values are set and read
  until nothing new happens. A list of settings is taken item by item, as a recursive function of the
  position. What a library is after it was loaded is compared with what the settings, read in
  order, ask for; what it is from then on with its mode, its source and the values set.
- *KeyWrap*: a buffer is a sequence of bytes, and the 64 bit counter that is exclusive-ored into the tag has its four low
  bytes (no input of an `int` length needs more). The 6n steps are a recursive function of their number.
- *Indicator*: a wrapper answers its return value, whether the caller has a key, and what it
  told the callback. Sizes are tried at each limit the code or the standards name.
- *GeneratorTypes*: the tables are data of the code and are kept whole; of the vectors only
  lengths, which decide whether a self test tries what it says.

## 3. Runs

| run | module and bounds | shows |
|---|---|---|
| `drbg_faults` | `DRBG`, one process, all faults, all refused sizes, 4 seeds, reseed after 3, 2 chunks | `SeedBudget`, `FatalSilences`, `PredictionResistance`, `KeepsContract` |
| `drbg_fork` | two processes, no faults, 3 seeds, reseed after 2, personalization strings of the caller or none | `FreshOutput` |
| `trng_request` | `TRNG`, 2 blocks, 3 units, 3 retries, 2 failed refills, 2 duplicates, window 3 | `NoiseUsedOnce`, `NoPoorNoise`, refinement `IsSeedSource`, `RequestEnds` |
| `trng_health` | as above | *violated*: `HealthyNoise` |
| `types_retest` | `PRNGTypes`, three threads, test every 3 | `Covered` |
| `pool_calls` | `RandPool`, two threads, one or two slots, all failures | `OneInside`, `KeyFromNewSeed`, `Released` |
| `stub_calls` | `ICCStub`, three users, two paths | `NoDanglingContext`, `RefCountExact`, `MutexExists`, `NoLibraryLeak`, `RefusalsHaveStatus`, refinement `IsLibraryHolders`, `CallsReturn` |
| `lib_calls` | `ICCLib`, the loader and two users, every failure while loading, one more fatal error per thread | `RandomRestored`, `NoConstantKeys`, `DisabledForGood`, `ServiceAfterPOST`, refinement `IsFIPSModule`, `EventuallyDisabled` |
| `gsk_calls` | `GSKWrap`, two threads, every environment | `InnerOwned`, `AttachAnswers` |
| `gcm_calls` | `AESGCM`, two keys or none, one salt, IVs of 4 counters, a long one or none, a TLS counter below 4, a generator that stops at 3 | `NonceOnce`, `IssuedOnce` |
| `algs` | `Algorithms`, the inputs below | `NothingElseMissed`, `HealthTestsSound`, `WrapRoundTrip`, `MechanismsAgree`, `TypesConform`, `LookupSound`, `IndicatorSound`, `KeysRepaired`, `SettingsSound`, `ContextsSound` |
| `kdf_ctr` | as above | *violated*: `CounterModeAgrees` |

The type invariants of all these modules are theorems (section 5); the runs leave them out. The properties of `algs`:

| property | says |
|---|---|
| `NothingElseMissed` | an ill operation is reported by some known answer test, but for the cases `Unseen` and `SkippedSilently` name |
| `HealthTestsSound` | an estimate is the min-entropy rounded down to a bit; noise estimated at the guarantee is not rejected by the proportion test, and what that accepts is at most one step below; the repetition test rejects exactly what is longer than its cut-off |
| `WrapRoundTrip` | what is wrapped unwraps to itself, padded or not, in both directions of the cipher; what is refused is what has a length that cannot be wrapped, or a key of one |
| `MechanismsAgree` | a generator gives what SP800-90A says after every sequence of calls (but for a block of zeros the derivation function adds to some lengths), feedback and double pipeline derivation what SP800-108 says |
| `TypesConform` | every strength a type offers has a vector that seeds enough for it; a wrong method fails the self test and marks the type (only the reseeding of AES-128 is never tried); a context set up is seeded for the strength asked for; the pieces of a request are the request |
| `LookupSound` | no failed or excluded type is found under any name, nor raw noise in FIPS mode; a type found has its mutex; a source set up delivers no poor noise as good |
| `IndicatorSound` | approval only of what has 112 bits of strength, was tested and did not fail, however the key was made |
| `KeysRepaired` | HKDF is RFC 5869's up to its last block; a repaired RSA key works or gives an error, never a wrong answer; a wrapped key is refused with the other padding, in the other direction, and with one byte changed |
| `SettingsSound` | a library just loaded has the source that was chosen last and is there, and no upgrade replaces it; the pretended mode ends with a choice of source; the self test is skipped only for such a choice in a build that is not FIPS; the default generator is excluded only by a list read after it |
| `ContextsSound` | from then on: mode, source, self test, default generator and contexts agree; a value refused changes nothing, one accepted is the one that is got; an attached context keeps its mode and callback |

**Bounds and why they are enough.** *DRBG*: with `MaxReseed` 3 the
reseed point is reached by two requests, and `SETRESEED` may lower it; four seeds allow
an instantiation, two reseeds and a re-initialization, after which every pair of
states and counts has occurred; two chunks are what "the first fails" and "the last
fails" need; a self test every second instantiation falls due in both positions of an
Init. `MaxDebt` bounds how often a self test may fail for want of memory. Two processes
and three seeds are the smallest family in which parent and child each reseed; there `MaxReseed` is 2, so that a request
reaches the reseed point, and `MaxSeed` also bounds the instantiations from copied noise. The run has 658,911 states.
*TRNG*: two blocks distinguish a pass that fills the request from one that half fills
it; three units against a guarantee of two make a block straddle a refill; the window of
three is not a multiple of the request; every counter can be exhausted. *PRNGTypes*: three
threads can all be between decrement and reload. *RandPool*: with one slot the two threads share
it and with two they do not; the thread identifiers 1 and 2 make the modulus matter;
a third thread adds waiting, not a new pair (and the proofs cover any number). *ICCStub*: the third user is the
one that arrives while the first two are at either end of the count; two paths
give "the first is not ours, the second is". *ICCLib*: two users and the loader are what the
two races need, a copy of a table in one thread with a call in another, and two self tests
that both replace the method. *GSKWrap*: one thread reads the environment late, one is past it.
*AESGCM*: two keys for a change of key, four counters so that one IV can be
greater, equal, smaller or two steps on, a generator that reaches its limit and draws again; `Counting` stops a TLS counter
before it comes round, which the 64 bits of the code do not. The run has 536,056 states.
*Algorithms*: each length, size and count is tried at its limit and on both sides;
generators are called three times, since after two calls every buffer was rewritten
once from the other; two settings are the least that can contradict each other, and they do so in the
environment, in the file and across both.

**Deadlock** is disabled in `RandPool` because a library that has used an uninitialized
pointer (`crashed`) does not go on, in `DRBG` and `PRNGTypes`, whose seeds and debts are bounded and
which stop when an error is fatal or the bounds are used up, in `ICCLib`, whose load may fail,
and in `Algorithms`, which stops when an input was tried. `TRNG`, `ICCStub`, `GSKWrap` and
`AESGCM` never stop and are checked for it.

**Fairness.** `TRNG!FairSpec` has weak fairness of the steps of a request and not of making
one: a request is a function call, and the thread that made it goes on
executing it. `RandPool!FairSpec` and `ICCStub!FairSpec` have the same for each thread; it is weak fairness, so
`Released` needs nothing of a thread that waits for a mutex, only of the one that
holds it. `ICCLib!FairSpec` has weak fairness of `DisableAPI` only: it copies without waiting for
anything, while nothing is assumed of the calls around it. Nothing is
assumed of the outcome of a choice: a low block may be drawn for ever, and
`RequestEnds` holds because the counters end it.

## 4. Findings

Each is a run that TLC must find violated; the sources quoted are in `PROJECT.json`.

- `trng_health`: noise on which the health test failed is returned and conditioned into a seed.
- `kdf_ctr`: in counter mode the counter is written once, before the loop (SP800-108.c:211, 431), so
  the second block of a derived key repeats the first.

## 5. Proofs

The proofs hold for every value of the constants that satisfies the module's named
assumption; TLC evaluates the assumptions on each run. Besides those, three theorems
have a hypothesis on the external primitives, which range over all byte strings and cannot be evaluated: `Permutes` (key wrapping), `PrimitivesFit`
(mechanisms), and `Proc = {Root}` or no reuse of process identifiers, as said below.

- `DRBGProofs`. `TypeOK` and `BudgetInv` are inductive, `SeedBudget` follows. The bound on the
  use of a seed is not inductive by itself: a context in state INIT must have used
  nothing and counted one call, one in RUN must have used no more than it counted and
  counted less than its reseed point (`Budgeted`). The argument goes function by
  function (`Cln`, `Inst`, `Res`, `GenTail`, ...: each takes a budgeted image to one) and then
  action by action. It covers any number of processes, types and block values.
  The action properties rest on what each handler does to seed, buffered noise and state
  (`ReSeedEffect`, `GenEffect`, `InitEffect`, `ChunkEffect`) and on `SoundInv`: a context that can be used has
  its algorithm context and its TRNG, and noise still buffered has not become the seed.
  `PredictionResistance` and `KeepsContract` follow step by step, without further
  assumptions: the contract `RandPool` is built on holds for all bounds. `FreshOutput` needs that a
  process identifier is not given twice (`"reuse" \notin Faults`; with reuse it is false). Its
  invariant `FreshInv` is about two processes: what either may still answer from (`MayUse`: its seed, or the
  noise it buffered) the other may not, and no answer was taken from a seed beyond the step its
  owner has reached. A fork shares the noise, but the child's `lastPID` is not its own, so it may use nothing
  until it has drained. A process that uses a state others can make (a negative identity) is `exposed`; those states and the seeds
  that are drawn do not meet. `FatalSilences` is proved of an application that does not fork
  (`Proc = {Root}`), as it is checked.
- `TRNGProofs`. `TypeOK` and `RequestInv` are inductive; `NoiseUsedOnce` and `NoPoorNoise` are
  action properties that follow from `OffsetInv` (what is left of the buffer is unused and
  rich). `Implements` proves `Spec => Source!Spec`: `Deliver` maps to `Deliver` because
  a request that is compared is filled (`CountersInv`), `SetRNGError` to `Fail`, the other
  steps to stutters.
- `RandPoolProofs`. `Owners`: `InsideOwns` (who is inside a slot holds its mutex) is inductive and implies
  `OneInside` (`Exclusion`). `FreshKeys`: `KeyFromNewSeed` needs to know why a reseed whose failure is
  ignored does no harm. `StaleIsDead` says it: a thread that was not given its new seed
  has a slot without a context or with a failed one, and the contract keeps a failed one
  failed; with the shape of a key's calls (`KeyCalls`) it is inductive.
- `ICCStubProofs`, for any finite set of users and any number of paths. `RefCountExact` is not inductive
  alone: that the count is the number of contexts depends on who is between decision and
  unload. `StubInv` says where a call may be when another is at a given place
  (`OneCall`, `KeptAlive`), when the mutex is there (`HasMutex`), what a context points to (`Contexts`), which
  library the loader has (`Library`, `InUse`); the five invariants of the run follow, and
  `RefusalsHaveStatus` step by step. `Implements` proves `Spec => Holders!Spec`, every step of the stub being one
  of `LibraryHolders` or a stutter. It needs two facts more: a context with functions points into the library that is there
  (`Pointing`), and only a mapped library is in error (`Remembered`).
- `ICCLibProofs`, for any set of users. `LibInv` joins: who may be where (`Places`, `LoadsAlone`), what of a table
  is still to be copied (`Disabling`), what the load has passed (`Posting`), what the random number method
  can be (`Method`) and that the insecure one stays zeroed (`Zeroed`). `RandomRestored`,
  `NoConstantKeys`, `DisabledForGood` and `ServiceAfterPOST` follow. `Implements` proves `Spec => Module!Spec`: it
  needs that no test counts as passed before the loader's verdict on it, and that a
  thread copies the table of errors only after an error (`Untested`): the step that copies the entry for keys is then the one from
  failing to disabled. That every known answer test
  reports a status (`FirstBad` of any list) is proved by the least failing check, with the
  well-founded order of the naturals.
- `GSKWrapProofs`, for any finite set of contexts. `GSKInv` joins `InnerOwned` with the shape of a
  call (`CallSound`): at which step of `ICC_Attach` a call may be, that nothing is underneath its
  context until `InitReal`, and that nothing is attached and the answer is still "notinit" until it
  returns. That a library's count of contexts is exact (`InnerOwned`) needs the sizes of the sets
  it counts when one context enters or leaves them (`Recount`). `NothingLost` and
  `AttachTellsTruth` follow.
- `AESGCMProofs`, for any keys and IVs, any width of the counters and any exclusive or (of `BitXor`
  only that it keeps the width and undoes itself is assumed; TLC takes the bitwise one). `NonceOnce` holds
  because the *next* message has a nonce of its own (`Fresh`): the one OpenSSL holds and has not used, or the one
  the context will begin with, unless that was asked for. In a TLS mode the counter is past
  the place (`Number`) of all that was encrypted under the key, of the IV in the context when it was not refused, and of OpenSSL's
  nonce (`Counted`), and accepts only its own value; so a call without an IV goes on with one that is still unused, or that
  it asks for (`TLSInit`). All calls of a message have one shape (`Uses`). `IssuedOnce`: what was issued since the last
  drawing is less than `count` steps behind the counter (`Behind`), and `count` is drawn anew before the counter is round.

- `ServicesProofs`, for all inputs instead of those tried. Most of these functions are not inductive in a state
  but in a number (the terms of a sum, the items of a list, the steps of a rotation). Such an induction is over the
  set of numbers for which the fact holds: a set of naturals without a least missing number is all of them
  (`HasLeast`, `EveryNumber`). For this `Total`, `TakeAll` and `Rotate` are recursive functions.
  - *Types shared by threads.* `CountdownInv` (the countdown never exceeds the credit by more than one) is inductive
    for any set of threads; `Covered` and `TypeOK` of `PRNGTypes` follow.
  - *Lookups, sources, self tests, set-ups, pieces* (`LookupsSound`, `TypesSound`). The type tables are what they are; exclude
    lists, strengths, personalization and lengths are any. A lookup is followed through each name
    (`LookedUpSound`); a set-up finds the first strength that suffices (`FirstEnough`); pieces add up by induction (`PiecesTotal`).
  - *Health tests* (`HealthTestsAgree`): for any noise whose number of samples is below 2^32. `ilog2` is shown to find the width by its five
    halvings (`WidthOf`); the most common value of any noise occurs, and not more often than there are samples (`MostCommonOf`).
  - *Service indicator* (`IndicatorReports`): any sizes, curves, digests and names. `ServicesAssumption` and
    `KeyServicesAssumption` say of the inputs that they are numbers and that each digest has one of OpenSSL's numbers or is not listed.
  - *Settings* (`LoadsAsAsked`, `ContextsAreSound`), for any environment and file of any length. Every setting taken keeps
    `IsSettings` and changes nothing but what it names; `TakenUpto` describes the library after each position of the joined
    lists; the source is the destined one (`Destined`) once the upgrade was tried. `LibrarySound` adds to `ContextsSound` that
    a library that has handed out a callback stays in its mode; with it every step keeps it.
  - *Key wrapping* (`WrappedBack`, `WrapsRoundTrip`), for any bytes whose number, and 8 more, fits an `int`. The hypothesis `Permutes`
    is that under the wrapping key the cipher and its inverse undo each other on blocks of 16 bytes and give such blocks;
    of `BitXor` it is used that it gives bytes and undoes itself. A step back undoes a step (`StepBack`), so the 6n steps back in the opposite
    order undo the 6n steps (`RotatedBack`); the tag returns with the length in it, the zeros after the
    end are those that were put there, and the semiblock the check reads when nothing was padded is the one `calloc` left zero.
  - *Self tests* (`SelfTestMisses`): whatever operation is ill, in whatever way it can be, whichever test runs out of
    memory. A list of checks reports "ok" only when each of its checks does (`AllFine`, for lists of each length that occurs); a known answer
    test that passes tells that its operation was right (`AnswerRight`, `TripRight`); from there group by
    group (`DigestsRight`, `KeysRight`, ...) every operation the self test knows (`Operations`) is shown to be right, unless it is skipped.
  - *Mechanisms* (`MechanismsAre`), for any lengths of seeds, requests and additional data, any number of calls below 2^31, and any
    digest, MAC and cipher; `PrimitivesFit` says of these that they return as many bytes as they declare, for otherwise the
    buffers overlap. Of the cipher and the MAC nothing else matters, so two keys or blocks that are equal give equal results.
    `LengthsAreUsable` says that the kept state holds a digest and has at most 255 of them, a cipher's block the counter of four bytes.
    The inductive invariant `RunFits` says of a generator that was called some times: its last output is the document's, and its state is the
    document's in its own form (`StatesAgree`): for Hash, V and C are the bytes of the numbers SP800-90A keeps, and the count fits four
    bytes; for HMAC, K and V are equal; for CTR, K and V are equal unless some input filled its last block (`NoneFull`).
    That is preserved because bytes are numbers: `IntOf` is a sum of digits (`IntOfIs`), its digits are the bytes
    again (`DigitsBack`), and `Add_BE` adds modulo 256^n (`AddIs`, by induction over the digits with their carries). So the four additions of the Hash
    generator are one sum modulo 2^seedlen (`FourAdded`), its counter and the one of CTR count (`CountedIs`), and the derivation function
    pads as it should except where it adds a block (`DfInputIs`). The chain of buffers is reset between its two readings (`HmacUpdated`). The feedback
    and double pipeline modes are followed block by block (`FeedbackIs`, `DerivesAs`). Every recursive function is shown to exist
    by `StepsTaken`: a sequence that starts in a set and makes steps in it is there, and is the only one.
  - *HKDF* (`HKDFDerives`, for `HKDFSpec`, the runs of `KeyExpansion` by itself), for any lengths, any bound
    on the blocks a byte counts, and under `PrimitivesFit`. The blocks are a chain, each the MAC of the one
    before (`ChainIs`); a byte of the output is a byte of its block, and the block before is read back from
    the output (`ByteOfBlock`, `ExpandedIs`); the count of blocks does not wrap where output is given; output
    is refused exactly from the last block on (`EnoughBlocks`).

Only model-checked:

- liveness (`RequestEnds`, `CallsReturn`, `Released`, `EventuallyDisabled`), which the prover does not do;
- `KeysRepaired`, but for its first conjunct `HKDFSound`, which `HKDFDerives` proves. That a repaired RSA key
  computes the right thing is Fermat's theorem and the Chinese remainder theorem, of which the library has
  none, and its exponentiation and inverse are recursive operators. That a changed wrapped key is refused is
  no theorem at all: it depends on the cipher, and holds of TLC's toy cipher on the changes tried;
- that counter mode does not derive what SP800-108 says is the counterexample of `kdf_ctr`, not a theorem.

## 6. Differences between code and comments without a run

Places where the code does something its comments, its other half or a standard do not
say. Each was met while modelling; the models do what the code does.

**Generators** (`fips-prng/`)

- `iccglobals.h:586` says a context in CRIT "is going to stay dead"; a request that is too
  long without Auto, or one in another process, overwrites the state with PARAM or
  RESEED before it is looked at. `iccglobals.h:584` says PARAM "will become
  CRIT next call"; it never does.
- `SP800-90.c:804`: a method failure in the call that reaches the reseed point is overwritten
  by `RESEED`; the caller's state says usable. `icctest.c:2183` looks at the state only.
- `SP800-90.c:788`: the continuous test compares with the block made by the first request after
  `INIT`, which is stored once, not with the last one.
- `SP800-90.c:1214`: the vectors of the self test run in the caller's context; when that is in
  use as its type's retest falls due, the test fails and disables the library without any fault.
- `SP800-90.c:1543`: after the self test command a context is UNINIT; its `lastPID` is
  zero as well, so the next request sets RESEED before the state is looked at and calls
  the reseed method of an algorithm context that was freed (`CRASH` in `DRBG`). The other way to
  `CRASH` is a request after a reseed whose replacement TRNG could not be made: the first
  one that runs in another process drains a NULL TRNG.
- `SP800-90.c:1411`: "ensure each process has unique state after fork()" is done in `RNG_Generate` only. A parent and a child that
  call `RNG_CTX_Init` with the same personalization string while the TRNG buffers noise from before the fork
  start from the same state: line 578 adds PID and time only where the caller gives no string, nothing is drained, and line 1271 makes the check
  see no fork. `FreshOutput` without `\ exposed` is violated. Without a string of the caller the
  states differ, and so does that of a process that answered between the fork and its `RNG_CTX_Init`: the check has drained.
- The fork check compares PIDs only. A grandchild that is given the PID under which its
  context was last used repeats output: allowing `"reuse"` in `drbg_fork` shows it.
- A failed `SELFTEST` command returns CRIT and leaves UNINIT without writing the state to
  its caller's pointer, so the test for CRIT at `fips.c:3933` never succeeds.
- `SP800-90.c:1041` says "don't allow PRNG TYPES which failed self test", but the mark is read by
  the lookup only, without the mutex, and the failed test reloads the countdown all the
  same (line 984): a thread past the lookup instantiates the failed type. By then
  the failed test has disabled the library.
- `SP800-90.c:1237`, `if (i > 3)`, is unreachable: a strength that is too high is served by the highest.
- `SP800-90Cipher.c:179`: the derivation function adds a block of zeros when the input fills its last
  block. The HMAC generator ignores errors of HMAC. The SHA-224 hash type offers 256 bits, where
  SP800-57 gives 192; the reseeding of AES-128 has no vector.
- Excluding `HMAC-SHAx` excludes `SHAx`, too (`strstr` finds it inside). Types excluded at load get no mutex, also if the
  list is shortened later.
- `fips-prng-RAND.c:549`: `RAND_bytes` of zero bytes as the first use of a slot is taken for a failure and
  disables the library; on a slot that was used it succeeds.
- `fips-prng-RAND.c:318`: when `tctx` could not be made, `pctx` is allocated but not cleared, and
  the error path (336-346) frees what it finds in it. `RandPool` reaches it as `crashed`.
- `RAND_FIPS_Entropy` (`fips-prng-RAND.c:373`) reads the contexts of all slots without their mutexes.
- A process forked while a slot's mutex is held inherits it locked.
- `fips-prng-RAND.c:449` says `RAND_bytes` uses prediction resistance; `init_trng` asks for none, it
  uses what `init_prng` makes.

**Noise** (`TRNG/`)

- `entropy_to_NRBG.c:137`: a request filled by its last allowed pass is given up, fatally.
- `nist_algs.c`: case 100 of `APtestBK` falls into the default and gets cut-off 0; the repetition count
  test rejects one sample later than the cut-off of SP800-90B.
- `SP800-90TRNG.c:228-236`: the comments in the tables are shifted by one field. A source's
  `RNG_CTX_Init` returns CRIT and leaves PARAM, INIT or ERROR in the context.
- `ICC_NRBG.c`: `type > NTRNGS` (504) lets the number one past the table through. `TRNG_new` does not free its
  block when initialization failed.
- `timer_fips.c`: the "median" shift is the mode, and `checkShift` judges the last 512 samples only.

**Library** (`icclib.c`, `fips.c`)

- `fips.c:4110` and `1330`: the insecure generator is used "ONLY at startup"; in a build that is not
  FIPS and ran no self test at load, a self test at run time installs it (`icclib.c:924`,
  `fips.c:4450`). Two such self tests at once may report a spurious fatal error.
- `KATest_broken` skips silently without memory, the TLS KDF test without a context; no test
  offers a wrong signature or tag (`Unseen` in `KnownAnswers`, `SkippedSilently` in `SelfTests`). The note on
  `iccRSAKeyPair` and its return for NULL keys differ.
- A random number failure during a self test at run time is written to `Global.status`, not to the caller's.
- `icclib.c:1243`: "The FIPS module is always initialized in FIPS mode" holds only where
  `NON_FIPS_ICC` is 1; a fresh context of a FIPS build reports "off". Setting "on" succeeds in a FIPS
  build whose noise source is not the FIPS one, although loading has dropped out of FIPS mode (939-943).
- `icclib.c:1382` insists on an override before FIPS mode is entered; in a build that is not FIPS
  `ICC_TRNG=TRNG_FIPS` flags every context FIPS without one, with the self test off.
- `ICC_IGNORE_FIPS` has no effect together with any `ICC_TRNG`, even an unknown name.
  `ICC_RANDOM_GENERATOR` is compared with the exclude list before that is read; `TRNG_FIPS`, raw noise, is
  accepted as generator. The FIPS callback stays after "off". `SetParams` matches prefixes.
- `EVP_PKEY_keygen` skips its pair test without memory; EC and RSA keys that failed it stay in the caller's object (the call fails).
  RSA encryption and DH agreement look at their result only when it is 1, although the calls return lengths.
  `sign_init` approves DSA, `DigestSignInit` does not; RSA key generation takes up to 8192 bits, the
  indicator approves 4096; sizes are compared in bytes, so 2041 bits pass for 2048; key wrap reports approval
  whatever its result; an alias of a cipher without number is reported not approved.
- `RSA_FixEncodingZeros` says "check them all" and does not look at p and q; `recalculateCRT` does not
  end for a key with e d = 1, and leaves zeros and success when it finds no factor. `my_HKDF_Expand` has written
  255 blocks when it returns NULL for more. `dsa_paramgen_check_g` leaks on its early return.
- `x2bin` (313-325) reads `F` as 10 (`b - 'F' + 10`).

**Stub and wrapper** (`icc.c`, `iccpkg/`)

- `icc.c`: a failed attach makes the default status sticky, and it survives the unload; when
  every path is too long `ICC_Init` returns a context without functions and status OK;
  `ICC_Cleanup` returns `ICC_OSSL_SUCCESS` where its comment says `ICC_OK`.
- `gsk_wrap2.c:529`: `env_tested` is set before `hasC` and `hasN` are read: a second thread may load a library that
  the environment switched off.
- `ICC_SetValue` on a context of the certified library returns the failure, but the status "O.K.": `status1` is
  never copied. `ICC_Attach` uses the context before its NULL test; called again on an attached context it
  loses the one underneath (the model attaches only what is not attached); it falls back to the other library silently.

**AEAD, key wrap and derivation**

- `aes_gcm.c`: `GenerateIV_NIST` returns 0 once at its limit, then goes on. Key and IV "may be set
  separately", but IV first is refused. "Checks for IV change on rollovers" (290) holds of an IV that comes alone: `AES_GCM_Init` with
  the key only, or with neither, returns 1 and begins the next message with the old IV (391-432, 470-478); so it does with the IV it has just
  refused, which it has stored (358). `DecryptUpdate` leaves `enc`, so an IV set in the middle of
  decrypting turns to encryption. The length of an IV that changes within a message is not passed on; a longer one is
  compared with memory not written; going from long to short leaks. The TLS counter starts at 0 and moves also when an IV is refused. An error of the additional
  data is overwritten by the result of the data; `EncryptFinal` ignores OpenSSL's. `GenerateIV` after
  `GenerateIV_NIST` uses a cipher that was never initialized.
- `SP80038F.c`: the padded length is not checked when unwrapping; wrapping 0 bytes with padding gives MEM.
- `SP800-108.c`: `KDF_FB_CMAC` (476) returns 1 with nothing written for a key of the wrong length,
  `KDF_DP_HMAC` (349-381) when no context can be made; `KDF_CTR_CMAC` returns -11 where 1, 0, -1 are
  documented; `KDF_KA` (119) sets `tested` before it has tested, so a second thread uses the KDF meanwhile.

## 7. Not modelled

The bytes of vectors, digests, ciphers, signatures and formats: data, of which the lengths are kept where they
decide something. `SetValue` without a context, which sets the induced failure only, and the warnings of `GetValue` about an
install path that is empty or does not fit. The timer filter: measured times. The wrappers, of the stub and of the library, that only
forward a call: no state. The scanner of the signature file and the addresses `LoadTables` fills in. `TRNG_new` and the
sources that read a device or an instruction: outcomes of `DRBG` and `TRNG`. `KDF_KA` and the lookup of a KDF. Build and test
programs. The dynamic loader, `fork`, process exit and OpenSSL are external and modelled as
the code uses them. `PROJECT.json` gives the reason for each component.

The hazards of `PROJECT.json` without a property are those where the code states nothing that a property
could hold it to, or where the code documents the race: they are described in section 6.

## 8. What is left

1. `ICCStub` composed with `ICCLib`: the error state of the one is a choice in the other. Their promises, `LibraryHolders`
   and `FIPSModule`, are what the composition would be made of.
2. `TRNG_new` with the failures of a source, AES-CCM and the sources that read a device.
