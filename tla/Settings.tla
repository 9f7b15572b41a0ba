------------------------------ MODULE Settings ------------------------------
(***************************************************************************)
(* The configuration of the library: what ICCLoad takes from the           *)
(* environment and from the signature file, the default noise source, and  *)
(* the values an application sets and gets on a context (icclib.c,         *)
(* extsig.c, ICC_NRBG.c, fips-prng-RAND.c).  The settings are a record,    *)
(* which one call after another changes:                                   *)
(*   build, hardware, device  FIPS or not; noise sources there are         *)
(*   override   ICC_IGNORE_FIPS was set        lie       fips_lie          *)
(*   failure, mask, runPost   ICC_INDUCED_FAILURE, ICC_ALLOW_INDUCED, ...  *)
(*   trng, userSet, upgraded, trngSet   the default source, whether it was *)
(*              set, whether an upgrade was tried, ICC_TRNG was given      *)
(*   prng, instances, excluded, plain   the default generator, its slots,  *)
(*              the exclude list, numbers that are only stored             *)
(*   mode, post   OpenSSL is in FIPS mode; the self test is run            *)
(*   pcb        the context: its FIPS flag, its lock, its callback         *)
(***************************************************************************)
EXTENDS Services

CONSTANTS Items,      \* settings of the environment, <<name, value>>
          FileLines,  \* lines of the signature file, too
          MaxItems,   \* settings at once
          Failures    \* numbers of induced failures

ASSUME SettingsAssumption == MaxItems \in Nat

Sources == {"TRNG_HW", "TRNG_OS", "TRNG_FIPS"}
Plain   == {"ICC_SHIFT", "ICC_LOOPS", "ICC_RNG_SETUP", "ICC_ALLOW_2KEY3DES"}
MAX_rngs == 256

\* The variables before anything is loaded.
Unloaded(build, hardware, device) ==
  [build |-> build, hardware |-> hardware, device |-> device, override |-> FALSE, lie |-> FALSE,
   failure |-> 0, mask |-> 0, runPost |-> build = "FIPS",
   trng |-> IF build = "FIPS" THEN "TRNG_FIPS" ELSE "TRNG_OS",
   userSet |-> FALSE, upgraded |-> FALSE, trngSet |-> FALSE,
   prng |-> "SHA256", instances |-> 7, excluded |-> {}, plain |-> [name \in Plain |-> 0],
   mode |-> FALSE, post |-> TRUE,
   pcb |-> [fips |-> FALSE, lock |-> FALSE, callback |-> "none"]]

-----------------------------------------------------------------------------
(***************************************************************************)
(* The default noise source.                                               *)
(***************************************************************************)
Avail(s, trng) == (trng = "TRNG_HW" => s.hardware) /\ (trng = "TRNG_OS" => s.device)

isFipsTrng(trng) == trng = "TRNG_FIPS"

checkTRNGAlias(s, name) ==
  CASE name \in {"TRNG_ALT2", "TRNG_TRNG"} -> IF s.hardware THEN "TRNG_HW" ELSE "TRNG_OS"
    [] name \in {"TRNG_ALT3", "TRNG_ALT4"} -> "TRNG_HW"
    [] name = "TRNG_ALT"                   -> "TRNG_OS"
    [] OTHER                               -> name

SetDefaultTrng(s, trng) ==
  IF trng \in Sources /\ Avail(s, trng) THEN [s EXCEPT !.trng = trng, !.userSet = TRUE] ELSE s

\* Mutant: a source the user chose is upgraded, too.
Upgraded_Always(s) ==
  IF s.build = "FIPS" \/ s.upgraded THEN s
  ELSE [s EXCEPT !.upgraded = TRUE, !.trng = IF s.hardware THEN "TRNG_HW" ELSE @]

\* GetDefaultTrng: what it leaves, on a platform that may have the hardware.
Upgraded(s) ==
  IF s.build = "FIPS" \/ s.upgraded THEN s
  ELSE [s EXCEPT !.upgraded = TRUE,
                 !.trng = IF ~s.userSet /\ @ # "TRNG_FIPS" /\ s.hardware THEN "TRNG_HW" ELSE @]

\* It asks for the default at last, to see whether it was set.
SetTRNGName(s, name) ==
  LET trng == checkTRNGAlias(s, name)
  IN  IF trng \in Sources THEN Upgraded(SetDefaultTrng(s, trng)) ELSE s

-----------------------------------------------------------------------------
(***************************************************************************)
(* Loading.                                                                *)
(***************************************************************************)
SetPRNGName(s, name) ==
  IF \E type \in get_RNGbyname(name, TRUE, s.hardware, {}, s.excluded) : 256 \in Range(type.strengths)
  THEN [s EXCEPT !.prng = name] ELSE s

SetRNGInstances(s, n) == IF n \in 1 .. MAX_rngs THEN [s EXCEPT !.instances = n] ELSE s

\* One setting, from wherever it comes.
Take(s, name, value) ==
  CASE name = "ICC_INDUCED_FAILURE"  -> [s EXCEPT !.failure = value]
    [] name = "ICC_ALLOW_INDUCED"    -> [s EXCEPT !.mask = value]
    [] name = "ICC_RUN_POST"         -> IF s.build = "FIPS" THEN s ELSE [s EXCEPT !.runPost = value # 0]
    [] name = "ICC_RNG_INSTANCES"    -> SetRNGInstances(s, value)
    [] name = "ICC_TRNG"             -> [SetTRNGName(s, value) EXCEPT !.trngSet = TRUE]
    [] name = "ICC_RANDOM_GENERATOR" -> SetPRNGName(s, value)
    [] name \in Plain                -> [s EXCEPT !.plain[name] = value]
    [] name = "ICC_RNG_EXCLUDED"     -> [s EXCEPT !.excluded = value]
    [] OTHER                         -> s

\* The environment is read in this order.
EnvOrder == <<"ICC_INDUCED_FAILURE", "ICC_ALLOW_INDUCED", "ICC_RUN_POST", "ICC_RNG_INSTANCES",
              "ICC_TRNG", "ICC_RANDOM_GENERATOR", "ICC_RNG_SETUP", "ICC_SHIFT", "ICC_LOOPS",
              "ICC_ALLOW_2KEY3DES", "ICC_RNG_EXCLUDED">>

TakeAll(s, items) ==
  LET taken[i \in 0 .. Len(items)] ==
        IF i = 0 THEN s ELSE Take(taken[i - 1], items[i][1], items[i][2])
  IN  taken[Len(items)]

Comment == <<"#", 0>>

\* env is a function of the names that are set.
Env(env) ==
  [i \in 1 .. Len(EnvOrder) |->
     IF EnvOrder[i] \in DOMAIN env THEN <<EnvOrder[i], env[EnvOrder[i]]>> ELSE Comment]

ReadEnv(s, env) == TakeAll([s EXCEPT !.plain["ICC_ALLOW_2KEY3DES"] = 1], Env(env))

TakeEnvVars(s, env, override) == ReadEnv([s EXCEPT !.override = override, !.lie = override], env)

\* The lines that are settings, twenty at most; SetParams takes them in order.
ReadConfigItems(file) ==
  LET items == {i \in DOMAIN file : file[i][1] \notin {"FILE", "SELF", "#"}}
  IN  [i \in 1 .. Len(file) |->
         IF i \in items /\ Cardinality(items \cap (1 .. i - 1)) < 20 THEN file[i] ELSE Comment]

SetParams(s, items) == TakeAll(s, items)

\* Without the file nothing more is read (and ICCLib is in its error state).
ReadFile(s, file, opened) == IF opened THEN SetParams(s, ReadConfigItems(file)) ELSE s

EnterMode(s) ==
  IF s.build = "FIPS"
  THEN IF isFipsTrng(s.trng) THEN [s EXCEPT !.mode = TRUE] ELSE [s EXCEPT !.lie = TRUE]
  ELSE LET t == IF ~s.lie THEN [s EXCEPT !.post = FALSE]
                ELSE IF s.trngSet THEN [s EXCEPT !.lie = FALSE]
                ELSE [SetDefaultTrng(s, "TRNG_FIPS") EXCEPT !.mode = TRUE]
       IN  [t EXCEPT !.post = @ \/ t.runPost]

Load(s, env, override, file, opened) ==
  LET fips == IF s.build = "FIPS" THEN SetDefaultTrng(s, "TRNG_FIPS") ELSE s
  IN  EnterMode(ReadFile(TakeEnvVars(fips, env, override), file, opened))

\* A new context.  Only the build that is not FIPS looks at the source.
NewContext(s) ==
  LET t == IF s.build = "FIPS" THEN s ELSE Upgraded(s)
  IN  [t EXCEPT !.pcb = [fips |-> s.build # "FIPS" /\ isFipsTrng(t.trng), lock |-> FALSE, callback |-> "none"]]

-----------------------------------------------------------------------------
(***************************************************************************)
(* The values of a context, and what the call returns.                     *)
(***************************************************************************)
Set(s, rv) == [s |-> s, rv |-> rv]

ValueID == {"ICC_FIPS_APPROVED_MODE", "ICC_INSTALL_PATH", "ICC_VERSION", "ICC_MEMORY_ALLOC",
            "ICC_RANDOM_GENERATOR", "ICC_SEED_GENERATOR", "ICC_RNG_INSTANCES", "ICC_INDUCED_FAILURE",
            "ICC_ALLOW_INDUCED", "ICC_FIPS_CALLBACK", "ICC_CPU_CAPABILITY_MASK", "invalid"}

SetFIPSCallback(s, callback) ==
  IF s.pcb.callback = "none" /\ s.pcb.fips
  THEN Set([s EXCEPT !.pcb.callback = callback], "OK") ELSE Set(s, "WARNING")

\* Mutant: the mode of a FIPS build can be switched off.
SetMode_Off(s, value) ==
  CASE value = "on"  /\ (s.build = "FIPS" \/ s.lie)  -> Set([s EXCEPT !.pcb.fips = TRUE], "OK")
    [] value = "off"                                 -> Set([s EXCEPT !.pcb.fips = FALSE], "OK")
    [] OTHER                                         -> Set(s, "ERROR")

\* What a build is, and the other mode with an override only.
SetMode(s, value) ==
  CASE value = "on"  /\ (s.build = "FIPS" \/ s.lie)  -> Set([s EXCEPT !.pcb.fips = TRUE], "OK")
    [] value = "off" /\ (s.build # "FIPS" \/ s.lie)  -> Set([s EXCEPT !.pcb.fips = FALSE], "OK")
    [] OTHER                                         -> Set(s, "ERROR")

SetInducedFailure(s, value) ==
  IF value # <<>> /\ s.mask # 0 THEN Set([s EXCEPT !.failure = value[1]], "OK") ELSE Set(s, "WARNING")

\* A value is a mode, <<a number>> or <<>> (no pointer), or a callback.  Left out:
\* the call without a context, which sets the induced failure and nothing else,
\* whatever the mask says.
SetValue(s, id, value) ==
  IF s.pcb.lock /\ id \notin {"ICC_INDUCED_FAILURE", "ICC_FIPS_CALLBACK"} THEN Set(s, "FAILURE")
  ELSE CASE id = "ICC_FIPS_APPROVED_MODE" -> IF value = "NULL" THEN Set(s, "FAILURE") ELSE SetMode(s, value)
         [] id = "ICC_INDUCED_FAILURE"    -> SetInducedFailure(s, value)
         [] id = "ICC_FIPS_CALLBACK"      -> SetFIPSCallback(s, value)
         [] id \in {"ICC_INSTALL_PATH", "ICC_VERSION", "ICC_ALLOW_INDUCED", "invalid"} -> Set(s, "ERROR")
         [] OTHER                         -> Set(s, "WARNING")

NumberID == {"ICC_RNG_INSTANCES", "ICC_INDUCED_FAILURE", "ICC_ALLOW_INDUCED"}

\* The least room a value needs: an int or a pointer.
SizeOf(id) == IF id \in NumberID THEN 4 ELSE 8

Get(rv, value) == [rv |-> rv, value |-> value]

ValueOf(s, id) ==
  CASE id = "ICC_FIPS_APPROVED_MODE" -> IF s.pcb.fips THEN "on" ELSE "off"
    [] id = "ICC_RANDOM_GENERATOR"   -> s.prng
    [] id = "ICC_SEED_GENERATOR"     -> s.trng
    [] id = "ICC_RNG_INSTANCES"      -> s.instances
    [] id = "ICC_INDUCED_FAILURE"    -> s.failure
    [] id = "ICC_ALLOW_INDUCED"      -> s.mask
    [] id = "ICC_FIPS_CALLBACK"      -> s.pcb.callback
    [] id = "ICC_MEMORY_ALLOC"       -> "NULL"
    [] OTHER                         -> "constant"

\* length is the room for the value, 0 for no value at all.  Left out: the
\* warnings about an install path that is empty or does not fit.
GetValue(s, id, length) ==
  IF length < SizeOf(id) THEN Get("FAILURE", "nothing")
  ELSE IF id = "invalid" THEN Get("FAILURE", "cleared")
  ELSE IF id = "ICC_CPU_CAPABILITY_MASK" /\ length < 17 THEN Get("WARNING", "cleared")
  ELSE Get("OK", ValueOf(s, id))

\* lib_attach, of a library without error.
Attached(s) == [s EXCEPT !.pcb.lock = TRUE]

-----------------------------------------------------------------------------
(***************************************************************************)
(* A library is configured, loaded, and its one context used.              *)
(***************************************************************************)
SettingKind == {"config"}

Named(items) == {item[1] : item \in items}
EnvOf(items) == [name \in Named(items) |-> (CHOOSE item \in items : item[1] = name)[2]]

Environment == {items \in UNION {kSubset(k, Items) : k \in 0 .. MaxItems} : Cardinality(Named(items)) = Cardinality(items)}
File        == UNION {[1 .. k -> FileLines] : k \in 0 .. MaxItems}

TryConfig ==
  May("config") /\ \E build \in {"FIPS", "non_FIPS"}, hardware, device, override \in BOOLEAN,
                      items \in Environment, file \in File :
    input' = <<"config", Unloaded(build, hardware, device), EnvOf(items), override, file>>

Loaded == Load(input[2], input[3], input[4], input[5], TRUE)

CallLoad == Is("config") /\ input' = <<"settings", NewContext(Loaded)>>

ValuesOf(id) ==
  CASE id = "ICC_FIPS_APPROVED_MODE" -> {"NULL", "on", "off", "other"}
    [] id = "ICC_INDUCED_FAILURE"    -> {<<>>} \cup {<<n>> : n \in Failures}
    [] id = "ICC_FIPS_CALLBACK"      -> {"first", "second"}
    [] OTHER                         -> {"any"}

CallSetValue ==
  Is("settings") /\ \E id \in ValueID : \E value \in ValuesOf(id) :
    input' = <<"settings", SetValue(input[2], id, value).s>>

CallAttach     == Is("settings") /\ input' = <<"settings", Attached(input[2])>>
CallNewContext == Is("settings") /\ input' = <<"settings", NewContext(input[2])>>

SettingsNext == TryConfig \/ CallLoad \/ CallSetValue \/ CallAttach \/ CallNewContext

SettingsSpec == input \in {<<kind>> : kind \in SettingKind} /\ [][SettingsNext]_input

-----------------------------------------------------------------------------
\* All settings in the order in which they are read.
InOrder(env, file) == Env(env) \o ReadConfigItems(file)

At(settings, name) == {i \in DOMAIN settings : settings[i][1] = name}

\* The places where a source is asked for that is there.
Chosen(s, settings) ==
  {i \in At(settings, "ICC_TRNG") :
     LET trng == checkTRNGAlias(s, settings[i][2]) IN trng \in Sources /\ Avail(s, trng)}

\* What the source should be: the last choice, else what the build says.
SourceFor(s, settings, override) ==
  LET choices == Chosen(s, settings)
      pretend == override /\ At(settings, "ICC_TRNG") = {}
  IN  CASE s.build # "FIPS" /\ pretend -> "TRNG_FIPS"
        [] choices # {}                 -> checkTRNGAlias(s, settings[Max(choices)][2])
        [] s.build = "FIPS" /\ choices = {} -> "TRNG_FIPS"
        [] OTHER                        -> IF s.hardware THEN "TRNG_HW" ELSE "TRNG_OS"

\* The generator was chosen before a list was read that excludes it.
ChosenBefore(prng, settings) ==
  \E i \in At(settings, "ICC_RANDOM_GENERATOR"), j \in At(settings, "ICC_RNG_EXCLUDED") :
    i < j /\ settings[i][2] = prng

LoadedAsAsked(s, env, override, file) ==
  LET settings == InOrder(env, file)
      loaded   == Load(s, env, override, file, TRUE)
      unread   == Load(s, env, override, file, FALSE)
      first    == NewContext(loaded)
  IN  /\ unread = Load(s, env, override, <<>>, TRUE)
      /\ first.trng = SourceFor(s, settings, override)
      /\ NewContext(first).trng = first.trng
      /\ loaded.lie => override \/ (s.build = "FIPS" /\ loaded.trng # "TRNG_FIPS")
      /\ first.pcb.fips /\ ~loaded.post => At(settings, "ICC_TRNG") # {}
      /\ Excluded(loaded.prng, loaded.excluded) => loaded.prng = s.prng \/ ChosenBefore(loaded.prng, settings)

\* What the default generator is.
Strong256(name) == TheType(name).FIPS /\ 256 \in Range(TheType(name).strengths)

ContextSound(s) ==
  /\ s.mode => s.trng = "TRNG_FIPS"
  /\ s.build = "FIPS" => s.post /\ (s.trng = "TRNG_FIPS" => s.mode) /\ (~s.lie => s.mode)
  /\ s.build # "FIPS" /\ s.pcb.fips => s.trng = "TRNG_FIPS"
  /\ s.build # "FIPS" /\ s.lie => s.mode /\ s.post
  /\ Strong256(s.prng)

ValuesSound(s) ==
  \A id \in ValueID : \A value \in ValuesOf(id) :
    LET call == SetValue(s, id, value)  told == GetValue(call.s, id, 20)
    IN  /\ call.rv # "OK" => call.s = s
        /\ call.rv = "OK" => told = Get("OK", IF id = "ICC_INDUCED_FAILURE" THEN value[1] ELSE value)
        /\ s.pcb.lock => call.s.pcb.fips = s.pcb.fips
        /\ s.pcb.callback # "none" =>
             call.s.pcb.callback = s.pcb.callback /\ (s.build = "FIPS" /\ ~s.lie => call.s.pcb.fips)

(***************************************************************************)
(* The configuration gives what was asked for (ICCLoad, EnvVars,           *)
(* SetParams, lib_init, icclib.c, and GetDefaultTrng, ICC_NRBG.c): the     *)
(* source is the last one chosen that is there, and no upgrade replaces    *)
(* it; the pretended mode ends once a source was chosen; the self test is  *)
(* run unless a choice of source put a build that is not FIPS into the     *)
(* mode; the default generator is excluded only by a list read after it.   *)
(***************************************************************************)
SettingsSound == Is("config") => LoadedAsAsked(input[2], input[3], input[4], input[5])

(***************************************************************************)
(* However a library was configured and whatever is set on its contexts    *)
(* since (SetValue, GetValue, lib_init, lib_attach, icclib.c): OpenSSL is  *)
(* in FIPS mode with the FIPS source only, and so are the contexts of a    *)
(* build that is not FIPS; a FIPS build has run its self test, and is in   *)
(* the mode unless it says it pretends; the default generator is approved  *)
(* and gives 256 bits.  A value refused changes nothing, one accepted is   *)
(* the one got, and an attached context keeps its mode and its callback.   *)
(***************************************************************************)
ContextsSound == Is("settings") => ContextSound(input[2]) /\ ValuesSound(input[2])
=============================================================================
