--------------------------- MODULE RandPoolProofs ---------------------------
(***************************************************************************)
(* Proofs about RandPool for any set of threads and any number of slots.   *)
(***************************************************************************)
EXTENDS RandPool, TLAPS

\* A thread's slot is one of the slots in use.
LEMMA SlotOfThread ==
  ASSUME NEW t \in Thread, NEW n \in 1 .. MaxSlots
  PROVE  t % n \in Slot
  <1>1. t \in Nat /\ MaxSlots \in Nat
    BY RandPoolAssumption
  <1> QED
    BY <1>1 DEF Slot

\* The context a thread uses is one of those there are.
LEMMA MineType ==
  ASSUME TypeOK, NEW t \in Thread
  PROVE  /\ PoolOf(op[t]) \in Pool /\ tid[t] \in Slot
         /\ Mine(t) \in {"NULL", "INIT", "RUN", "ERROR"}
  <1>1. PoolOf(op[t]) \in Pool /\ tid[t] \in Slot
    BY DEF TypeOK, PoolOf, Pool
  <1> QED
    BY <1>1 DEF TypeOK, Mine

\* What a request or a reseed leaves a context in is a state the callbacks know,
\* and a context that has failed stays failed.
LEMMA Outcome ==
  ASSUME NEW t \in Thread, NEW s, TypeOK, Mine(t) # "NULL",
         \/ s \in Outcomes(t, AfterReSeed(Mine(t)))
         \/ s \in Outcomes(t, AfterGenerate(Mine(t)))
         \/ s = Mine(t)
  PROVE  /\ Seen(s) \in {"INIT", "RUN", "ERROR"}
         /\ Mine(t) = "ERROR" => Seen(s) = "ERROR" /\ s \notin Answers
         /\ s \in Outcomes(t, AfterReSeed(Mine(t))) /\ s \notin Answers => Seen(s) = "ERROR"
  <1>1. Mine(t) \in {"INIT", "RUN", "ERROR"}
    BY MineType
  <1>2. s \in {"INIT", "RUN", "RESEED", "PARAM", "ERROR", "CRIT"}
    BY <1>1 DEF Outcomes, AfterReSeed, AfterGenerate, Usable, Failed
  <1>3. s \in Outcomes(t, AfterReSeed(Mine(t))) => s # "INIT"
    BY <1>1 DEF Outcomes, AfterReSeed, Usable, Failed
  <1>4. Mine(t) = "ERROR" => s \in Failed
    BY DEF Outcomes, AfterReSeed, AfterGenerate, Usable, Failed
  <1> QED
    BY <1>2, <1>3, <1>4 DEF Seen, Answers, Failed

\* A thread that is about to use a context has one.
HasContext == \A t \in Thread : pc[t] = "use" => Mine(t) # "NULL"

-----------------------------------------------------------------------------
(***************************************************************************)
(* Types.                                                                  *)
(***************************************************************************)
\* A state known to the callbacks may be stored.
LEMMA SetMineType ==
  ASSUME TypeOK, NEW t \in Thread, NEW s, SetMine(t, s),
         Seen(s) \in {"NULL", "INIT", "RUN", "ERROR"}
  PROVE  /\ gen' \in [Pool -> [Slot -> {"NULL", "INIT", "RUN", "ERROR"}]]
         /\ \A p \in Pool, i \in Slot :
              gen'[p][i] = IF p = PoolOf(op[t]) /\ i = tid[t] THEN Seen(s) ELSE gen[p][i]
  <1>1. PoolOf(op[t]) \in Pool /\ tid[t] \in Slot
    BY MineType
  <1>2. gen \in [Pool -> [Slot -> {"NULL", "INIT", "RUN", "ERROR"}]]
    BY DEF TypeOK
  <1>3. gen' = [gen EXCEPT ![PoolOf(op[t])][tid[t]] = Seen(s)]
    BY DEF SetMine
  <1> HIDE DEF Seen, PoolOf, Pool, Slot
  <1> QED
    BY <1>1, <1>2, <1>3

\* The typed parts of entering a callback.
LEMMA EnterType ==
  ASSUME TypeOK, NEW t \in Thread, NEW o \in Op,
         NEW n \in {"some", "zero", "invalid"}, Enter(t, o, n)
  PROVE  /\ pc' \in [Thread -> Pc] /\ op' \in [Thread -> Op]
         /\ tid' \in [Thread -> Slot]
         /\ size' \in [Thread -> {"some", "zero", "invalid"}]
         /\ bad' \in [Thread -> BOOLEAN]
  <1>1. t % slots \in Slot
    BY SlotOfThread DEF TypeOK
  <1>2. "lock" \in Pc /\ "report" \in Pc
    BY DEF Pc
  <1>3. tid' \in [Thread -> Slot]
    BY <1>1 DEF TypeOK, Enter
  <1>4. op' \in [Thread -> Op] /\ size' \in [Thread -> {"some", "zero", "invalid"}]
    BY DEF TypeOK, Enter
  <1>5. pc' \in [Thread -> Pc] /\ bad' \in [Thread -> BOOLEAN]
    BY <1>2, Zenon DEF TypeOK, Enter, Goto, Fails
  <1> QED
    BY <1>3, <1>4, <1>5

\* Type correctness is kept by every step: what is stored in a slot is a
\* state the callbacks know, and a thread's slot is within the arrays.
LEMMA TypeStep ==
  ASSUME TypeOK, HasContext, [Next]_vars
  PROVE  TypeOK'
  <1> USE DEF callvars
  <1>1. CASE SetRNGInstances
    BY <1>1 DEF TypeOK, SetRNGInstances
  <1>2. CASE RAND_FIPS_init
    BY <1>2, Zenon DEF TypeOK, RAND_FIPS_init
  <1>3. CASE fips_rand_cleanup
    BY <1>3 DEF TypeOK, fips_rand_cleanup, NoContexts
  <1>4. ASSUME NEW t \in Thread, Call(t) PROVE TypeOK'
    <2>1. PICK o \in Op, n \in Sizes : Enter(t, o, n)
      BY <1>4 DEF Call
    <2>2. n \in {"some", "zero", "invalid"}
      BY RandPoolAssumption
    <2>3. UNCHANGED <<status, slots, gen, owner, fatal, crashed, key, fresh>>
      BY <1>4, <2>1 DEF Call, Enter
    <2> QED
      BY <2>1, <2>2, <2>3, EnterType DEF TypeOK
  <1>5. ASSUME NEW t \in Thread, StartKey(t) PROVE TypeOK'
    <2>1. Enter(t, "seed", "zero") /\ key' = key \cup {t} /\ fresh' = fresh \ {t}
      BY <1>5 DEF StartKey
    <2>2. UNCHANGED <<status, slots, gen, owner, fatal, crashed>>
      BY <2>1 DEF Enter
    <2>3. "seed" \in Op
      BY DEF Op
    <2>4. key' \subseteq Thread /\ fresh' \subseteq key'
      BY <2>1 DEF TypeOK
    <2> QED
      BY <2>1, <2>2, <2>3, <2>4, EnterType DEF TypeOK
  <1>6. ASSUME NEW t \in Thread, DrawKey(t) PROVE TypeOK'
    <2>1. Enter(t, "bytes", "some") /\ UNCHANGED <<key, fresh>>
      BY <1>6 DEF DrawKey
    <2>2. UNCHANGED <<status, slots, gen, owner, fatal, crashed>>
      BY <2>1 DEF Enter
    <2>3. "bytes" \in Op
      BY DEF Op
    <2> QED
      BY <2>1, <2>2, <2>3, EnterType DEF TypeOK
  <1>7. ASSUME NEW t \in Thread, EndKey(t) PROVE TypeOK'
    BY <1>7 DEF TypeOK, EndKey
  <1>8. ASSUME NEW t \in Thread, Lock(t) PROVE TypeOK'
    <2>1. owner' \in [Pool -> [Slot -> Thread \cup {Nobody}]]
      BY <1>8, MineType DEF TypeOK, Lock
    <2>2. pc' \in [Thread -> Pc]
      BY <1>8 DEF TypeOK, Lock, Goto, Pc
    <2> QED
      BY <1>8, <2>1, <2>2 DEF TypeOK, Lock
  <1>9. ASSUME NEW t \in Thread, Make(t) PROVE TypeOK'
    <2>1. pc' \in [Thread -> Pc]
      BY <1>9 DEF TypeOK, Make, Goto, Pc
    <2>2. bad' \in [Thread -> BOOLEAN]
      BY <1>9, Zenon DEF TypeOK, Make, Fails
    <2>3. gen' \in [Pool -> [Slot -> {"NULL", "INIT", "RUN", "ERROR"}]]
      <3>1. Seen("INIT") = "INIT"
        BY DEF Seen, Answers, Failed
      <3> QED
        BY <1>9, <3>1, SetMineType DEF Make, TypeOK
    <2>4. fresh' \subseteq key /\ key' = key
      BY <1>9 DEF TypeOK, Make, Sharers
    <2> QED
      BY <1>9, <2>1, <2>2, <2>3, <2>4 DEF TypeOK, Make
  <1>10. ASSUME NEW t \in Thread, Reseed(t) PROVE TypeOK'
    <2>1. pc' \in [Thread -> Pc]
      BY <1>10 DEF TypeOK, Reseed, Goto, Pc
    <2>2. bad' \in [Thread -> BOOLEAN]
      <3>1. \A s : (s \notin Answers) \in BOOLEAN
        OBVIOUS
      <3> QED
        BY <1>10, <3>1, Zenon DEF TypeOK, Reseed, Fails
    <2>3. gen' \in [Pool -> [Slot -> {"NULL", "INIT", "RUN", "ERROR"}]]
      <3>1. Mine(t) # "NULL"
        BY <1>10 DEF Reseed, HasContext
      <3>2. CASE UNCHANGED gen
        BY <3>2 DEF TypeOK
      <3>3. CASE \E s \in Outcomes(t, AfterReSeed(Mine(t))) : SetMine(t, s)
        <4>1. PICK s \in Outcomes(t, AfterReSeed(Mine(t))) : SetMine(t, s)
          BY <3>3
        <4>2. Seen(s) \in {"INIT", "RUN", "ERROR"}
          BY <3>1, Outcome
        <4> QED
          BY <4>1, <4>2, SetMineType
      <3> QED
        BY <1>10, <3>2, <3>3 DEF Reseed
    <2>4. fresh' \subseteq key /\ key' = key
      BY <1>10 DEF TypeOK, Reseed, Sharers
    <2> QED
      BY <1>10, <2>1, <2>2, <2>3, <2>4 DEF TypeOK, Reseed
  <1>11. ASSUME NEW t \in Thread, Generate(t) PROVE TypeOK'
    <2>1. pc' \in [Thread -> Pc]
      BY <1>11 DEF TypeOK, Generate, Goto, Pc
    <2>2. bad' \in [Thread -> BOOLEAN]
      <3>1. \A s : (s \notin Answers) \in BOOLEAN
        OBVIOUS
      <3> QED
        BY <1>11, <3>1, Zenon DEF TypeOK, Generate, Fails
    <2>3. gen' \in [Pool -> [Slot -> {"NULL", "INIT", "RUN", "ERROR"}]]
      <3>1. Mine(t) # "NULL"
        BY <1>11 DEF Generate, HasContext
      <3>2. PICK s : /\ SetMine(t, s)
                     /\ s \in Outcomes(t, AfterGenerate(Mine(t))) \/ s = Mine(t)
        BY <1>11 DEF Generate
      <3>3. Seen(s) \in {"INIT", "RUN", "ERROR"}
        BY <3>1, <3>2, Outcome
      <3> QED
        BY <3>2, <3>3, SetMineType
    <2> QED
      BY <1>11, <2>1, <2>2, <2>3 DEF TypeOK, Generate
  <1>12. ASSUME NEW t \in Thread, Unlock(t) PROVE TypeOK'
    <2>1. owner' \in [Pool -> [Slot -> Thread \cup {Nobody}]]
      BY <1>12, MineType DEF TypeOK, Unlock
    <2>2. 0 \in Slot
      BY RandPoolAssumption DEF Slot
    <2>3. pc' \in [Thread -> Pc] /\ op' \in [Thread -> Op] /\ tid' \in [Thread -> Slot]
          /\ size' \in [Thread -> {"some", "zero", "invalid"}]
      <3>1. CASE Return(t)
        BY <2>2, <3>1 DEF TypeOK, Return, Goto, Pc, Op
      <3>2. CASE Goto(t, "report") /\ UNCHANGED <<op, tid, size, bad>>
        BY <3>2 DEF TypeOK, Goto, Pc
      <3> QED
        BY <1>12, <3>1, <3>2 DEF Unlock
    <2>4. bad' \in [Thread -> BOOLEAN]
      BY <1>12, Zenon DEF TypeOK, Unlock, Return, Fails
    <2> QED
      BY <1>12, <2>1, <2>3, <2>4 DEF TypeOK, Unlock
  <1>13. ASSUME NEW t \in Thread, Report(t) PROVE TypeOK'
    <2>1. 0 \in Slot
      BY RandPoolAssumption DEF Slot
    <2>2. pc' \in [Thread -> Pc] /\ op' \in [Thread -> Op] /\ tid' \in [Thread -> Slot]
          /\ size' \in [Thread -> {"some", "zero", "invalid"}]
      BY <1>13, <2>1 DEF TypeOK, Report, Return, Goto, Pc, Op
    <2>3. bad' \in [Thread -> BOOLEAN]
      BY <1>13, Zenon DEF TypeOK, Report, Return, Fails
    <2> QED
      BY <1>13, <2>2, <2>3 DEF TypeOK, Report
  <1>14. CASE UNCHANGED vars
    BY <1>14 DEF TypeOK, vars
  <1> QED
    BY <1>1, <1>2, <1>3, <1>4, <1>5, <1>6, <1>7, <1>8, <1>9, <1>10, <1>11,
       <1>12, <1>13, <1>14 DEF Next, Step

\* No step takes away the context a thread is about to use: contexts are freed
\* only when no callback is in progress.
LEMMA ContextStep ==
  ASSUME TypeOK, HasContext, [Next]_vars
  PROVE  HasContext'
  <1> USE DEF callvars
  <1> SUFFICES ASSUME NEW u \in Thread, pc'[u] = "use" PROVE Mine(u)' # "NULL"
    BY DEF HasContext
  <1>1. CASE pc[u] = "use" /\ UNCHANGED <<gen, op, tid>>
    BY <1>1 DEF HasContext, Mine
  <1>2. CASE SetRNGInstances \/ RAND_FIPS_init \/ UNCHANGED vars
    BY <1>1, <1>2 DEF SetRNGInstances, RAND_FIPS_init, vars
  <1>3. CASE fips_rand_cleanup
    BY <1>3 DEF fips_rand_cleanup, Quiet
  <1>4. ASSUME NEW t \in Thread, NEW o, NEW n, Enter(t, o, n) PROVE Mine(u)' # "NULL"
    <2>1. u # t
      BY <1>4 DEF Enter, Goto, TypeOK
    <2> QED
      BY <1>4, <2>1 DEF Enter, Goto, TypeOK, HasContext, Mine
  <1>5. ASSUME NEW t \in Thread, EndKey(t) PROVE Mine(u)' # "NULL"
    BY <1>1, <1>5 DEF EndKey
  <1>6. ASSUME NEW t \in Thread, Lock(t) PROVE Mine(u)' # "NULL"
    BY <1>1, <1>6 DEF Lock, Goto, TypeOK
  <1>7. ASSUME NEW t \in Thread, Make(t) \/ Reseed(t) \/ Generate(t)
        PROVE  Mine(u)' # "NULL"
    <2>1. UNCHANGED <<op, tid>>
      BY <1>7 DEF Make, Reseed, Generate
    <2>2. PoolOf(op[u]) \in Pool /\ tid[u] \in Slot
      BY MineType
    <2>3. CASE UNCHANGED gen /\ (pc'[t] = "use" => Mine(t) # "NULL")
      <3>1. pc[u] = "use" \/ u = t
        BY <1>7 DEF Make, Reseed, Generate, Goto, TypeOK
      <3>2. Mine(u) # "NULL"
        BY <2>3, <3>1 DEF HasContext
      <3> QED
        BY <2>1, <2>3, <3>2 DEF Mine
    <2>4. ASSUME NEW s, SetMine(t, s), Seen(s) \in {"INIT", "RUN", "ERROR"}
          PROVE  Mine(u)' # "NULL"
      <3>1. pc[u] = "use" \/ u = t
        BY <1>7 DEF Make, Reseed, Generate, Goto, TypeOK
      <3>2. \A p \in Pool, i \in Slot :
              gen'[p][i] = IF p = PoolOf(op[t]) /\ i = tid[t] THEN Seen(s) ELSE gen[p][i]
        BY <2>4, SetMineType
      <3>3. Mine(u)' = IF u = t \/ (PoolOf(op[u]) = PoolOf(op[t]) /\ tid[u] = tid[t])
                       THEN Seen(s) ELSE Mine(u)
        BY <2>1, <2>2, <3>2 DEF Mine
      <3>4. pc[u] = "use" => Mine(u) # "NULL"
        BY DEF HasContext
      <3> QED
        BY <2>4, <3>1, <3>3, <3>4
    <2>5. CASE Make(t)
      <3>1. Seen("INIT") = "INIT"
        BY DEF Seen, Answers, Failed
      <3> QED
        BY <2>3, <2>4, <2>5, <3>1 DEF Make, Goto, TypeOK
    <2>6. CASE Reseed(t)
      <3>1. Mine(t) # "NULL"
        BY <2>6 DEF Reseed, HasContext
      <3>2. ASSUME NEW s \in Outcomes(t, AfterReSeed(Mine(t))), SetMine(t, s)
            PROVE  Mine(u)' # "NULL"
        <4>1. Seen(s) \in {"INIT", "RUN", "ERROR"}
          BY <3>1, <3>2, Outcome
        <4> QED
          BY <2>4, <3>2, <4>1
      <3> QED
        BY <2>3, <2>6, <3>2 DEF Reseed, Goto, TypeOK
    <2>7. CASE Generate(t)
      <3>1. Mine(t) # "NULL"
        BY <2>7 DEF Generate, HasContext
      <3>2. PICK s : /\ SetMine(t, s)
                     /\ s \in Outcomes(t, AfterGenerate(Mine(t))) \/ s = Mine(t)
        BY <2>7 DEF Generate
      <3>3. Seen(s) \in {"INIT", "RUN", "ERROR"}
        BY <3>1, <3>2, Outcome
      <3> QED
        BY <2>4, <3>2, <3>3
    <2> QED
      BY <1>7, <2>5, <2>6, <2>7
  <1>8. ASSUME NEW t \in Thread, Unlock(t) \/ Report(t) PROVE Mine(u)' # "NULL"
    <2>1. u # t /\ pc[u] = "use"
      BY <1>8 DEF Unlock, Report, Return, Goto, TypeOK
    <2>2. gen' = gen /\ op'[u] = op[u] /\ tid'[u] = tid[u]
      BY <1>8, <2>1 DEF Unlock, Report, Return, TypeOK
    <2> QED
      BY <2>1, <2>2 DEF HasContext, Mine
  <1> QED
    BY <1>2, <1>3, <1>4, <1>5, <1>6, <1>7, <1>8
    DEF Next, Step, Call, StartKey, DrawKey

\* The variables keep their types, for any number of threads and slots.
THEOREM TypeCorrect == Spec => []TypeOK
  <1>1. Init => TypeOK /\ HasContext
    <2> SUFFICES ASSUME Init PROVE TypeOK /\ HasContext
      OBVIOUS
    <2>1. 0 \in Slot /\ MaxSlots \in Nat
      BY RandPoolAssumption DEF Slot
    <2>2. TypeOK
      BY <2>1 DEF Init, TypeOK, NoContexts, Pc, Op
    <2> QED
      BY <2>2 DEF Init, HasContext
  <1>2. TypeOK /\ HasContext /\ [Next]_vars => (TypeOK /\ HasContext)'
    BY TypeStep, ContextStep
  <1> QED
    BY <1>1, <1>2, PTL DEF Spec

-----------------------------------------------------------------------------
(***************************************************************************)
(* Exclusion.                                                              *)
(***************************************************************************)
\* Who is inside a slot holds its mutex: kept by every step.
LEMMA OwnsStep ==
  ASSUME TypeOK, InsideOwns, [Next]_vars
  PROVE  InsideOwns'
  <1> USE DEF callvars
  <1> SUFFICES ASSUME NEW u \in Thread, Inside(u)'
               PROVE  owner'[PoolOf(op'[u])][tid'[u]] = u
    BY DEF InsideOwns, PoolOf
  <1>1. CASE SetRNGInstances \/ RAND_FIPS_init \/ fips_rand_cleanup \/ UNCHANGED vars
    BY <1>1 DEF SetRNGInstances, RAND_FIPS_init, fips_rand_cleanup, vars, InsideOwns, Inside
  <1>2. ASSUME NEW t \in Thread, NEW o, NEW n, Enter(t, o, n)
        PROVE  owner'[PoolOf(op'[u])][tid'[u]] = u
    <2>1. u # t
      BY <1>2 DEF Enter, Goto, TypeOK, Inside
    <2>2. Inside(u) /\ owner' = owner /\ op'[u] = op[u] /\ tid'[u] = tid[u]
      BY <1>2, <2>1 DEF Enter, Goto, TypeOK, Inside
    <2> QED
      BY <2>2 DEF InsideOwns
  <1>3. ASSUME NEW t \in Thread, EndKey(t) PROVE owner'[PoolOf(op'[u])][tid'[u]] = u
    BY <1>3 DEF EndKey, InsideOwns, Inside
  <1>4. ASSUME NEW t \in Thread, Lock(t) PROVE owner'[PoolOf(op'[u])][tid'[u]] = u
    <2>1. UNCHANGED <<op, tid>> /\ (u # t => Inside(u))
      BY <1>4 DEF Lock, Goto, TypeOK, Inside
    <2>2. \A p \in Pool, i \in Slot :
            owner'[p][i] = IF p = PoolOf(op[t]) /\ i = tid[t] THEN t ELSE owner[p][i]
      BY <1>4, MineType DEF Lock, TypeOK
    <2>3. owner[PoolOf(op[t])][tid[t]] = Nobody /\ Nobody \notin Thread
      BY <1>4, RandPoolAssumption DEF Lock
    <2> QED
      BY <2>1, <2>2, <2>3, MineType DEF InsideOwns
  <1>5. ASSUME NEW t \in Thread, Make(t) \/ Reseed(t) \/ Generate(t)
        PROVE  owner'[PoolOf(op'[u])][tid'[u]] = u
    <2>1. UNCHANGED <<owner, op, tid>> /\ Inside(u)
      BY <1>5 DEF Make, Reseed, Generate, Goto, TypeOK, Inside
    <2> QED
      BY <2>1 DEF InsideOwns
  <1>6. ASSUME NEW t \in Thread, Unlock(t) PROVE owner'[PoolOf(op'[u])][tid'[u]] = u
    <2>1. u # t
      BY <1>6 DEF Unlock, Return, Goto, TypeOK, Inside
    <2>2. Inside(u) /\ Inside(t) /\ op'[u] = op[u] /\ tid'[u] = tid[u]
      BY <1>6, <2>1 DEF Unlock, Return, Goto, TypeOK, Inside
    <2>3. \A p \in Pool, i \in Slot :
            owner'[p][i] = IF p = PoolOf(op[t]) /\ i = tid[t] THEN Nobody ELSE owner[p][i]
      BY <1>6, MineType DEF Unlock, TypeOK
    <2> QED
      BY <2>1, <2>2, <2>3, MineType DEF InsideOwns
  <1>7. ASSUME NEW t \in Thread, Report(t) PROVE owner'[PoolOf(op'[u])][tid'[u]] = u
    <2>1. u # t
      BY <1>7 DEF Report, Return, Goto, TypeOK, Inside
    <2>2. Inside(u) /\ owner' = owner /\ op'[u] = op[u] /\ tid'[u] = tid[u]
      BY <1>7, <2>1 DEF Report, Return, Goto, TypeOK, Inside
    <2> QED
      BY <2>2 DEF InsideOwns
  <1> QED
    BY <1>1, <1>2, <1>3, <1>4, <1>5, <1>6, <1>7
    DEF Next, Step, Call, StartKey, DrawKey

\* Who is inside a slot holds its mutex, from the lock to the unlock of every
\* callback (fips-prng-RAND.c), whatever fails in between.
THEOREM Owners == Spec => []InsideOwns
  <1>1. Init => InsideOwns
    BY DEF Init, InsideOwns, Inside
  <1>2. TypeOK /\ InsideOwns /\ [Next]_vars => InsideOwns'
    BY OwnsStep
  <1> QED
    BY <1>1, <1>2, TypeCorrect, PTL DEF Spec

\* The mutexes of the slots keep threads apart: no two are ever inside the same
\* context, whatever fails and however many threads share a slot.
THEOREM Exclusion == Spec => []OneInside
  <1>1. InsideOwns => OneInside
    BY DEF InsideOwns, OneInside
  <1> QED
    BY <1>1, Owners, PTL

-----------------------------------------------------------------------------
(***************************************************************************)
(* Seeds of keys.                                                          *)
(***************************************************************************)
\* t has asked for its new seed and has not been answered yet.
Seeding(t) == op[t] = "seed" /\ pc[t] \in {"lock", "make", "use"}

\* A key is generated while the library is loaded, with the slot and the two
\* callbacks of its thread.
KeyCalls ==
  /\ key # {} => status = "INIT"
  /\ \A t \in key : pc[t] # "idle" => op[t] \in {"seed", "bytes"} /\ tid[t] = t % slots
  /\ \A t \in key : op[t] = "seed" => size[t] = "zero"

\* A thread that was not given its new seed has no generator to draw from: it
\* could not be made, or it has failed.
StaleIsDead ==
  \A t \in key \ fresh : ~Seeding(t) => gen["tctx"][t % slots] \in {"NULL", "ERROR"}

KeyInv == HasContext /\ KeyCalls /\ StaleIsDead

\* The calls of a key generation, kept by every step.
LEMMA KeyCallsStep ==
  ASSUME TypeOK, KeyCalls, [Next]_vars
  PROVE  KeyCalls'
  <1> USE DEF callvars
  <1>1. CASE SetRNGInstances \/ RAND_FIPS_init \/ fips_rand_cleanup
    BY <1>1 DEF SetRNGInstances, RAND_FIPS_init, fips_rand_cleanup, Quiet, KeyCalls
  <1>2. CASE UNCHANGED vars
    BY <1>2 DEF vars, KeyCalls
  <1>3. ASSUME NEW t \in Thread, Call(t) PROVE KeyCalls'
    <2>1. PICK o \in Op, n \in Sizes : Enter(t, o, n)
      BY <1>3 DEF Call
    <2>2. t \notin key /\ key' = key /\ status' = status /\ slots' = slots
      BY <1>3, <2>1 DEF Call, Enter
    <2>3. \A u \in key : /\ pc'[u] = pc[u] /\ op'[u] = op[u]
                         /\ tid'[u] = tid[u] /\ size'[u] = size[u]
      BY <2>1, <2>2 DEF Enter, Goto, TypeOK
    <2> QED
      BY <2>2, <2>3 DEF KeyCalls
  <1>4. ASSUME NEW t \in Thread, StartKey(t) PROVE KeyCalls'
    <2>1. /\ Enter(t, "seed", "zero") /\ key' = key \cup {t}
          /\ status' = status /\ slots' = slots /\ status = "INIT"
      BY <1>4 DEF StartKey, Enter
    <2>2. /\ op'[t] = "seed" /\ size'[t] = "zero" /\ tid'[t] = t % slots
          /\ \A u \in key \ {t} : /\ pc'[u] = pc[u] /\ op'[u] = op[u]
                                 /\ tid'[u] = tid[u] /\ size'[u] = size[u]
      BY <2>1 DEF Enter, Goto, TypeOK
    <2> QED
      BY <2>1, <2>2 DEF KeyCalls
  <1>5. ASSUME NEW t \in Thread, DrawKey(t) PROVE KeyCalls'
    <2>1. /\ Enter(t, "bytes", "some") /\ t \in key /\ key' = key
          /\ status' = status /\ slots' = slots
      BY <1>5 DEF DrawKey, Enter
    <2>2. /\ op'[t] = "bytes" /\ tid'[t] = t % slots
          /\ \A u \in key \ {t} : /\ pc'[u] = pc[u] /\ op'[u] = op[u]
                                 /\ tid'[u] = tid[u] /\ size'[u] = size[u]
      BY <2>1 DEF Enter, Goto, TypeOK
    <2> QED
      BY <2>1, <2>2 DEF KeyCalls
  <1>6. ASSUME NEW t \in Thread, EndKey(t) PROVE KeyCalls'
    BY <1>6 DEF EndKey, KeyCalls
  <1>7. ASSUME NEW t \in Thread, Lock(t) \/ Make(t) \/ Reseed(t) \/ Generate(t)
        PROVE  KeyCalls'
    <2>1. UNCHANGED <<key, status, slots, op, tid, size>>
      BY <1>7 DEF Lock, Make, Reseed, Generate
    <2>2. pc[t] # "idle" /\ \A u \in Thread \ {t} : pc'[u] = pc[u]
      BY <1>7 DEF Lock, Make, Reseed, Generate, Goto, TypeOK
    <2> QED
      BY <2>1, <2>2 DEF KeyCalls, TypeOK
  <1>8. ASSUME NEW t \in Thread, Unlock(t) \/ Report(t) PROVE KeyCalls'
    <2>1. UNCHANGED <<key, status, slots>>
      BY <1>8 DEF Unlock, Report
    <2>2. pc[t] # "idle"
      BY <1>8 DEF Unlock, Report
    <2>3. \A u \in Thread \ {t} : /\ pc'[u] = pc[u] /\ op'[u] = op[u]
                                /\ tid'[u] = tid[u] /\ size'[u] = size[u]
      BY <1>8 DEF Unlock, Report, Return, Goto, TypeOK
    <2>4. \/ op'[t] = op[t] /\ tid'[t] = tid[t] /\ size'[t] = size[t]
          \/ pc'[t] = "idle" /\ op'[t] = "seed" /\ size'[t] = "zero"
      BY <1>8 DEF Unlock, Report, Return, Goto, TypeOK
    <2> QED
      BY <2>1, <2>2, <2>3, <2>4 DEF KeyCalls, TypeOK
  <1> QED
    BY <1>1, <1>2, <1>3, <1>4, <1>5, <1>6, <1>7, <1>8 DEF Next, Step

\* A step that moves t, whose new seed was not refused, and leaves the contexts alone.
LEMMA StaleMoves ==
  ASSUME TypeOK, StaleIsDead, NEW t \in Thread,
         UNCHANGED <<gen, slots, key, fresh>>,
         \A u \in Thread \ {t} : pc'[u] = pc[u] /\ op'[u] = op[u],
         t \in key \ fresh /\ Seeding(t)
           => Seeding(t)' \/ gen["tctx"][t % slots] = "NULL"
  PROVE  StaleIsDead'
  <1> SUFFICES ASSUME NEW u \in key \ fresh, ~Seeding(u)'
               PROVE  gen["tctx"][u % slots] \in {"NULL", "ERROR"}
    BY DEF StaleIsDead, Seeding
  <1>1. u \in Thread
    BY DEF TypeOK
  <1>2. ~Seeding(u) \/ gen["tctx"][u % slots] = "NULL"
    BY <1>1 DEF Seeding
  <1> QED
    BY <1>2 DEF StaleIsDead

\* A step that stores state s in t's context: either every thread that draws
\* from it is served afresh, or it is dead.
LEMMA StaleStores ==
  ASSUME TypeOK, KeyCalls, StaleIsDead, NEW t \in Thread, NEW s,
         SetMine(t, s), Seen(s) \in {"INIT", "RUN", "ERROR"},
         UNCHANGED <<slots, key, op>>, pc[t] # "idle",
         \A u \in Thread \ {t} : pc'[u] = pc[u],
         \/ fresh' = fresh \cup Sharers(t)
         \/ fresh' = fresh /\ Seen(s) = "ERROR"
         \/ fresh' = fresh /\ Mine(t) \notin {"NULL", "ERROR"} /\ ~Seeding(t)
  PROVE  StaleIsDead'
  <1> SUFFICES ASSUME NEW u \in key \ fresh', ~Seeding(u)'
               PROVE  gen'["tctx"][u % slots] \in {"NULL", "ERROR"}
    BY DEF StaleIsDead
  <1>1. u \in Thread /\ u \notin fresh
    BY DEF TypeOK
  <1>2. u % slots \in Slot /\ "tctx" \in Pool
    BY <1>1, SlotOfThread DEF TypeOK, Pool
  <1>3. gen'["tctx"][u % slots] =
          IF "tctx" = PoolOf(op[t]) /\ u % slots = tid[t]
          THEN Seen(s) ELSE gen["tctx"][u % slots]
    BY <1>2, SetMineType
  <1>4. u # t => ~Seeding(u)
    BY <1>1 DEF Seeding
  <1>5. CASE "tctx" = PoolOf(op[t]) /\ u % slots = tid[t]
    <2>1. u \in Sharers(t) /\ u \notin fresh'
      BY <1>5 DEF Sharers
    <2>2. Mine(t) = gen["tctx"][u % slots]
      BY <1>5 DEF Mine
    <2>3. ASSUME ~Seeding(t) PROVE Mine(t) \in {"NULL", "ERROR"}
      BY <1>1, <1>4, <2>2, <2>3 DEF StaleIsDead
    <2>4. Seen(s) = "ERROR"
      BY <2>1, <2>3
    <2> QED
      BY <1>3, <1>5, <2>4
  <1>6. CASE ~("tctx" = PoolOf(op[t]) /\ u % slots = tid[t])
    <2>1. u # t
      BY <1>6 DEF KeyCalls, PoolOf
    <2> QED
      BY <1>1, <1>3, <1>4, <1>6, <2>1 DEF StaleIsDead
  <1> QED
    BY <1>5, <1>6

\* Who was not given its new seed has no generator: kept by every step.
LEMMA StaleStep ==
  ASSUME TypeOK, KeyInv, [Next]_vars
  PROVE  StaleIsDead'
  <1> USE DEF callvars
  <1>0. HasContext /\ KeyCalls /\ StaleIsDead
    BY DEF KeyInv
  <1>1. CASE SetRNGInstances \/ RAND_FIPS_init \/ fips_rand_cleanup
    BY <1>1 DEF SetRNGInstances, RAND_FIPS_init, fips_rand_cleanup, Quiet, StaleIsDead
  <1>2. CASE UNCHANGED vars
    BY <1>0, <1>2 DEF vars, StaleIsDead, Seeding
  <1>3. ASSUME NEW t \in Thread, Call(t) PROVE StaleIsDead'
    <2>1. PICK o \in Op, n \in Sizes : Enter(t, o, n)
      BY <1>3 DEF Call
    <2>2. UNCHANGED <<gen, slots, key, fresh>> /\ t \notin key
      BY <1>3, <2>1 DEF Call, Enter
    <2>3. \A u \in Thread \ {t} : pc'[u] = pc[u] /\ op'[u] = op[u]
      BY <2>1 DEF Enter, Goto, TypeOK
    <2> QED
      BY <1>0, <2>2, <2>3, StaleMoves
  <1>4. ASSUME NEW t \in Thread, StartKey(t) PROVE StaleIsDead'
    <2>1. /\ Enter(t, "seed", "zero")
          /\ key' = key \cup {t} /\ fresh' = fresh \ {t} /\ UNCHANGED <<gen, slots>>
      BY <1>4 DEF StartKey, Enter
    <2>2. op'[t] = "seed" /\ pc'[t] = "lock"
      BY <2>1 DEF Enter, Goto, TypeOK
    <2>3. \A u \in Thread \ {t} : pc'[u] = pc[u] /\ op'[u] = op[u]
      BY <2>1 DEF Enter, Goto, TypeOK
    <2>4. \A u \in (key' \ fresh') \ {t} : u \in key \ fresh /\ u \in Thread
      BY <2>1 DEF TypeOK
    <2> QED
      BY <1>0, <2>1, <2>2, <2>3, <2>4 DEF StaleIsDead, Seeding
  <1>5. ASSUME NEW t \in Thread, DrawKey(t) PROVE StaleIsDead'
    <2>1. Enter(t, "bytes", "some") /\ UNCHANGED <<gen, slots, key, fresh>>
      BY <1>5 DEF DrawKey, Enter
    <2>2. pc[t] = "idle"
      BY <2>1 DEF Enter
    <2>3. \A u \in Thread \ {t} : pc'[u] = pc[u] /\ op'[u] = op[u]
      BY <2>1 DEF Enter, Goto, TypeOK
    <2> QED
      BY <1>0, <2>1, <2>2, <2>3, StaleMoves DEF Seeding
  <1>6. ASSUME NEW t \in Thread, EndKey(t) PROVE StaleIsDead'
    BY <1>0, <1>6 DEF EndKey, StaleIsDead, Seeding
  <1>7. ASSUME NEW t \in Thread, Lock(t) PROVE StaleIsDead'
    <2>1. /\ UNCHANGED <<gen, slots, key, fresh, op>>
          /\ \A u \in Thread \ {t} : pc'[u] = pc[u]
          /\ pc'[t] = "make"
      BY <1>7 DEF Lock, Goto, TypeOK
    <2> QED
      BY <1>0, <2>1, StaleMoves DEF Seeding
  <1>8. ASSUME NEW t \in Thread, Make(t) PROVE StaleIsDead'
    <2>1. /\ UNCHANGED <<slots, key, op>> /\ pc[t] = "make"
          /\ \A u \in Thread \ {t} : pc'[u] = pc[u]
      BY <1>8 DEF Make, Goto, TypeOK
    <2>2. CASE Goto(t, "use") /\ UNCHANGED <<gen, fresh>>
      BY <1>0, <2>1, <2>2, StaleMoves DEF Goto, TypeOK, Seeding
    <2>3. CASE SetMine(t, "INIT") /\ fresh' = fresh \cup Sharers(t)
      <3>1. Seen("INIT") \in {"INIT", "RUN", "ERROR"}
        BY DEF Seen, Answers, Failed
      <3> QED
        BY <1>0, <2>1, <2>3, <3>1, StaleStores
    <2>4. CASE Mine(t) = "NULL" /\ UNCHANGED <<gen, fresh>>
      <3>1. t \in key => gen["tctx"][t % slots] = "NULL"
        BY <1>0, <2>1, <2>4 DEF KeyCalls, Mine, PoolOf
      <3> QED
        BY <1>0, <2>1, <2>4, <3>1, StaleMoves
    <2> QED
      BY <1>8, <2>2, <2>3, <2>4 DEF Make
  <1>9. ASSUME NEW t \in Thread, Reseed(t) PROVE StaleIsDead'
    <2>1. /\ UNCHANGED <<slots, key, op>> /\ pc[t] = "use" /\ op[t] = "seed"
          /\ \A u \in Thread \ {t} : pc'[u] = pc[u]
      BY <1>9 DEF Reseed, Goto, TypeOK
    <2>2. Mine(t) # "NULL"
      BY <1>0, <2>1 DEF HasContext
    <2>3. CASE \E s \in Outcomes(t, AfterReSeed(Mine(t))) :
                 /\ SetMine(t, s)
                 /\ fresh' = IF s \in Answers THEN fresh \cup Sharers(t) ELSE fresh
      <3>1. PICK s \in Outcomes(t, AfterReSeed(Mine(t))) :
              /\ SetMine(t, s)
              /\ fresh' = IF s \in Answers THEN fresh \cup Sharers(t) ELSE fresh
        BY <2>3
      <3>2. /\ Seen(s) \in {"INIT", "RUN", "ERROR"}
            /\ s \notin Answers => Seen(s) = "ERROR"
        BY <2>2, <3>1, Outcome
      <3>3. \/ fresh' = fresh \cup Sharers(t)
            \/ fresh' = fresh /\ Seen(s) = "ERROR"
        BY <3>1, <3>2
      <3> QED
        BY <1>0, <2>1, <3>1, <3>2, <3>3, StaleStores
    <2>4. CASE size[t] = "invalid" /\ UNCHANGED <<gen, fresh>>
      <3>1. t \notin key
        BY <1>0, <2>1, <2>4 DEF KeyCalls
      <3> QED
        BY <1>0, <2>1, <2>4, <3>1, StaleMoves
    <2> QED
      BY <1>9, <2>3, <2>4 DEF Reseed
  <1>10. ASSUME NEW t \in Thread, Generate(t) PROVE StaleIsDead'
    <2>1. /\ UNCHANGED <<slots, key, op, fresh>> /\ pc[t] = "use" /\ op[t] # "seed"
          /\ \A u \in Thread \ {t} : pc'[u] = pc[u]
      BY <1>10 DEF Generate, Goto, TypeOK
    <2>2. Mine(t) # "NULL"
      BY <1>0, <2>1 DEF HasContext
    <2>3. PICK s : /\ SetMine(t, s)
                   /\ s \in Outcomes(t, AfterGenerate(Mine(t))) \/ s = Mine(t)
      BY <1>10 DEF Generate
    <2>4. /\ Seen(s) \in {"INIT", "RUN", "ERROR"}
          /\ Mine(t) = "ERROR" => Seen(s) = "ERROR"
      BY <2>2, <2>3, Outcome
    <2>5. \/ fresh' = fresh /\ Seen(s) = "ERROR"
          \/ fresh' = fresh /\ Mine(t) \notin {"NULL", "ERROR"} /\ ~Seeding(t)
      BY <2>1, <2>2, <2>4 DEF Seeding
    <2> QED
      BY <1>0, <2>1, <2>3, <2>4, <2>5, StaleStores
  <1>11. ASSUME NEW t \in Thread, Unlock(t) \/ Report(t) PROVE StaleIsDead'
    <2>1. /\ UNCHANGED <<gen, slots, key, fresh>> /\ pc[t] \in {"unlock", "report"}
          /\ \A u \in Thread \ {t} : pc'[u] = pc[u] /\ op'[u] = op[u]
      BY <1>11 DEF Unlock, Report, Return, Goto, TypeOK
    <2> QED
      BY <1>0, <2>1, StaleMoves DEF Seeding
  <1> QED
    BY <1>1, <1>2, <1>3, <1>4, <1>5, <1>6, <1>7, <1>8, <1>9, <1>10, <1>11
    DEF Next, Step

\* A request of a key generation that is answered is answered from a new seed.
LEMMA AnsweredFresh ==
  ASSUME TypeOK, KeyInv, [Next]_vars
  PROVE  \A t \in key : op[t] = "bytes" /\ Answered(t) => t \in fresh
  <1> USE DEF callvars
  <1> SUFFICES ASSUME NEW t \in key, op[t] = "bytes", Answered(t), t \notin fresh
               PROVE  FALSE
    OBVIOUS
  <1>1. t \in Thread /\ pc[t] = "use" /\ pc'[t] = "unlock" /\ ~bad'[t]
    BY DEF TypeOK, Answered
  <1>2. Generate(t)
    <2>1. ASSUME NEW u \in Thread, Next,
                 \/ Call(u) \/ StartKey(u) \/ DrawKey(u) \/ EndKey(u) \/ Step(u)
          PROVE  Generate(t)
      <3>1. ASSUME NEW o, NEW n, Enter(u, o, n) PROVE FALSE
        BY <1>1, <3>1 DEF Enter, Goto, TypeOK
      <3>2. ~EndKey(u)
        BY <1>1 DEF EndKey
      <3>3. Step(u)
        BY <2>1, <3>1, <3>2 DEF Call, StartKey, DrawKey
      <3>4. pc' = [pc EXCEPT ![u] = pc'[u]]
        BY <3>3 DEF Step, Lock, Make, Reseed, Generate, Unlock, Report, Return, Goto, TypeOK
      <3>5. u = t
        BY <1>1, <3>4 DEF TypeOK
      <3> QED
        BY <1>1, <3>3, <3>5 DEF Step, Lock, Make, Reseed, Unlock, Report
    <2>2. ~(SetRNGInstances \/ RAND_FIPS_init \/ fips_rand_cleanup \/ UNCHANGED vars)
      BY <1>1 DEF SetRNGInstances, RAND_FIPS_init, fips_rand_cleanup, vars
    <2> QED
      BY <2>1, <2>2 DEF Next
  <1>3. Mine(t) = "ERROR"
    <2>1. Mine(t) # "NULL"
      BY <1>1 DEF KeyInv, HasContext
    <2>2. PoolOf(op[t]) = "tctx" /\ tid[t] = t % slots /\ ~Seeding(t)
      BY <1>1 DEF KeyInv, KeyCalls, PoolOf, Seeding
    <2> QED
      BY <2>1, <2>2 DEF KeyInv, StaleIsDead, Mine
  <1>4. PICK s : /\ s \in Outcomes(t, AfterGenerate(Mine(t))) \/ s = Mine(t)
                 /\ Fails(t, s \notin Answers)
    BY <1>2 DEF Generate
  <1>5. s \notin Answers
    BY <1>1, <1>3, <1>4, Outcome
  <1>6. bad'[t]
    BY <1>1, <1>4, <1>5 DEF Fails, TypeOK
  <1> QED
    BY <1>1, <1>6

\* Whatever fails, and whoever shares the slot, no byte of a key is drawn from a
\* seed older than the key's generation, although the result of RAND_seed is
\* thrown away.
THEOREM FreshKeys == Spec => KeyFromNewSeed
  <1>1. Init => KeyInv
    BY DEF Init, KeyInv, HasContext, KeyCalls, StaleIsDead
  <1>2. TypeOK /\ KeyInv /\ [Next]_vars => KeyInv'
    BY ContextStep, KeyCallsStep, StaleStep DEF KeyInv
  <1>3. TypeOK /\ KeyInv /\ [Next]_vars
          => [\A t \in key : op[t] = "bytes" /\ Answered(t) => t \in fresh]_vars
    BY AnsweredFresh
  <1> QED
    BY <1>1, <1>2, <1>3, TypeCorrect, PTL DEF Spec, KeyFromNewSeed
=============================================================================
