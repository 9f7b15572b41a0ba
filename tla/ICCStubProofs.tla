--------------------------- MODULE ICCStubProofs ---------------------------
(***************************************************************************)
(* Proofs about ICCStub for any finite set of users and any number of      *)
(* paths.                                                                  *)
(***************************************************************************)
EXTENDS ICCStub, FiniteSetTheorems, TLAPS

(***************************************************************************)
(* The inductive invariant, part by part.                                  *)
(***************************************************************************)
\* Without a context kept alive there is one call at a time; with it the first
\* library stays.
OneCall == ~kept => \A u, v \in User : pc[u] # "idle" /\ pc[v] # "idle" => u = v

KeptAlive ==
  kept => /\ lib = 1 /\ initialized /\ mutexInit
          /\ \A u \in User : pc[u] \notin {"search", "probe", "destroy"}

\* The mutex is there for every call that may lock it, and for the calls that
\* the contexts there are will make.
HasMutex ==
  /\ mutexInit => mutex
  /\ \A u \in User : pc[u] \notin {"idle", "start"} \/ ctx[u] # None => mutexInit

\* What a context holds at each point of a call.
Contexts ==
  \A u \in User :
    /\ ctx[u].lib # 0 => ctx[u].lib = lib
    /\ ctx[u].kind \in {"none", "empty"} => ctx[u].lib = 0
    /\ pc[u] \in {"start", "status", "look", "adopt", "uncount", "last", "destroy"} => ctx[u] = None
    /\ pc[u] \in {"search", "probe"} => ctx[u].kind = "empty"
    /\ pc[u] = "count" => ctx[u] # None

\* The library is the one the loader has, and who may be without one.
Library ==
  /\ \A p \in 1 .. Paths : maps[p] = IF p = lib THEN 1 ELSE 0
  /\ lib # 0 => initialized \/ \E u \in User : pc[u] = "probe"
  /\ \A u \in User :
       /\ pc[u] \in {"search", "destroy"} => lib = 0
       /\ pc[u] = "probe" => lib = path[u] /\ \A v \in User : ctx[v].lib = 0
       /\ pc[u] = "adopt" => lib # 0
       /\ pc[u] = "destroy" => Counted = {}

\* A library that stays mapped has a context, or a call that decides about it.
InUse ==
  ~kept /\ lib # 0 =>
    Counted # {} \/ \E u \in User : pc[u] \in {"probe", "count", "last"}

StubInv ==
  /\ TypeOK /\ OneCall /\ KeptAlive /\ HasMutex /\ Contexts /\ Library /\ InUse
  /\ RefCountExact

-----------------------------------------------------------------------------
LEMMA NoneIs ==
  ASSUME NEW c \in Ctx
  PROVE  c = None <=> c.kind = "none" /\ c.lib = 0
  BY DEF Ctx, None

LEMMA NoneType == None \in Ctx
  BY ICCStubAssumption DEF Ctx, None

\* The contexts in the count are finitely many.
LEMMA CountedFinite ==
  /\ IsFiniteSet(Counted) /\ Cardinality(Counted) \in Nat
  /\ Cardinality(Counted) = 0 <=> Counted = {}
  <1>1. Counted \in SUBSET User
    BY DEF Counted
  <1>2. IsFiniteSet(Counted)
    BY <1>1, FS_Subset, ICCStubAssumption
  <1> QED
    BY <1>2, FS_CardinalityType, FS_EmptySet

\* It is enough to know how the set of counted contexts changes.
LEMMA CountKept ==
  ASSUME RefCountExact, Counted' = Counted, refCount' = refCount, kept' = kept
  PROVE  RefCountExact'
  BY DEF RefCountExact

\* What lib_init leaves in a context.
LEMMA PartialType ==
  ASSUME TypeOK
  PROVE  [kind |-> "partial", lib |-> lib] \in Ctx
  BY DEF TypeOK, Ctx

\* The loader maps and unmaps one library.
LEMMA MapType ==
  ASSUME TypeOK, NEW p \in 1 .. Paths, Map(p)
  PROVE  /\ maps' \in [1 .. Paths -> Nat] /\ libError' \subseteq 1 .. Paths
         /\ maps'[p] = maps[p] + 1
         /\ \A q \in 1 .. Paths \ {p} : maps'[q] = maps[q]
  <1>1. maps \in [1 .. Paths -> Nat] /\ libError \subseteq 1 .. Paths
    BY DEF TypeOK
  <1>2. maps' = [maps EXCEPT ![p] = maps[p] + 1] /\ libError' \in {libError, libError \cup {p}}
    BY DEF Map
  <1> QED
    BY <1>1, <1>2

LEMMA UnmapType ==
  ASSUME TypeOK, NEW p \in 1 .. Paths, maps[p] = 1, Unmap(p)
  PROVE  /\ maps' \in [1 .. Paths -> Nat] /\ libError' \subseteq 1 .. Paths
         /\ maps'[p] = 0
         /\ \A q \in 1 .. Paths \ {p} : maps'[q] = maps[q]
  <1>1. maps \in [1 .. Paths -> Nat] /\ libError \subseteq 1 .. Paths
    BY DEF TypeOK
  <1>2. maps' = [maps EXCEPT ![p] = 0] /\ libError' \subseteq libError
    BY DEF Unmap
  <1> QED
    BY <1>1, <1>2

\* The library ICCGlobal holds is one of the paths, and mapped once.
LEMMA LibIsPath ==
  ASSUME StubInv, lib # 0
  PROVE  lib \in 1 .. Paths /\ maps[lib] = 1
  BY ICCStubAssumption DEF StubInv, TypeOK, Library

-----------------------------------------------------------------------------
LEMMA TypeStep ==
  ASSUME StubInv, [Next]_vars
  PROVE  TypeOK'
  <1> USE DEF TypeOK, Goto, Status, global, loader
  <1> USE ICCStubAssumption
  <1>1. ASSUME NEW u \in User, CallInit(u) PROVE TypeOK'
    BY <1>1 DEF StubInv, CallInit, Pc, InInit
  <1>2. ASSUME NEW u \in User, EnsureMutex(u) PROVE TypeOK'
    BY <1>2, NoneType DEF StubInv, EnsureMutex, Refuse, Pc, InInit
  <1>3. ASSUME NEW u \in User, CheckStatus(u) PROVE TypeOK'
    BY <1>3, NoneType DEF StubInv, CheckStatus, Refuse, Pc, InInit
  <1>4. ASSUME NEW u \in User, Look(u) PROVE TypeOK'
    <2>1. pc' \in [User -> Pc]
      <3> DEFINE to == CASE lib = 0 -> "search"
                         [] lib # 0 /\ initialized -> "adopt"
                         [] lib # 0 /\ ~initialized -> "idle"
      <3>1. to \in Pc
        BY DEF StubInv, Pc, InInit
      <3>2. pc' = [pc EXCEPT ![u] = to]
        BY <1>4 DEF Look
      <3> QED
        BY <3>1, <3>2 DEF StubInv
    <2>2. ctx' \in [User -> Ctx]
      BY <1>4 DEF StubInv, Look, Ctx
    <2> QED
      BY <1>4, <2>1, <2>2 DEF StubInv, Look
  <1>5. ASSUME NEW u \in User, Search(u) PROVE TypeOK'
    <2>1. path[u] \in 1 .. Paths
      BY <1>5 DEF StubInv, Search
    <2>2. CASE UNCHANGED loader
      <3>1. path' = [path EXCEPT ![u] = path[u] + 1] /\ UNCHANGED <<pc, ctx, refCount, loader>>
        BY <1>5, <2>2, <2>1 DEF Search, Map, StubInv
      <3>2. path' \in [User -> 1 .. Paths + 1]
        BY <2>1, <3>1 DEF StubInv
      <3>3. lib' \in 0 .. Paths
        BY <1>5, <2>1 DEF StubInv, Search
      <3>4. failed' \in [User -> BOOLEAN]
        BY <1>5 DEF StubInv, Search
      <3> QED
        BY <1>5, <3>1, <3>2, <3>3, <3>4 DEF StubInv, Search
    <2>3. CASE lib' = path[u] /\ Map(path[u]) /\ Goto(u, "probe") /\ UNCHANGED <<path, failed>>
      <3>1. maps' \in [1 .. Paths -> Nat] /\ libError' \subseteq 1 .. Paths
        BY <2>1, <2>3, MapType DEF StubInv
      <3> QED
        BY <1>5, <2>1, <2>3, <3>1 DEF StubInv, Search, Pc, InInit
    <2> QED
      BY <1>5, <2>2, <2>3 DEF Search
  <1>6. ASSUME NEW u \in User, Probe(u) PROVE TypeOK'
    <2>1. lib = path[u] /\ lib # 0 /\ lib \in 1 .. Paths /\ maps[lib] = 1
      BY <1>6, LibIsPath DEF StubInv, Probe, Library
    <2>2. CASE UNCHANGED <<lib, loader, path>> /\ ctx' = [ctx EXCEPT ![u] = [kind |-> "partial", lib |-> lib]]
      BY <1>6, <2>2, PartialType DEF StubInv, Probe, Pc, InInit
    <2>3. CASE Unmap(lib) /\ lib' = 0 /\ path' = [path EXCEPT ![u] = @ + 1] /\ UNCHANGED ctx
      <3>1. maps' \in [1 .. Paths -> Nat] /\ libError' \subseteq 1 .. Paths
        BY <2>1, <2>3, UnmapType DEF StubInv
      <3> QED
        <4>1. path' \in [User -> 1 .. Paths + 1] /\ lib' \in 0 .. Paths
          BY <2>1, <2>3 DEF StubInv
        <4>2. pc' \in [User -> Pc] /\ failed' \in [User -> BOOLEAN] /\ initialized' \in BOOLEAN
          BY <1>6 DEF StubInv, Probe, Pc, InInit
        <4> QED
          BY <1>6, <2>3, <3>1, <4>1, <4>2 DEF StubInv, Probe
    <2> QED
      BY <1>6, <2>2, <2>3 DEF Probe
  <1>7. ASSUME NEW u \in User, SearchEnds(u) PROVE TypeOK'
    BY <1>7, NoneType DEF StubInv, SearchEnds, Refuse, Pc, InInit
  <1>8. ASSUME NEW u \in User, Adopt(u) PROVE TypeOK'
    BY <1>8, NoneType, PartialType DEF StubInv, Adopt, Refuse, Pc, InInit
  <1>9. ASSUME NEW u \in User, Count(u) PROVE TypeOK'
    BY <1>9 DEF StubInv, Count, Pc, InInit
  <1>10. ASSUME NEW u \in User, Attach(u) PROVE TypeOK'
    BY <1>10 DEF StubInv, Attach, Ctx
  <1>11. ASSUME NEW u \in User, CallCleanup(u) PROVE TypeOK'
    BY <1>11, NoneType DEF StubInv, CallCleanup, Pc, InInit
  <1>12. ASSUME NEW u \in User, Uncount(u) PROVE TypeOK'
    BY <1>12 DEF StubInv, Uncount, Pc, InInit
  <1>13. ASSUME NEW u \in User, UnloadIfLast(u) PROVE TypeOK'
    <2>1. CASE IsLast
      <3>1. lib # 0 /\ lib \in 1 .. Paths /\ maps[lib] = 1
        BY <2>1, LibIsPath DEF IsLast
      <3>2. maps' \in [1 .. Paths -> Nat] /\ libError' \subseteq 1 .. Paths
        BY <1>13, <2>1, <3>1, UnmapType DEF StubInv, UnloadIfLast
      <3> QED
        <4>1. pc' \in [User -> Pc]
          BY <1>13 DEF StubInv, UnloadIfLast, Pc, InInit
        <4>2. lib' = 0 /\ initialized' = FALSE /\ refCount' = 0
          BY <1>13, <2>1, Zenon DEF UnloadIfLast
        <4>3. UNCHANGED <<kept, ctx, path, failed, mutexInit, mutex, sticky>>
          BY <1>13 DEF UnloadIfLast
        <4>4. initialized' \in BOOLEAN
          BY <4>2, Zenon
        <4>5. lib' \in 0 .. Paths /\ refCount' \in Int
          BY <4>2
        <4> QED
          BY <3>2, <4>1, <4>3, <4>4, <4>5, Zenon DEF StubInv
    <2>2. CASE ~IsLast
      BY <1>13, <2>2 DEF StubInv, UnloadIfLast, Pc, InInit
    <2> QED
      BY <2>1, <2>2
  <1>14. ASSUME NEW u \in User, DestroyMutex(u) PROVE TypeOK'
    BY <1>14 DEF StubInv, DestroyMutex, Pc, InInit
  <1>15. CASE LibFails
    BY <1>15 DEF StubInv, LibFails
  <1>16. CASE UNCHANGED vars
    BY <1>16 DEF StubInv, vars
  <1> QED
    BY <1>1, <1>2, <1>3, <1>4, <1>5, <1>6, <1>7, <1>8, <1>9, <1>10, <1>11, <1>12,
       <1>13, <1>14, <1>15, <1>16 DEF Next, Step

-----------------------------------------------------------------------------
(***************************************************************************)
(* The set of counted contexts changes in Count and in Uncount only.       *)
(***************************************************************************)
LEMMA CountStep ==
  ASSUME StubInv, [Next]_vars
  PROVE  RefCountExact'
  <1> USE DEF Goto, Status, global, loader
  <1>0. kept' = kept
    BY DEF Next, Step, CallInit, EnsureMutex, CheckStatus, Look, Search, Probe, SearchEnds,
           Adopt, Count, Attach, CallCleanup, Uncount, UnloadIfLast, DestroyMutex, LibFails, vars
  <1>a. pc \in [User -> Pc] /\ ctx \in [User -> Ctx] /\ Contexts /\ RefCountExact
    BY DEF StubInv, TypeOK
  <1>1. ASSUME NEW u \in User, CallInit(u) PROVE Counted' = Counted /\ refCount' = refCount
    <2>1. pc[u] = "idle" /\ ctx[u] = None /\ pc' = [pc EXCEPT ![u] = "start"]
          /\ ctx' = ctx /\ refCount' = refCount
      BY <1>1 DEF CallInit, MayCall
    <2> QED
      BY <2>1, <1>a DEF Counted
  <1>2. ASSUME NEW u \in User, EnsureMutex(u) PROVE Counted' = Counted /\ refCount' = refCount
    BY <1>2, <1>a DEF EnsureMutex, Refuse, Counted
  <1>3. ASSUME NEW u \in User, CheckStatus(u) PROVE Counted' = Counted /\ refCount' = refCount
    BY <1>3, <1>a DEF CheckStatus, Refuse, Counted
  <1>4. ASSUME NEW u \in User, Look(u) PROVE Counted' = Counted /\ refCount' = refCount
    <2>1. ctx[u] = None
      BY <1>4, <1>a DEF Look, Contexts
    <2>2. pc[u] = "look" /\ pc'[u] # "uncount" /\ (pc'[u] = "idle" => ctx'[u] = None)
      BY <1>4, <1>a, <2>1 DEF Look, None
    <2>3. \A v \in User \ {u} : pc'[v] = pc[v] /\ ctx'[v] = ctx[v]
      BY <1>4, <1>a DEF Look
    <2> QED
      BY <1>4, <2>2, <2>3 DEF Look, Counted
  <1>5. ASSUME NEW u \in User, Search(u) PROVE Counted' = Counted /\ refCount' = refCount
    BY <1>5, <1>a DEF Search, Counted
  <1>6. ASSUME NEW u \in User, Probe(u) PROVE Counted' = Counted /\ refCount' = refCount
    BY <1>6, <1>a DEF Probe, Counted
  <1>7. ASSUME NEW u \in User, SearchEnds(u) PROVE Counted' = Counted /\ refCount' = refCount
    BY <1>7, <1>a DEF SearchEnds, Refuse, Counted
  <1>8. ASSUME NEW u \in User, Adopt(u) PROVE Counted' = Counted /\ refCount' = refCount
    BY <1>8, <1>a DEF Adopt, Refuse, Counted
  <1>9. ASSUME NEW u \in User, Count(u) PROVE RefCountExact'
    <2>1. Counted' = Counted \cup {u} /\ u \notin Counted
      BY <1>9, <1>a DEF Count, Counted, Contexts
    <2>2. Cardinality(Counted') = Cardinality(Counted) + 1
      BY <2>1, CountedFinite, FS_AddElement
    <2> QED
      BY <1>0, <1>9, <1>a, <2>2, CountedFinite DEF Count, RefCountExact
  <1>10. ASSUME NEW u \in User, Attach(u) PROVE Counted' = Counted /\ refCount' = refCount
    <2>1. ctx' = ctx \/ ctx' = [ctx EXCEPT ![u].kind = "full"]
      BY <1>10 DEF Attach
    <2>2. ctx[u] # None /\ (\A v \in User \ {u} : ctx'[v] = ctx[v]) /\ ctx'[u] # None
      BY <1>10, <1>a, <2>1 DEF Attach, None, Ctx
    <2> QED
      BY <1>10, <2>2 DEF Attach, Counted
  <1>11. ASSUME NEW u \in User, CallCleanup(u) PROVE Counted' = Counted /\ refCount' = refCount
    BY <1>11, <1>a DEF CallCleanup, MayCall, Counted
  <1>12. ASSUME NEW u \in User, Uncount(u) PROVE RefCountExact'
    <2>1. Counted' = Counted \ {u} /\ u \in Counted
      BY <1>12, <1>a DEF Uncount, Counted
    <2>2. Cardinality(Counted') = Cardinality(Counted) - 1
      BY <2>1, CountedFinite, FS_RemoveElement
    <2> QED
      BY <1>0, <1>12, <1>a, <2>2, CountedFinite DEF Uncount, RefCountExact
  <1>13. ASSUME NEW u \in User, UnloadIfLast(u) PROVE Counted' = Counted /\ refCount' = refCount
    <2>1. Counted' = Counted
      BY <1>13, <1>a DEF UnloadIfLast, Counted, Contexts
    <2>2. IsLast => refCount = 0
      BY <1>a, CountedFinite DEF IsLast, RefCountExact
    <2> QED
      BY <1>13, <2>1, <2>2 DEF UnloadIfLast
  <1>14. ASSUME NEW u \in User, DestroyMutex(u) PROVE Counted' = Counted /\ refCount' = refCount
    BY <1>14, <1>a DEF DestroyMutex, Counted, Contexts
  <1>15. CASE LibFails
    BY <1>15, <1>0, <1>a, CountKept DEF LibFails, Counted
  <1>16. CASE UNCHANGED vars
    BY <1>16, <1>0, <1>a, CountKept DEF vars, Counted
  <1> QED
    BY <1>0, <1>a, <1>1, <1>2, <1>3, <1>4, <1>5, <1>6, <1>7, <1>8, <1>9, <1>10, <1>11, <1>12,
       <1>13, <1>14, <1>15, <1>16, CountKept DEF Next, Step

-----------------------------------------------------------------------------
(***************************************************************************)
(* What is left of the invariant.                                          *)
(***************************************************************************)
Rest == OneCall /\ KeptAlive /\ HasMutex /\ Contexts /\ Library /\ InUse

LEMMA CallInitRest ==
  ASSUME StubInv, NEW u \in User, CallInit(u)
  PROVE  Rest'
  <1> USE DEF Goto, Status, global, loader
  <1>1. pc \in [User -> Pc] /\ pc' = [pc EXCEPT ![u] = "start"] /\ pc[u] = "idle" /\ ctx[u] = None
    BY DEF StubInv, TypeOK, CallInit, MayCall
  <1>2. UNCHANGED <<kept, ctx, path, failed, global, loader>>
    BY DEF CallInit
  <1>3. Counted' = Counted
    BY <1>1, <1>2 DEF Counted
  <1>4. OneCall'
    BY <1>1, <1>2 DEF StubInv, OneCall, CallInit, MayCall
  <1>5. KeptAlive' /\ HasMutex'
    BY <1>1, <1>2 DEF StubInv, KeptAlive, HasMutex
  <1>6. Contexts'
    BY <1>1, <1>2 DEF StubInv, Contexts
  <1>7. Library'
    BY <1>1, <1>2, <1>3 DEF StubInv, Library
  <1>8. InUse'
    BY <1>1, <1>2, <1>3 DEF StubInv, InUse
  <1> QED
    BY <1>4, <1>5, <1>6, <1>7, <1>8 DEF Rest

LEMMA EnsureMutexRest ==
  ASSUME StubInv, NEW u \in User, EnsureMutex(u)
  PROVE  Rest'
  <1> USE DEF Goto, Status, global, loader
  <1>1. /\ pc \in [User -> Pc] /\ ctx \in [User -> Ctx] /\ pc[u] = "start" /\ ctx[u] = None
        /\ ctx' = ctx
    BY DEF StubInv, TypeOK, Contexts, EnsureMutex, Refuse
  <1>2. UNCHANGED <<kept, path, lib, initialized, loader>>
    BY DEF EnsureMutex
  <1>3. \/ pc' = [pc EXCEPT ![u] = "status"] /\ mutexInit' = TRUE /\ mutex' = TRUE
        \/ pc' = [pc EXCEPT ![u] = "status"] /\ UNCHANGED <<mutexInit, mutex>> /\ mutexInit
        \/ pc' = [pc EXCEPT ![u] = "idle"] /\ UNCHANGED <<mutexInit, mutex>>
    BY DEF EnsureMutex, Refuse
  <1>4. Counted' = Counted
    BY <1>1, <1>2, <1>3 DEF Counted
  <1>5. OneCall' /\ KeptAlive' /\ HasMutex'
    BY <1>1, <1>2, <1>3 DEF StubInv, OneCall, KeptAlive, HasMutex
  <1>6. Contexts'
    BY <1>1, <1>2, <1>3 DEF StubInv, Contexts
  <1>7. Library'
    BY <1>1, <1>2, <1>3, <1>4 DEF StubInv, Library
  <1>8. InUse'
    BY <1>1, <1>2, <1>3, <1>4 DEF StubInv, InUse
  <1> QED
    BY <1>5, <1>6, <1>7, <1>8 DEF Rest

LEMMA CheckStatusRest ==
  ASSUME StubInv, NEW u \in User, CheckStatus(u)
  PROVE  Rest'
  <1> USE DEF Goto, Status, global, loader
  <1>1. /\ pc \in [User -> Pc] /\ ctx \in [User -> Ctx] /\ pc[u] = "status" /\ ctx[u] = None
        /\ ctx' = ctx
    BY DEF StubInv, TypeOK, Contexts, CheckStatus, Refuse
  <1>2. UNCHANGED <<kept, path, global, loader>>
    BY DEF CheckStatus
  <1>3. pc' = [pc EXCEPT ![u] = "idle"] \/ pc' = [pc EXCEPT ![u] = "look"]
    BY DEF CheckStatus, Refuse
  <1>4. Counted' = Counted
    BY <1>1, <1>2, <1>3 DEF Counted
  <1>5. OneCall' /\ KeptAlive' /\ HasMutex'
    BY <1>1, <1>2, <1>3 DEF StubInv, OneCall, KeptAlive, HasMutex
  <1>6. Contexts'
    BY <1>1, <1>2, <1>3 DEF StubInv, Contexts
  <1>7. Library'
    BY <1>1, <1>2, <1>3, <1>4 DEF StubInv, Library
  <1>8. InUse'
    BY <1>1, <1>2, <1>3, <1>4 DEF StubInv, InUse, OneCall
  <1> QED
    BY <1>5, <1>6, <1>7, <1>8 DEF Rest

LEMMA LookRest ==
  ASSUME StubInv, NEW u \in User, Look(u)
  PROVE  Rest'
  <1> USE DEF Goto, Status, global, loader
  <1>1. /\ pc \in [User -> Pc] /\ ctx \in [User -> Ctx] /\ pc[u] = "look" /\ ctx[u] = None
        /\ \A v \in User \ {u} : ctx'[v] = ctx[v] /\ pc'[v] = pc[v] /\ path'[v] = path[v]
    BY DEF StubInv, TypeOK, Contexts, Look
  <1>2. UNCHANGED <<kept, failed, global, loader>>
    BY DEF Look
  <1>3. \/ lib = 0 /\ pc'[u] = "search" /\ ctx'[u].kind = "empty" /\ ctx'[u].lib = 0 /\ ctx'[u] # None
        \/ lib # 0 /\ pc'[u] = "adopt" /\ ctx'[u] = None
        \/ lib # 0 /\ ~initialized /\ pc'[u] = "idle" /\ ctx'[u] = None
    BY <1>1 DEF Look, None
  <1>4. Counted' = Counted
    BY <1>1, <1>2, <1>3 DEF Counted
  <1>5. OneCall' /\ KeptAlive' /\ HasMutex'
    BY <1>1, <1>2, <1>3 DEF StubInv, OneCall, KeptAlive, HasMutex
  <1>6. Contexts'
    BY <1>1, <1>2, <1>3 DEF StubInv, Contexts
  <1>7. Library'
    BY <1>1, <1>2, <1>3, <1>4 DEF StubInv, Library
  <1>8. InUse'
    BY <1>1, <1>2, <1>3, <1>4 DEF StubInv, InUse, OneCall
  <1> QED
    BY <1>5, <1>6, <1>7, <1>8 DEF Rest

LEMMA SearchRest ==
  ASSUME StubInv, NEW u \in User, Search(u)
  PROVE  Rest'
  <1> USE DEF Goto, Status, global, loader
  <1>1. /\ pc \in [User -> Pc] /\ ctx \in [User -> Ctx] /\ path \in [User -> 1 .. Paths + 1]
        /\ pc[u] = "search" /\ path[u] \in 1 .. Paths /\ lib = 0 /\ ~kept
        /\ \A v \in User : ctx[v].lib = 0
        /\ maps = [p \in 1 .. Paths |-> 0]
    BY DEF StubInv, TypeOK, Contexts, Library, KeptAlive, Search
  <1>2. UNCHANGED <<kept, ctx, initialized, refCount, mutexInit, mutex, sticky>>
    BY DEF Search
  <1>3. \/ pc' = pc /\ path' = [path EXCEPT ![u] = @ + 1] /\ lib' = 0 /\ UNCHANGED loader
        \/ /\ pc' = [pc EXCEPT ![u] = "probe"] /\ path' = path /\ lib' = path[u]
           /\ \A p \in 1 .. Paths : maps'[p] = IF p = lib' THEN 1 ELSE 0
    BY <1>1, MapType DEF StubInv, Search
  <1>4. Counted' = Counted
    BY <1>1, <1>2, <1>3 DEF Counted
  <1>5. OneCall' /\ KeptAlive' /\ HasMutex'
    BY <1>1, <1>2, <1>3 DEF StubInv, OneCall, KeptAlive, HasMutex
  <1>6. Contexts'
    BY <1>1, <1>2, <1>3 DEF StubInv, Contexts
  <1>7. Library'
    <2>1. \A v \in User \ {u} : pc'[v] = "idle"
      BY <1>1, <1>2, <1>3 DEF StubInv, OneCall
    <2>2. CASE pc' = pc /\ lib' = 0 /\ UNCHANGED loader
      BY <1>1, <1>2, <2>1, <2>2 DEF Library
    <2>3. CASE /\ pc' = [pc EXCEPT ![u] = "probe"] /\ path' = path /\ lib' = path[u]
               /\ \A p \in 1 .. Paths : maps'[p] = IF p = lib' THEN 1 ELSE 0
      BY <1>1, <1>2, <2>1, <2>3 DEF Library
    <2> QED
      BY <1>3, <2>2, <2>3
  <1>8. InUse'
    BY <1>1, <1>2, <1>3, <1>4 DEF StubInv, InUse, OneCall
  <1> QED
    BY <1>5, <1>6, <1>7, <1>8 DEF Rest

LEMMA ProbeRest ==
  ASSUME StubInv, NEW u \in User, Probe(u)
  PROVE  Rest'
  <1> USE DEF Goto, Status, global, loader
  <1>1. /\ pc \in [User -> Pc] /\ ctx \in [User -> Ctx] /\ path \in [User -> 1 .. Paths + 1]
        /\ pc[u] = "probe" /\ lib \in 1 .. Paths /\ maps[lib] = 1 /\ ~kept
        /\ \A v \in User : ctx[v].lib = 0
        /\ \A p \in 1 .. Paths : maps[p] = IF p = lib THEN 1 ELSE 0
    BY LibIsPath, ICCStubAssumption DEF StubInv, TypeOK, Contexts, Library, KeptAlive, Probe
  <1>2. UNCHANGED <<kept, refCount, mutexInit, mutex>>
    BY DEF Probe
  <1>3. \/ /\ pc' = [pc EXCEPT ![u] = "count"] /\ UNCHANGED <<lib, maps, path>> /\ initialized' = TRUE
           /\ ctx' = [ctx EXCEPT ![u] = [kind |-> "partial", lib |-> lib]]
        \/ /\ pc' = [pc EXCEPT ![u] = "search"] /\ lib' = 0 /\ UNCHANGED <<ctx, initialized>>
           /\ \A p \in 1 .. Paths : maps'[p] = 0
           /\ \A v \in User \ {u} : path'[v] = path[v]
    BY <1>1, UnmapType DEF StubInv, Probe
  <1>4. Counted' = Counted
    BY <1>1, <1>2, <1>3 DEF Counted
  <1>5. OneCall' /\ KeptAlive' /\ HasMutex'
    BY <1>1, <1>2, <1>3 DEF StubInv, OneCall, KeptAlive, HasMutex
  <1>n. \A l : [kind |-> "partial", lib |-> l] # None
    BY DEF None
  <1>6. Contexts'
    BY <1>n, <1>1, <1>2, <1>3 DEF StubInv, Contexts
  <1>7. Library'
    BY <1>1, <1>2, <1>3, <1>4 DEF StubInv, Library, OneCall
  <1>8. InUse'
    BY <1>1, <1>2, <1>3, <1>4 DEF StubInv, InUse, OneCall
  <1> QED
    BY <1>5, <1>6, <1>7, <1>8 DEF Rest

LEMMA SearchEndsRest ==
  ASSUME StubInv, NEW u \in User, SearchEnds(u)
  PROVE  Rest'
  <1> USE DEF Goto, Status, global, loader
  <1>1. /\ pc \in [User -> Pc] /\ ctx \in [User -> Ctx] /\ pc[u] = "search" /\ ctx[u].kind = "empty"
        /\ ctx[u] # None /\ lib = 0 /\ ~kept
    BY DEF StubInv, TypeOK, Contexts, Library, KeptAlive, SearchEnds, None
  <1>2. UNCHANGED <<kept, path, global, loader>>
    BY DEF SearchEnds
  <1>3. \/ pc' = [pc EXCEPT ![u] = "idle"] /\ ctx' = [ctx EXCEPT ![u] = None]
        \/ pc' = [pc EXCEPT ![u] = "count"] /\ ctx' = ctx
    BY DEF SearchEnds, Refuse
  <1>n. None.lib = 0
    BY DEF None
  <1>4. Counted' = Counted
    BY <1>1, <1>2, <1>3 DEF Counted
  <1>5. OneCall' /\ KeptAlive' /\ HasMutex'
    BY <1>1, <1>2, <1>3 DEF StubInv, OneCall, KeptAlive, HasMutex
  <1>6. Contexts'
    BY <1>n, <1>1, <1>2, <1>3 DEF StubInv, Contexts
  <1>7. Library'
    BY <1>n, <1>1, <1>2, <1>3, <1>4 DEF StubInv, Library, OneCall
  <1>8. InUse'
    BY <1>1, <1>2, <1>3, <1>4 DEF StubInv, InUse, OneCall
  <1> QED
    BY <1>5, <1>6, <1>7, <1>8 DEF Rest

LEMMA AdoptRest ==
  ASSUME StubInv, NEW u \in User, Adopt(u)
  PROVE  Rest'
  <1> USE DEF Goto, Status, global, loader
  <1>1. /\ pc \in [User -> Pc] /\ ctx \in [User -> Ctx] /\ pc[u] = "adopt" /\ ctx[u] = None /\ lib # 0
    BY DEF StubInv, TypeOK, Contexts, Library, Adopt
  <1>2. UNCHANGED <<kept, path, global, loader>>
    BY DEF Adopt
  <1>3. \/ pc' = [pc EXCEPT ![u] = "idle"] /\ ctx' = [ctx EXCEPT ![u] = None]
        \/ pc' = [pc EXCEPT ![u] = "count"] /\ ctx' = [ctx EXCEPT ![u] = [kind |-> "partial", lib |-> lib]]
    BY DEF Adopt, Refuse
  <1>n. None.lib = 0 /\ \A l : [kind |-> "partial", lib |-> l] # None
    BY DEF None
  <1>4. Counted' = Counted
    BY <1>n, <1>1, <1>2, <1>3 DEF Counted
  <1>5. OneCall' /\ KeptAlive' /\ HasMutex'
    BY <1>n, <1>1, <1>2, <1>3 DEF StubInv, OneCall, KeptAlive, HasMutex
  <1>6. Contexts'
    BY <1>n, <1>1, <1>2, <1>3 DEF StubInv, Contexts
  <1>7. Library'
    BY <1>n, <1>1, <1>2, <1>3, <1>4 DEF StubInv, Library, OneCall, KeptAlive
  <1>8. InUse'
    BY <1>n, <1>1, <1>2, <1>3, <1>4 DEF StubInv, InUse, OneCall
  <1> QED
    BY <1>5, <1>6, <1>7, <1>8 DEF Rest

LEMMA CountRest ==
  ASSUME StubInv, NEW u \in User, Count(u)
  PROVE  Rest'
  <1> USE DEF Goto, Status, global, loader
  <1>1. /\ pc \in [User -> Pc] /\ ctx \in [User -> Ctx] /\ pc[u] = "count" /\ ctx[u] # None
    BY DEF StubInv, TypeOK, Contexts, Count
  <1>2. UNCHANGED <<kept, ctx, path, failed, lib, initialized, mutexInit, mutex, sticky, loader>>
    BY DEF Count
  <1>3. pc' = [pc EXCEPT ![u] = "idle"]
    BY DEF Count
  <1>4. Counted' = Counted \cup {u}
    BY <1>1, <1>2, <1>3 DEF Counted
  <1>5. OneCall' /\ KeptAlive' /\ HasMutex'
    BY <1>1, <1>2, <1>3 DEF StubInv, OneCall, KeptAlive, HasMutex
  <1>6. Contexts'
    BY <1>1, <1>2, <1>3 DEF StubInv, Contexts
  <1>7. Library'
    BY <1>1, <1>2, <1>3, <1>4 DEF StubInv, Library, OneCall, KeptAlive
  <1>8. InUse'
    BY <1>1, <1>2, <1>3, <1>4 DEF StubInv, InUse, OneCall
  <1> QED
    BY <1>5, <1>6, <1>7, <1>8 DEF Rest

LEMMA AttachRest ==
  ASSUME StubInv, NEW u \in User, Attach(u)
  PROVE  Rest'
  <1> USE DEF Goto, Status, global, loader
  <1>1. /\ pc \in [User -> Pc] /\ ctx \in [User -> Ctx] /\ pc[u] = "idle" /\ ctx[u] # None
        /\ ~kept => \A v \in User : pc[v] = "idle"
    BY DEF StubInv, TypeOK, Attach, MayCall
  <1>2. UNCHANGED <<kept, pc, path, lib, initialized, refCount, mutexInit, mutex, loader>>
    BY DEF Attach
  <1>3. /\ \A v \in User \ {u} : ctx'[v] = ctx[v]
        /\ ctx'[u].lib = ctx[u].lib /\ ctx'[u] # None
        /\ ctx'[u].kind \in {"none", "empty"} => ctx'[u].kind = ctx[u].kind
    BY <1>1 DEF Attach, None, Ctx
  <1>4. Counted' = Counted
    BY <1>1, <1>2, <1>3 DEF Counted
  <1>5. OneCall' /\ KeptAlive' /\ HasMutex'
    BY <1>1, <1>2, <1>3 DEF StubInv, OneCall, KeptAlive, HasMutex
  <1>6. Contexts'
    BY <1>1, <1>2, <1>3 DEF StubInv, Contexts
  <1>7. Library'
    BY <1>1, <1>2, <1>3, <1>4 DEF StubInv, Library, OneCall, KeptAlive
  <1>8. InUse'
    BY <1>1, <1>2, <1>3, <1>4 DEF StubInv, InUse, OneCall
  <1> QED
    BY <1>5, <1>6, <1>7, <1>8 DEF Rest

LEMMA CallCleanupRest ==
  ASSUME StubInv, NEW u \in User, CallCleanup(u)
  PROVE  Rest'
  <1> USE DEF Goto, Status, global, loader
  <1>1. /\ pc \in [User -> Pc] /\ ctx \in [User -> Ctx] /\ pc[u] = "idle" /\ ctx[u] # None
        /\ ~kept => \A v \in User : pc[v] = "idle"
    BY DEF StubInv, TypeOK, CallCleanup, MayCall
  <1>2. UNCHANGED <<kept, path, global, loader>>
    BY DEF CallCleanup
  <1>3. pc' = [pc EXCEPT ![u] = "uncount"] /\ ctx' = [ctx EXCEPT ![u] = None] /\ None.lib = 0
    BY DEF CallCleanup, None
  <1>4. Counted' = Counted
    BY <1>1, <1>2, <1>3 DEF Counted
  <1>5. OneCall' /\ KeptAlive' /\ HasMutex'
    BY <1>1, <1>2, <1>3 DEF StubInv, OneCall, KeptAlive, HasMutex
  <1>6. Contexts'
    BY <1>1, <1>2, <1>3 DEF StubInv, Contexts
  <1>7. Library'
    BY <1>1, <1>2, <1>3, <1>4 DEF StubInv, Library, OneCall, KeptAlive
  <1>8. InUse'
    BY <1>1, <1>2, <1>3, <1>4 DEF StubInv, InUse, OneCall
  <1> QED
    BY <1>5, <1>6, <1>7, <1>8 DEF Rest

LEMMA UncountRest ==
  ASSUME StubInv, NEW u \in User, Uncount(u)
  PROVE  Rest'
  <1> USE DEF Goto, Status, global, loader
  <1>1. /\ pc \in [User -> Pc] /\ ctx \in [User -> Ctx] /\ pc[u] = "uncount" /\ ctx[u] = None
    BY DEF StubInv, TypeOK, Contexts, Uncount
  <1>2. UNCHANGED <<kept, ctx, path, failed, lib, initialized, mutexInit, mutex, sticky, loader>>
    BY DEF Uncount
  <1>3. pc' = [pc EXCEPT ![u] = "last"]
    BY DEF Uncount
  <1>4. Counted' = Counted \ {u}
    BY <1>1, <1>2, <1>3 DEF Counted
  <1>5. OneCall' /\ KeptAlive' /\ HasMutex'
    BY <1>1, <1>2, <1>3 DEF StubInv, OneCall, KeptAlive, HasMutex
  <1>6. Contexts'
    BY <1>1, <1>2, <1>3 DEF StubInv, Contexts
  <1>7. Library'
    BY <1>1, <1>2, <1>3, <1>4 DEF StubInv, Library, OneCall, KeptAlive
  <1>8. InUse'
    BY <1>1, <1>2, <1>3, <1>4 DEF StubInv, InUse, OneCall
  <1> QED
    BY <1>5, <1>6, <1>7, <1>8 DEF Rest

LEMMA UnloadIfLastRest ==
  ASSUME StubInv, NEW u \in User, UnloadIfLast(u)
  PROVE  Rest'
  <1> USE DEF Goto, Status, global, loader
  <1>1. /\ pc \in [User -> Pc] /\ ctx \in [User -> Ctx] /\ pc[u] = "last" /\ ctx[u] = None
        /\ \A p \in 1 .. Paths : maps[p] = IF p = lib THEN 1 ELSE 0
    BY DEF StubInv, TypeOK, Contexts, Library, UnloadIfLast
  <1>2. UNCHANGED <<kept, ctx, path, failed, mutexInit, mutex, sticky>>
    BY DEF UnloadIfLast
  <1>3. \/ /\ pc' = [pc EXCEPT ![u] = "idle"] /\ UNCHANGED <<lib, initialized, maps>>
           /\ lib # 0 /\ ~kept => Counted # {}
        \/ /\ pc' = [pc EXCEPT ![u] = "destroy"] /\ lib' = 0 /\ ~kept /\ Counted = {}
           /\ \A p \in 1 .. Paths : maps'[p] = 0
    <2>1. RefCountExact /\ Cardinality(Counted) \in Nat /\ (Cardinality(Counted) = 0 <=> Counted = {})
      BY CountedFinite DEF StubInv
    <2>2. CASE IsLast
      <3>1. ~kept /\ Counted = {}
        BY <2>1, <2>2 DEF IsLast, RefCountExact
      <3>2. lib \in 1 .. Paths /\ maps[lib] = 1 /\ Unmap(lib)
        BY <2>2, LibIsPath DEF IsLast, UnloadIfLast
      <3>3. \A p \in 1 .. Paths : maps'[p] = 0
        BY <1>1, <3>2, UnmapType DEF StubInv
      <3> QED
        BY <2>2, <3>1, <3>3 DEF UnloadIfLast
    <2>3. CASE ~IsLast
      <3>1. lib # 0 /\ ~kept => Counted # {}
        BY <2>1, <2>3 DEF IsLast, RefCountExact
      <3> QED
        BY <2>3, <3>1 DEF UnloadIfLast
    <2> QED
      BY <2>2, <2>3
  <1>4. Counted' = Counted
    BY <1>1, <1>2, <1>3 DEF Counted
  <1>c. CASE lib' = lib /\ initialized' = initialized /\ maps' = maps /\ pc' = [pc EXCEPT ![u] = "idle"]
             /\ (lib # 0 /\ ~kept => Counted # {})
    <2>1. OneCall' /\ KeptAlive' /\ HasMutex' /\ Contexts'
      BY <1>1, <1>2, <1>c DEF StubInv, OneCall, KeptAlive, HasMutex, Contexts
    <2>2. Library'
      BY <1>1, <1>2, <1>4, <1>c DEF StubInv, Library
    <2>3. InUse'
      BY <1>2, <1>4, <1>c DEF InUse
    <2> QED
      BY <2>1, <2>2, <2>3 DEF Rest
  <1>d. CASE /\ pc' = [pc EXCEPT ![u] = "destroy"] /\ lib' = 0 /\ ~kept /\ Counted = {}
             /\ \A p \in 1 .. Paths : maps'[p] = 0
    <2>1. \A v \in User \ {u} : pc[v] = "idle" /\ ctx[v] = None
      BY <1>1, <1>d DEF StubInv, OneCall, Counted
    <2>2. OneCall' /\ KeptAlive' /\ HasMutex'
      BY <1>1, <1>2, <1>d, <2>1 DEF StubInv, OneCall, KeptAlive, HasMutex
    <2>3. Contexts'
      BY <1>1, <1>2, <1>d, <2>1 DEF Contexts, None
    <2>4. Library' /\ InUse'
      BY <1>1, <1>2, <1>4, <1>d, <2>1 DEF Library, InUse
    <2> QED
      BY <2>2, <2>3, <2>4 DEF Rest
  <1> QED
    BY <1>3, <1>c, <1>d

LEMMA DestroyMutexRest ==
  ASSUME StubInv, NEW u \in User, DestroyMutex(u)
  PROVE  Rest'
  <1> USE DEF Goto, Status, global, loader
  <1>1. /\ pc \in [User -> Pc] /\ ctx \in [User -> Ctx] /\ pc[u] = "destroy" /\ ctx[u] = None
        /\ lib = 0 /\ ~kept /\ Counted = {}
    BY DEF StubInv, TypeOK, Contexts, Library, KeptAlive, DestroyMutex
  <1>2. UNCHANGED <<kept, ctx, path, failed, lib, initialized, refCount, sticky, loader>>
    BY DEF DestroyMutex
  <1>3. pc' = [pc EXCEPT ![u] = "idle"] /\ mutexInit' = FALSE
    BY DEF DestroyMutex
  <1>a. \A v \in User : pc'[v] = "idle" /\ ctx[v] = None
    BY <1>1, <1>3 DEF StubInv, OneCall, Counted
  <1>4. Counted' = Counted
    BY <1>1, <1>2, <1>3 DEF Counted
  <1>5. OneCall' /\ KeptAlive' /\ HasMutex'
    BY <1>1, <1>2, <1>3, <1>a DEF OneCall, KeptAlive, HasMutex
  <1>6. Contexts'
    BY <1>1, <1>2, <1>a DEF Contexts, None
  <1>7. Library' /\ InUse'
    BY <1>1, <1>2, <1>4, <1>a DEF StubInv, Library, InUse
  <1> QED
    BY <1>5, <1>6, <1>7 DEF Rest

LEMMA SameRest ==
  ASSUME StubInv, UNCHANGED <<kept, pc, ctx, path, global, maps>>
  PROVE  Rest'
  <1>1. Counted' = Counted
    BY DEF Counted
  <1> QED
    BY <1>1 DEF StubInv, Rest, OneCall, KeptAlive, HasMutex, Contexts, Library, InUse, global

-----------------------------------------------------------------------------
(***************************************************************************)
(* The invariant of the stub: the reference count is the number of         *)
(* contexts, the library the loader has is the one ICCGlobal holds and     *)
(* every context points into, and the mutex is there as long as a context  *)
(* or a call may need it, however the calls interleave.                    *)
(***************************************************************************)
THEOREM StubInvariant == Spec => []StubInv
  <1>1. Init => StubInv
    <2> SUFFICES ASSUME Init PROVE StubInv
      OBVIOUS
    <2>1. Counted = {} /\ Cardinality(Counted) = 0
      BY FS_EmptySet DEF Init, Counted
    <2>2. kept \in BOOLEAN /\ pc \in [User -> Pc] /\ path \in [User -> 1 .. Paths + 1]
      BY ICCStubAssumption DEF Init, Pc, InInit
    <2>3. ctx \in [User -> Ctx]
      BY NoneType DEF Init
    <2>4. /\ lib \in 0 .. Paths /\ refCount \in Int
          /\ maps \in [1 .. Paths -> Nat] /\ libError \subseteq 1 .. Paths
      BY ICCStubAssumption DEF Init
    <2>5. /\ failed \in [User -> BOOLEAN] /\ initialized \in BOOLEAN
          /\ mutexInit \in BOOLEAN /\ mutex \in BOOLEAN /\ sticky \in BOOLEAN
      BY Zenon DEF Init
    <2>6. TypeOK
      BY <2>2, <2>3, <2>4, <2>5 DEF TypeOK
    <2>7. RefCountExact
      BY <2>1 DEF Init, RefCountExact
    <2>8. OneCall /\ KeptAlive /\ HasMutex /\ Contexts
      BY DEF Init, OneCall, KeptAlive, HasMutex, Contexts, None
    <2>9. Library /\ InUse
      BY ICCStubAssumption DEF Init, Library, InUse
    <2> QED
      BY <2>6, <2>7, <2>8, <2>9 DEF StubInv
  <1>2. StubInv /\ [Next]_vars => StubInv'
    <2> SUFFICES ASSUME StubInv, [Next]_vars PROVE StubInv'
      OBVIOUS
    <2>1. TypeOK' /\ RefCountExact'
      BY TypeStep, CountStep
    <2>2. ASSUME LibFails \/ UNCHANGED vars PROVE Rest'
      BY <2>2, SameRest DEF LibFails, vars, global, loader
    <2>3. Rest'
      BY <2>2, CallInitRest, EnsureMutexRest, CheckStatusRest, LookRest, SearchRest, ProbeRest,
         SearchEndsRest, AdoptRest, CountRest, AttachRest, CallCleanupRest, UncountRest,
         UnloadIfLastRest, DestroyMutexRest DEF Next, Step
    <2> QED
      BY <2>1, <2>3 DEF StubInv, Rest
  <1> QED
    BY <1>1, <1>2, PTL DEF Spec

(***************************************************************************)
(* Every variable of ICCStub keeps its type (icc.c).                       *)
(***************************************************************************)
THEOREM TypeCorrect == Spec => []TypeOK
  <1>1. StubInv => TypeOK
    BY DEF StubInv
  <1> QED
    BY <1>1, StubInvariant, PTL

(***************************************************************************)
(* The reference count is the number of contexts at every point of every   *)
(* interleaving (ICC_Init and ICC_Cleanup, icc.c).                         *)
(***************************************************************************)
THEOREM CountExact == Spec => []RefCountExact
  <1>1. StubInv => RefCountExact
    BY DEF StubInv
  <1> QED
    BY <1>1, StubInvariant, PTL

(***************************************************************************)
(* No context points into a library that is no longer mapped.              *)
(***************************************************************************)
THEOREM NeverDangling == Spec => []NoDanglingContext
  <1>1. StubInv => NoDanglingContext
    BY DEF StubInv, TypeOK, Ctx, Contexts, Library, NoDanglingContext
  <1> QED
    BY <1>1, StubInvariant, PTL

(***************************************************************************)
(* The mutex exists whenever a call is about to lock it.                   *)
(***************************************************************************)
THEOREM MutexThere == Spec => []MutexExists
  <1>1. StubInv => MutexExists
    BY DEF StubInv, HasMutex, MutexExists
  <1> QED
    BY <1>1, StubInvariant, PTL

(***************************************************************************)
(* The stub unmaps every library it has mapped.                            *)
(***************************************************************************)
THEOREM NothingLeaks == Spec => []NoLibraryLeak
  <1>1. StubInv => NoLibraryLeak
    BY DEF StubInv, Library, InUse, Counted, NoLibraryLeak
  <1> QED
    BY <1>1, StubInvariant, PTL

(***************************************************************************)
(* An ICC_Init that returns NULL returns a status that is not ICC_OK, also *)
(* when the library was there and refused.                                 *)
(***************************************************************************)
THEOREM RefusalsExplained == Spec => RefusalsHaveStatus
  <1> DEFINE Explained(u) ==
        pc[u] \in InInit /\ pc'[u] = "idle" /\ ctx'[u] = None => failed'[u]
  <1>1. ASSUME StubInv, [Next]_vars, NEW u \in User PROVE Explained(u)
    <2> SUFFICES ASSUME pc[u] \in InInit, pc'[u] = "idle", ctx'[u] = None PROVE failed'[u]
      OBVIOUS
    <2> USE DEF Goto, Status, global, loader
    <2>1. pc \in [User -> Pc] /\ ctx \in [User -> Ctx] /\ failed \in [User -> BOOLEAN]
      BY <1>1 DEF StubInv, TypeOK
    <2>2. PICK v \in User : \/ CallInit(v) \/ Attach(v) \/ CallCleanup(v) \/ Step(v)
      BY <1>1, <2>1 DEF Next, LibFails, vars, InInit
    <2>3. v = u
      BY <2>1, <2>2 DEF Step, CallInit, Attach, CallCleanup, EnsureMutex, CheckStatus, Look, Search,
                        Probe, SearchEnds, Adopt, Count, Uncount, UnloadIfLast, DestroyMutex,
                        Refuse, MayCall, InInit
    <2>4. Refuse(u) \/ Look(u) \/ Count(u)
      BY <2>1, <2>2, <2>3 DEF Step, CallInit, Attach, CallCleanup, EnsureMutex, CheckStatus, Search,
                              Probe, SearchEnds, Adopt, Uncount, UnloadIfLast, DestroyMutex,
                              MayCall, InInit
    <2>5. CASE Refuse(u)
      BY <2>1, <2>5, Zenon DEF Refuse
    <2>6. CASE Look(u)
      <3>1. lib # 0 /\ ~initialized /\ pc[u] = "look"
        BY <2>1, <2>6 DEF Look
      <3>2. \A w \in User : pc[w] # "probe"
        BY <1>1, <2>1, <3>1 DEF StubInv, OneCall, KeptAlive
      <3> QED
        BY <1>1, <3>1, <3>2 DEF StubInv, Library
    <2>7. CASE Count(u)
      BY <1>1, <2>7 DEF StubInv, Contexts, Count
    <2> QED
      BY <2>4, <2>5, <2>6, <2>7
  <1>2. StubInv /\ [Next]_vars => [\A u \in User : Explained(u)]_vars
    BY <1>1
  <1> QED
    BY <1>2, StubInvariant, PTL DEF Spec, RefusalsHaveStatus

-----------------------------------------------------------------------------
(***************************************************************************)
(* The stub as a holder of libraries: what each step shows.                *)
(***************************************************************************)
Mapped  == {p \in 1 .. Paths : maps[p] > 0}
Held    == [u \in User |-> ctx[u].lib]
Entered == {u \in User : ctx[u].kind = "full"}

\* A context with functions points into a library.
Pointing == \A u \in User : ctx[u].kind \in {"partial", "full"} => ctx[u].lib # 0

\* An error is forgotten with the library.
Remembered == libError \subseteq {p \in 1 .. Paths : maps[p] > 0}

HoldersInv == StubInv /\ Pointing /\ Remembered

\* A context gets its functions from the library there is.
LEMMA PointingStep ==
  ASSUME HoldersInv, [Next]_vars
  PROVE  Pointing'
  <1> USE DEF HoldersInv, Pointing
  <1>1. ctx \in [User -> Ctx]
    BY DEF StubInv, TypeOK
  <1>2. CASE ctx' = ctx
    BY <1>2
  <1>3. ASSUME NEW u \in User, NEW c, ctx' = [ctx EXCEPT ![u] = c], c.kind \in {"partial", "full"} => c.lib # 0
        PROVE  Pointing'
    BY <1>1, <1>3
  <1>4. ASSUME NEW u \in User, ctx' = [ctx EXCEPT ![u] = None] PROVE Pointing'
    <2>1. None.kind = "none"
      BY DEF None
    <2> QED
      BY <1>3, <1>4, <2>1
  <1>5. ASSUME NEW u \in User, Look(u) PROVE Pointing'
    <2>1. ctx'[u].kind \in {"empty", "none"} /\ \A v \in User \ {u} : ctx'[v] = ctx[v]
      BY <1>1, <1>5 DEF Look
    <2> QED
      BY <2>1
  <1>6. ASSUME NEW u \in User, Probe(u) \/ Adopt(u) PROVE Pointing'
    <2>1. lib # 0
      <3>1. pc[u] \in {"probe", "adopt"} /\ Library /\ path[u] \in 1 .. Paths + 1
        BY <1>6 DEF StubInv, Probe, Adopt, TypeOK
      <3>2. (pc[u] = "probe" => lib = path[u]) /\ (pc[u] = "adopt" => lib # 0)
        BY <3>1 DEF Library
      <3> QED
        BY <3>1, <3>2
    <2>2. \/ ctx' = ctx \/ ctx' = [ctx EXCEPT ![u] = None]
          \/ ctx' = [ctx EXCEPT ![u] = [kind |-> "partial", lib |-> lib]]
      BY <1>6 DEF Probe, Adopt, Refuse
    <2> QED
      BY <1>2, <1>3, <1>4, <2>1, <2>2
  <1>7. ASSUME NEW u \in User, Attach(u) PROVE Pointing'
    <2>1. CASE ctx' = [ctx EXCEPT ![u].kind = "full"] /\ ctx[u].kind # "empty" /\ ctx[u] # None
      <3>1. ctx[u].lib # 0
        BY <1>1, <2>1, NoneIs DEF Ctx, StubInv, Contexts
      <3>2. ctx'[u].lib # 0 /\ \A v \in User \ {u} : ctx'[v] = ctx[v]
        BY <1>1, <2>1, <3>1 DEF Ctx
      <3> QED
        BY <3>2
    <2> QED
      BY <1>2, <1>7, <2>1 DEF Attach
  <1>8. CASE LibFails \/ UNCHANGED vars
    BY <1>2, <1>8 DEF LibFails, vars
  <1>9. ASSUME NEW u \in User,
               \/ CallInit(u) \/ EnsureMutex(u) \/ CheckStatus(u) \/ Search(u) \/ SearchEnds(u)
               \/ Count(u) \/ CallCleanup(u) \/ Uncount(u) \/ UnloadIfLast(u) \/ DestroyMutex(u)
        PROVE  Pointing'
    <2>1. ctx' = ctx \/ ctx' = [ctx EXCEPT ![u] = None]
      BY <1>9 DEF CallInit, EnsureMutex, CheckStatus, Search, SearchEnds, Count, CallCleanup, Uncount,
                  UnloadIfLast, DestroyMutex, Refuse
    <2> QED
      BY <1>2, <1>4, <2>1
  <1> QED
    BY <1>5, <1>6, <1>7, <1>8, <1>9 DEF Next, Step

\* Only a mapped library fails.
LEMMA RememberedStep ==
  ASSUME HoldersInv, [Next]_vars
  PROVE  Remembered'
  <1> USE DEF Remembered, Goto, Status, global, loader
  <1>1. StubInv /\ libError \subseteq 1 .. Paths /\ maps \in [1 .. Paths -> Nat] /\ Remembered
    BY DEF HoldersInv, StubInv, TypeOK
  <1>2. CASE maps' = maps /\ libError' \subseteq {p \in 1 .. Paths : maps[p] > 0}
    BY <1>2
  <1>3. ASSUME NEW p \in 1 .. Paths, Map(p) PROVE Remembered'
    <2>1. \A q \in 1 .. Paths : maps[q] > 0 \/ q = p => maps'[q] > 0
      BY <1>1, <1>3, MapType DEF StubInv
    <2>2. libError' \subseteq libError \cup {p}
      BY <1>3 DEF Map
    <2> QED
      BY <1>1, <2>1, <2>2
  <1>4. ASSUME lib # 0, Unmap(lib) PROVE Remembered'
    <2>1. lib \in 1 .. Paths /\ maps[lib] = 1
      BY <1>1, <1>4, LibIsPath
    <2>2. libError' = libError \ {lib} /\ \A q \in 1 .. Paths \ {lib} : maps'[q] = maps[q]
      BY <1>1, <1>4, <2>1, UnmapType DEF Unmap, StubInv
    <2> QED
      BY <1>1, <2>1, <2>2
  <1>5. ASSUME NEW u \in User, Search(u) PROVE Remembered'
    <2>1. path[u] \in 1 .. Paths
      BY <1>1, <1>5 DEF Search, StubInv, TypeOK
    <2>2. UNCHANGED loader \/ Map(path[u])
      BY <1>5 DEF Search
    <2>3. UNCHANGED loader => Remembered'
      BY <1>1
    <2> QED
      BY <1>3, <2>1, <2>2, <2>3
  <1>6. ASSUME NEW u \in User, Probe(u) PROVE Remembered'
    <2>1. lib # 0
      <3>1. pc[u] = "probe" /\ Library /\ path[u] \in 1 .. Paths + 1
        BY <1>1, <1>6 DEF StubInv, Probe, TypeOK
      <3>2. lib = path[u]
        BY <3>1 DEF Library
      <3> QED
        BY <3>1, <3>2
    <2> QED
      BY <1>1, <1>2, <1>4, <1>6, <2>1 DEF Probe
  <1>7. ASSUME NEW u \in User, UnloadIfLast(u) PROVE Remembered'
    BY <1>1, <1>2, <1>4, <1>7 DEF UnloadIfLast, IsLast
  <1>8. CASE LibFails
    BY <1>1, <1>2, <1>8 DEF LibFails
  <1>9. ASSUME UNCHANGED loader PROVE Remembered'
    BY <1>1, <1>9
  <1> QED
    BY <1>5, <1>6, <1>7, <1>8, <1>9 DEF Next, Step, CallInit, EnsureMutex, CheckStatus, Look, SearchEnds,
       Adopt, Count, Attach, CallCleanup, Uncount, DestroyMutex, vars

\* A step that changes nothing of this is a stutter,
LEMMA Hidden ==
  ASSUME kept' = kept, Mapped' = Mapped, libError' = libError, Held' = Held, Entered' = Entered
  PROVE  UNCHANGED Holders!vars
  BY DEF Holders!vars, Mapped, Held, Entered

\* and what a new value of a context changes.
LEMMA OneContext ==
  ASSUME ctx \in [User -> Ctx], NEW u \in User, NEW c, ctx' = [ctx EXCEPT ![u] = c]
  PROVE  /\ Held' = [Held EXCEPT ![u] = c.lib]
         /\ Entered' = IF c.kind = "full" THEN Entered \cup {u} ELSE Entered \ {u}
  BY DEF Held, Entered

\* A context that points nowhere.
LEMMA HoldsNothing ==
  ASSUME HoldersInv, NEW u \in User, ctx[u].lib = 0, NEW c, c.lib = 0, c.kind # "full",
         ctx' = [ctx EXCEPT ![u] = c]
  PROVE  Held' = Held /\ Entered' = Entered
  <1>1. ctx \in [User -> Ctx] /\ ctx[u].kind # "full"
    BY DEF HoldersInv, StubInv, TypeOK, Pointing
  <1>2. Held[u] = 0 /\ u \notin Entered
    BY <1>1 DEF Held, Entered
  <1>3. Held' = [Held EXCEPT ![u] = 0] /\ Entered' = Entered \ {u}
    BY <1>1, OneContext
  <1>4. Held = [v \in User |-> Held[v]]
    BY DEF Held
  <1> HIDE DEF Held
  <1> QED
    BY <1>2, <1>3, <1>4

\* The one library there is.
LEMMA MappedIs ==
  ASSUME StubInv
  PROVE  Mapped = {lib} \ {0} /\ lib \in 0 .. Paths
  BY DEF StubInv, Library, TypeOK, Mapped

\* Each step of the stub is one of the holders, or hidden.
LEMMA HoldersStep ==
  ASSUME HoldersInv, [Next]_vars
  PROVE  [Holders!Next]_Holders!vars
  <1> USE DEF Goto, Status, global, loader
  <1>1. ctx \in [User -> Ctx] /\ StubInv /\ Pointing /\ Remembered
    BY DEF HoldersInv, StubInv, TypeOK
  <1>2. Mapped = {lib} \ {0} /\ lib \in 0 .. Paths
    BY <1>1, MappedIs
  <1>3. None.lib = 0 /\ None.kind = "none"
    BY DEF None
  <1>4. ASSUME NEW u \in User, ctx[u].lib = 0, ctx' = [ctx EXCEPT ![u] = None] PROVE Held' = Held /\ Entered' = Entered
    BY <1>3, <1>4, HoldsNothing
  <1>5. ASSUME ctx' = ctx PROVE Held' = Held /\ Entered' = Entered
    BY <1>5 DEF Held, Entered
  <1>6. ASSUME maps' = maps PROVE Mapped' = Mapped
    BY <1>6 DEF Mapped
  <1>7. ASSUME NEW u \in User,
               \/ CallInit(u) \/ EnsureMutex(u) \/ CheckStatus(u) \/ SearchEnds(u) \/ Count(u)
               \/ Uncount(u) \/ DestroyMutex(u)
        PROVE  UNCHANGED Holders!vars
    <2>1. UNCHANGED <<kept, maps, libError>>
      BY <1>7 DEF CallInit, EnsureMutex, CheckStatus, SearchEnds, Count, Uncount, DestroyMutex
    <2>2. ctx' = ctx \/ (ctx[u].lib = 0 /\ ctx' = [ctx EXCEPT ![u] = None])
      BY <1>1, <1>3, <1>7 DEF CallInit, EnsureMutex, CheckStatus, SearchEnds, Count, Uncount, DestroyMutex,
                         Refuse, StubInv, Contexts
    <2> QED
      BY <1>4, <1>5, <1>6, <2>1, <2>2, Hidden
  <1>8. ASSUME NEW u \in User, Look(u) PROVE UNCHANGED Holders!vars
    <2>1. UNCHANGED <<kept, maps, libError>>
      BY <1>8 DEF Look
    <2>2. ctx[u] = None
      BY <1>1, <1>8 DEF Look, StubInv, Contexts
    <2>3. PICK kind \in {"empty", "none"} : ctx' = [ctx EXCEPT ![u].kind = kind]
      BY <1>8 DEF Look
    <2>4. ctx' = [ctx EXCEPT ![u] = [None EXCEPT !.kind = kind]]
      BY <1>1, <2>2, <2>3
    <2>5. [None EXCEPT !.kind = kind].lib = 0 /\ [None EXCEPT !.kind = kind].kind # "full"
      BY DEF None
    <2>6. Held' = Held /\ Entered' = Entered
      BY <1>3, <2>2, <2>4, <2>5, HoldsNothing
    <2> QED
      BY <1>6, <2>1, <2>6, Hidden
  <1>9. ASSUME NEW u \in User, Search(u) PROVE [Holders!Next]_Holders!vars
    <2>1. UNCHANGED <<kept, ctx>> /\ path[u] \in 1 .. Paths /\ pc[u] = "search" /\ lib = 0
      BY <1>1, <1>9 DEF Search, StubInv, TypeOK, Library
    <2>2. CASE UNCHANGED loader
      BY <1>5, <1>6, <2>1, <2>2, Hidden
    <2>3. ASSUME NEW p \in 1 .. Paths, p = path[u], Map(p) PROVE Holders!Next
      <3>1. Mapped = {} /\ maps[p] = 0 /\ maps'[p] = 1 /\ \A q \in 1 .. Paths \ {p} : maps'[q] = 0
        <4>1. \A q \in 1 .. Paths : maps[q] = 0
          BY <1>1, <2>1 DEF StubInv, Library
        <4>2. maps'[p] = maps[p] + 1 /\ \A q \in 1 .. Paths \ {p} : maps'[q] = maps[q]
          BY <1>1, <2>1, <2>3, MapType DEF StubInv
        <4> QED
          BY <1>2, <2>1, <4>1, <4>2
      <3>2. Mapped' = {p}
        BY <2>1, <3>1 DEF Mapped
      <3>3. libError = {}
        BY <1>1, <3>1 DEF Remembered, Mapped
      <3>4. libError' \in SUBSET {p}
        BY <2>3, <3>3 DEF Map
      <3>5. Holders!Load(p)
        BY <1>5, <2>1, <3>1, <3>2, <3>4 DEF Holders!Load, Mapped, Held, Entered
      <3>6. \E library \in 1 .. Paths : Holders!Load(library)
        BY <2>1, <3>5
      <3> QED
        BY <3>6 DEF Holders!Next
    <2> QED
      BY <1>9, <2>1, <2>2, <2>3 DEF Search
  \* A context is made of the library there is.
  <1>10. ASSUME NEW u \in User, ctx[u].lib = 0, lib # 0, lib \notin libError, UNCHANGED <<kept, maps, libError>>,
                ctx' = [ctx EXCEPT ![u] = [kind |-> "partial", lib |-> lib]]
         PROVE  Holders!Next
    <2>1. Held' = [Held EXCEPT ![u] = lib] /\ Held[u] = 0
      BY <1>1, <1>10, OneContext DEF Held
    <2>2. Entered' = Entered
      <3>1. ctx[u].kind # "full"
        BY <1>1, <1>10 DEF Pointing
      <3> QED
        BY <1>1, <1>10, <3>1, OneContext DEF Entered
    <2>3. lib \in Mapped \ libError /\ lib \in 1 .. Paths
      BY <1>2, <1>10
    <2>4. ASSUME NEW p \in 1 .. Paths, p = lib PROVE Holders!Take(u, p)
      BY <1>6, <1>10, <2>1, <2>2, <2>3, <2>4 DEF Holders!Take, Mapped, Held, Entered
    <2>5. \E library \in 1 .. Paths : Holders!Take(u, library)
      BY <2>3, <2>4
    <2> QED
      BY <2>5 DEF Holders!Next
  \* The library is unloaded when nobody holds it.
  <1>11. ASSUME lib # 0, ~kept, \A u \in User : ctx[u].lib = 0, Unmap(lib), UNCHANGED <<kept, ctx>>
         PROVE  Holders!Next
    <2>1. lib \in 1 .. Paths /\ maps[lib] = 1
      BY <1>1, <1>11, LibIsPath
    <2>2. maps'[lib] = 0 /\ (\A q \in 1 .. Paths \ {lib} : maps'[q] = maps[q]) /\ libError' = libError \ {lib}
      BY <1>1, <1>11, <2>1, UnmapType DEF Unmap, StubInv
    <2>3. Mapped' = Mapped \ {lib} /\ lib \in Mapped
      BY <2>1, <2>2 DEF Mapped
    <2>4. \A u \in User : Held[u] # lib
      BY <1>11 DEF Held
    <2>5. ASSUME NEW p \in 1 .. Paths, p = lib PROVE Holders!Unload(p)
      BY <1>5, <1>11, <2>2, <2>3, <2>4, <2>5 DEF Holders!Unload, Mapped, Held, Entered
    <2>6. \E library \in 1 .. Paths : Holders!Unload(library)
      BY <2>1, <2>5
    <2> QED
      BY <2>6 DEF Holders!Next
  <1>12. ASSUME NEW u \in User, Probe(u) PROVE [Holders!Next]_Holders!vars
    <2>1. pc[u] = "probe" /\ Library /\ path[u] \in 1 .. Paths + 1 /\ kept' = kept
      BY <1>1, <1>12 DEF StubInv, Probe, TypeOK
    <2>2. lib # 0 /\ \A v \in User : ctx[v].lib = 0
      <3>1. lib = path[u] /\ \A v \in User : ctx[v].lib = 0
        BY <2>1 DEF Library
      <3> QED
        BY <2>1, <3>1
    <2>3. ~kept
      BY <1>1, <2>1 DEF StubInv, KeptAlive
    <2> QED
      BY <1>10, <1>11, <1>12, <2>1, <2>2, <2>3 DEF Probe
  <1>13. ASSUME NEW u \in User, Adopt(u) PROVE [Holders!Next]_Holders!vars
    <2>1. pc[u] = "adopt" /\ Library /\ Contexts /\ UNCHANGED <<kept, maps, libError>>
      BY <1>1, <1>13 DEF StubInv, Adopt
    <2>2. lib # 0 /\ ctx[u].lib = 0
      BY <1>3, <2>1 DEF Library, Contexts
    <2>3. CASE lib \in libError
      BY <1>4, <1>6, <1>13, <2>1, <2>2, <2>3, Hidden DEF Adopt, Refuse
    <2>4. CASE lib \notin libError
      BY <1>10, <1>13, <2>1, <2>2, <2>4 DEF Adopt
    <2> QED
      BY <2>3, <2>4
  <1>14. ASSUME NEW u \in User, Attach(u) PROVE [Holders!Next]_Holders!vars
    <2>1. UNCHANGED <<kept, maps, libError>> /\ ctx[u] # None
      BY <1>14 DEF Attach
    <2>2. CASE ctx' = ctx
      BY <1>5, <1>6, <2>1, <2>2, Hidden
    <2>3. CASE ctx[u].kind # "empty" /\ ctx[u].lib \notin libError /\ ctx' = [ctx EXCEPT ![u].kind = "full"]
      <3>1. ctx[u].lib # 0 /\ ctx[u].lib = lib
        BY <1>1, <2>1, <2>3, NoneIs DEF Ctx, StubInv, Contexts, Pointing
      <3>2. ctx' = [ctx EXCEPT ![u] = [ctx[u] EXCEPT !.kind = "full"]]
        BY <1>1, <2>3
      <3>3. [ctx[u] EXCEPT !.kind = "full"].kind = "full" /\ [ctx[u] EXCEPT !.kind = "full"].lib = ctx[u].lib
        BY <1>1 DEF Ctx
      <3>4. Held' = Held /\ Entered' = Entered \cup {u} /\ Held[u] = lib
        BY <1>1, <3>1, <3>2, <3>3, OneContext DEF Held
      <3>5. Held[u] \in Mapped \ libError
        BY <1>2, <2>3, <3>1, <3>4
      <3>6. Holders!Attach(u)
        BY <1>6, <2>1, <3>4, <3>5 DEF Holders!Attach, Mapped, Held, Entered
      <3> QED
        BY <3>6 DEF Holders!Next
    <2> QED
      BY <1>14, <2>2, <2>3 DEF Attach
  <1>15. ASSUME NEW u \in User, CallCleanup(u) PROVE [Holders!Next]_Holders!vars
    <2>1. UNCHANGED <<kept, maps, libError>> /\ ctx' = [ctx EXCEPT ![u] = None]
      BY <1>15 DEF CallCleanup
    <2>2. CASE ctx[u].lib = 0
      BY <1>4, <1>6, <2>1, <2>2, Hidden
    <2>3. CASE ctx[u].lib # 0
      <3>1. Held' = [Held EXCEPT ![u] = 0] /\ Entered' = Entered \ {u} /\ Held[u] # 0
        BY <1>1, <1>3, <2>1, <2>3, OneContext DEF Held
      <3>2. Holders!Release(u)
        BY <1>6, <2>1, <3>1 DEF Holders!Release, Mapped, Held, Entered
      <3> QED
        BY <3>2 DEF Holders!Next
    <2> QED
      BY <2>2, <2>3
  <1>16. ASSUME NEW u \in User, UnloadIfLast(u) PROVE [Holders!Next]_Holders!vars
    <2>1. UNCHANGED <<kept, ctx>> /\ pc[u] = "last"
      BY <1>16 DEF UnloadIfLast
    <2>2. CASE IsLast
      <3>1. RefCountExact /\ Cardinality(Counted) \in Nat /\ (Cardinality(Counted) = 0 <=> Counted = {})
        BY <1>1, CountedFinite DEF StubInv
      <3>2. lib # 0 /\ ~kept /\ Counted = {}
        BY <2>2, <3>1 DEF IsLast, RefCountExact
      <3>3. \A v \in User : ctx[v].lib = 0
        BY <1>1, <1>3, <2>1, <3>2 DEF Counted, StubInv, OneCall, Contexts
      <3> QED
        BY <1>11, <1>16, <2>1, <2>2, <3>2, <3>3 DEF UnloadIfLast
    <2>3. CASE ~IsLast
      <3>1. UNCHANGED <<maps, libError>>
        BY <1>16, <2>3 DEF UnloadIfLast
      <3> QED
        BY <1>5, <1>6, <2>1, <3>1, Hidden
    <2> QED
      BY <2>2, <2>3
  <1>17. CASE LibFails
    <2>1. UNCHANGED <<kept, ctx, maps>>
      BY <1>17 DEF LibFails
    <2>2. PICK p \in Mapped \ libError : libError' = libError \cup {p}
      BY <1>17 DEF LibFails, Mapped
    <2>3. Holders!Fail(p) /\ p \in 1 .. Paths
      BY <1>5, <1>6, <2>1, <2>2 DEF Holders!Fail, Mapped, Held, Entered
    <2> QED
      BY <2>3 DEF Holders!Next
  <1>18. CASE UNCHANGED vars
    BY <1>5, <1>6, <1>18, Hidden DEF vars
  <1> QED
    BY <1>7, <1>8, <1>9, <1>12, <1>13, <1>14, <1>15, <1>16, <1>17, <1>18 DEF Next, Step

(***************************************************************************)
(* The stub implements LibraryHolders step by step, for any finite set of  *)
(* users and any number of paths: one library at a time, which stays until *)
(* nobody holds a context of it, and no context of a library in error is   *)
(* made or attached (ICC_Init, ICC_Attach, ICC_Cleanup, icc.c).            *)
(***************************************************************************)
THEOREM Implements == Spec => IsLibraryHolders
  <1>1. Init => Holders!Init
    <2> SUFFICES ASSUME Init PROVE Holders!Init
      OBVIOUS
    <2>1. Mapped = IF kept THEN {1} ELSE {}
      BY ICCStubAssumption DEF Init, Mapped
    <2>2. Mapped \in IF kept THEN {{p} : p \in 1 .. Paths} ELSE {{}}
      BY <2>1, ICCStubAssumption
    <2>3. Held = [u \in User |-> 0] /\ Entered = {}
      BY DEF Init, Held, Entered, None
    <2> QED
      BY <2>2, <2>3 DEF Init, Holders!Init, Mapped, Held, Entered
  <1>2. Init => Pointing /\ Remembered
    BY DEF Init, Pointing, Remembered, None
  <1>3. StubInv /\ Pointing /\ Remembered /\ [Next]_vars => Pointing' /\ Remembered'
    BY PointingStep, RememberedStep DEF HoldersInv
  <1>4. StubInv /\ Pointing /\ Remembered /\ [Next]_vars => [Holders!Next]_Holders!vars
    BY HoldersStep DEF HoldersInv
  <1> QED
    BY <1>1, <1>2, <1>3, <1>4, StubInvariant, PTL DEF Spec, IsLibraryHolders, Holders!Spec
=============================================================================
