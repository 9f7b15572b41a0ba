------------------------------ MODULE ICCStub -------------------------------
(***************************************************************************)
(* The static stub of ICC (icc/icc.c): ICC_Init finds and loads the shared *)
(* library, ICC_Attach makes a context usable, ICC_Cleanup destroys it and *)
(* unloads the library with the last one.  The contexts of a process share *)
(* ICCGlobal: only its reference count is always accessed under the mutex, *)
(* and the mutex itself is created and destroyed on the way.               *)
(*                                                                         *)
(* A user is a thread with one context at a time.  The library is what the *)
(* stub sees of it: mapped or not, and in its error state or not, in which *)
(* lib_init and lib_attach refuse.                                         *)
(***************************************************************************)
EXTENDS Integers, FiniteSets

CONSTANTS
  User,       \* the users of the stub
  Paths       \* number of paths parse_path finds

ASSUME ICCStubAssumption ==
  /\ IsFiniteSet(User)
  /\ Paths \in Nat \ {0}

VARIABLES
  kept,         \* the application keeps another context alive; else it makes
                \* one call at a time (the two ways out of icc.c:619)
  pc,           \* [User -> Pc]
  ctx,          \* [User -> Ctx]
  path,         \* [User -> the path being tried]
  failed,       \* [User -> the status of the call is not ICC_OK]
  lib,          \* ICCGlobal.hICCLib: the path it was loaded from, 0 for NULL
  initialized,  \* ICCGlobal.initialized
  refCount,     \* ICCGlobal.refCount
  mutexInit,    \* ICCGlobal.mutexInit
  mutex,        \* the mutex exists
  sticky,       \* default_status is not ICC_OK
  maps,         \* [1 .. Paths -> how often the loader has the library mapped]
  libError      \* the paths whose library is in its error state

global == <<lib, initialized, refCount, mutexInit, mutex, sticky>>
loader == <<maps, libError>>
vars   == <<kept, pc, ctx, path, failed, global, loader>>

\* Where a call is: from "start" to "count" in ICC_Init, then in ICC_Cleanup.
InInit == {"start", "status", "look", "search", "probe", "adopt", "count"}
Pc     == {"idle", "uncount", "last", "destroy"} \cup InInit

\* A context has no call table ("empty"), the one lib_init gives ("partial") or
\* the one lib_attach gives ("full"); lib is the library the table points into.
Ctx  == [kind : {"none", "empty", "partial", "full"}, lib : 0 .. Paths]
None == [kind |-> "none", lib |-> 0]

TypeOK ==
  /\ kept \in BOOLEAN
  /\ pc \in [User -> Pc] /\ ctx \in [User -> Ctx]
  /\ path \in [User -> 1 .. Paths + 1] /\ failed \in [User -> BOOLEAN]
  /\ lib \in 0 .. Paths /\ initialized \in BOOLEAN /\ refCount \in Int
  /\ mutexInit \in BOOLEAN /\ mutex \in BOOLEAN /\ sticky \in BOOLEAN
  /\ maps \in [1 .. Paths -> Nat] /\ libError \subseteq 1 .. Paths

Init ==
  /\ kept \in BOOLEAN
  /\ pc = [u \in User |-> "idle"] /\ ctx = [u \in User |-> None]
  /\ path = [u \in User |-> 1] /\ failed = [u \in User |-> FALSE]
  /\ lib = (IF kept THEN 1 ELSE 0) /\ initialized = kept
  /\ refCount = (IF kept THEN 1 ELSE 0)
  /\ mutexInit = kept /\ mutex = kept /\ sticky = FALSE
  /\ maps = [p \in 1 .. Paths |-> IF kept /\ p = 1 THEN 1 ELSE 0]
  /\ libError = {}

Goto(u, to) == pc' = [pc EXCEPT ![u] = to]
Status(u, bad) == failed' = [failed EXCEPT ![u] = bad]

MayCall(u) == pc[u] = "idle" /\ (~kept => \A v \in User : pc[v] = "idle")

\* The call returns NULL with a status that is not ICC_OK.
Refuse(u) == Goto(u, "idle") /\ Status(u, TRUE) /\ ctx' = [ctx EXCEPT ![u] = None]

-----------------------------------------------------------------------------
(***************************************************************************)
(* The dynamic loader: a library that gets mapped runs its power-on self   *)
(* test and may come up in its error state; unmapped, it forgets it.       *)
(***************************************************************************)
Map(p) ==
  /\ maps' = [maps EXCEPT ![p] = @ + 1]
  /\ \/ UNCHANGED libError
     \/ maps[p] = 0 /\ libError' = libError \cup {p}

Unmap(p) ==
  /\ maps' = [maps EXCEPT ![p] = @ - 1]
  /\ libError' = IF maps[p] = 1 THEN libError \ {p} ELSE libError

\* A mapped library meets a fatal error.
LibFails ==
  /\ \E p \in {q \in 1 .. Paths : maps[q] > 0} \ libError :
       libError' = libError \cup {p}
  /\ UNCHANGED <<kept, pc, ctx, path, failed, global, maps>>

-----------------------------------------------------------------------------
(***************************************************************************)
(* ICC_Init.                                                               *)
(***************************************************************************)
CallInit(u) ==
  /\ MayCall(u) /\ ctx[u] = None
  /\ Goto(u, "start")
  /\ UNCHANGED <<kept, ctx, path, failed, global, loader>>

EnsureMutex(u) ==
  /\ pc[u] = "start"
  /\ \/ /\ mutexInit
        /\ Goto(u, "status")
        /\ UNCHANGED <<mutexInit, mutex, failed, ctx>>
     \/ /\ ~mutexInit
        /\ mutexInit' = TRUE /\ mutex' = TRUE
        /\ Goto(u, "status")
        /\ UNCHANGED <<failed, ctx>>
     \/ /\ ~mutexInit                           \* ICC_CreateMutex failed
        /\ Refuse(u)
        /\ UNCHANGED <<mutexInit, mutex>>
  /\ UNCHANGED <<kept, path, lib, initialized, refCount, sticky, loader>>

\* The status starts as the default one; the path may be too long, or malloc fail.
CheckStatus(u) ==
  /\ pc[u] = "status"
  /\ \/ Refuse(u)
     \/ ~sticky /\ Goto(u, "look") /\ Status(u, FALSE) /\ UNCHANGED ctx
  /\ UNCHANGED <<kept, path, global, loader>>

Look(u) ==
  /\ pc[u] = "look"
  /\ path' = [path EXCEPT ![u] = 1]
  /\ Goto(u, CASE lib = 0 -> "search"
               [] lib # 0 /\ initialized -> "adopt"
               [] lib # 0 /\ ~initialized -> "idle")
  /\ ctx' = [ctx EXCEPT ![u].kind = IF lib = 0 THEN "empty" ELSE "none"]
  /\ UNCHANGED <<kept, failed, global, loader>>

\* Mutant: the search does not end with the last path.
Search_Unbounded(u) ==
  /\ pc[u] = "search"
  /\ path' = [path EXCEPT ![u] = @ + 1]
  /\ UNCHANGED <<kept, pc, failed, lib, loader>>
  /\ UNCHANGED <<ctx, initialized, refCount, mutexInit, mutex, sticky>>

\* One path: it is too long, or nothing is there, or a library is.
Search(u) ==
  /\ pc[u] = "search" /\ path[u] <= Paths
  /\ \/ /\ path' = [path EXCEPT ![u] = @ + 1]
        /\ UNCHANGED <<pc, failed, lib, loader>>
     \/ /\ lib' = 0
        /\ path' = [path EXCEPT ![u] = @ + 1]
        /\ Status(u, TRUE)
        /\ UNCHANGED <<pc, loader>>
     \/ /\ lib' = path[u] /\ Map(path[u])
        /\ Goto(u, "probe")
        /\ UNCHANGED <<path, failed>>
  /\ UNCHANGED <<kept, ctx, initialized, refCount, mutexInit, mutex, sticky>>

\* Mutant: a library that is not ours stays mapped.
Probe_Leaks(u) ==
  /\ pc[u] = "probe"
  /\ \/ /\ lib \notin libError
        /\ ctx' = [ctx EXCEPT ![u] = [kind |-> "partial", lib |-> lib]]
        /\ initialized' = TRUE
        /\ Status(u, FALSE)
        /\ Goto(u, "count")
        /\ UNCHANGED <<lib, path>>
     \/ /\ lib' = 0
        /\ Status(u, TRUE)
        /\ path' = [path EXCEPT ![u] = @ + 1]
        /\ Goto(u, "search")
        /\ UNCHANGED <<ctx, initialized>>
  /\ UNCHANGED <<kept, refCount, mutexInit, mutex, sticky, loader>>

\* Mutant: the search does not go on after a library that is not ours.
Probe_Retries(u) ==
  /\ pc[u] = "probe"
  /\ \/ /\ lib \notin libError
        /\ ctx' = [ctx EXCEPT ![u] = [kind |-> "partial", lib |-> lib]]
        /\ initialized' = TRUE
        /\ Status(u, FALSE)
        /\ Goto(u, "count")
        /\ UNCHANGED <<lib, loader, path>>
     \/ /\ Unmap(lib)
        /\ lib' = 0
        /\ Status(u, TRUE)
        /\ Goto(u, "search")
        /\ UNCHANGED <<ctx, initialized, path>>
  /\ UNCHANGED <<kept, refCount, mutexInit, mutex, sticky>>

\* ICC_initialize_functions on the library just loaded: it may not be ours, or
\* its lib_init may refuse.
Probe(u) ==
  /\ pc[u] = "probe"
  /\ \/ /\ lib \notin libError
        /\ ctx' = [ctx EXCEPT ![u] = [kind |-> "partial", lib |-> lib]]
        /\ initialized' = TRUE
        /\ Status(u, FALSE)
        /\ Goto(u, "count")
        /\ UNCHANGED <<lib, loader, path>>
     \/ /\ Unmap(lib)
        /\ lib' = 0
        /\ Status(u, TRUE)
        /\ path' = [path EXCEPT ![u] = @ + 1]
        /\ Goto(u, "search")
        /\ UNCHANGED <<ctx, initialized>>
  /\ UNCHANGED <<kept, refCount, mutexInit, mutex, sticky>>

SearchEnds(u) ==
  /\ pc[u] = "search" /\ path[u] = Paths + 1
  /\ IF failed[u] THEN Refuse(u) ELSE Goto(u, "count") /\ UNCHANGED <<failed, ctx>>
  /\ UNCHANGED <<kept, path, global, loader>>

\* Mutant: the library's refusal is not passed on.
Adopt_Silent(u) ==
  /\ pc[u] = "adopt"
  /\ IF lib \in libError
     THEN Goto(u, "idle") /\ UNCHANGED <<failed, ctx>>
     ELSE /\ ctx' = [ctx EXCEPT ![u] = [kind |-> "partial", lib |-> lib]]
          /\ Goto(u, "count")
          /\ UNCHANGED failed
  /\ UNCHANGED <<kept, path, global, loader>>

\* ICC_initialize_functions on the library an earlier call loaded.
Adopt(u) ==
  /\ pc[u] = "adopt"
  /\ IF lib \in libError
     THEN Refuse(u)
     ELSE /\ ctx' = [ctx EXCEPT ![u] = [kind |-> "partial", lib |-> lib]]
          /\ Goto(u, "count")
          /\ UNCHANGED failed
  /\ UNCHANGED <<kept, path, global, loader>>

\* Mutant: the count is incremented without the mutex, and the write may be lost.
Count_Unlocked(u) ==
  /\ pc[u] = "count"
  /\ refCount' \in {refCount, refCount + 1}
  /\ Goto(u, "idle")
  /\ UNCHANGED <<kept, ctx, path, failed, lib, initialized, mutexInit, mutex, sticky, loader>>

Count(u) ==
  /\ pc[u] = "count"
  /\ refCount' = refCount + 1
  /\ Goto(u, "idle")
  /\ UNCHANGED <<kept, ctx, path, failed, lib, initialized, mutexInit, mutex, sticky, loader>>

-----------------------------------------------------------------------------
(***************************************************************************)
(* ICC_Attach and ICC_Cleanup.                                             *)
(***************************************************************************)
\* Mutant: lib_attach does not look at the error state.
Attach_Unasked(u) ==
  /\ MayCall(u) /\ ctx[u] # None
  /\ \/ /\ ctx[u].kind = "empty"
        /\ Status(u, TRUE)
        /\ UNCHANGED <<ctx, sticky>>
     \/ /\ ctx[u].kind # "empty"
        /\ Status(u, FALSE)
        /\ ctx' = [ctx EXCEPT ![u].kind = "full"]
        /\ UNCHANGED sticky
  /\ UNCHANGED <<kept, pc, path, lib, initialized, refCount, mutexInit, mutex, loader>>

\* A failure is sticky: the default status is no longer ICC_OK.
Attach(u) ==
  /\ MayCall(u) /\ ctx[u] # None
  /\ \/ /\ ctx[u].kind = "empty"
        /\ Status(u, TRUE)
        /\ UNCHANGED <<ctx, sticky>>
     \/ /\ ctx[u].kind # "empty" /\ ctx[u].lib \in libError
        /\ Status(u, TRUE) /\ sticky' = TRUE
        /\ UNCHANGED ctx
     \/ /\ ctx[u].kind # "empty" /\ ctx[u].lib \notin libError
        /\ Status(u, FALSE)
        /\ ctx' = [ctx EXCEPT ![u].kind = "full"]
        /\ UNCHANGED sticky
  /\ UNCHANGED <<kept, pc, path, lib, initialized, refCount, mutexInit, mutex, loader>>

\* ICC_lib_cleanup frees the library's part of the context.
CallCleanup(u) ==
  /\ MayCall(u) /\ ctx[u] # None
  /\ ctx' = [ctx EXCEPT ![u] = None]
  /\ Status(u, FALSE)
  /\ Goto(u, "uncount")
  /\ UNCHANGED <<kept, path, global, loader>>

Uncount(u) ==
  /\ pc[u] = "uncount"
  /\ refCount' = refCount - 1
  /\ Goto(u, "last")
  /\ UNCHANGED <<kept, ctx, path, failed, lib, initialized, mutexInit, mutex, sticky, loader>>

\* Mutant: the library goes with the second last context.
IsLast_Early == refCount <= 1 /\ lib # 0

IsLast == refCount <= 0 /\ lib # 0

UnloadIfLast(u) ==
  /\ pc[u] = "last"
  /\ IF IsLast
     THEN /\ Unmap(lib)
          /\ lib' = 0 /\ initialized' = FALSE /\ refCount' = 0
          /\ Goto(u, "destroy")
     ELSE /\ Goto(u, "idle")
          /\ UNCHANGED <<lib, initialized, refCount, loader>>
  /\ UNCHANGED <<kept, ctx, path, failed, mutexInit, mutex, sticky>>

\* Mutant: the flag survives the mutex.
DestroyMutex_KeepsFlag(u) ==
  /\ pc[u] = "destroy"
  /\ mutex' = FALSE
  /\ Goto(u, "idle")
  /\ UNCHANGED <<kept, ctx, path, failed, lib, initialized, refCount, mutexInit, sticky, loader>>

DestroyMutex(u) ==
  /\ pc[u] = "destroy"
  /\ mutex' = FALSE /\ mutexInit' = FALSE
  /\ Goto(u, "idle")
  /\ UNCHANGED <<kept, ctx, path, failed, lib, initialized, refCount, sticky, loader>>

\* A step of a call that has been made.
Step(u) ==
  \/ EnsureMutex(u) \/ CheckStatus(u) \/ Look(u)
  \/ Search(u) \/ Probe(u) \/ SearchEnds(u) \/ Adopt(u) \/ Count(u)
  \/ Uncount(u) \/ UnloadIfLast(u) \/ DestroyMutex(u)

Next ==
  \/ \E u \in User : CallInit(u) \/ Attach(u) \/ CallCleanup(u) \/ Step(u)
  \/ LibFails

Spec == Init /\ [][Next]_vars

\* A thread that is in a call goes on executing it.
FairSpec == Spec /\ \A u \in User : WF_vars(Step(u))

-----------------------------------------------------------------------------
(***************************************************************************)
(* Properties.                                                             *)
(***************************************************************************)
(***************************************************************************)
(* The call table of every context points into a mapped library, however   *)
(* the calls of the users interleave (refCount, and the order ICC_Cleanup  *)
(* and ICC_Init keep), as long as they keep to icc.c:619: one call at a    *)
(* time, or a context kept alive.                                          *)
(***************************************************************************)
NoDanglingContext == \A u \in User : ctx[u].lib # 0 => maps[ctx[u].lib] > 0

\* The users whose context is in the count.
Counted == {u \in User : \/ pc[u] = "uncount"
                         \/ pc[u] = "idle" /\ ctx[u] # None}

(***************************************************************************)
(* The reference count is the number of contexts, contexts without a       *)
(* library included.                                                       *)
(***************************************************************************)
RefCountExact == refCount = Cardinality(Counted) + (IF kept THEN 1 ELSE 0)

(***************************************************************************)
(* ICCGlobal.mtx exists whenever a call is about to lock it, although the  *)
(* calls destroy it and create it again.                                   *)
(***************************************************************************)
MutexExists == \A u \in User : pc[u] \in {"count", "uncount", "last"} => mutex

(***************************************************************************)
(* The stub unloads what it loaded: the library is mapped once while       *)
(* ICCGlobal holds its handle, and no library stays mapped once the last   *)
(* context is gone, failed searches included.                              *)
(***************************************************************************)
NoLibraryLeak ==
  /\ \A p \in 1 .. Paths : maps[p] = IF p = lib THEN 1 ELSE 0
  /\ ~kept /\ (\A u \in User : pc[u] = "idle" /\ ctx[u] = None) => lib = 0

(***************************************************************************)
(* An ICC_Init that returns NULL says why: the status it returns is not    *)
(* ICC_OK.                                                                 *)
(***************************************************************************)
RefusalsHaveStatus ==
  [][\A u \in User :
        pc[u] \in InInit /\ pc'[u] = "idle" /\ ctx'[u] = None => failed'[u]]_vars

(***************************************************************************)
(* The stub keeps what its users rely on: LibraryHolders.  A context       *)
(* without a library, which ICC_Init gives when every path is too long,    *)
(* holds nothing.                                                          *)
(***************************************************************************)
Holders == INSTANCE LibraryHolders WITH
  Library  <- 1 .. Paths,
  Nothing  <- 0,
  loaded   <- {p \in 1 .. Paths : maps[p] > 0},
  ill      <- libError,
  holds    <- [u \in User |-> ctx[u].lib],
  attached <- {u \in User : ctx[u].kind = "full"}

IsLibraryHolders == Holders!Spec

(***************************************************************************)
(* Every ICC_Init and every ICC_Cleanup returns.                           *)
(***************************************************************************)
CallsReturn == \A u \in User : pc[u] # "idle" ~> pc[u] = "idle"
=============================================================================
