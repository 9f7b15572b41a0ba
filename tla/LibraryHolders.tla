--------------------------- MODULE LibraryHolders ---------------------------
(***************************************************************************)
(* What the users of a shared library rely on of the stub that loads it    *)
(* (icc/icc.c): there is one library at a time; a context is one of the    *)
(* library there is, made and attached while that has no error; and the    *)
(* library stays until nobody holds a context of it, or for good if the    *)
(* application keeps one.  How libraries are searched for, tried and given *)
(* up, and how contexts are counted, does not show.                        *)
(***************************************************************************)
CONSTANTS
  User,
  Library,
  Nothing    \* is no library

VARIABLES
  kept,      \* the application keeps a context
  loaded,    \* the libraries loaded
  ill,       \* those in their error state
  holds,     \* [User -> the library of its context]
  attached   \* the users whose context is attached

vars == <<kept, loaded, ill, holds, attached>>

TypeOK ==
  /\ kept \in BOOLEAN /\ loaded \subseteq Library /\ ill \subseteq loaded
  /\ holds \in [User -> Library \cup {Nothing}] /\ attached \subseteq User

Init ==
  /\ kept \in BOOLEAN
  /\ loaded \in IF kept THEN {{library} : library \in Library} ELSE {{}}
  /\ ill = {}
  /\ holds = [u \in User |-> Nothing] /\ attached = {}

\* A library may come up in its error state.
Load(library) ==
  /\ loaded = {} /\ loaded' = {library}
  /\ ill' \in SUBSET {library}
  /\ UNCHANGED <<kept, holds, attached>>

Fail(library) ==
  /\ library \in loaded \ ill
  /\ ill' = ill \cup {library}
  /\ UNCHANGED <<kept, loaded, holds, attached>>

Unload(library) ==
  /\ ~kept /\ library \in loaded
  /\ \A u \in User : holds[u] # library
  /\ loaded' = loaded \ {library} /\ ill' = ill \ {library}
  /\ UNCHANGED <<kept, holds, attached>>

Take(u, library) ==
  /\ holds[u] = Nothing /\ library \in loaded \ ill
  /\ holds' = [holds EXCEPT ![u] = library]
  /\ UNCHANGED <<kept, loaded, ill, attached>>

Attach(u) ==
  /\ holds[u] \in loaded \ ill
  /\ attached' = attached \cup {u}
  /\ UNCHANGED <<kept, loaded, ill, holds>>

Release(u) ==
  /\ holds[u] # Nothing
  /\ holds' = [holds EXCEPT ![u] = Nothing]
  /\ attached' = attached \ {u}
  /\ UNCHANGED <<kept, loaded, ill>>

Next ==
  \/ \E library \in Library : Load(library) \/ Fail(library) \/ Unload(library)
  \/ \E u \in User : Attach(u) \/ Release(u) \/ \E library \in Library : Take(u, library)

Spec == Init /\ [][Next]_vars
=============================================================================
