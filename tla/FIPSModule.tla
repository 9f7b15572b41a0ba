----------------------------- MODULE FIPSModule -----------------------------
(***************************************************************************)
(* What an application relies on of the library as a cryptographic module  *)
(* (the finite state model behind ICCLoad, SetFatalError and DisableAPI):  *)
(* it is off until every required test has passed; then it is operational, *)
(* until an error; from the error on it only gets disabled, and stays so.  *)
(* Keys are begun by an operational module, or by a failing one whose      *)
(* functions are not yet all removed, and never from the numbers its own   *)
(* test uses, if it was tested.                                            *)
(***************************************************************************)
CONSTANT User

VARIABLES
  required,  \* the tests that must pass
  passed,    \* those that did
  phase,     \* of the module
  call       \* [User -> what its key generation is given]

vars == <<required, passed, phase, call>>

Test  == {"integrity", "answers"}
Phase == {"off", "operational", "failing", "disabled"}
Call  == {"none", "begun", "random", "constant", "nothing"}

TypeOK ==
  /\ required \subseteq Test /\ passed \subseteq Test
  /\ phase \in Phase /\ call \in [User -> Call]

Init ==
  /\ required \in {{"integrity"}, Test}
  /\ passed = {} /\ phase = "off"
  /\ call = [u \in User |-> "none"]

Pass(test) ==
  /\ phase = "off" /\ test \notin passed
  /\ passed' = passed \cup {test}
  /\ UNCHANGED <<required, phase, call>>

Enable ==
  /\ phase = "off" /\ required \subseteq passed
  /\ phase' = "operational"
  /\ UNCHANGED <<required, passed, call>>

\* A module that never was operational has nothing to remove.
Failed == phase' = IF phase \in {"operational", "failing"} THEN "failing" ELSE "disabled"

Fail == Failed /\ UNCHANGED <<required, passed, call>>

Disable ==
  /\ phase = "failing" /\ phase' = "disabled"
  /\ UNCHANGED <<required, passed, call>>

Begin(u) ==
  /\ phase \in {"operational", "failing"} /\ call[u] = "none"
  /\ call' = [call EXCEPT ![u] = "begun"]
  /\ UNCHANGED <<required, passed, phase>>

\* The generator behind a key may fail, and the module with it.
Give(u) ==
  /\ call[u] = "begun"
  /\ \E numbers \in {"random", "nothing"} \cup (IF "answers" \in passed THEN {} ELSE {"constant"}) :
       call' = [call EXCEPT ![u] = numbers]
  /\ UNCHANGED phase \/ Failed
  /\ UNCHANGED <<required, passed>>

End(u) ==
  /\ call[u] \in {"random", "constant", "nothing"}
  /\ call' = [call EXCEPT ![u] = "none"]
  /\ UNCHANGED <<required, passed, phase>>

Next ==
  \/ \E test \in Test : Pass(test)
  \/ Enable \/ Fail \/ Disable
  \/ \E u \in User : Begin(u) \/ Give(u) \/ End(u)

Spec == Init /\ [][Next]_vars
=============================================================================
