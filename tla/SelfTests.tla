----------------------------- MODULE SelfTests -----------------------------
(***************************************************************************)
(* The self test of the library (KnownAnswers), run when one operation is  *)
(* ill: what it must find.                                                 *)
(***************************************************************************)
EXTENDS Services, KnownAnswers

(***************************************************************************)
(* One operation is ill, or memory runs out in one test, or both; the      *)
(* signatures are tested against known ones or against new ones.  Only an  *)
(* algorithm looked up by name can be absent, and only an operation that   *)
(* verifies can accept everything.                                         *)
(***************************************************************************)
FoundByName(op) ==
  \/ op[2] \in {"digest", "xof", "hmac", "cmac", "extract", "generate"}
  \/ op[1] \in {"TLS1-PRF", "PBKDF2", "AES-256-CBC"}

Verifies(op) == op[2] = "verify" \/ (op[2] = "decrypt" /\ op[1] \in {"AES-CCM", "AES-GCM", "KW", "KWP"})

CanBe(op, health) ==
  \/ health \in {"wrong", "fails"}
  \/ health = "absent" /\ FoundByName(op)
  \/ health = "lax" /\ Verifies(op)

TryTest ==
  May("test") /\ \E op \in Operation, health \in Health, oom \in {"none"} \cup Algorithm, known \in BOOLEAN :
    /\ CanBe(op, health)
    /\ input' = <<"test", op, health, oom, known>>

SelfTestsSpec == input = <<"test">> /\ [][TryTest]_input

-----------------------------------------------------------------------------
(***************************************************************************)
(* Everything the self test runs: each signature against the known one     *)
(* (known random numbers, and it must repeat) or as a new one, then the    *)
(* rest.                                                                   *)
(***************************************************************************)
SignatureTest(h, alg, oom, known) ==
  IF known THEN KATest_broken(h, alg, oom, "constant") ELSE KATest(h, alg, oom, "random")

AllTests(h, oom, known) ==
  FirstBad(<<FirstBad([i \in DOMAIN Signatures |-> SignatureTest(h, Signatures[i], oom, known)]),
             iccDoKnownAnswer(h, oom)>>)

\* The two tests that pass without having tested when memory runs out.
SkippedSilently(op, oom, known) ==
  /\ oom = op[1]
  /\ op = <<"TLS1-PRF", "derive">> \/ (known /\ op[2] \in {"sign", "verify"})

(***************************************************************************)
(* The self test misses nothing but what Unseen names and what it skips    *)
(* when memory runs out: an operation that gives a wrong answer or an      *)
(* error, or that is missing, makes some test report a status that is not  *)
(* ICC_OK, whichever test fails to get memory (iccDoKnownAnswer and the    *)
(* signature tests, fips.c).                                               *)
(***************************************************************************)
NothingElseMissed ==
  Is("test") =>
    LET op == input[2]  health == input[3]  oom == input[4]  known == input[5]
    IN  AllTests(Ill(op, health), oom, known) = "ok" =>
          Unseen(op, health) \/ SkippedSilently(op, oom, known)
=============================================================================
