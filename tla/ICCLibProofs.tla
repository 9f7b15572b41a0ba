---------------------------- MODULE ICCLibProofs ----------------------------
(***************************************************************************)
(* Proofs about ICCLib for any set of application threads.                 *)
(***************************************************************************)
EXTENDS ICCLib, WellFoundedInduction, TLAPS

(***************************************************************************)
(* The inductive invariant, part by part.                                  *)
(***************************************************************************)
\* The loader loads and tests; users call and test.
Places ==
  /\ pc[Loader] \in LoadPc \cup TestPc
  /\ \A u \in User : pc[u] \in UserPc \cup TestPc

\* Until the library is loaded, and if need be disabled, there are no users.
LoadsAlone ==
  pc[Loader] # "loaded" \/ copying[Loader] # {} =>
    \A u \in User : /\ pc[u] = "idle" /\ copying[u] = {}
                    /\ funcs[u] = "none" /\ drawn[u] = "none"

\* An error while loading stays in the status, so the tables stay empty; a
\* later one leaves somebody who copies.
Disabling ==
  /\ error["generate"] # "call" /\ partial["generate"] # "call"
  /\ errorState => \/ default["generate"] # "call"
                   \/ \E t \in Thread : "generate" \in copying[t]
  /\ pc[Loader] # "loaded" => default["generate"] # "call"
  /\ errorState /\ pc[Loader] # "loaded" => stat[Loader] # "ok"
  /\ pc[Loader] = "enter" => stat[Loader] = "ok"
  /\ pc[Loader] \in {"env", "files"} => ~errorState

\* What the loader knows to have passed at each point.
Posting ==
  /\ fips => runpost
  /\ pc[Loader] \in {"integrity", "tables"} /\ stat[Loader] = "ok" /\ runpost => posted
  /\ pc[Loader] = "tables" /\ stat[Loader] = "ok" => checked
  /\ default["generate"] = "call" => pc[Loader] = "loaded" /\ checked /\ (fips => posted)

\* The FIPS method was installed and the loader has met no error since.
Ready ==
  \/ pc[Loader] \in TestPc
  \/ pc[Loader] \in {"integrity", "tables"} /\ stat[Loader] = "ok"
  \/ partial["SelfTest"] = "call"

Method ==
  /\ Ready => rng = "fips" \/ \E t \in Thread : Inside(t)
  /\ partial["SelfTest"] = "call" => pc[Loader] = "loaded"
  /\ \A t \in Thread : pc[t] \in {"arm", "install", "restore", "poison"} => broken[t] = TRUE

\* The loader's test is one that zeroes the method, and it is zeroed for good.
Zeroed ==
  /\ pc[Loader] \in {"env", "files", "openssl", "enter"} => "bytes" \in method
  /\ pc[Loader] = "sign" => broken[Loader] = TRUE
  /\ pc[Loader] \in {"cycle", "answers", "verdict"} \/ posted => "pseudorand" \notin method
  /\ NoConstantKeys

LibInv == TypeOK /\ Places /\ LoadsAlone /\ Disabling /\ Posting /\ Method /\ Zeroed

-----------------------------------------------------------------------------
(***************************************************************************)
(* Every test reports a status.                                            *)
(***************************************************************************)
LEMMA HasLeast ==
  ASSUME NEW S, S \subseteq Nat, S # {}
  PROVE  \E i \in S : \A j \in S : i <= j
  <1>1. PICK i \in S : \A j \in S : ~(<<j, i>> \in OpToRel(<, Nat))
    BY NatLessThanWellFounded, WFMin
  <1>2. ASSUME NEW j \in S
        PROVE  i <= j
    <2>1. ~(<<j, i>> \in OpToRel(<, Nat))
      BY <1>1
    <2>2. i \in Nat /\ j \in Nat
      OBVIOUS
    <2>3. ~(j < i)
      <3>1. SUFFICES ASSUME j < i
                     PROVE  <<j, i>> \in OpToRel(<, Nat)
        BY <2>1
      <3> QED
        BY <2>2, <3>1, Zenon DEF OpToRel
    <2> QED
      BY <2>2, <2>3
  <1> QED
    BY <1>2

LEMMA FirstBadType ==
  ASSUME NEW s \in Seq(Status)
  PROVE  FirstBad(s) \in Status
  <1> DEFINE bad == {i \in DOMAIN s : s[i] # "ok"}
  <1>0. DOMAIN s \subseteq Nat /\ \A i \in DOMAIN s : s[i] \in Status
    OBVIOUS
  <1>1. CASE bad = {}
    BY <1>1 DEF FirstBad, Status
  <1>2. CASE bad # {}
    <2>1. \E i \in bad : \A j \in bad : i <= j
      BY <1>0, <1>2, HasLeast
    <2>2. (CHOOSE i \in bad : \A j \in bad : i <= j) \in bad
      BY <2>1
    <2>3. FirstBad(s) = s[CHOOSE i \in bad : \A j \in bad : i <= j]
      BY <1>2 DEF FirstBad
    <2> QED
      BY <1>0, <2>2, <2>3
  <1> QED
    BY <1>1, <1>2

\* A list of checks, by its length.
LEMMA ChecksType ==
  /\ \A a, b \in Status : FirstBad(<<a, b>>) \in Status
  /\ \A a, b, c \in Status : FirstBad(<<a, b, c>>) \in Status
  /\ \A a, b, c, d \in Status : FirstBad(<<a, b, c, d>>) \in Status
  /\ \A a, b, c, d, e, f, g, i \in Status : FirstBad(<<a, b, c, d, e, f, g, i>>) \in Status
  <1>1. \A a, b \in Status : <<a, b>> \in Seq(Status)
    OBVIOUS
  <1>2. \A a, b, c \in Status : <<a, b, c>> \in Seq(Status)
    OBVIOUS
  <1>3. \A a, b, c, d \in Status : <<a, b, c, d>> \in Seq(Status)
    OBVIOUS
  <1>4. \A a, b, c, d, e, f, g, i \in Status : <<a, b, c, d, e, f, g, i>> \in Seq(Status)
    OBVIOUS
  <1> QED
    BY <1>1, <1>2, <1>3, <1>4, FirstBadType

LEMMA CheckType ==
  ASSUME NEW op
  PROVE  /\ Found(op) \in Status /\ Works(op) \in Status /\ iccCheckKnownAnswer(op) \in Status
         /\ \A alg, oom : Memory(oom, alg) \in Status
         /\ \A dec : RoundTrip(op, dec) \in Status
         /\ \A valid : VerifySig(op, valid) \in Status
         /\ \A alg, rnd : GenerateSig(op, alg, rnd) \in Status
         /\ \A test : Fatal(test) \in Status
  <1>1. \A test : Fatal(test) \in Status
    BY DEF Fatal, Status
  <1>2. Works(op) \in Status
    BY DEF Works, Status
  <1>3. \A o : iccCheckKnownAnswer(o) \in Status
    BY <1>1 DEF iccCheckKnownAnswer
  <1>4. \A dec : RoundTrip(op, dec) \in Status
    BY <1>3, ChecksType DEF RoundTrip
  <1> QED
    BY <1>1, <1>2, <1>3, <1>4 DEF Found, Memory, VerifySig, GenerateSig

LEMMA SignatureType ==
  ASSUME NEW h, NEW alg, NEW oom, NEW t
  PROVE  SignatureTest(h, alg, oom, t) \in Status
  <1>1. "ok" \in Status
    BY DEF Status
  <1>2. KATest(h, alg, oom, Numbers) \in Status
    BY CheckType, ChecksType DEF KATest
  <1>3. KATest_broken(h, alg, oom, Numbers) \in Status
    BY <1>1, CheckType, ChecksType DEF KATest_broken
  <1> QED
    BY <1>2, <1>3 DEF SignatureTest

\* The tests of iccDoKnownAnswer, list by list.
LEMMA TestsType ==
  ASSUME NEW h, NEW oom
  PROVE  /\ Digests(h, oom) \in Seq(Status) /\ Keys(h, oom) \in Seq(Status)
         /\ Macs(h, oom) \in Seq(Status) /\ Curves(h, oom) \in Seq(Status)
         /\ Ciphers(h, oom) \in Seq(Status) /\ Derivations(h, oom) \in Seq(Status)
  <1>0. "ok" \in Status /\ "error" \in Status /\ "openssl" \in Status
    BY DEF Status
  <1>20. \A a, b, c, d, e \in Status : <<a, b, c, d, e>> \in Seq(Status)
    OBVIOUS
  <1>1. \A alg : iccDigest(h, alg, oom) \in Status /\ iccXOF(h, alg, oom) \in Status
    BY CheckType, ChecksType DEF iccDigest, iccXOF
  <1>2. \A alg : iccHMACTest(h, alg, oom) \in Status /\ iccCMACTest(h, alg, oom) \in Status
    BY <1>0, CheckType, ChecksType DEF iccHMACTest, iccCMACTest
  <1>3. \A op : iccSymEnc(op) \in Status /\ iccSymDec(op) \in Status
    BY CheckType, ChecksType DEF iccSymEnc, iccSymDec
  <1>4. \A alg : iccCipherTest(h, alg, oom) \in Status
    BY <1>3, CheckType, ChecksType DEF iccCipherTest
  <1>5. \A alg : /\ iccAES_CCMTest(h, alg, oom) \in Status
                 /\ iccAES_GCMTest(h, alg, oom) \in Status
                 /\ iccAES_XTSTest(h, alg, oom) \in Status
    BY CheckType, ChecksType DEF iccAES_CCMTest, iccAES_GCMTest, iccAES_XTSTest
  <1>6. \A alg : iccChaChaPolyTest(h, alg, oom) \in Status /\ iccCheckKW(h, alg, oom) \in Status
    BY CheckType, ChecksType DEF iccChaChaPolyTest, iccCheckKW
  <1>7. \A alg : iccRSACipherTest(h, alg, oom) \in Status
    BY CheckType, ChecksType DEF iccRSACipherTest
  <1>8. \A alg : /\ iccRSAKeyPair(h, alg, oom) \in Status
                 /\ iccDSAPairTest(h, alg, oom) \in Status
                 /\ iccECKEYPairTest(h, alg, oom) \in Status
    BY CheckType, ChecksType DEF iccRSAKeyPair, iccDSAPairTest, iccECKEYPairTest, PairTest
  <1>9. \A alg : /\ DSA_verify(h, alg) \in Status /\ iccDSA2KA(h, alg, oom) \in Status
                 /\ iccECDHVerifyKAS(h, alg) \in Status /\ iccDHTest(h, alg, oom) \in Status
    BY <1>0, CheckType, ChecksType DEF DSA_verify, iccDSA2KA, iccECDHVerifyKAS, iccDHTest
  <1>10. \A alg : /\ iccHKDFTest(h, alg, oom) \in Status /\ iccTestTLS_KDF(h, alg, oom) \in Status
                  /\ iccPBKDF2Test(h, alg, oom) \in Status
    BY <1>0, CheckType, ChecksType DEF iccHKDFTest, iccTestTLS_KDF, iccPBKDF2Test
  <1>11. \A alg : iccSP800_108Test(h, alg) \in Status /\ iccSP800_90Test(h, alg, oom) \in Status
    BY CheckType, ChecksType DEF iccSP800_108Test, iccSP800_90Test
  <1>12. RNGAlgTests(h) \in Status
    BY CheckType, ChecksType DEF RNGAlgTests
  <1>21. Digests(h, oom) \in Seq(Status)
    BY <1>1 DEF Digests
  <1>22. Keys(h, oom) \in Seq(Status)
    BY <1>7, <1>8, <1>9 DEF Keys
  <1>23. Macs(h, oom) \in Seq(Status)
    BY <1>2, <1>4 DEF Macs
  <1>24. Curves(h, oom) \in Seq(Status)
    <2>1. /\ iccDSA2KA(h, "DSA", oom) \in Status /\ iccECDHVerifyKAS(h, "ECDH") \in Status
          /\ iccECKEYPairTest(h, "EC-P384", oom) \in Status
          /\ iccECKEYPairTest(h, "EC-B233", oom) \in Status
      BY <1>8, <1>9
    <2> QED
      BY <2>1, <1>12, <1>20, Zenon DEF Curves
  <1>25. Ciphers(h, oom) \in Seq(Status)
    <2>1. /\ iccAES_CCMTest(h, "AES-CCM", oom) \in Status
          /\ iccAES_GCMTest(h, "AES-GCM", oom) \in Status
          /\ iccAES_XTSTest(h, "AES-128-XTS", oom) \in Status
          /\ iccSP800_90Test(h, "SHA256-DRBG", oom) \in Status
          /\ iccSP800_108Test(h, "SHA256-CTR") \in Status
      BY <1>5, <1>11
    <2> QED
      BY <2>1, <1>20, Zenon DEF Ciphers
  <1>26. Derivations(h, oom) \in Seq(Status)
    BY <1>6, <1>9, <1>10 DEF Derivations
  <1> QED
    BY <1>21, <1>22, <1>23, <1>24, <1>25, <1>26

LEMMA OutcomesType == Outcomes \subseteq Status
  <1>1. ASSUME NEW h, NEW oom
        PROVE  iccDoKnownAnswer(h, oom) \in Status
    <2>1. \A a, b, c, d, e, f \in Status : FirstBad(<<a, b, c, d, e, f>>) \in Status
      <3>1. \A a, b, c, d, e, f \in Status : <<a, b, c, d, e, f>> \in Seq(Status)
        OBVIOUS
      <3> QED
        BY <3>1, FirstBadType
    <2>2. /\ FirstBad(Digests(h, oom)) \in Status /\ FirstBad(Keys(h, oom)) \in Status
          /\ FirstBad(Macs(h, oom)) \in Status /\ FirstBad(Curves(h, oom)) \in Status
          /\ FirstBad(Ciphers(h, oom)) \in Status /\ FirstBad(Derivations(h, oom)) \in Status
      BY TestsType, FirstBadType
    <2> QED
      BY <2>1, <2>2 DEF iccDoKnownAnswer
  <1> QED
    BY <1>1 DEF Outcomes

-----------------------------------------------------------------------------
LEMMA InitLib == Init => LibInv
  <1> SUFFICES ASSUME Init
               PROVE  LibInv
    OBVIOUS
  <1> USE DEF Init
  <1>1. TypeOK
    <2>1. fips \in BOOLEAN /\ runpost \in BOOLEAN
      BY Zenon
    <2> QED
      BY <2>1 DEF TypeOK, Pc, LoadPc, UserPc, TestPc, Status, Entry
  <1>2. Places
    BY ICCLibAssumption DEF Places, LoadPc, UserPc, Thread
  <1>3. LoadsAlone
    BY ICCLibAssumption DEF LoadsAlone, Thread
  <1>4. Disabling
    BY DEF Disabling, Func, Thread
  <1>5. Posting
    BY DEF Posting, Func, Thread
  <1>6. Method
    <2>1. ~Ready
      BY DEF Ready, Func, Thread, TestPc
    <2>2. partial["SelfTest"] # "call"
      BY DEF Func
    <2>3. \A t \in Thread : pc[t] \in {"env", "idle"}
      OBVIOUS
    <2> QED
      BY <2>1, <2>2, <2>3 DEF Method
  <1>7. Zeroed
    BY DEF Zeroed, NoConstantKeys, Thread
  <1> QED
    BY <1>1, <1>2, <1>3, <1>4, <1>5, <1>6, <1>7 DEF LibInv

\* What SetFatalError, and what calls it, may do to those who copy.
Raises(t) ==
  /\ \A s \in Thread \ {t} : copying'[s] = copying[s]
  /\ \A s \in Thread : copying[s] \subseteq copying'[s]
  /\ errorState' /\ ~errorState => \E s \in Thread : copying'[s] = Func

LEMMA FatalType ==
  ASSUME TypeOK, NEW t \in Thread, SetFatalError(t)
  PROVE  errorState' = TRUE /\ copying' \in [Thread -> SUBSET Func] /\ Raises(t)
  BY DEF TypeOK, SetFatalError, Raises

LEMMA KeptType ==
  ASSUME TypeOK, NEW t \in Thread, UNCHANGED fatal
  PROVE  errorState' \in BOOLEAN /\ copying' \in [Thread -> SUBSET Func] /\ Raises(t)
  BY Zenon DEF TypeOK, fatal, Raises

LEMMA StatusType ==
  ASSUME TypeOK, NEW t \in Thread, NEW s \in Status, SetStatus(t, s)
  PROVE  /\ stat' = [stat EXCEPT ![t] = s] /\ stat' \in [Thread -> Status]
         /\ errorState' \in BOOLEAN /\ copying' \in [Thread -> SUBSET Func] /\ Raises(t)
  <1>1. stat' = [stat EXCEPT ![t] = s] /\ stat' \in [Thread -> Status]
    BY DEF TypeOK, SetStatus
  <1>2. CASE s = "fatal"
    <2>1. SetFatalError(t)
      BY <1>2 DEF SetStatus
    <2> QED
      BY <1>1, <2>1, FatalType, Zenon
  <1>3. CASE s # "fatal"
    <2>1. UNCHANGED fatal
      BY <1>3 DEF SetStatus
    <2> QED
      BY <1>1, <2>1, KeptType, Zenon
  <1> QED
    BY <1>2, <1>3

\* While the default table is as it was, somebody will disable it.
LEMMA StillDisabled ==
  ASSUME TypeOK, Disabling, NEW t \in Thread, Raises(t), UNCHANGED default
  PROVE  errorState' => \/ default'["generate"] # "call"
                        \/ \E o \in Thread : "generate" \in copying'[o]
  BY Zenon DEF Disabling, Raises, TypeOK, Func

\* The steps that may raise a fatal error.
LoaderRaises   == OpenCheckFiles \/ OpenSSL_Init \/ Integrity
SelfTestRaises(t) == Sign(t) \/ Cycle(t) \/ Answers(t) \/ Verdict(t)
CallRaises(u)  == IntegrityCheck(u) \/ lib_attach(u) \/ Create(u)

LEMMA LoaderStep ==
  ASSUME TypeOK, LoaderRaises
  PROVE  Raises(Loader)
  <1>0. Loader \in Thread
    BY DEF Thread
  <1>1. CASE OpenCheckFiles
    BY <1>0, <1>1, StatusType DEF OpenCheckFiles, Status
  <1>2. CASE OpenSSL_Init
    <2>1. SetFatalError(Loader) \/ UNCHANGED fatal
      BY <1>2 DEF OpenSSL_Init
    <2> QED
      BY <1>0, <2>1, FatalType, KeptType
  <1>3. CASE Integrity
    <2>1. (\E s \in Status : SetStatus(Loader, s)) \/ UNCHANGED fatal
      BY <1>3 DEF Integrity, Status, fatal
    <2> QED
      BY <1>0, <2>1, StatusType, KeptType
  <1> QED
    BY <1>1, <1>2, <1>3 DEF LoaderRaises

LEMMA SelfTestStep ==
  ASSUME TypeOK, NEW t \in Thread, SelfTestRaises(t)
  PROVE  Raises(t)
  <1>1. CASE Sign(t)
    <2>1. PICK s \in Status : SetStatus(t, s)
      BY <1>1, SignatureType DEF Sign
    <2> QED
      BY <2>1, StatusType
  <1>2. CASE Cycle(t)
    <2>1. UNCHANGED fatal \/ SetStatus(t, "fatal") \/ SetFatalError(t)
      BY <1>2 DEF Cycle, fatal
    <2> QED
      BY <2>1, FatalType, KeptType, StatusType DEF Status
  <1>3. CASE Answers(t)
    <2>1. (\E s \in Status : SetStatus(t, s)) \/ UNCHANGED fatal
      BY <1>3, OutcomesType DEF Answers, fatal
    <2> QED
      BY <2>1, StatusType, KeptType
  <1>4. CASE Verdict(t)
    <2>1. SetFatalError(t) \/ UNCHANGED fatal
      BY <1>4 DEF Verdict
    <2> QED
      BY <2>1, FatalType, KeptType
  <1> QED
    BY <1>1, <1>2, <1>3, <1>4 DEF SelfTestRaises

LEMMA CallStep ==
  ASSUME TypeOK, NEW u \in User, CallRaises(u)
  PROVE  Raises(u)
  <1>1. u \in Thread
    BY DEF Thread
  <1>2. SetFatalError(u) \/ UNCHANGED fatal
    BY DEF CallRaises, IntegrityCheck, lib_attach, Create, fatal
  <1> QED
    BY <1>1, <1>2, FatalType, KeptType

-----------------------------------------------------------------------------
LEMMA TypeStep ==
  ASSUME LibInv, [Next]_vars
  PROVE  TypeOK'
  <1> USE DEF TypeOK, Goto, At, Pc, LoadPc, TestPc, UserPc
  <1> USE DEF build, tables, fatal, random, app, proof
  <1>0. Loader \in Thread /\ User \subseteq Thread /\ TypeOK
    BY DEF Thread, LibInv
  <1>1. CASE EnvVars
    BY <1>0, <1>1 DEF EnvVars
  <1>2. CASE OpenCheckFiles
    <2>1. PICK s \in {"ok", "fatal"} : SetStatus(Loader, s)
      BY <1>2 DEF OpenCheckFiles
    <2>2. /\ stat' \in [Thread -> Status] /\ errorState' \in BOOLEAN
          /\ copying' \in [Thread -> SUBSET Func]
      BY <1>0, <2>1, StatusType DEF Status
    <2> QED
      BY <1>0, <1>2, <2>2 DEF OpenCheckFiles
  <1>3. CASE OpenSSL_Init
    <2>1. errorState' \in BOOLEAN /\ copying' \in [Thread -> SUBSET Func]
      <3>1. CASE SetFatalError(Loader)
        BY <1>0, <3>1, FatalType, Zenon
      <3>2. CASE UNCHANGED fatal
        BY <1>0, <3>2, Zenon
      <3> QED
        BY <1>3, <3>1, <3>2 DEF OpenSSL_Init
    <2>2. stat' \in [Thread -> Status]
      <3>1. PICK s \in Status : stat' = [stat EXCEPT ![Loader] = s]
        BY <1>0, <1>3 DEF OpenSSL_Init, Status
      <3> QED
        BY <1>0, <3>1
    <2>3. initialized' \in BOOLEAN
      BY <1>3, Zenon DEF OpenSSL_Init
    <2>4. rng' \in {"openssl", "fips", "insecure"}
      BY <1>0, <1>3 DEF OpenSSL_Init
    <2>5. pc' \in [Thread -> Pc]
      BY <1>0, <1>3 DEF OpenSSL_Init
    <2> QED
      BY <1>0, <1>3, <2>1, <2>2, <2>3, <2>4, <2>5, Zenon DEF OpenSSL_Init
  <1>4. CASE Integrity
    <2>1. /\ stat' \in [Thread -> Status] /\ errorState' \in BOOLEAN
          /\ copying' \in [Thread -> SUBSET Func] /\ checked' \in BOOLEAN
      <3>1. CASE stat[Loader] = "ok"
        <4>1. PICK s \in {"ok", "fatal"} : SetStatus(Loader, s) /\ checked' = (s = "ok")
          BY <1>4, <3>1 DEF Integrity
        <4>2. checked' \in BOOLEAN
          <5>1. s = "ok" => checked' = TRUE
            BY <4>1, Zenon
          <5>2. s # "ok" => checked' = FALSE
            BY <4>1, Zenon
          <5> QED
            BY <5>1, <5>2
        <4> QED
          BY <1>0, <4>1, <4>2, StatusType DEF Status
      <3>2. CASE stat[Loader] # "ok"
        BY <1>0, <1>4, <3>2, Zenon DEF Integrity
      <3> QED
        BY <3>1, <3>2
    <2>2. pc' \in [Thread -> Pc]
      BY <1>0, <1>4 DEF Integrity
    <2> QED
      BY <1>0, <1>4, <2>1, <2>2, Zenon DEF Integrity
  <1>5. CASE LoadTables
    <2>1. CASE stat[Loader] # "ok"
      BY <1>0, <1>5, <2>1 DEF LoadTables
    <2>2. CASE stat[Loader] = "ok"
      <3>1. default' \in [Func -> Entry]
        BY <1>5, <2>2 DEF LoadTables, Entry
      <3>2. error' \in [Func -> Entry] /\ partial' \in [Func -> Entry]
        BY <1>5, <2>2, <3>1 DEF LoadTables, ErrorTable, PartialTable, Entry
      <3>3. stat' \in [Thread -> Status]
        <4>1. PICK s \in {"ok", "error"} : stat' = [stat EXCEPT ![Loader] = s]
          BY <1>5, <2>2 DEF LoadTables
        <4> QED
          BY <1>0, <4>1 DEF Status
      <3>4. pc' \in [Thread -> Pc]
        BY <1>0, <1>5 DEF LoadTables
      <3> QED
        BY <1>0, <1>5, <3>1, <3>2, <3>3, <3>4, Zenon DEF LoadTables
    <2> QED
      BY <2>1, <2>2
  <1>6. ASSUME NEW t \in Thread, Enter(t)
        PROVE  TypeOK'
    <2>1. broken' \in [Thread -> BOOLEAN]
      <3>1. CASE "bytes" \in method
        BY <1>0, <1>6, <3>1 DEF Enter
      <3>2. CASE ~("bytes" \in method)
        BY <1>0, <1>6, <3>2 DEF Enter
      <3> QED
        BY <3>1, <3>2
    <2>2. pc' \in [Thread -> Pc] /\ stat' \in [Thread -> Status]
      BY <1>0, <1>6 DEF Enter, Status
    <2> QED
      BY <1>0, <1>6, <2>1, <2>2, Zenon DEF Enter
  <1>7. ASSUME NEW t \in Thread, Arm(t)
        PROVE  TypeOK'
    BY <1>0, <1>7 DEF Arm
  <1>8. ASSUME NEW t \in Thread, Install(t)
        PROVE  TypeOK'
    BY <1>0, <1>8 DEF Install
  <1>9. ASSUME NEW t \in Thread, Sign(t)
        PROVE  TypeOK'
    <2>1. PICK s \in Status : SetStatus(t, s)
      BY <1>9, SignatureType DEF Sign
    <2> QED
      BY <1>0, <1>9, <2>1, StatusType, Zenon DEF Sign
  <1>10. ASSUME NEW t \in Thread, Signed(t)
        PROVE  TypeOK'
    BY <1>0, <1>10 DEF Signed
  <1>11. ASSUME NEW t \in Thread, Restore(t)
        PROVE  TypeOK'
    BY <1>0, <1>11 DEF Restore
  <1>12. ASSUME NEW t \in Thread, Poison(t)
        PROVE  TypeOK'
    BY <1>0, <1>12 DEF Poison
  <1>13. ASSUME NEW t \in Thread, Cycle(t)
        PROVE  TypeOK'
    <2>1. /\ stat' \in [Thread -> Status] /\ errorState' \in BOOLEAN
          /\ copying' \in [Thread -> SUBSET Func]
      <3>1. CASE UNCHANGED <<stat, fatal>>
        BY <1>0, <3>1, Zenon
      <3>2. CASE SetStatus(t, "fatal")
        BY <1>0, <3>2, StatusType DEF Status
      <3>3. CASE stat' = [stat EXCEPT ![Loader] = "fatal"] /\ SetFatalError(t)
        BY <1>0, <3>3, FatalType DEF Status
      <3> QED
        BY <1>13, <3>1, <3>2, <3>3 DEF Cycle
    <2>2. pc' \in [Thread -> Pc]
      BY <1>0, <1>13 DEF Cycle
    <2> QED
      BY <1>0, <1>13, <2>1, <2>2, Zenon DEF Cycle
  <1>14. ASSUME NEW t \in Thread, Answers(t)
        PROVE  TypeOK'
    <2>1. /\ stat' \in [Thread -> Status] /\ errorState' \in BOOLEAN
          /\ copying' \in [Thread -> SUBSET Func]
      <3>1. CASE stat[t] = "ok"
        <4>1. PICK s \in Status : SetStatus(t, s)
          BY <1>14, <3>1, OutcomesType DEF Answers
        <4> QED
          BY <1>0, <4>1, StatusType, Zenon
      <3>2. CASE stat[t] # "ok"
        BY <1>0, <1>14, <3>2, Zenon DEF Answers
      <3> QED
        BY <3>1, <3>2
    <2>2. pc' \in [Thread -> Pc]
      BY <1>0, <1>14 DEF Answers
    <2> QED
      BY <1>0, <1>14, <2>1, <2>2, Zenon DEF Answers
  <1>15. ASSUME NEW t \in Thread, Verdict(t)
        PROVE  TypeOK'
    <2>1. errorState' \in BOOLEAN /\ copying' \in [Thread -> SUBSET Func]
      BY <1>0, <1>15, FatalType, Zenon DEF Verdict
    <2>2. /\ pc' \in [Thread -> Pc] /\ stat' \in [Thread -> Status]
          /\ rng' \in {"openssl", "fips", "insecure"}
      BY <1>0, <1>15 DEF Verdict, Loaded, Returned, Status
    <2>3. initialized' \in BOOLEAN /\ posted' \in BOOLEAN
      BY <1>0, <1>15, Zenon DEF Verdict, Loaded, Returned
    <2> QED
      BY <1>0, <1>15, <2>1, <2>2, <2>3, Zenon DEF Verdict
  <1>16. ASSUME NEW t \in Thread, DisableAPI(t)
        PROVE  TypeOK'
    BY <1>0, <1>16 DEF DisableAPI
  <1>17. ASSUME NEW u \in User, CallInit(u)
        PROVE  TypeOK'
    BY <1>0, <1>17 DEF CallInit
  <1>18. ASSUME NEW u \in User, CallAttach(u)
        PROVE  TypeOK'
    BY <1>0, <1>18 DEF CallAttach
  <1>19. ASSUME NEW u \in User, lib_cleanup(u)
        PROVE  TypeOK'
    BY <1>0, <1>19 DEF lib_cleanup
  <1>20. ASSUME NEW u \in User, CallSelfTest(u)
        PROVE  TypeOK'
    BY <1>0, <1>20 DEF CallSelfTest
  <1>21. ASSUME NEW u \in User, IntegrityCheck(u)
        PROVE  TypeOK'
    BY <1>0, <1>21, FatalType, Zenon DEF IntegrityCheck
  <1>22. ASSUME NEW u \in User, Fetch(u)
        PROVE  TypeOK'
    BY <1>0, <1>22 DEF Fetch
  <1>23. ASSUME NEW u \in User, lib_init(u)
        PROVE  TypeOK'
    BY <1>0, <1>23 DEF lib_init
  <1>24. ASSUME NEW u \in User, lib_attach(u)
        PROVE  TypeOK'
    <2>1. /\ errorState' \in BOOLEAN /\ copying' \in [Thread -> SUBSET Func]
          /\ funcs' \in [User -> {"none", "partial", "full"}]
      <3>1. CASE SetFatalError(u) /\ UNCHANGED funcs
        BY <1>0, <3>1, FatalType, Zenon
      <3>2. CASE funcs' = [funcs EXCEPT ![u] = "full"] /\ UNCHANGED fatal
        BY <1>0, <3>2
      <3> QED
        BY <1>24, <3>1, <3>2 DEF lib_attach
    <2>2. pc' \in [Thread -> Pc]
      BY <1>0, <1>24 DEF lib_attach
    <2> QED
      BY <1>0, <1>24, <2>1, <2>2, Zenon DEF lib_attach
  <1>25. ASSUME NEW u \in User, Create(u)
        PROVE  TypeOK'
    <2>1. errorState' \in BOOLEAN /\ copying' \in [Thread -> SUBSET Func]
      <3>1. CASE UNCHANGED fatal
        BY <1>0, <3>1, Zenon
      <3>2. CASE SetFatalError(u)
        BY <1>0, <3>2, FatalType, Zenon
      <3> QED
        BY <1>25, <3>1, <3>2 DEF Create
    <2>2. Numbers \in {"none", "random", "constant"}
      BY <1>0 DEF Numbers
    <2>3. pc' \in [Thread -> Pc] /\ drawn' \in [User -> {"none", "random", "constant"}]
      BY <1>0, <1>25, <2>2 DEF Create
    <2> QED
      BY <1>0, <1>25, <2>1, <2>3, Zenon DEF Create
  <1>26. ASSUME NEW u \in User, Created(u)
        PROVE  TypeOK'
    BY <1>0, <1>26 DEF Created
  <1>27. CASE UNCHANGED vars
    BY <1>0, <1>27 DEF vars
  <1> QED
    BY <1>1, <1>2, <1>3, <1>4, <1>5, <1>6, <1>7, <1>8, <1>9, <1>10, <1>11, <1>12, <1>13,
       <1>14, <1>15, <1>16, <1>17, <1>18, <1>19, <1>20, <1>21, <1>22, <1>23, <1>24, <1>25,
       <1>26, <1>27
       DEF Next, Load, SelfTest, Calls, Running

-----------------------------------------------------------------------------
LEMMA PlacesStep ==
  ASSUME LibInv, TypeOK', [Next]_vars
  PROVE  Places'
  <1> USE DEF TypeOK, Places, Goto, At, MayCall, LoadPc, TestPc, UserPc, Loaded, Returned
  <1> USE DEF build, tables, fatal, random, app, proof
  <1>0. Loader \in Thread /\ Loader \notin User /\ User \subseteq Thread /\ TypeOK /\ Places
    BY ICCLibAssumption DEF Thread, LibInv
  <1>1. CASE EnvVars
    BY <1>0, <1>1 DEF EnvVars
  <1>2. CASE OpenCheckFiles
    BY <1>0, <1>2 DEF OpenCheckFiles
  <1>3. CASE OpenSSL_Init
    BY <1>0, <1>3 DEF OpenSSL_Init
  <1>4. CASE Integrity
    BY <1>0, <1>4 DEF Integrity
  <1>5. CASE LoadTables
    BY <1>0, <1>5 DEF LoadTables
  <1>6. ASSUME NEW t \in Thread, Enter(t)
        PROVE  Places'
    BY <1>0, <1>6 DEF Enter
  <1>7. ASSUME NEW t \in Thread, Arm(t)
        PROVE  Places'
    BY <1>0, <1>7 DEF Arm
  <1>8. ASSUME NEW t \in Thread, Install(t)
        PROVE  Places'
    BY <1>0, <1>8 DEF Install
  <1>9. ASSUME NEW t \in Thread, Sign(t)
        PROVE  Places'
    BY <1>0, <1>9 DEF Sign
  <1>10. ASSUME NEW t \in Thread, Signed(t)
        PROVE  Places'
    BY <1>0, <1>10 DEF Signed
  <1>11. ASSUME NEW t \in Thread, Restore(t)
        PROVE  Places'
    BY <1>0, <1>11 DEF Restore
  <1>12. ASSUME NEW t \in Thread, Poison(t)
        PROVE  Places'
    BY <1>0, <1>12 DEF Poison
  <1>13. ASSUME NEW t \in Thread, Cycle(t)
        PROVE  Places'
    BY <1>0, <1>13 DEF Cycle
  <1>14. ASSUME NEW t \in Thread, Answers(t)
        PROVE  Places'
    BY <1>0, <1>14 DEF Answers
  <1>15. ASSUME NEW t \in Thread, Verdict(t)
        PROVE  Places'
    BY <1>0, <1>15 DEF Verdict
  <1>16. ASSUME NEW t \in Thread, DisableAPI(t)
        PROVE  Places'
    BY <1>0, <1>16 DEF DisableAPI
  <1>17. ASSUME NEW u \in User, CallInit(u)
        PROVE  Places'
    BY <1>0, <1>17 DEF CallInit
  <1>18. ASSUME NEW u \in User, CallAttach(u)
        PROVE  Places'
    BY <1>0, <1>18 DEF CallAttach
  <1>19. ASSUME NEW u \in User, lib_cleanup(u)
        PROVE  Places'
    BY <1>0, <1>19 DEF lib_cleanup
  <1>20. ASSUME NEW u \in User, CallSelfTest(u)
        PROVE  Places'
    BY <1>0, <1>20 DEF CallSelfTest
  <1>21. ASSUME NEW u \in User, IntegrityCheck(u)
        PROVE  Places'
    BY <1>0, <1>21 DEF IntegrityCheck
  <1>22. ASSUME NEW u \in User, Fetch(u)
        PROVE  Places'
    BY <1>0, <1>22 DEF Fetch
  <1>23. ASSUME NEW u \in User, lib_init(u)
        PROVE  Places'
    BY <1>0, <1>23 DEF lib_init
  <1>24. ASSUME NEW u \in User, lib_attach(u)
        PROVE  Places'
    BY <1>0, <1>24 DEF lib_attach
  <1>25. ASSUME NEW u \in User, Create(u)
        PROVE  Places'
    BY <1>0, <1>25 DEF Create
  <1>26. ASSUME NEW u \in User, Created(u)
        PROVE  Places'
    BY <1>0, <1>26 DEF Created
  <1>27. CASE UNCHANGED vars
    BY <1>0, <1>27 DEF vars
  <1> QED
    BY <1>1, <1>2, <1>3, <1>4, <1>5, <1>6, <1>7, <1>8, <1>9, <1>10, <1>11, <1>12, <1>13,
       <1>14, <1>15, <1>16, <1>17, <1>18, <1>19, <1>20, <1>21, <1>22, <1>23, <1>24, <1>25,
       <1>26, <1>27
       DEF Next, Load, SelfTest, Calls, Running

LEMMA AloneStep ==
  ASSUME LibInv, TypeOK', [Next]_vars
  PROVE  LoadsAlone'
  <1> USE DEF TypeOK, LoadsAlone, Places, Goto, At, MayCall, LoadPc, TestPc, UserPc,
              Loaded, Returned
  <1> USE DEF build, tables, fatal, random, app, proof
  <1>0. /\ Loader \in Thread /\ Loader \notin User /\ User \subseteq Thread
        /\ TypeOK /\ Places /\ LoadsAlone
    BY ICCLibAssumption DEF Thread, LibInv
  <1>1. CASE EnvVars
    BY <1>0, <1>1 DEF EnvVars
  <1>2. CASE OpenCheckFiles
    <2>1. Raises(Loader)
      BY <1>0, <1>2, LoaderStep DEF LoaderRaises
    <2> QED
      BY <1>0, <1>2, <2>1 DEF OpenCheckFiles, Raises
  <1>3. CASE OpenSSL_Init
    <2>1. Raises(Loader)
      BY <1>0, <1>3, LoaderStep DEF LoaderRaises
    <2> QED
      BY <1>0, <1>3, <2>1 DEF OpenSSL_Init, Raises
  <1>4. CASE Integrity
    <2>1. Raises(Loader)
      BY <1>0, <1>4, LoaderStep DEF LoaderRaises
    <2> QED
      BY <1>0, <1>4, <2>1 DEF Integrity, Raises
  <1>5. CASE LoadTables
    BY <1>0, <1>5 DEF LoadTables
  <1>6. ASSUME NEW t \in Thread, Enter(t)
        PROVE  LoadsAlone'
    BY <1>0, <1>6 DEF Enter
  <1>7. ASSUME NEW t \in Thread, Arm(t)
        PROVE  LoadsAlone'
    BY <1>0, <1>7 DEF Arm
  <1>8. ASSUME NEW t \in Thread, Install(t)
        PROVE  LoadsAlone'
    BY <1>0, <1>8 DEF Install
  <1>9. ASSUME NEW t \in Thread, Sign(t)
        PROVE  LoadsAlone'
    <2>1. Raises(t)
      BY <1>0, <1>9, SelfTestStep DEF SelfTestRaises
    <2> QED
      BY <1>0, <1>9, <2>1 DEF Sign, Raises
  <1>10. ASSUME NEW t \in Thread, Signed(t)
        PROVE  LoadsAlone'
    BY <1>0, <1>10 DEF Signed
  <1>11. ASSUME NEW t \in Thread, Restore(t)
        PROVE  LoadsAlone'
    BY <1>0, <1>11 DEF Restore
  <1>12. ASSUME NEW t \in Thread, Poison(t)
        PROVE  LoadsAlone'
    BY <1>0, <1>12 DEF Poison
  <1>13. ASSUME NEW t \in Thread, Cycle(t)
        PROVE  LoadsAlone'
    <2>1. Raises(t)
      BY <1>0, <1>13, SelfTestStep DEF SelfTestRaises
    <2> QED
      BY <1>0, <1>13, <2>1 DEF Cycle, Raises
  <1>14. ASSUME NEW t \in Thread, Answers(t)
        PROVE  LoadsAlone'
    <2>1. Raises(t)
      BY <1>0, <1>14, SelfTestStep DEF SelfTestRaises
    <2> QED
      BY <1>0, <1>14, <2>1 DEF Answers, Raises
  <1>15. ASSUME NEW t \in Thread, Verdict(t)
        PROVE  LoadsAlone'
    <2>1. Raises(t)
      BY <1>0, <1>15, SelfTestStep DEF SelfTestRaises
    <2> QED
      BY <1>0, <1>15, <2>1 DEF Verdict, Raises
  <1>16. ASSUME NEW t \in Thread, DisableAPI(t)
        PROVE  LoadsAlone'
    BY <1>0, <1>16 DEF DisableAPI
  <1>17. ASSUME NEW u \in User, CallInit(u)
        PROVE  LoadsAlone'
    BY <1>0, <1>17 DEF CallInit
  <1>18. ASSUME NEW u \in User, CallAttach(u)
        PROVE  LoadsAlone'
    BY <1>0, <1>18 DEF CallAttach
  <1>19. ASSUME NEW u \in User, lib_cleanup(u)
        PROVE  LoadsAlone'
    BY <1>0, <1>19 DEF lib_cleanup
  <1>20. ASSUME NEW u \in User, CallSelfTest(u)
        PROVE  LoadsAlone'
    BY <1>0, <1>20 DEF CallSelfTest
  <1>21. ASSUME NEW u \in User, IntegrityCheck(u)
        PROVE  LoadsAlone'
    <2>1. Raises(u)
      BY <1>0, <1>21, CallStep DEF CallRaises
    <2> QED
      BY <1>0, <1>21, <2>1 DEF IntegrityCheck, Raises
  <1>22. ASSUME NEW u \in User, Fetch(u)
        PROVE  LoadsAlone'
    BY <1>0, <1>22 DEF Fetch
  <1>23. ASSUME NEW u \in User, lib_init(u)
        PROVE  LoadsAlone'
    BY <1>0, <1>23 DEF lib_init
  <1>24. ASSUME NEW u \in User, lib_attach(u)
        PROVE  LoadsAlone'
    <2>1. Raises(u)
      BY <1>0, <1>24, CallStep DEF CallRaises
    <2> QED
      BY <1>0, <1>24, <2>1 DEF lib_attach, Raises
  <1>25. ASSUME NEW u \in User, Create(u)
        PROVE  LoadsAlone'
    <2>1. Raises(u)
      BY <1>0, <1>25, CallStep DEF CallRaises
    <2> QED
      BY <1>0, <1>25, <2>1 DEF Create, Raises
  <1>26. ASSUME NEW u \in User, Created(u)
        PROVE  LoadsAlone'
    BY <1>0, <1>26 DEF Created
  <1>27. CASE UNCHANGED vars
    BY <1>0, <1>27 DEF vars
  <1> QED
    BY <1>1, <1>2, <1>3, <1>4, <1>5, <1>6, <1>7, <1>8, <1>9, <1>10, <1>11, <1>12, <1>13,
       <1>14, <1>15, <1>16, <1>17, <1>18, <1>19, <1>20, <1>21, <1>22, <1>23, <1>24, <1>25,
       <1>26, <1>27
       DEF Next, Load, SelfTest, Calls, Running

LEMMA DisablingStep ==
  ASSUME LibInv, TypeOK', [Next]_vars
  PROVE  Disabling'
  <1> USE DEF TypeOK, Places, LoadsAlone, Disabling, Func, Goto, At, MayCall, LoadPc,
              TestPc, UserPc, Loaded, Returned
  <1> USE DEF build, tables, fatal, random, app, proof
  <1>0. /\ Loader \in Thread /\ Loader \notin User /\ User \subseteq Thread
        /\ TypeOK /\ Places /\ LoadsAlone /\ Disabling
    BY ICCLibAssumption DEF Thread, LibInv
  <1>1. CASE EnvVars
    BY <1>0, <1>1 DEF EnvVars
  <1>2. CASE OpenCheckFiles
    <2>1. Raises(Loader)
      BY <1>0, <1>2, LoaderStep DEF LoaderRaises
    <2>2. PICK s \in {"ok", "fatal"} : SetStatus(Loader, s)
      BY <1>2 DEF OpenCheckFiles
    <2>3. errorState' => stat'[Loader] # "ok"
      BY <1>0, <1>2, <2>2 DEF OpenCheckFiles, SetStatus
    <2>4. /\ errorState' => \/ default'["generate"] # "call"
                            \/ \E o \in Thread : "generate" \in copying'[o]
          /\ UNCHANGED <<default, error, partial>>
      BY <1>0, <1>2, <2>1, StillDisabled DEF OpenCheckFiles
    <2> QED
      BY <1>0, <1>2, <2>3, <2>4 DEF OpenCheckFiles
  <1>3. CASE OpenSSL_Init
    <2>1. Raises(Loader)
      BY <1>0, <1>3, LoaderStep DEF LoaderRaises
    <2> QED
      BY <1>0, <1>3, <2>1 DEF OpenSSL_Init, Raises
  <1>4. CASE Integrity
    <2>1. Raises(Loader)
      BY <1>0, <1>4, LoaderStep DEF LoaderRaises
    <2>3. errorState' => stat'[Loader] # "ok"
      <3>1. CASE stat[Loader] = "ok"
        <4>1. PICK s \in {"ok", "fatal"} : SetStatus(Loader, s)
          BY <1>4, <3>1 DEF Integrity
        <4> QED
          BY <1>0, <1>4, <3>1, <4>1 DEF Integrity, SetStatus
      <3>2. CASE stat[Loader] # "ok"
        BY <1>0, <1>4, <3>2 DEF Integrity
      <3> QED
        BY <3>1, <3>2
    <2>4. /\ errorState' => \/ default'["generate"] # "call"
                            \/ \E o \in Thread : "generate" \in copying'[o]
          /\ UNCHANGED <<default, error, partial>>
      BY <1>0, <1>4, <2>1, StillDisabled DEF Integrity
    <2> QED
      BY <1>0, <1>4, <2>3, <2>4 DEF Integrity
  <1>5. CASE LoadTables
    <2>1. CASE stat[Loader] # "ok"
      BY <1>0, <1>5, <2>1 DEF LoadTables
    <2>2. CASE stat[Loader] = "ok"
      <3>1. ~errorState'
        BY <1>0, <1>5, <2>2 DEF LoadTables
      <3>2. error'["generate"] # "call" /\ partial'["generate"] # "call"
        BY <1>5, <2>2 DEF LoadTables, ErrorTable, PartialTable, Creates
      <3> QED
        BY <1>0, <1>5, <3>1, <3>2 DEF LoadTables
    <2> QED
      BY <2>1, <2>2
  <1>6. ASSUME NEW t \in Thread, Enter(t)
        PROVE  Disabling'
    BY <1>0, <1>6 DEF Enter
  <1>7. ASSUME NEW t \in Thread, Arm(t)
        PROVE  Disabling'
    BY <1>0, <1>7 DEF Arm
  <1>8. ASSUME NEW t \in Thread, Install(t)
        PROVE  Disabling'
    BY <1>0, <1>8 DEF Install
  <1>9. ASSUME NEW t \in Thread, Sign(t)
        PROVE  Disabling'
    <2>0. t # Loader => pc[Loader] = "loaded" /\ pc'[Loader] = "loaded"
      <3>1. t # Loader => t \in User /\ pc[t] # "idle"
        BY <1>9 DEF Sign, Thread
      <3> QED
        BY <1>0, <1>9, <3>1 DEF Sign
    <2>1. Raises(t)
      BY <1>0, <1>9, SelfTestStep DEF SelfTestRaises
    <2>3. errorState' /\ pc[Loader] # "loaded" => stat'[Loader] # "ok"
      <3>1. PICK s \in Status : SetStatus(t, s)
        BY <1>9, SignatureType DEF Sign
      <3> QED
        BY <1>0, <1>9, <2>0, <3>1 DEF Sign, SetStatus
    <2>4. /\ errorState' => \/ default'["generate"] # "call"
                            \/ \E o \in Thread : "generate" \in copying'[o]
          /\ UNCHANGED <<default, error, partial>>
      BY <1>0, <1>9, <2>1, StillDisabled DEF Sign
    <2> QED
      BY <1>0, <1>9, <2>0, <2>3, <2>4 DEF Sign
  <1>10. ASSUME NEW t \in Thread, Signed(t)
        PROVE  Disabling'
    BY <1>0, <1>10 DEF Signed
  <1>11. ASSUME NEW t \in Thread, Restore(t)
        PROVE  Disabling'
    BY <1>0, <1>11 DEF Restore
  <1>12. ASSUME NEW t \in Thread, Poison(t)
        PROVE  Disabling'
    BY <1>0, <1>12 DEF Poison
  <1>13. ASSUME NEW t \in Thread, Cycle(t)
        PROVE  Disabling'
    <2>0. t # Loader => pc[Loader] = "loaded" /\ pc'[Loader] = "loaded"
      <3>1. t # Loader => t \in User /\ pc[t] # "idle"
        BY <1>13 DEF Cycle, Thread
      <3> QED
        BY <1>0, <1>13, <3>1 DEF Cycle
    <2>1. Raises(t)
      BY <1>0, <1>13, SelfTestStep DEF SelfTestRaises
    <2>3. errorState' /\ pc[Loader] # "loaded" => stat'[Loader] # "ok"
      <3>1. CASE UNCHANGED <<stat, fatal>>
        BY <1>0, <3>1
      <3>2. CASE SetStatus(t, "fatal")
        BY <1>0, <2>0, <3>2 DEF SetStatus
      <3>3. CASE stat' = [stat EXCEPT ![Loader] = "fatal"]
        BY <1>0, <3>3
      <3> QED
        BY <1>13, <3>1, <3>2, <3>3 DEF Cycle
    <2>4. /\ errorState' => \/ default'["generate"] # "call"
                            \/ \E o \in Thread : "generate" \in copying'[o]
          /\ UNCHANGED <<default, error, partial>>
      BY <1>0, <1>13, <2>1, StillDisabled DEF Cycle
    <2> QED
      BY <1>0, <1>13, <2>0, <2>3, <2>4 DEF Cycle
  <1>14. ASSUME NEW t \in Thread, Answers(t)
        PROVE  Disabling'
    <2>0. t # Loader => pc[Loader] = "loaded" /\ pc'[Loader] = "loaded"
      <3>1. t # Loader => t \in User /\ pc[t] # "idle"
        BY <1>14 DEF Answers, Thread
      <3> QED
        BY <1>0, <1>14, <3>1 DEF Answers
    <2>1. Raises(t)
      BY <1>0, <1>14, SelfTestStep DEF SelfTestRaises
    <2>3. errorState' /\ pc[Loader] # "loaded" => stat'[Loader] # "ok"
      <3>1. CASE stat[t] = "ok"
        <4>1. PICK s \in Status : SetStatus(t, s)
          BY <1>14, <3>1, OutcomesType DEF Answers
        <4> QED
          BY <1>0, <2>0, <3>1, <4>1 DEF SetStatus
      <3>2. CASE stat[t] # "ok"
        BY <1>0, <1>14, <3>2 DEF Answers
      <3> QED
        BY <3>1, <3>2
    <2>4. /\ errorState' => \/ default'["generate"] # "call"
                            \/ \E o \in Thread : "generate" \in copying'[o]
          /\ UNCHANGED <<default, error, partial>>
      BY <1>0, <1>14, <2>1, StillDisabled DEF Answers
    <2> QED
      BY <1>0, <1>14, <2>0, <2>3, <2>4 DEF Answers
  <1>15. ASSUME NEW t \in Thread, Verdict(t)
        PROVE  Disabling'
    <2>0. t # Loader => pc[Loader] = "loaded" /\ pc'[Loader] = "loaded"
      <3>1. t # Loader => t \in User /\ pc[t] # "idle"
        BY <1>15 DEF Verdict, Thread
      <3> QED
        BY <1>0, <1>15, <3>1 DEF Verdict
    <2>1. Raises(t)
      BY <1>0, <1>15, SelfTestStep DEF SelfTestRaises
    <2>3. errorState' /\ pc'[Loader] # "loaded" => stat'[Loader] # "ok"
      <3>1. CASE t = Loader
        <4>1. CASE stat[Loader] = "ok"
          <5>1. errorState' = errorState
            BY <1>15, <3>1, <4>1 DEF Verdict
          <5>2. ~errorState
            BY <1>0, <1>15, <3>1, <4>1 DEF Verdict
          <5> QED
            BY <5>1, <5>2
        <4>2. CASE stat[Loader] # "ok"
          BY <1>0, <1>15, <3>1, <4>2 DEF Verdict
        <4> QED
          BY <4>1, <4>2
      <3>2. CASE t # Loader
        BY <2>0, <3>2
      <3> QED
        BY <3>1, <3>2
    <2>4. /\ errorState' => \/ default'["generate"] # "call"
                            \/ \E o \in Thread : "generate" \in copying'[o]
          /\ UNCHANGED <<default, error, partial>>
      BY <1>0, <1>15, <2>1, StillDisabled DEF Verdict
    <2> QED
      BY <1>0, <1>15, <2>0, <2>3, <2>4 DEF Verdict
  <1>16. ASSUME NEW t \in Thread, DisableAPI(t)
        PROVE  Disabling'
    BY <1>0, <1>16 DEF DisableAPI
  <1>17. ASSUME NEW u \in User, CallInit(u)
        PROVE  Disabling'
    BY <1>0, <1>17 DEF CallInit
  <1>18. ASSUME NEW u \in User, CallAttach(u)
        PROVE  Disabling'
    BY <1>0, <1>18 DEF CallAttach
  <1>19. ASSUME NEW u \in User, lib_cleanup(u)
        PROVE  Disabling'
    BY <1>0, <1>19 DEF lib_cleanup
  <1>20. ASSUME NEW u \in User, CallSelfTest(u)
        PROVE  Disabling'
    BY <1>0, <1>20 DEF CallSelfTest
  <1>21. ASSUME NEW u \in User, IntegrityCheck(u)
        PROVE  Disabling'
    <2>1. Raises(u)
      BY <1>0, <1>21, CallStep DEF CallRaises
    <2> QED
      BY <1>0, <1>21, <2>1 DEF IntegrityCheck, Raises
  <1>22. ASSUME NEW u \in User, Fetch(u)
        PROVE  Disabling'
    BY <1>0, <1>22 DEF Fetch
  <1>23. ASSUME NEW u \in User, lib_init(u)
        PROVE  Disabling'
    BY <1>0, <1>23 DEF lib_init
  <1>24. ASSUME NEW u \in User, lib_attach(u)
        PROVE  Disabling'
    <2>1. Raises(u)
      BY <1>0, <1>24, CallStep DEF CallRaises
    <2> QED
      BY <1>0, <1>24, <2>1 DEF lib_attach, Raises
  <1>25. ASSUME NEW u \in User, Create(u)
        PROVE  Disabling'
    <2>1. Raises(u)
      BY <1>0, <1>25, CallStep DEF CallRaises
    <2> QED
      BY <1>0, <1>25, <2>1 DEF Create, Raises
  <1>26. ASSUME NEW u \in User, Created(u)
        PROVE  Disabling'
    BY <1>0, <1>26 DEF Created
  <1>27. CASE UNCHANGED vars
    BY <1>0, <1>27 DEF vars
  <1> QED
    BY <1>1, <1>2, <1>3, <1>4, <1>5, <1>6, <1>7, <1>8, <1>9, <1>10, <1>11, <1>12, <1>13,
       <1>14, <1>15, <1>16, <1>17, <1>18, <1>19, <1>20, <1>21, <1>22, <1>23, <1>24, <1>25,
       <1>26, <1>27
       DEF Next, Load, SelfTest, Calls, Running

LEMMA PostingStep ==
  ASSUME LibInv, TypeOK', [Next]_vars
  PROVE  Posting'
  <1> USE DEF TypeOK, Places, LoadsAlone, Posting, Func, Goto, At, MayCall, LoadPc, TestPc,
              UserPc, Loaded, Returned
  <1> USE DEF build, tables, fatal, random, app, proof
  <1>0. /\ Loader \in Thread /\ Loader \notin User /\ User \subseteq Thread
        /\ TypeOK /\ Places /\ LoadsAlone /\ Posting /\ Disabling
    BY ICCLibAssumption DEF Thread, LibInv
  <1>1. CASE EnvVars
    BY <1>0, <1>1 DEF EnvVars
  <1>2. CASE OpenCheckFiles
    BY <1>0, <1>2 DEF OpenCheckFiles
  <1>3. CASE OpenSSL_Init
    BY <1>0, <1>3 DEF OpenSSL_Init
  <1>4. CASE Integrity
    <2>1. CASE stat[Loader] # "ok"
      BY <1>0, <1>4, <2>1 DEF Integrity
    <2>2. CASE stat[Loader] = "ok"
      <3>1. PICK s \in {"ok", "fatal"} : SetStatus(Loader, s) /\ checked' = (s = "ok")
        BY <1>4, <2>2 DEF Integrity
      <3>2. stat'[Loader] = "ok" => checked' = TRUE
        BY <1>0, <3>1 DEF SetStatus
      <3> QED
        BY <1>0, <1>4, <2>2, <3>2 DEF Integrity
    <2> QED
      BY <2>1, <2>2
  <1>5. CASE LoadTables
    BY <1>0, <1>5 DEF LoadTables
  <1>6. ASSUME NEW t \in Thread, Enter(t)
        PROVE  Posting'
    BY <1>0, <1>6 DEF Enter
  <1>7. ASSUME NEW t \in Thread, Arm(t)
        PROVE  Posting'
    BY <1>0, <1>7 DEF Arm
  <1>8. ASSUME NEW t \in Thread, Install(t)
        PROVE  Posting'
    BY <1>0, <1>8 DEF Install
  <1>9. ASSUME NEW t \in Thread, Sign(t)
        PROVE  Posting'
    <2>1. /\ pc'[Loader] \notin {"integrity", "tables"}
          /\ pc[Loader] = "loaded" => pc'[Loader] = "loaded"
      BY <1>0, <1>9 DEF Sign, Thread
    <2>2. UNCHANGED <<build, default, posted, checked>>
      BY <1>9 DEF Sign
    <2> QED
      BY <1>0, <2>1, <2>2
  <1>10. ASSUME NEW t \in Thread, Signed(t)
        PROVE  Posting'
    BY <1>0, <1>10 DEF Signed
  <1>11. ASSUME NEW t \in Thread, Restore(t)
        PROVE  Posting'
    BY <1>0, <1>11 DEF Restore
  <1>12. ASSUME NEW t \in Thread, Poison(t)
        PROVE  Posting'
    BY <1>0, <1>12 DEF Poison
  <1>13. ASSUME NEW t \in Thread, Cycle(t)
        PROVE  Posting'
    <2>1. /\ pc'[Loader] \notin {"integrity", "tables"}
          /\ pc[Loader] = "loaded" => pc'[Loader] = "loaded"
      BY <1>0, <1>13 DEF Cycle, Thread
    <2>2. UNCHANGED <<build, default, posted, checked>>
      BY <1>13 DEF Cycle
    <2> QED
      BY <1>0, <2>1, <2>2
  <1>14. ASSUME NEW t \in Thread, Answers(t)
        PROVE  Posting'
    <2>1. /\ pc'[Loader] \notin {"integrity", "tables"}
          /\ pc[Loader] = "loaded" => pc'[Loader] = "loaded"
      BY <1>0, <1>14 DEF Answers, Thread
    <2>2. UNCHANGED <<build, default, posted, checked>>
      BY <1>14 DEF Answers
    <2> QED
      BY <1>0, <2>1, <2>2
  <1>15. ASSUME NEW t \in Thread, Verdict(t)
        PROVE  Posting'
    BY <1>0, <1>15 DEF Verdict
  <1>16. ASSUME NEW t \in Thread, DisableAPI(t)
        PROVE  Posting'
    <2>1. default'["generate"] = "call" => default["generate"] = "call"
      <3>1. PICK f \in Func : default' = [default EXCEPT ![f] = error[f]]
        BY <1>0, <1>16 DEF DisableAPI
      <3> QED
        BY <1>0, <3>1 DEF Disabling
    <2>2. UNCHANGED <<pc, stat, build, posted, checked>>
      BY <1>16 DEF DisableAPI
    <2> QED
      BY <1>0, <2>1, <2>2
  <1>17. ASSUME NEW u \in User, CallInit(u)
        PROVE  Posting'
    BY <1>0, <1>17 DEF CallInit
  <1>18. ASSUME NEW u \in User, CallAttach(u)
        PROVE  Posting'
    BY <1>0, <1>18 DEF CallAttach
  <1>19. ASSUME NEW u \in User, lib_cleanup(u)
        PROVE  Posting'
    BY <1>0, <1>19 DEF lib_cleanup
  <1>20. ASSUME NEW u \in User, CallSelfTest(u)
        PROVE  Posting'
    BY <1>0, <1>20 DEF CallSelfTest
  <1>21. ASSUME NEW u \in User, IntegrityCheck(u)
        PROVE  Posting'
    BY <1>0, <1>21 DEF IntegrityCheck
  <1>22. ASSUME NEW u \in User, Fetch(u)
        PROVE  Posting'
    BY <1>0, <1>22 DEF Fetch
  <1>23. ASSUME NEW u \in User, lib_init(u)
        PROVE  Posting'
    BY <1>0, <1>23 DEF lib_init
  <1>24. ASSUME NEW u \in User, lib_attach(u)
        PROVE  Posting'
    BY <1>0, <1>24 DEF lib_attach
  <1>25. ASSUME NEW u \in User, Create(u)
        PROVE  Posting'
    BY <1>0, <1>25 DEF Create
  <1>26. ASSUME NEW u \in User, Created(u)
        PROVE  Posting'
    BY <1>0, <1>26 DEF Created
  <1>27. CASE UNCHANGED vars
    BY <1>0, <1>27 DEF vars
  <1> QED
    BY <1>1, <1>2, <1>3, <1>4, <1>5, <1>6, <1>7, <1>8, <1>9, <1>10, <1>11, <1>12, <1>13,
       <1>14, <1>15, <1>16, <1>17, <1>18, <1>19, <1>20, <1>21, <1>22, <1>23, <1>24, <1>25,
       <1>26, <1>27
       DEF Next, Load, SelfTest, Calls, Running

LEMMA MethodStep ==
  ASSUME LibInv, TypeOK', [Next]_vars
  PROVE  Method'
  <1> USE DEF TypeOK, Places, LoadsAlone, Method, Ready, Inside, Func, Goto, At, MayCall,
              LoadPc, TestPc, UserPc, Loaded, Returned
  <1> USE DEF build, tables, fatal, random, app, proof
  <1>0. /\ Loader \in Thread /\ Loader \notin User /\ User \subseteq Thread
        /\ TypeOK /\ Places /\ LoadsAlone /\ Method
    BY ICCLibAssumption DEF Thread, LibInv
  <1>1. CASE EnvVars
    BY <1>0, <1>1 DEF EnvVars
  <1>2. CASE OpenCheckFiles
    BY <1>0, <1>2 DEF OpenCheckFiles
  <1>3. CASE OpenSSL_Init
    BY <1>0, <1>3 DEF OpenSSL_Init
  <1>4. CASE Integrity
    BY <1>0, <1>4 DEF Integrity
  <1>5. CASE LoadTables
    BY <1>0, <1>5 DEF LoadTables
  <1>6. ASSUME NEW t \in Thread, Enter(t)
        PROVE  Method'
    <2>1. \A s \in Thread : Inside(s) => Inside(s)'
      BY <1>0, <1>6 DEF Enter
    <2>2. Ready' => Ready
      BY <1>0, <1>6 DEF Enter, Thread
    <2>3. \A s \in Thread : pc'[s] \in {"arm", "install", "restore", "poison"} => broken'[s] = TRUE
      BY <1>0, <1>6 DEF Enter
    <2> QED
      BY <1>0, <1>6, <2>1, <2>2, <2>3 DEF Enter, Thread
  <1>7. ASSUME NEW t \in Thread, Arm(t)
        PROVE  Method'
    BY <1>0, <1>7 DEF Arm
  <1>8. ASSUME NEW t \in Thread, Install(t)
        PROVE  Method'
    BY <1>0, <1>8 DEF Install
  <1>9. ASSUME NEW t \in Thread, Sign(t)
        PROVE  Method'
    <2>1. /\ pc'[Loader] \in TestPc \cup {"loaded"}
          /\ pc'[Loader] \in TestPc => pc[Loader] \in TestPc
      BY <1>0, <1>9 DEF Sign, Thread
    <2>2. \A s \in Thread : Inside(s)' <=> Inside(s)
      BY <1>0, <1>9 DEF Sign
    <2>3. \A s \in Thread : pc'[s] \in {"arm", "install", "restore", "poison"} => broken'[s] = TRUE
      BY <1>0, <1>9 DEF Sign
    <2>4. UNCHANGED <<rng, partial>> /\ (pc[Loader] = "loaded" => pc'[Loader] = "loaded")
      BY <1>0, <1>9 DEF Sign, Thread
    <2> QED
      BY <1>0, <2>1, <2>2, <2>3, <2>4
  <1>10. ASSUME NEW t \in Thread, Signed(t)
        PROVE  Method'
    BY <1>0, <1>10 DEF Signed
  <1>11. ASSUME NEW t \in Thread, Restore(t)
        PROVE  Method'
    BY <1>0, <1>11 DEF Restore
  <1>12. ASSUME NEW t \in Thread, Poison(t)
        PROVE  Method'
    BY <1>0, <1>12 DEF Poison
  <1>13. ASSUME NEW t \in Thread, Cycle(t)
        PROVE  Method'
    <2>1. /\ pc'[Loader] \in TestPc \cup {"loaded"}
          /\ pc'[Loader] \in TestPc => pc[Loader] \in TestPc
      BY <1>0, <1>13 DEF Cycle, Thread
    <2>2. \A s \in Thread : Inside(s)' <=> Inside(s)
      BY <1>0, <1>13 DEF Cycle
    <2>3. \A s \in Thread : pc'[s] \in {"arm", "install", "restore", "poison"} => broken'[s] = TRUE
      BY <1>0, <1>13 DEF Cycle
    <2>4. UNCHANGED <<rng, partial>> /\ (pc[Loader] = "loaded" => pc'[Loader] = "loaded")
      BY <1>0, <1>13 DEF Cycle, Thread
    <2> QED
      BY <1>0, <2>1, <2>2, <2>3, <2>4
  <1>14. ASSUME NEW t \in Thread, Answers(t)
        PROVE  Method'
    <2>1. /\ pc'[Loader] \in TestPc \cup {"loaded"}
          /\ pc'[Loader] \in TestPc => pc[Loader] \in TestPc
      BY <1>0, <1>14 DEF Answers, Thread
    <2>2. \A s \in Thread : Inside(s)' <=> Inside(s)
      BY <1>0, <1>14 DEF Answers
    <2>3. \A s \in Thread : pc'[s] \in {"arm", "install", "restore", "poison"} => broken'[s] = TRUE
      BY <1>0, <1>14 DEF Answers
    <2>4. UNCHANGED <<rng, partial>> /\ (pc[Loader] = "loaded" => pc'[Loader] = "loaded")
      BY <1>0, <1>14 DEF Answers, Thread
    <2> QED
      BY <1>0, <2>1, <2>2, <2>3, <2>4
  <1>15. ASSUME NEW t \in Thread, Verdict(t)
        PROVE  Method'
    BY <1>0, <1>15 DEF Verdict
  <1>16. ASSUME NEW t \in Thread, DisableAPI(t)
        PROVE  Method'
    BY <1>0, <1>16 DEF DisableAPI
  <1>17. ASSUME NEW u \in User, CallInit(u)
        PROVE  Method'
    BY <1>0, <1>17 DEF CallInit
  <1>18. ASSUME NEW u \in User, CallAttach(u)
        PROVE  Method'
    BY <1>0, <1>18 DEF CallAttach
  <1>19. ASSUME NEW u \in User, lib_cleanup(u)
        PROVE  Method'
    BY <1>0, <1>19 DEF lib_cleanup
  <1>20. ASSUME NEW u \in User, CallSelfTest(u)
        PROVE  Method'
    BY <1>0, <1>20 DEF CallSelfTest
  <1>21. ASSUME NEW u \in User, IntegrityCheck(u)
        PROVE  Method'
    BY <1>0, <1>21 DEF IntegrityCheck
  <1>22. ASSUME NEW u \in User, Fetch(u)
        PROVE  Method'
    BY <1>0, <1>22 DEF Fetch
  <1>23. ASSUME NEW u \in User, lib_init(u)
        PROVE  Method'
    BY <1>0, <1>23 DEF lib_init
  <1>24. ASSUME NEW u \in User, lib_attach(u)
        PROVE  Method'
    BY <1>0, <1>24 DEF lib_attach
  <1>25. ASSUME NEW u \in User, Create(u)
        PROVE  Method'
    BY <1>0, <1>25 DEF Create
  <1>26. ASSUME NEW u \in User, Created(u)
        PROVE  Method'
    BY <1>0, <1>26 DEF Created
  <1>27. CASE UNCHANGED vars
    BY <1>0, <1>27 DEF vars
  <1> QED
    BY <1>1, <1>2, <1>3, <1>4, <1>5, <1>6, <1>7, <1>8, <1>9, <1>10, <1>11, <1>12, <1>13,
       <1>14, <1>15, <1>16, <1>17, <1>18, <1>19, <1>20, <1>21, <1>22, <1>23, <1>24, <1>25,
       <1>26, <1>27
       DEF Next, Load, SelfTest, Calls, Running

LEMMA ZeroedStep ==
  ASSUME LibInv, TypeOK', [Next]_vars
  PROVE  Zeroed'
  <1> USE DEF TypeOK, Places, LoadsAlone, Zeroed, NoConstantKeys, Goto, At, MayCall,
              LoadPc, TestPc, UserPc, Loaded, Returned
  <1> USE DEF build, tables, fatal, random, app, proof
  <1>0. /\ Loader \in Thread /\ Loader \notin User /\ User \subseteq Thread
        /\ TypeOK /\ Places /\ LoadsAlone /\ Zeroed /\ Method
    BY ICCLibAssumption DEF Thread, LibInv
  <1>1. CASE EnvVars
    BY <1>0, <1>1 DEF EnvVars
  <1>2. CASE OpenCheckFiles
    BY <1>0, <1>2 DEF OpenCheckFiles
  <1>3. CASE OpenSSL_Init
    BY <1>0, <1>3 DEF OpenSSL_Init
  <1>4. CASE Integrity
    BY <1>0, <1>4 DEF Integrity
  <1>5. CASE LoadTables
    BY <1>0, <1>5 DEF LoadTables
  <1>6. ASSUME NEW t \in Thread, Enter(t)
        PROVE  Zeroed'
    BY <1>0, <1>6 DEF Enter
  <1>7. ASSUME NEW t \in Thread, Arm(t)
        PROVE  Zeroed'
    BY <1>0, <1>7 DEF Arm
  <1>8. ASSUME NEW t \in Thread, Install(t)
        PROVE  Zeroed'
    BY <1>0, <1>8 DEF Install, Method
  <1>9. ASSUME NEW t \in Thread, Sign(t)
        PROVE  Zeroed'
    BY <1>0, <1>9 DEF Sign
  <1>10. ASSUME NEW t \in Thread, Signed(t)
        PROVE  Zeroed'
    BY <1>0, <1>10 DEF Signed
  <1>11. ASSUME NEW t \in Thread, Restore(t)
        PROVE  Zeroed'
    BY <1>0, <1>11 DEF Restore
  <1>12. ASSUME NEW t \in Thread, Poison(t)
        PROVE  Zeroed'
    <2>1. pc'[Loader] \in {"loaded", "cycle"}
      <3>1. CASE t = Loader
        BY <1>0, <1>12, <3>1 DEF Poison
      <3>2. CASE t # Loader
        BY <1>0, <1>12, <3>2 DEF Poison, Thread
      <3> QED
        BY <3>1, <3>2
    <2>2. "pseudorand" \notin method' /\ UNCHANGED <<posted, drawn, broken>>
      BY <1>12 DEF Poison
    <2> QED
      BY <1>0, <1>12, <2>1, <2>2 DEF Poison
  <1>13. ASSUME NEW t \in Thread, Cycle(t)
        PROVE  Zeroed'
    BY <1>0, <1>13 DEF Cycle
  <1>14. ASSUME NEW t \in Thread, Answers(t)
        PROVE  Zeroed'
    BY <1>0, <1>14 DEF Answers
  <1>15. ASSUME NEW t \in Thread, Verdict(t)
        PROVE  Zeroed'
    BY <1>0, <1>15 DEF Verdict
  <1>16. ASSUME NEW t \in Thread, DisableAPI(t)
        PROVE  Zeroed'
    BY <1>0, <1>16 DEF DisableAPI
  <1>17. ASSUME NEW u \in User, CallInit(u)
        PROVE  Zeroed'
    BY <1>0, <1>17 DEF CallInit
  <1>18. ASSUME NEW u \in User, CallAttach(u)
        PROVE  Zeroed'
    BY <1>0, <1>18 DEF CallAttach
  <1>19. ASSUME NEW u \in User, lib_cleanup(u)
        PROVE  Zeroed'
    BY <1>0, <1>19 DEF lib_cleanup
  <1>20. ASSUME NEW u \in User, CallSelfTest(u)
        PROVE  Zeroed'
    BY <1>0, <1>20 DEF CallSelfTest
  <1>21. ASSUME NEW u \in User, IntegrityCheck(u)
        PROVE  Zeroed'
    BY <1>0, <1>21 DEF IntegrityCheck
  <1>22. ASSUME NEW u \in User, Fetch(u)
        PROVE  Zeroed'
    BY <1>0, <1>22 DEF Fetch
  <1>23. ASSUME NEW u \in User, lib_init(u)
        PROVE  Zeroed'
    BY <1>0, <1>23 DEF lib_init
  <1>24. ASSUME NEW u \in User, lib_attach(u)
        PROVE  Zeroed'
    BY <1>0, <1>24 DEF lib_attach
  <1>25. ASSUME NEW u \in User, Create(u)
        PROVE  Zeroed'
    <2>1. posted => Numbers # "constant"
      BY <1>0 DEF Numbers
    <2>2. \A v \in User : drawn'[v] = IF v = u THEN Numbers ELSE drawn[v]
      BY <1>0, <1>25 DEF Create
    <2>3. UNCHANGED <<posted, method, broken>> /\ pc'[Loader] = pc[Loader]
      BY <1>0, <1>25 DEF Create
    <2> QED
      BY <1>0, <2>1, <2>2, <2>3
  <1>26. ASSUME NEW u \in User, Created(u)
        PROVE  Zeroed'
    BY <1>0, <1>26 DEF Created
  <1>27. CASE UNCHANGED vars
    BY <1>0, <1>27 DEF vars
  <1> QED
    BY <1>1, <1>2, <1>3, <1>4, <1>5, <1>6, <1>7, <1>8, <1>9, <1>10, <1>11, <1>12, <1>13,
       <1>14, <1>15, <1>16, <1>17, <1>18, <1>19, <1>20, <1>21, <1>22, <1>23, <1>24, <1>25,
       <1>26, <1>27
       DEF Next, Load, SelfTest, Calls, Running

-----------------------------------------------------------------------------
LEMMA Inductive == Spec => []LibInv
  <1>1. ASSUME LibInv, [Next]_vars
        PROVE  LibInv'
    <2>1. TypeOK'
      BY <1>1, TypeStep
    <2> QED
      BY <1>1, <2>1, PlacesStep, AloneStep, DisablingStep, PostingStep, MethodStep, ZeroedStep
         DEF LibInv
  <1> QED
    BY <1>1, InitLib, PTL DEF Spec

(***************************************************************************)
(* The library's state is well formed, the statuses its tests report       *)
(* included, for any number of application threads.                        *)
(***************************************************************************)
THEOREM LibTypes == Spec => []TypeOK
  <1>1. LibInv => TypeOK
    BY DEF LibInv
  <1> QED
    BY <1>1, Inductive, PTL

(***************************************************************************)
(* However many threads run self tests at a time, the FIPS random number   *)
(* method is back when none of them is between its two                     *)
(* RAND_set_rand_method (DoVeryBrokenTests).                               *)
(***************************************************************************)
THEOREM MethodRestored == Spec => []RandomRestored
  <1>1. LibInv => RandomRestored
    BY DEF LibInv, Method, Ready, RandomRestored
  <1> QED
    BY <1>1, Inductive, PTL

(***************************************************************************)
(* After the self test of ICCLoad no user is given the constant of the     *)
(* insecure method: insecure_rand_meth was zeroed, and nothing sets it     *)
(* again.                                                                  *)
(***************************************************************************)
THEOREM KeysNotConstant == Spec => []NoConstantKeys
  <1>1. LibInv => NoConstantKeys
    BY DEF LibInv, Zeroed
  <1> QED
    BY <1>1, Inductive, PTL

(***************************************************************************)
(* When the copy of DisableAPI is done, the table creates nothing, and     *)
(* stays so, whichever threads met errors and while loading or later.      *)
(***************************************************************************)
THEOREM StaysDisabled == Spec => []DisabledForGood
  <1>1. LibInv => DisabledForGood
    BY DEF LibInv, Disabling, DisabledForGood
  <1> QED
    BY <1>1, Inductive, PTL

(***************************************************************************)
(* The default table offers what creates only after the integrity check    *)
(* and, in a FIPS build, the self test passed.                             *)
(***************************************************************************)
THEOREM TestedFirst == Spec => []ServiceAfterPOST
  <1>1. LibInv => ServiceAfterPOST
    BY Zenon DEF LibInv, Posting, ServiceAfterPOST
  <1> QED
    BY <1>1, Inductive, PTL

(***************************************************************************)
(* The refinement of FIPSModule.  Besides LibInv it needs that who copies  *)
(* the error table does so after an error, and that a test is not noted as *)
(* passed before the loader has come to its verdict.                       *)
(***************************************************************************)
Untested ==
  /\ \A t \in Thread : copying[t] # {} => errorState = TRUE
  /\ pc[Loader] \in {"env", "files", "openssl", "integrity"} \cup TestPc => checked = FALSE
  /\ pc[Loader] \in {"env", "files", "openssl"} \cup TestPc => posted = FALSE

LEMMA InitUntested == Init => Untested
  BY DEF Init, Untested, Thread

\* The error flag once set stays set, and who begins to copy has set it.
Errs ==
  /\ errorState' \in {errorState, TRUE}
  /\ \A s \in Thread : copying'[s] # {} => copying[s] # {} \/ errorState' = TRUE

LEMMA FatalErrs ==
  ASSUME TypeOK, NEW t \in Thread, SetFatalError(t)
  PROVE  Errs
  BY DEF TypeOK, SetFatalError, Errs

LEMMA KeptErrs ==
  ASSUME UNCHANGED fatal
  PROVE  Errs
  BY Zenon DEF fatal, Errs

LEMMA StatusErrs ==
  ASSUME TypeOK, NEW t \in Thread, NEW s \in Status, SetStatus(t, s)
  PROVE  Errs
  <1>1. CASE s = "fatal"
    BY <1>1, FatalErrs DEF SetStatus
  <1>2. CASE s # "fatal"
    BY <1>2, KeptErrs DEF SetStatus
  <1> QED
    BY <1>1, <1>2

\* A step that may only raise an error, and moves one thread between places
\* where it generates no key.
Elsewhere(t) ==
  /\ Errs
  /\ UNCHANGED <<fips, default, drawn, posted, checked>>
  /\ pc' \in {pc} \cup {[pc EXCEPT ![t] = to] : to \in Pc \ {"create", "created"}}
  /\ pc[t] \notin {"create", "created"}

LEMMA LoadElsewhere ==
  ASSUME TypeOK, EnvVars \/ OpenCheckFiles \/ OpenSSL_Init
  PROVE  /\ Elsewhere(Loader)
         /\ pc[Loader] \in {"env", "files", "openssl"}
         /\ pc'[Loader] \in {"files", "openssl", "enter", "integrity"}
  <1>0. Loader \in Thread /\ pc \in [Thread -> Pc]
    BY DEF Thread, TypeOK
  <1> USE <1>0 DEF Elsewhere, Goto, At, Pc, LoadPc, TestPc, proof, app, build, tables
  <1>1. CASE EnvVars
    BY <1>1, KeptErrs DEF EnvVars
  <1>2. CASE OpenCheckFiles
    <2>1. Errs
      BY <1>2, StatusErrs DEF OpenCheckFiles, Status
    <2> QED
      BY <1>2, <2>1 DEF OpenCheckFiles
  <1>3. CASE OpenSSL_Init
    <2>1. SetFatalError(Loader) \/ UNCHANGED fatal
      BY <1>3 DEF OpenSSL_Init
    <2>2. Errs
      BY <2>1, FatalErrs, KeptErrs
    <2> QED
      BY <1>3, <2>2 DEF OpenSSL_Init
  <1> QED
    BY <1>1, <1>2, <1>3

\* A self test up to its verdict.
Testing(t) ==
  \/ Enter(t) \/ Arm(t) \/ Install(t) \/ Sign(t) \/ Signed(t) \/ Restore(t) \/ Poison(t)
  \/ Cycle(t) \/ Answers(t)

LEMMA TestElsewhere ==
  ASSUME TypeOK, NEW t \in Thread, Testing(t)
  PROVE  Elsewhere(t) /\ pc[t] \in TestPc /\ pc'[t] \in TestPc
  <1>0. pc \in [Thread -> Pc]
    BY DEF TypeOK
  <1> USE <1>0 DEF Elsewhere, Goto, At, Pc, TestPc, proof, app, build, tables
  <1>1. CASE Enter(t)
    BY <1>1, KeptErrs DEF Enter
  <1>2. CASE Arm(t)
    BY <1>2, KeptErrs DEF Arm
  <1>3. CASE Install(t)
    BY <1>3, KeptErrs DEF Install
  <1>4. CASE Sign(t)
    <2>1. PICK s \in Status : SetStatus(t, s)
      BY <1>4, SignatureType DEF Sign
    <2>2. Errs
      BY <2>1, StatusErrs
    <2> QED
      BY <1>4, <2>2 DEF Sign
  <1>5. CASE Signed(t)
    BY <1>5, KeptErrs DEF Signed
  <1>6. CASE Restore(t)
    BY <1>6, KeptErrs DEF Restore
  <1>7. CASE Poison(t)
    BY <1>7, KeptErrs DEF Poison
  <1>8. CASE Cycle(t)
    <2>1. UNCHANGED fatal \/ SetStatus(t, "fatal") \/ SetFatalError(t)
      BY <1>8 DEF Cycle, fatal
    <2>2. Errs
      BY <2>1, FatalErrs, KeptErrs, StatusErrs DEF Status
    <2> QED
      BY <1>8, <2>2 DEF Cycle
  <1>9. CASE Answers(t)
    <2>1. (\E s \in Status : SetStatus(t, s)) \/ UNCHANGED fatal
      BY <1>9, OutcomesType DEF Answers, fatal
    <2>2. Errs
      BY <2>1, KeptErrs, StatusErrs
    <2> QED
      BY <1>9, <2>2 DEF Answers
  <1> QED
    BY <1>1, <1>2, <1>3, <1>4, <1>5, <1>6, <1>7, <1>8, <1>9 DEF Testing

\* The calls of a user besides Fetch, Create and Created.
Calling(u) ==
  \/ CallInit(u) \/ CallAttach(u) \/ lib_cleanup(u) \/ CallSelfTest(u) \/ IntegrityCheck(u)
  \/ lib_init(u) \/ lib_attach(u)

LEMMA CallElsewhere ==
  ASSUME TypeOK, NEW u \in User, Calling(u)
  PROVE  Elsewhere(u)
  <1>0. pc \in [Thread -> Pc] /\ u \in Thread
    BY DEF Thread, TypeOK
  <1> USE <1>0 DEF Elsewhere, Goto, MayCall, At, Pc, UserPc, TestPc, proof, app, build, tables
  <1>1. CASE CallInit(u)
    BY <1>1, KeptErrs DEF CallInit
  <1>2. CASE CallAttach(u)
    BY <1>2, KeptErrs DEF CallAttach
  <1>3. CASE lib_cleanup(u)
    BY <1>3, KeptErrs DEF lib_cleanup
  <1>4. CASE CallSelfTest(u)
    BY <1>4, KeptErrs DEF CallSelfTest
  <1>5. CASE IntegrityCheck(u)
    BY <1>5, FatalErrs DEF IntegrityCheck
  <1>6. CASE lib_init(u)
    BY <1>6, KeptErrs DEF lib_init
  <1>7. CASE lib_attach(u)
    <2>1. SetFatalError(u) \/ UNCHANGED fatal
      BY <1>7 DEF lib_attach
    <2>2. Errs
      BY <2>1, FatalErrs, KeptErrs
    <2> QED
      BY <1>7, <2>2 DEF lib_attach
  <1> QED
    BY <1>1, <1>2, <1>3, <1>4, <1>5, <1>6, <1>7 DEF Calling

-----------------------------------------------------------------------------
LEMMA GivenKept ==
  ASSUME UNCHANGED drawn,
         \A u \in User : pc'[u] # pc[u] => {pc[u], pc'[u]} \cap {"create", "created"} = {}
  PROVE  Given' = Given
  <1> DEFINE Of(where, numbers) ==
        CASE where = "create"  -> "begun"
          [] where = "created" -> IF numbers = "none" THEN "nothing" ELSE numbers
          [] OTHER             -> "none"
  <1>1. ASSUME NEW u \in User
        PROVE  Of(pc'[u], drawn[u]) = Of(pc[u], drawn[u])
    <2>1. CASE pc'[u] = pc[u]
      BY <2>1
    <2>2. CASE pc[u] \notin {"create", "created"} /\ pc'[u] \notin {"create", "created"}
      BY <2>2
    <2> QED
      BY <2>1, <2>2
  <1>2. Given = [u \in User |-> Of(pc[u], drawn[u])]
    BY DEF Given
  <1>3. Given' = [u \in User |-> Of(pc'[u], drawn[u])]
    BY DEF Given
  <1> HIDE DEF Of
  <1> QED
    BY <1>1, <1>2, <1>3

LEMMA ElsewhereModule ==
  ASSUME TypeOK, NEW t \in Thread, Elsewhere(t)
  PROVE  Module!Fail \/ UNCHANGED Module!vars
  <1>1. \A u \in User : pc'[u] # pc[u] => {pc[u], pc'[u]} \cap {"create", "created"} = {}
    BY DEF Elsewhere, TypeOK, Thread
  <1>2. Given' = Given
    BY <1>1, GivenKept DEF Elsewhere
  <1>3. Required' = Required /\ Passed' = Passed
    BY DEF Elsewhere, Required, Passed
  <1>4. CASE errorState' = errorState
    <2>1. Phase' = Phase
      BY <1>4 DEF Elsewhere, Phase
    <2> QED
      BY <1>2, <1>3, <2>1 DEF Module!vars
  <1>5. CASE errorState' = TRUE /\ errorState' # errorState
    <2>1. errorState = FALSE /\ default' = default
      BY <1>5 DEF TypeOK, Elsewhere
    <2>2. Phase = IF default["generate"] = "call" THEN "operational" ELSE "off"
      BY <2>1 DEF Phase
    <2>3. Phase' = IF default["generate"] = "call" THEN "failing" ELSE "disabled"
      BY <1>5, <2>1 DEF Phase
    <2> QED
      BY <1>2, <1>3, <2>2, <2>3 DEF Module!Fail, Module!Failed
  <1> QED
    BY <1>4, <1>5 DEF Elsewhere, Errs

\* The verdict of the loader's test, and that of a user.
LEMMA VerdictModule ==
  ASSUME LibInv, Untested, NEW t \in Thread, Verdict(t)
  PROVE  /\ \E test \in {"integrity", "answers"} : Module!Pass(test)
            \/ Module!Fail \/ UNCHANGED Module!vars
         /\ Untested'
  <1>0. TypeOK /\ Disabling /\ Loader \in Thread /\ Loader \notin User /\ User \subseteq Thread
    BY ICCLibAssumption DEF LibInv, Thread
  <1>1. pc[t] = "verdict" /\ Errs
    <2>1. SetFatalError(t) \/ UNCHANGED fatal
      BY DEF Verdict
    <2> QED
      BY <1>0, <2>1, FatalErrs, KeptErrs DEF Verdict, At
  <1>2. CASE t # Loader
    <2>1. t \in User /\ Returned(t)
      BY <1>2 DEF Verdict, Thread
    <2>2. UNCHANGED <<fips, default, drawn, posted, checked>>
      BY <2>1 DEF Verdict, Returned, build, tables, app
    <2>3. Elsewhere(t)
      BY <1>1, <2>1, <2>2 DEF Elsewhere, Returned, Goto, Pc, UserPc
    <2>4. Untested'
      BY <1>0, <1>1, <1>2, <2>1, <2>2 DEF Untested, Errs, Returned, Goto, TypeOK
    <2> QED
      BY <1>0, <2>3, <2>4, ElsewhereModule
  <1>3. CASE t = Loader
    <2>1. Loaded(stat[Loader] = "ok") /\ UNCHANGED <<fips, default, drawn, checked>>
      BY <1>3 DEF Verdict, build, tables, app
    <2>2. pc' = [pc EXCEPT ![Loader] = "integrity"] /\ posted = FALSE
          /\ checked = FALSE
      BY <1>1, <1>3, <2>1 DEF Loaded, Goto, Untested, TestPc
    <2>3. \A u \in User : pc'[u] = pc[u]
      BY <1>0, <2>2 DEF TypeOK
    <2>4. Given' = Given
      BY <2>1, <2>3, GivenKept
    <2>5. Required' = Required
      BY <2>1 DEF Required
    <2>6. Untested'
      BY <1>0, <1>1, <2>1, <2>2 DEF Untested, Errs, TypeOK, TestPc
    <2>7. CASE stat[Loader] = "ok"
      <3>1. errorState = FALSE /\ UNCHANGED errorState /\ default["generate"] # "call"
        BY <1>0, <1>1, <1>3, <2>7 DEF Verdict, fatal, Disabling, TypeOK
      <3>2. posted' = TRUE
        BY <2>1, <2>7 DEF Loaded
      <3>3. Phase = "off" /\ Phase' = Phase
        BY <2>1, <3>1 DEF Phase
      <3>4. Passed = {} /\ Passed' = {"answers"}
        BY <2>1, <2>2, <3>2 DEF Passed
      <3> QED
        BY <2>4, <2>5, <2>6, <3>3, <3>4 DEF Module!Pass
    <2>8. CASE stat[Loader] # "ok"
      <3>1. errorState' = TRUE
        BY <1>3, <2>8 DEF Verdict, SetFatalError
      <3>2. posted' = FALSE
        BY <2>1, <2>8 DEF Loaded
      <3>3. Passed' = Passed
        BY <2>1, <2>2, <3>2 DEF Passed
      <3>4. default["generate"] # "call" /\ Phase' = "disabled" /\ Phase \in {"off", "disabled"}
        BY <1>0, <1>1, <1>3, <2>1, <3>1 DEF Disabling, Phase
      <3> QED
        BY <2>4, <2>5, <2>6, <3>3, <3>4 DEF Module!Fail, Module!Failed
    <2> QED
      BY <2>7, <2>8
  <1> QED
    BY <1>2, <1>3

LEMMA IntegrityModule ==
  ASSUME LibInv, Untested, Integrity
  PROVE  /\ \E test \in {"integrity", "answers"} : Module!Pass(test)
            \/ Module!Fail \/ UNCHANGED Module!vars
         /\ Untested'
  <1>0. TypeOK /\ Disabling /\ Loader \in Thread /\ Loader \notin User /\ User \subseteq Thread
    BY ICCLibAssumption DEF LibInv, Thread
  <1>1. /\ pc[Loader] = "integrity" /\ pc' = [pc EXCEPT ![Loader] = "tables"]
        /\ checked = FALSE /\ UNCHANGED <<fips, default, drawn, posted>>
    BY DEF Integrity, At, Goto, Untested, build, tables, app
  <1>2. Errs
    <2>1. (\E s \in Status : SetStatus(Loader, s)) \/ UNCHANGED fatal
      BY DEF Integrity, Status, fatal
    <2> QED
      BY <1>0, <2>1, KeptErrs, StatusErrs
  <1>3. Untested'
    BY <1>0, <1>1, <1>2 DEF Untested, Errs, TypeOK, TestPc
  <1>4. CASE UNCHANGED checked
    <2>1. Elsewhere(Loader)
      BY <1>0, <1>1, <1>2, <1>4 DEF Elsewhere, Pc, LoadPc
    <2> QED
      BY <1>0, <1>3, <2>1, ElsewhereModule
  <1>5. CASE ~UNCHANGED checked
    <2>1. PICK s \in {"ok", "fatal"} : SetStatus(Loader, s) /\ checked' = (s = "ok")
      BY <1>5 DEF Integrity
    <2>2. s = "ok" /\ checked' = TRUE /\ stat[Loader] = "ok" /\ UNCHANGED fatal
      BY <1>1, <1>5, <2>1 DEF Integrity, SetStatus
    <2>3. errorState = FALSE /\ errorState' = FALSE /\ default["generate"] # "call"
      BY <1>0, <1>1, <2>2 DEF Disabling, TypeOK, fatal
    <2>4. \A u \in User : pc'[u] = pc[u]
      BY <1>0, <1>1 DEF TypeOK
    <2>5. Given' = Given
      BY <1>1, <2>4, GivenKept
    <2>6. Required' = Required
      BY <1>1 DEF Required
    <2>7. Phase = "off" /\ Phase' = "off"
      BY <1>1, <2>3 DEF Phase
    <2>8. "integrity" \notin Passed /\ Passed' = Passed \cup {"integrity"}
      BY <1>1, <2>2 DEF Passed
    <2> QED
      BY <1>3, <2>5, <2>6, <2>7, <2>8 DEF Module!Pass
  <1> QED
    BY <1>4, <1>5

LEMMA TablesModule ==
  ASSUME LibInv, Untested, LoadTables
  PROVE  (Module!Enable \/ UNCHANGED Module!vars) /\ Untested'
  <1>0. TypeOK /\ Disabling /\ Posting /\ Loader \in Thread /\ Loader \notin User /\ User \subseteq Thread
    BY ICCLibAssumption DEF LibInv, Thread
  <1>1. /\ pc[Loader] = "tables" /\ pc' = [pc EXCEPT ![Loader] = "loaded"]
        /\ UNCHANGED <<fips, drawn, posted, checked, errorState, copying>>
    BY DEF LoadTables, At, Goto, build, app, proof, fatal
  <1>2. Untested'
    BY <1>0, <1>1 DEF Untested, TypeOK, TestPc
  <1>3. Given' = Given
    <2>1. \A u \in User : pc'[u] = pc[u]
      BY <1>0, <1>1 DEF TypeOK
    <2> QED
      BY <1>1, <2>1, GivenKept
  <1>4. Required' = Required /\ Passed' = Passed
    BY <1>1 DEF Required, Passed
  <1>5. default["generate"] # "call"
    BY <1>0, <1>1 DEF Disabling
  <1>6. CASE default'["generate"] # "call"
    <2>1. Phase' = Phase
      BY <1>1, <1>5, <1>6 DEF Phase
    <2> QED
      BY <1>2, <1>3, <1>4, <2>1 DEF Module!vars
  <1>7. CASE default'["generate"] = "call"
    <2>1. stat[Loader] = "ok"
      BY <1>5, <1>7 DEF LoadTables, tables
    <2>2. errorState = FALSE
      BY <1>0, <1>1, <2>1 DEF Disabling, TypeOK
    <2>3. checked /\ (fips => posted)
      BY <1>0, <1>1, <2>1 DEF Posting
    <2>4. Phase = "off" /\ Phase' = "operational"
      BY <1>1, <1>5, <1>7, <2>2 DEF Phase
    <2>5. Required \subseteq Passed
      BY <2>3 DEF Required, Passed
    <2> QED
      BY <1>2, <1>3, <1>4, <2>4, <2>5 DEF Module!Enable
  <1> QED
    BY <1>6, <1>7

LEMMA DisableModule ==
  ASSUME LibInv, Untested, NEW t \in Thread, DisableAPI(t)
  PROVE  (Module!Disable \/ UNCHANGED Module!vars) /\ Untested'
  <1>0. TypeOK /\ Disabling
    BY DEF LibInv
  <1>1. UNCHANGED <<fips, pc, drawn, posted, checked, errorState>>
    BY DEF DisableAPI, build, app, proof
  <1>2. PICK f \in Func : /\ f \in copying[t]
                          /\ default' = [default EXCEPT ![f] = error[f]]
                          /\ copying' = [copying EXCEPT ![t] = @ \ {f}]
    BY <1>0 DEF DisableAPI, TypeOK
  <1>3. errorState = TRUE
    BY <1>2 DEF Untested
  <1>4. Untested'
    BY <1>0, <1>1, <1>3 DEF Untested
  <1>5. Given' = Given /\ Required' = Required /\ Passed' = Passed
    BY <1>1, GivenKept DEF Required, Passed
  <1>6. default'["generate"] = "call" => default["generate"] = "call"
    BY <1>0, <1>2 DEF TypeOK, Disabling, Func
  <1>7. Phase' = Phase \/ (Phase = "failing" /\ Phase' = "disabled")
    BY <1>1, <1>3, <1>6 DEF Phase
  <1> QED
    BY <1>4, <1>5, <1>7 DEF Module!Disable, Module!vars

LEMMA FetchModule ==
  ASSUME LibInv, NEW u \in User, Fetch(u)
  PROVE  Module!Begin(u)
  <1>0. TypeOK /\ Disabling /\ User \subseteq Thread
    BY DEF LibInv, Thread
  <1>1. /\ pc[u] = "idle" /\ pc' = [pc EXCEPT ![u] = "create"]
        /\ UNCHANGED <<fips, drawn, posted, checked, errorState, default>>
    BY DEF Fetch, MayCall, At, Goto, build, app, proof, fatal, tables
  <1>2. default["generate"] = "call"
    BY <1>0 DEF Fetch, Callable, Disabling
  <1>3. Phase \in {"operational", "failing"}
    BY <1>2 DEF Phase
  <1>4. Phase' = Phase /\ Required' = Required /\ Passed' = Passed
    BY <1>1 DEF Phase, Required, Passed
  <1>5. Given[u] = "none"
    BY <1>1 DEF Given
  <1>6. Given' = [Given EXCEPT ![u] = "begun"]
    <2>1. pc'[u] = "create" /\ \A v \in User \ {u} : pc'[v] = pc[v]
      BY <1>0, <1>1 DEF TypeOK
    <2>2. ASSUME NEW v \in User
          PROVE  Given'[v] = [Given EXCEPT ![u] = "begun"][v]
      BY <1>1, <2>1 DEF Given
    <2> QED
      BY <2>2 DEF Given
  <1> QED
    BY <1>3, <1>4, <1>5, <1>6 DEF Module!Begin

\* Once the loader's test has passed, no constant is given.
LEMMA NumbersGiven ==
  ASSUME LibInv
  PROVE  /\ Numbers \in {"random", "constant", "none"}
         /\ posted => Numbers # "constant"
  BY DEF LibInv, Zeroed, Numbers

LEMMA CreateModule ==
  ASSUME LibInv, NEW u \in User, Create(u)
  PROVE  Module!Give(u)
  <1>0. TypeOK /\ User \subseteq Thread /\ u \in Thread
    BY DEF LibInv, Thread
  <1>1. /\ pc[u] = "create" /\ pc' = [pc EXCEPT ![u] = "created"]
        /\ drawn' = [drawn EXCEPT ![u] = Numbers]
        /\ UNCHANGED <<fips, posted, checked, default>>
    BY DEF Create, At, Goto, build, proof, tables
  <1>2. Errs
    BY <1>0, FatalErrs, KeptErrs DEF Create
  <1> DEFINE numbers == IF Numbers = "none" THEN "nothing" ELSE Numbers
  <1>3. /\ numbers \in {"random", "nothing", "constant"}
        /\ posted => numbers \in {"random", "nothing"}
    BY NumbersGiven
  <1>4. Given[u] = "begun"
    BY <1>1 DEF Given
  <1>5. Given' = [Given EXCEPT ![u] = numbers]
    <2>1. /\ pc'[u] = "created" /\ drawn'[u] = Numbers
          /\ \A v \in User \ {u} : pc'[v] = pc[v] /\ drawn'[v] = drawn[v]
      BY <1>0, <1>1 DEF TypeOK
    <2>2. ASSUME NEW v \in User
          PROVE  Given'[v] = [Given EXCEPT ![u] = numbers][v]
      BY <2>1 DEF Given
    <2> QED
      BY <2>2 DEF Given
  <1>6. Phase' = Phase \/ Module!Failed
    <2>1. CASE errorState' = errorState
      BY <1>1, <2>1 DEF Phase
    <2>2. CASE errorState' = TRUE /\ errorState' # errorState
      <3>1. errorState = FALSE /\ default' = default
        BY <1>0, <1>1, <2>2 DEF TypeOK
      <3>2. Phase = IF default["generate"] = "call" THEN "operational" ELSE "off"
        BY <3>1 DEF Phase
      <3>3. Phase' = IF default["generate"] = "call" THEN "failing" ELSE "disabled"
        BY <2>2, <3>1 DEF Phase
      <3> QED
        BY <3>2, <3>3 DEF Module!Failed
    <2> QED
      BY <1>2, <2>1, <2>2 DEF Errs
  <1>7. Required' = Required /\ Passed' = Passed
    BY <1>1 DEF Required, Passed
  <1>8. numbers \in {"random", "nothing"} \cup (IF "answers" \in Passed THEN {} ELSE {"constant"})
    <2>1. "answers" \in Passed => posted
      BY DEF Passed
    <2> QED
      BY <1>3, <2>1
  <1> HIDE DEF numbers
  <1> QED
    BY <1>4, <1>5, <1>6, <1>7, <1>8 DEF Module!Give

LEMMA CreatedModule ==
  ASSUME LibInv, NEW u \in User, Created(u)
  PROVE  Module!End(u)
  <1>0. TypeOK /\ User \subseteq Thread /\ u \in Thread
    BY DEF LibInv, Thread
  <1>1. /\ pc[u] = "created" /\ pc' = [pc EXCEPT ![u] = "idle"]
        /\ drawn' = [drawn EXCEPT ![u] = "none"]
        /\ UNCHANGED <<fips, posted, checked, default, errorState>>
    BY DEF Created, At, Goto, build, proof, tables, fatal
  <1>2. Given[u] \in {"random", "constant", "nothing"}
    BY <1>0, <1>1 DEF Given, TypeOK
  <1>3. Given' = [Given EXCEPT ![u] = "none"]
    <2>1. /\ pc'[u] = "idle" /\ drawn'[u] = "none"
          /\ \A v \in User \ {u} : pc'[v] = pc[v] /\ drawn'[v] = drawn[v]
      BY <1>0, <1>1 DEF TypeOK
    <2>2. ASSUME NEW v \in User
          PROVE  Given'[v] = [Given EXCEPT ![u] = "none"][v]
      BY <2>1 DEF Given
    <2> QED
      BY <2>2 DEF Given
  <1>4. Phase' = Phase /\ Required' = Required /\ Passed' = Passed
    BY <1>1 DEF Phase, Required, Passed
  <1> QED
    BY <1>2, <1>3, <1>4 DEF Module!End

LEMMA InitModule == Init => Module!Init
  <1> SUFFICES ASSUME Init
               PROVE  Module!Init
    OBVIOUS
  <1>1. Required \in {{"integrity"}, Module!Test}
    BY DEF Required, Module!Test
  <1>2. Passed = {}
    BY DEF Init, Passed
  <1>3. Phase = "off"
    BY DEF Init, Phase, Func
  <1>4. Given = [u \in User |-> "none"]
    <2>1. \A u \in User : pc[u] \in {"env", "idle"}
      BY DEF Init, Thread
    <2> QED
      BY <2>1 DEF Given
  <1> QED
    BY <1>1, <1>2, <1>3, <1>4 DEF Module!Init

\* Only a thread that moves can leave a place where a test has not passed.
LEMMA ElsewhereUntested ==
  ASSUME TypeOK, Untested, NEW t \in Thread, Elsewhere(t),
         t = Loader => /\ pc[Loader] \in {"env", "files", "openssl"} \cup TestPc
                       /\ pc'[Loader] \in {"files", "openssl", "integrity"} \cup TestPc
  PROVE  Untested'
  <1>1. pc'[Loader] = pc[Loader] \/ t = Loader
    BY DEF Elsewhere, TypeOK, Thread
  <1> QED
    BY <1>1 DEF Untested, Elsewhere, Errs, TestPc, TypeOK

LEMMA ModuleStep ==
  ASSUME LibInv, Untested, [Next]_vars
  PROVE  [Module!Next]_(Module!vars) /\ Untested'
  <1>0. TypeOK /\ Loader \in Thread /\ Loader \notin User /\ User \subseteq Thread
    BY ICCLibAssumption DEF LibInv, Thread
  <1>1. CASE EnvVars \/ OpenCheckFiles \/ OpenSSL_Init
    <2>1. /\ Elsewhere(Loader)
          /\ pc[Loader] \in {"env", "files", "openssl"}
          /\ pc'[Loader] \in {"files", "openssl", "enter", "integrity"}
      BY <1>0, <1>1, LoadElsewhere
    <2> QED
      BY <1>0, <2>1, ElsewhereModule, ElsewhereUntested DEF Module!Next, TestPc
  <1>2. CASE Integrity
    BY <1>2, IntegrityModule DEF Module!Next, Module!Test
  <1>3. CASE LoadTables
    BY <1>3, TablesModule DEF Module!Next
  <1>4. ASSUME NEW t \in Thread, Testing(t)
        PROVE  [Module!Next]_(Module!vars) /\ Untested'
    BY <1>0, <1>4, TestElsewhere, ElsewhereModule, ElsewhereUntested DEF Module!Next
  <1>5. ASSUME NEW t \in Thread, Verdict(t)
        PROVE  [Module!Next]_(Module!vars) /\ Untested'
    BY <1>5, VerdictModule DEF Module!Next, Module!Test
  <1>6. ASSUME NEW t \in Thread, DisableAPI(t)
        PROVE  [Module!Next]_(Module!vars) /\ Untested'
    BY <1>6, DisableModule DEF Module!Next
  <1>7. ASSUME NEW u \in User, Calling(u)
        PROVE  [Module!Next]_(Module!vars) /\ Untested'
    BY <1>0, <1>7, CallElsewhere, ElsewhereModule, ElsewhereUntested DEF Module!Next
  <1>8. ASSUME NEW u \in User, Fetch(u) \/ Create(u) \/ Created(u)
        PROVE  [Module!Next]_(Module!vars) /\ Untested'
    <2>1. Module!Next
      BY <1>8, FetchModule, CreateModule, CreatedModule DEF Module!Next
    <2>2. Errs
      BY <1>0, <1>8, FatalErrs, KeptErrs DEF Fetch, Create, Created
    <2>3. UNCHANGED <<posted, checked>> /\ pc'[Loader] = pc[Loader]
      BY <1>0, <1>8 DEF Fetch, Create, Created, proof, Goto, TypeOK
    <2>4. Untested'
      BY <2>2, <2>3 DEF Untested, Errs
    <2> QED
      BY <2>1, <2>4
  <1>9. CASE UNCHANGED vars
    <2>1. Untested'
      BY <1>9 DEF Untested, vars, fatal, proof
    <2>2. Given' = Given
      BY <1>9, GivenKept DEF vars, app
    <2>3. Phase' = Phase /\ Required' = Required /\ Passed' = Passed
      BY <1>9 DEF vars, build, tables, fatal, proof, Phase, Required, Passed
    <2> QED
      BY <2>1, <2>2, <2>3 DEF Module!vars
  <1> QED
    BY <1>1, <1>2, <1>3, <1>4, <1>5, <1>6, <1>7, <1>8, <1>9
       DEF Next, Load, SelfTest, Calls, Running, Testing, Calling

(***************************************************************************)
(* The shared library implements FIPSModule: the verdict of the loader's   *)
(* test and the integrity check map to Pass, LoadTables to Enable, fatal   *)
(* errors to Fail, the entry of DisableAPI that removes what creates to    *)
(* Disable, and the steps of a key generation to Begin, Give and End.      *)
(***************************************************************************)
THEOREM Implements == Spec => IsFIPSModule
  <1>1. LibInv /\ Untested /\ [Next]_vars => [Module!Next]_(Module!vars) /\ Untested'
    BY ModuleStep
  <1> QED
    BY <1>1, InitModule, InitUntested, Inductive, PTL DEF Spec, IsFIPSModule, Module!Spec
=============================================================================
