---------------------------- MODULE KnownAnswers ----------------------------
(***************************************************************************)
(* The known answer tests of the self test (icc/fips.c): what each test    *)
(* reports of the operations it tries.  A test is the list of its checks;  *)
(* each is made only while the status is still ICC_OK, so the first one    *)
(* that fails decides.  Known answers, keys and buffers are left out: an   *)
(* operation is only right or wrong, and a check only tells which.         *)
(***************************************************************************)
EXTENDS Naturals, Sequences, FiniteSets

(***************************************************************************)
(* ICC_STATUS after a test: ICC_OK, ICC_OPENSSL_ERROR, ICC_ERROR without   *)
(* and with ICC_FATAL.  Only the last one disables the library at once.    *)
(***************************************************************************)
Status == {"ok", "openssl", "error", "fatal"}

(***************************************************************************)
(* How an operation behaves: right; wrong but without an error; with an    *)
(* error; not there; or, for one that verifies, accepting everything.      *)
(***************************************************************************)
Health == {"good", "wrong", "fails", "absent", "lax"}

FirstBad(checks) ==
  LET bad == {i \in DOMAIN checks : checks[i] # "ok"}
  IN  IF bad = {} THEN "ok" ELSE checks[CHOOSE i \in bad : \A j \in bad : i <= j]

-----------------------------------------------------------------------------
(***************************************************************************)
(* The checks the tests are made of.  oom is the test in which memory runs *)
(* out, if in any.                                                         *)
(***************************************************************************)
Fatal(test)      == IF test THEN "ok" ELSE "fatal"
Memory(oom, alg) == Fatal(oom # alg)                    \* SetStatusMem
Found(op)        == Fatal(op # "absent")
Works(op)        == IF op \in {"fails", "absent"} THEN "openssl" ELSE "ok"

\* Mutant: the lengths are compared and the values are not.
iccCheckKnownAnswer_Length(op) == Fatal(op \in {"good", "lax", "wrong"})

iccCheckKnownAnswer(op) == Fatal(op \in {"good", "lax"})

\* What was encrypted is decrypted again; a tag is accepted or not.
RoundTrip(enc, dec) == FirstBad(<<iccCheckKnownAnswer(enc), iccCheckKnownAnswer(dec)>>)

-----------------------------------------------------------------------------
(***************************************************************************)
(* Signatures.  random is what the random number method gives: numbers     *)
(* that differ each time, the constant of the insecure method, or nothing  *)
(* when that method has been zeroed.  Only RSA PKCS1.5 needs none.         *)
(***************************************************************************)
Randomized == {"RSA-PSS", "EC-P384", "EC-B233", "EC-K233", "DSA"}

VerifySig(op, valid) == Fatal(op = "lax" \/ (op = "good" /\ valid))

GenerateSig(op, alg, random) ==
  Fatal(op \in {"good", "wrong"} /\ (alg \in Randomized => random # "none"))

\* The same random numbers, the same signature.
Repeats(op, alg, random) == op = "good" /\ (alg \in Randomized => random = "constant")

KATest(h, alg, oom, random) ==
  FirstBad(<<Memory(oom, alg), VerifySig(h[alg, "verify"], TRUE),
             GenerateSig(h[alg, "sign"], alg, random),
             VerifySig(h[alg, "verify"], h[alg, "sign"] = "good")>>)

\* Without memory for the new signature there is no test, and no error either.
KATest_broken(h, alg, oom, random) ==
  IF oom = alg
  THEN "ok"
  ELSE FirstBad(<<VerifySig(h[alg, "verify"], TRUE),
                  GenerateSig(h[alg, "sign"], alg, random),
                  Fatal(Repeats(h[alg, "sign"], alg, random))>>)

-----------------------------------------------------------------------------
(***************************************************************************)
(* Digests, MACs and ciphers.                                              *)
(***************************************************************************)
iccDigest(h, alg, oom) ==
  LET op == h[alg, "digest"]
  IN  FirstBad(<<Found(op), Memory(oom, alg), Works(op), iccCheckKnownAnswer(op)>>)

iccXOF(h, alg, oom) ==
  LET op == h[alg, "xof"]
  IN  FirstBad(<<Found(op), Memory(oom, alg), Works(op), iccCheckKnownAnswer(op)>>)

\* The calls are not looked at, only the result.
iccHMACTest(h, alg, oom) ==
  LET op == h[alg, "hmac"]
  IN  FirstBad(<<Memory(oom, alg), Found(op), iccCheckKnownAnswer(op)>>)

iccCMACTest(h, alg, oom) ==
  LET op == h[alg, "cmac"]
  IN  FirstBad(<<IF op = "absent" THEN "error" ELSE "ok", Memory(oom, alg),
                 iccCheckKnownAnswer(op)>>)

iccSymEnc(op) == FirstBad(<<Works(op), iccCheckKnownAnswer(op)>>)
iccSymDec(op) == FirstBad(<<Works(op), iccCheckKnownAnswer(op)>>)

iccCipherTest(h, alg, oom) ==
  FirstBad(<<Found(h[alg, "encrypt"]), Memory(oom, alg),
             iccSymEnc(h[alg, "encrypt"]), iccSymDec(h[alg, "decrypt"])>>)

iccAES_CCMTest(h, alg, oom) ==
  FirstBad(<<Memory(oom, alg), RoundTrip(h[alg, "encrypt"], h[alg, "decrypt"])>>)

iccAES_GCMTest(h, alg, oom) ==
  FirstBad(<<Memory(oom, alg), RoundTrip(h[alg, "encrypt"], h[alg, "decrypt"])>>)

iccAES_XTSTest(h, alg, oom) ==
  FirstBad(<<Memory(oom, alg), Found(h[alg, "encrypt"]),
             RoundTrip(h[alg, "encrypt"], h[alg, "decrypt"])>>)

iccChaChaPolyTest(h, alg, oom) ==
  FirstBad(<<Memory(oom, alg), iccCheckKnownAnswer(h[alg, "encrypt"])>>)

iccCheckKW(h, alg, oom) ==
  FirstBad(<<Memory(oom, alg), RoundTrip(h[alg, "encrypt"], h[alg, "decrypt"])>>)

-----------------------------------------------------------------------------
(***************************************************************************)
(* Asymmetric keys.                                                        *)
(***************************************************************************)
iccRSACipherTest(h, alg, oom) ==
  FirstBad(<<Memory(oom, alg),
             Works(h[alg, "private-encrypt"]), iccCheckKnownAnswer(h[alg, "private-encrypt"]),
             Works(h[alg, "public-decrypt"]), iccCheckKnownAnswer(h[alg, "public-decrypt"]),
             Works(h[alg, "public-encrypt"]), Works(h[alg, "private-decrypt"]),
             RoundTrip(h[alg, "public-encrypt"], h[alg, "private-decrypt"])>>)

\* Sign, then verify the signature: what the pair tests have in common.
PairTest(h, alg) ==
  VerifySig(h[alg, "verify"], h[alg, "sign"] = "good")

iccRSAKeyPair(h, alg, oom) ==
  FirstBad(<<Memory(oom, alg), PairTest(h, "RSA-PKCS1"),
             RoundTrip(h[alg, "public-encrypt"], h[alg, "private-decrypt"])>>)

iccDSAPairTest(h, alg, oom) == FirstBad(<<Memory(oom, alg), PairTest(h, alg)>>)

iccECKEYPairTest(h, alg, oom) == FirstBad(<<Memory(oom, alg), PairTest(h, alg)>>)

DSA_verify(h, alg) ==
  IF h[alg, "verify"] \in {"good", "lax"} THEN "ok" ELSE "openssl"

iccDSA2KA(h, alg, oom) ==
  FirstBad(<<Memory(oom, alg), VerifySig(h[alg, "verify"], TRUE)>>)

iccECDHVerifyKAS(h, alg) == iccCheckKnownAnswer(h[alg, "derive"])

iccDHTest(h, alg, oom) ==
  FirstBad(<<Memory(oom, alg), Fatal(h[alg, "derive"] # "fails"),
             iccCheckKnownAnswer(h[alg, "derive"])>>)

-----------------------------------------------------------------------------
(***************************************************************************)
(* Key derivation, and the generators with the tests of their noise.       *)
(***************************************************************************)
iccHKDFTest(h, alg, oom) ==
  FirstBad(<<Memory(oom, alg), Found(h[alg, "extract"]),
             iccCheckKnownAnswer(h[alg, "extract"]), iccCheckKnownAnswer(h[alg, "expand"])>>)

\* No context, no test: whether memory or the algorithm is missing.
iccTestTLS_KDF(h, alg, oom) ==
  IF oom = alg \/ h[alg, "derive"] = "absent"
  THEN "ok"
  ELSE iccCheckKnownAnswer(h[alg, "derive"])

iccPBKDF2Test(h, alg, oom) ==
  FirstBad(<<Found(h[alg, "derive"]), Memory(oom, alg), iccCheckKnownAnswer(h[alg, "derive"])>>)

\* SP800_108_get_KDFbyname runs the test of a KDF and finds only what passes.
iccSP800_108Test(h, alg) == iccCheckKnownAnswer(h[alg, "derive"])

\* Init and the self test command run the generator's own tests (PRNG_self_test).
iccSP800_90Test(h, alg, oom) ==
  FirstBad(<<Found(h[alg, "generate"]), Memory(oom, alg), iccCheckKnownAnswer(h[alg, "generate"])>>)

RNGAlgTests(h) ==
  FirstBad(<<iccCheckKnownAnswer(h["pmax4", "test"]), iccCheckKnownAnswer(h["AP", "test"]),
             iccCheckKnownAnswer(h["RC", "test"])>>)

-----------------------------------------------------------------------------
(***************************************************************************)
(* iccDoKnownAnswer: the tests in the order of the code, after those of    *)
(* the signatures.                                                         *)
(***************************************************************************)
Digests(h, oom) ==
  <<iccDigest(h, "SHA1", oom), iccDigest(h, "SHA256", oom), iccDigest(h, "SHA512", oom),
    iccDigest(h, "SHA3-512", oom), iccXOF(h, "SHAKE128", oom)>>

Keys(h, oom) ==
  <<iccRSACipherTest(h, "RSA", oom), iccRSAKeyPair(h, "RSA", oom),
    iccDSAPairTest(h, "DSA", oom), DSA_verify(h, "DSA")>>

Macs(h, oom) ==
  <<iccHMACTest(h, "SHA1", oom), iccHMACTest(h, "SHA256", oom), iccHMACTest(h, "SHA3-512", oom),
    iccCMACTest(h, "AES-256-CMAC", oom), iccCipherTest(h, "AES-256-CBC", oom)>>

Curves(h, oom) ==
  <<RNGAlgTests(h), iccDSA2KA(h, "DSA", oom), iccECKEYPairTest(h, "EC-P384", oom),
    iccECKEYPairTest(h, "EC-B233", oom), iccECDHVerifyKAS(h, "ECDH")>>

\* One generator and one KDF stand for the lists get_SP800_90FIPS and
\* get_SP800_108FIPS return.
Ciphers(h, oom) ==
  <<iccAES_CCMTest(h, "AES-CCM", oom), iccAES_GCMTest(h, "AES-GCM", oom),
    iccAES_XTSTest(h, "AES-128-XTS", oom), iccSP800_90Test(h, "SHA256-DRBG", oom),
    iccSP800_108Test(h, "SHA256-CTR")>>

Derivations(h, oom) ==
  <<iccCheckKW(h, "KW", oom), iccCheckKW(h, "KWP", oom), iccHKDFTest(h, "HKDF", oom),
    iccTestTLS_KDF(h, "TLS1-PRF", oom), iccDHTest(h, "FFDHE", oom),
    iccChaChaPolyTest(h, "ChaCha20-Poly1305", oom), iccPBKDF2Test(h, "PBKDF2", oom)>>

iccDoKnownAnswer(h, oom) ==
  FirstBad(<<FirstBad(Digests(h, oom)), FirstBad(Keys(h, oom)), FirstBad(Macs(h, oom)),
             FirstBad(Curves(h, oom)), FirstBad(Ciphers(h, oom)), FirstBad(Derivations(h, oom))>>)

\* The key pairs whose signatures are tested, in order.
Signatures == <<"RSA-PKCS1", "RSA-PSS", "EC-P384", "EC-B233", "EC-K233", "DSA">>

-----------------------------------------------------------------------------
(***************************************************************************)
(* What the tests try, and what they cannot see: an operation that accepts *)
(* everything (no test offers a wrong signature or tag), and the TLS KDF   *)
(* when it is missing.                                                     *)
(***************************************************************************)
Symmetric == {"AES-CCM", "AES-GCM", "AES-128-XTS", "AES-256-CBC", "KW", "KWP"}

Operation ==
  ({"SHA1", "SHA256", "SHA512", "SHA3-512"} \X {"digest"})
    \cup ({"SHA1", "SHA256", "SHA3-512"} \X {"hmac"})
    \cup {<<"SHAKE128", "xof">>, <<"AES-256-CMAC", "cmac">>, <<"SHA256-DRBG", "generate">>}
    \cup ({"RSA"} \X {"private-encrypt", "public-decrypt", "public-encrypt", "private-decrypt"})
    \cup (({"RSA-PKCS1"} \cup Randomized) \X {"sign", "verify"})
    \cup (Symmetric \X {"encrypt", "decrypt"})
    \cup {<<"ChaCha20-Poly1305", "encrypt">>, <<"HKDF", "extract">>, <<"HKDF", "expand">>}
    \cup ({"ECDH", "FFDHE", "SHA256-CTR", "TLS1-PRF", "PBKDF2"} \X {"derive"})
    \cup ({"pmax4", "AP", "RC"} \X {"test"})

Algorithm == {op[1] : op \in Operation}

Unseen(op, health) == health = "lax" \/ (op = <<"TLS1-PRF", "derive">> /\ health = "absent")

AllGood == [op \in Operation |-> "good"]
Ill(op, health) == [AllGood EXCEPT ![op] = health]
=============================================================================
