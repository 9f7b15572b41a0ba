------------------------------ MODULE Indicator ------------------------------
(***************************************************************************)
(* The service indicator: each wrapper of an OpenSSL call checks what FIPS *)
(* mode asks for, and tells the callback of the context what was used and  *)
(* whether it is approved (icclib.c, nid_cache.c, name_cache_tables.c;     *)
(* name_cache.c in the GSKit wrapper).  A call answers                     *)
(*   rv      what the wrapper returns                                      *)
(*   key     whether the caller has a key afterwards                       *)
(*   report  <<>>, or <<what, approved>> as told to the callback           *)
(* Numbers of algorithms are their names.                                  *)
(***************************************************************************)
EXTENDS Integers, Sequences, FiniteSets

CONSTANTS Standing,      \* Standing[name]: the algorithm of a name not listed, or "nothing"
          HasNumber,     \* listed names with a number in OpenSSL, which knows them all
          Unlisted       \* algorithms OpenSSL knows and the tables do not list

ICC_FAILURE == -2

Called(rv, key, report) == [rv |-> rv, key |-> key, report |-> report]

Approval(what, approved) == <<what, approved>>
Approves(call) == call.report # <<>> /\ call.report[2]

-----------------------------------------------------------------------------
(***************************************************************************)
(* The tables of names, and the flag of each.  Some entries have no number *)
(* in OpenSSL, and CFB1 and CFB8 have the number of CFB.                   *)
(***************************************************************************)
C_diglist ==
  [name \in {"SHA256", "SHA224", "SHA384", "SHA512", "SHA512-224", "SHA512-256", "SHA3-224",
             "SHA3-256", "SHA3-384", "SHA3-512", "SHAKE128", "SHAKE256", "SHA1", "MD5"} |->
     name \notin {"SHA1", "MD5"}]

C_ciplist ==
  [name \in {"AES-128-ECB", "AES-128-CBC", "AES-128-GCM", "AES-128-CCM", "AES-128-CTR",
             "AES-128-XTS", "AES-128-CFB1", "AES-128-CFB8", "AES-128-CFB", "AES-128-OFB",
             "AES-192-ECB", "AES-192-CBC", "AES-192-CFB1", "AES-192-CFB8", "AES-192-CFB",
             "AES-192-OFB", "AES-192-GCM", "AES-192-CCM", "AES-192-CTR",
             "AES-256-ECB", "AES-256-CBC", "AES-256-GCM", "AES-256-CCM", "AES-256-CTR",
             "AES-256-XTS", "AES-256-CFB1", "AES-256-CFB8", "AES-256-OFB", "AES-256-CFB",
             "id-aes128-wrap", "id-aes192-wrap", "id-aes256-wrap",
             "id-aes128-wrap-pad", "id-aes192-wrap-pad", "id-aes256-wrap-pad",
             "DES-EDE3-CBC", "CHACHA20-POLY1305", "RC4"} |->
     name \notin {"DES-EDE3-CBC", "CHACHA20-POLY1305", "RC4"}]

FewBits == {"AES-128-CFB1", "AES-128-CFB8", "AES-192-CFB1", "AES-192-CFB8", "AES-256-CFB1", "AES-256-CFB8"}

\* The number of an algorithm as OpenSSL gives it: "none" is the number 0.
Number(name) ==
  CASE name \in {"AES-128-CFB1", "AES-128-CFB8"} -> "AES-128-CFB"
    [] name \in {"AES-192-CFB1", "AES-192-CFB8"} -> "AES-192-CFB"
    [] name \in {"AES-256-CFB1", "AES-256-CFB8"} -> "AES-256-CFB"
    [] name \in (HasNumber \cup Unlisted) \ FewBits -> name
    [] OTHER -> "none"

\* The entries with a number: a search meets any one of them.
ByNumber(table, number) == {entry \in DOMAIN table : number # "none" /\ Number(entry) = number}

NID_cache_lookup(table, number) ==
  IF ByNumber(table, number) = {} THEN {FALSE} ELSE {table[e] : e \in ByNumber(table, number)}

\* FIPS_MDbyNID and FIPS_CipherbyNID.
FIPS_byNID(table, number) == CHOOSE approved \in NID_cache_lookup(table, number) : TRUE

\* Mutant: an alias is looked for among the names only.
ByName_NoAlias(table, name) ==
  IF name \in DOMAIN table THEN Called(name, TRUE, Approval(Number(name), table[name]))
  ELSE IF Standing[name] = "nothing" THEN Called("NULL", FALSE, <<>>)
  ELSE Called(Standing[name], TRUE, Approval(Number(Standing[name]), FALSE))

\* my_EVP_get_digestbyname and my_EVP_get_cipherbyname.
ByName(table, name) ==
  IF name \in DOMAIN table THEN Called(name, TRUE, Approval(Number(name), table[name]))
  ELSE IF Standing[name] = "nothing" THEN Called("NULL", FALSE, <<>>)
  ELSE Called(Standing[name], TRUE,
              Approval(Number(Standing[name]), FIPS_byNID(table, Number(Standing[name]))))

\* The GSKit wrapper has a table of its own, filled through the library it
\* uses, and asks the library only for a name it does not list: no report.
ICC_EVP_get_byname(table, name) ==
  IF name \in DOMAIN table THEN Called(name, TRUE, <<>>) ELSE ByName(table, name)

-----------------------------------------------------------------------------
(***************************************************************************)
(* Keys: a kind, a size in bits and (EC) a curve.                          *)
(***************************************************************************)
Key(kind, bits, curve) == [kind |-> kind, bits |-> bits, curve |-> curve]

ApprovedCurves == {"P-224", "P-256", "P-384", "P-521", "K-233", "B-233",
                   "K-283", "B-283", "K-409", "B-409", "K-571", "B-571"}

BytesIn(bits) == (bits + 7) \div 8

ApprovedKey(k) ==
  \/ k.kind = "DH" /\ k.bits \in {2048, 3072, 4096, 6144, 8192}
  \/ k.kind = "FFDHE"
  \/ k.kind = "EC" /\ k.curve \in ApprovedCurves
  \/ k.kind \in {"DSA", "RSA"} /\ k.bits >= 2048 /\ k.bits <= 4096

\* Whether a key is approved, and what a new one is checked for: "verify" is
\* a key that may verify but not sign.
PKEY_FIPS_id(k) ==
  [approved |-> ApprovedKey(k),
   check    |-> IF k.kind = "Ed" \/ (k.kind \in {"EC", "RSA"} /\ ApprovedKey(k)) THEN "pair"
                ELSE IF k.kind = "DSA" /\ ApprovedKey(k) THEN "verify" ELSE "none"]

-----------------------------------------------------------------------------
(***************************************************************************)
(* Making a key.  fips is the mode of the context, works whether OpenSSL   *)
(* makes the key, pair whether its pair test passes, and memory whether    *)
(* the test gets what it needs.                                            *)
(***************************************************************************)
\* Odd, at least 65537 and at most 256 bits long.
ExponentFits(e) == e = "fits"

my_RSA_generate_key_ex(fips, bits, e, works, pair) ==
  IF bits \notin 512 .. 16384 \/ (fips /\ ~(bits \in 2048 .. 8192 /\ ExponentFits(e))) \/ ~works
  THEN Called(0, FALSE, <<>>)
  ELSE IF fips /\ ~pair THEN Called(0, TRUE, <<>>)
  ELSE Called(1, TRUE, Approval("RSA", fips))

\* The key is freed unless it was made and passed.
my_RSA_generate_key(fips, bits, e, works, pair) ==
  LET made == my_RSA_generate_key_ex(fips, bits, e, works, pair)
  IN  [made EXCEPT !.key = made.rv = 1]

\* Parameters are reported too, and never approved.
Parameters(kind, works) ==
  IF works THEN Called(1, TRUE, Approval(kind, FALSE)) ELSE Called(0, FALSE, <<>>)

my_DH_generate_parameters(works)  == Parameters("DH", works)
my_DSA_generate_parameters(works) == Parameters("DSA", works)

\* A DSA key is made again up to five times; bad is how many of the keys made
\* are too short or fail the pair test.
my_DSA_generate_key(fips, error, works, bad) ==
  IF fips /\ error THEN Called(ICC_FAILURE, FALSE, <<>>)
  ELSE IF fips /\ bad >= 5 THEN Called(ICC_FAILURE, FALSE, Approval("DSA", FALSE))
  ELSE IF works THEN Called(1, TRUE, Approval("DSA", FALSE))
  ELSE Called(0, FALSE, <<>>)

my_EC_KEY_new_by_curve_name(curve, works) ==
  IF works THEN Called(1, FALSE, Approval(curve, curve \in ApprovedCurves)) ELSE Called(0, FALSE, <<>>)

\* The signature has two numbers of the size of the order, and 8 bytes more.
my_EC_KEY_generate_key(fips, error, bits, works, pair) ==
  IF fips /\ error THEN Called(ICC_FAILURE, FALSE, <<>>)
  ELSE IF fips /\ (BytesIn(bits) < 20 \/ ~pair) THEN Called(ICC_FAILURE, works, <<>>)
  ELSE Called(IF works THEN 1 ELSE 0, works, <<>>)

What(k) == IF k.kind = "EC" /\ k.curve # "none" THEN k.curve ELSE k.kind

my_EVP_PKEY_keygen(fips, k, works, pair, memory) ==
  LET id == PKEY_FIPS_id(k)
  IN  IF ~works THEN Called(0, FALSE, <<>>)
      ELSE IF ~fips THEN Called(1, TRUE, Approval("none", FALSE))
      ELSE IF id.check = "pair" /\ memory /\ ~pair THEN Called(-1, FALSE, <<>>)
      ELSE Called(1, TRUE, Approval(What(k), id.approved /\ id.check # "verify"))

my_DH_generate_key(k, works) ==
  IF works THEN Called(1, TRUE, Approval("none", BytesIn(k.bits) \in 256 .. 1024))
  ELSE Called(0, FALSE, <<>>)

-----------------------------------------------------------------------------
(***************************************************************************)
(* Using a key.                                                            *)
(***************************************************************************)
InitWith(k, works) ==
  IF works THEN Called(1, TRUE, Approval(What(k), PKEY_FIPS_id(k).approved)) ELSE Called(0, TRUE, <<>>)

my_EVP_PKEY_sign_init(k, works)   == InitWith(k, works)
my_EVP_PKEY_verify_init(k, works) == InitWith(k, works)
my_EVP_PKEY_derive_init(k, works) == InitWith(k, works)

\* With a digest ("none": no digest given): the first of the two that is not
\* approved is reported.
DigestInit(k, approved, md, works) ==
  IF ~works THEN Called(0, TRUE, <<>>)
  ELSE IF ~approved THEN Called(1, TRUE, Approval(What(k), FALSE))
  ELSE IF Number(md) # "none" /\ ~FIPS_byNID(C_diglist, Number(md))
       THEN Called(1, TRUE, Approval(Number(md), FALSE))
  ELSE Called(1, TRUE, Approval(What(k), TRUE))

my_EVP_DigestSignInit(k, md, works) ==
  DigestInit(k, PKEY_FIPS_id(k).approved /\ PKEY_FIPS_id(k).check # "verify", md, works)
my_EVP_DigestVerifyInit(k, md, works) == DigestInit(k, PKEY_FIPS_id(k).approved, md, works)

RSAUse(k, rv) ==
  Called(rv, TRUE, IF rv = 1 THEN Approval("RSA", BytesIn(k.bits) \in 256 .. 512) ELSE <<>>)

my_RSA_sign(k, works)   == RSAUse(k, IF works THEN 1 ELSE 0)
my_RSA_verify(k, works) == RSAUse(k, IF works THEN 1 ELSE 0)

\* OpenSSL returns the length of the output: only a result of one byte is
\* looked at and reported.
RSACipher(k, length, unmodified) == RSAUse(k, IF length = 1 /\ unmodified THEN -1 ELSE length)

my_RSA_public_encrypt(k, unmodified)          == RSACipher(k, BytesIn(k.bits), unmodified)
my_RSA_private_encrypt(k, unmodified)         == RSACipher(k, BytesIn(k.bits), unmodified)
my_RSA_public_decrypt(k, length, unmodified)  == RSACipher(k, length, unmodified)
my_RSA_private_decrypt(k, length, unmodified) == RSACipher(k, length, unmodified)

DHUse(k, length) ==
  Called(length, TRUE, IF length = 1 THEN Approval("DH_secret", BytesIn(k.bits) \in 256 .. 1024) ELSE <<>>)

my_DH_compute_key(k, length)        == DHUse(k, length)
my_DH_compute_key_padded(k)         == DHUse(k, BytesIn(k.bits))

-----------------------------------------------------------------------------
(***************************************************************************)
(* Calls without a key of their own.                                       *)
(***************************************************************************)
my_SP800_38F_KW(kl, works) ==
  Called(IF works THEN 0 ELSE 1, FALSE,
         CASE kl \in {16, 128} -> Approval("AES-128-ECB", TRUE)
           [] kl \in {24, 192} -> Approval("AES-192-ECB", TRUE)
           [] kl \in {32, 256} -> Approval("AES-256-ECB", TRUE)
           [] OTHER            -> Approval("none", FALSE))

my_PKCS5_PBKDF2_HMAC(md, passlen, saltlen, iters, keylen, works) ==
  IF ~works THEN Called(0, FALSE, <<>>)
  ELSE Called(1, FALSE, Approval(Number(md),
         /\ FIPS_byNID(C_diglist, Number(md))
         /\ saltlen >= 16 /\ iters >= 1000 /\ keylen >= 14 /\ passlen >= 10))
=============================================================================
