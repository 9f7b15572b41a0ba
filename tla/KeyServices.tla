----------------------------- MODULE KeyServices -----------------------------
(***************************************************************************)
(* What the service indicator tells of keys, one call each: a key made, a  *)
(* key used, an algorithm found by name, a password stretched; and a key   *)
(* wrapped.                                                                *)
(***************************************************************************)
EXTENDS Services, Indicator, KeyWrap

CONSTANTS Sizes,       \* sizes of keys, in bits
          CurveNames,  \* names of curves
          DigestNames, \* names of digests
          KeyLengths,  \* lengths of key encryption keys, in bytes or bits
          WrapLengths  \* lengths of wrapped keys

\* Every digest of OpenSSL has a number there, a length is an int.
ASSUME KeyServicesAssumption ==
  /\ Sizes \subseteq Nat
  /\ DigestNames \ {"none"} \subseteq HasNumber \cup Unlisted
  /\ WrapLengths \subseteq Nat /\ \A n \in WrapLengths : n <= MaxIn

KeyServiceKind == {"key", "generate", "use", "name", "stretch", "wrap"}

EachKey ==
  {Key(kind, bits, "none") : kind \in {"DH", "RSA", "DSA"}, bits \in Sizes}
    \cup {Key("EC", 256, curve) : curve \in CurveNames}
    \cup {Key(kind, 256, "none") : kind \in {"FFDHE", "Ed", "X", "PBE2"}}

\* A key made by EVP_PKEY_keygen, then used with a digest.
TryKey ==
  May("key") /\ \E k \in EachKey, fips, works, pair, memory \in BOOLEAN, md \in DigestNames :
    input' = <<"key", k, fips, works, pair, memory, md>>

\* A key made by the call of its kind: e is the RSA exponent, bad the keys
\* that are no good before one is (DSA).
TryGenerate ==
  May("generate") /\ \E bits \in Sizes, e \in {"fits", "small"}, fips, error, works, pair \in BOOLEAN, bad \in 0 .. 6 :
    input' = <<"generate", bits, e, fips, error, works, pair, bad>>

\* A key used, the output of that length and the same as the input or not.
TryUse ==
  May("use") /\ \E bits \in Sizes, length \in {-1, 0, 1, 20, 256}, unmodified \in BOOLEAN :
    input' = <<"use", bits, length, unmodified>>

TryName ==
  May("name") /\ \E table \in {C_diglist, C_ciplist}, name \in DOMAIN Standing \cup DOMAIN C_diglist \cup DOMAIN C_ciplist :
    /\ name \in DOMAIN Standing \cup DOMAIN table
    /\ input' = <<"name", table, name>>

TryStretch ==
  May("stretch") /\ \E md \in DigestNames \ {"none"}, pass \in {9, 10}, salt \in {15, 16}, iters \in {999, 1000},
                       keylen \in {13, 14}, kl \in {8, 16, 24, 32, 128, 192, 256}, works \in BOOLEAN :
    input' = <<"stretch", md, pass, salt, iters, keylen, kl, works>>

\* The key wrapped, and the byte that is changed before it is unwrapped (0: none).
TryWrap ==
  May("wrap") /\ \E n \in WrapLengths, kl \in KeyLengths, isEnc, pad \in BOOLEAN, change \in {0, 1, 6, 8, 9, 16} :
    input' = <<"wrap", Data(n, 1), kl, isEnc, pad, change>>

KeyServicesNext == TryKey \/ TryGenerate \/ TryUse \/ TryName \/ TryStretch \/ TryWrap

KeyServicesSpec == input \in {<<kind>> : kind \in KeyServiceKind} /\ [][KeyServicesNext]_input

-----------------------------------------------------------------------------
\* The security a key gives, from 112 bits on: SP800-57.
Strong(k) ==
  CASE k.kind \in {"DH", "RSA", "DSA"} -> k.bits >= 2048
    [] k.kind = "EC"    -> k.curve \notin {"P-192", "secp160r1", "unknown"}
    [] k.kind = "FFDHE" -> TRUE
    [] OTHER            -> FALSE

Approved(md) == md = "none" \/ (md \in DOMAIN C_diglist /\ C_diglist[md])

SilentUnlessDone(call) == call.report # <<>> => call.rv = 1

KeyReports(k, fips, works, pair, memory, md) ==
  LET made   == my_EVP_PKEY_keygen(fips, k, works, pair, memory)
      sign   == my_EVP_DigestSignInit(k, md, works)
      verify == my_EVP_DigestVerifyInit(k, md, works)
      inits  == {my_EVP_PKEY_sign_init(k, works), my_EVP_PKEY_verify_init(k, works),
                 my_EVP_PKEY_derive_init(k, works)}
      all    == {made, sign, verify} \cup inits
  IN  /\ \A call \in all : SilentUnlessDone(call) /\ (Approves(call) => Strong(k))
      /\ Approves(made) \/ Approves(sign) => k.kind # "DSA"
      /\ Approves(sign) => Approves(verify) /\ Approved(md)
      /\ \A init \in inits : Approves(sign) \/ Approves(verify) => Approves(init)
      /\ fips /\ made.key /\ Approved(md) => (Approves(made) <=> Approves(sign))
      /\ Approves(made) => fips /\ (pair \/ ~memory \/ k.kind \in {"DH", "FFDHE"})
      /\ fips /\ ~pair /\ memory /\ made.key => PKEY_FIPS_id(k).check # "pair"

\* The sizes of RSA keys that are made, and those approved by their own call alone.
Makes(bits) == bits >= 512 /\ bits <= 16384
Large(bits) == bits > 4096 /\ bits <= 8192

RSAKeyReports(bits, e, fips, works, pair) ==
  LET rsa    == my_RSA_generate_key(fips, bits, e, works, pair)
      rsa_ex == my_RSA_generate_key_ex(fips, bits, e, works, pair)
      keygen == my_EVP_PKEY_keygen(fips, Key("RSA", bits, "none"), works, pair, TRUE)
  IN  /\ SilentUnlessDone(rsa) /\ SilentUnlessDone(rsa_ex) /\ SilentUnlessDone(keygen)
      /\ rsa.key => rsa.rv = 1 /\ (fips => pair)
      /\ rsa_ex.rv = 1 => rsa = rsa_ex
      /\ Approves(rsa) => fips /\ bits >= 2048
      /\ e = "fits" /\ Makes(bits) /\ works /\ pair =>
           (Approves(rsa) <=> Approves(keygen) \/ (fips /\ Large(bits)))

CurveReports(curve, fips, works) ==
  LET k == Key("EC", 256, curve)
  IN  Approves(my_EC_KEY_new_by_curve_name(curve, works)) =>
        Strong(k) /\ (fips => Approves(my_EVP_PKEY_keygen(fips, k, works, TRUE, TRUE)))

OtherKeyReports(bits, fips, error, works, pair, bad) ==
  LET dsa    == my_DSA_generate_key(fips, error, works, bad)
      ec     == my_EC_KEY_generate_key(fips, error, bits, works, pair)
      params == {my_DH_generate_parameters(works), my_DSA_generate_parameters(works)}
      dh     == my_DH_generate_key(Key("DH", bits, "none"), works)
  IN  /\ \A call \in params : SilentUnlessDone(call) /\ ~Approves(call)
      /\ SilentUnlessDone(dh) /\ ~Approves(dsa)
      /\ fips /\ dsa.key => ~error /\ bad < 5
      /\ fips /\ ec.rv = 1 => ~error /\ pair
      /\ \A curve \in CurveNames : CurveReports(curve, fips, works)
      /\ Approves(dh) => bits > 2040

UseReports(bits, length, unmodified) ==
  LET rsa == Key("RSA", bits, "none")  dh == Key("DH", bits, "none")
      ofRSA == {my_RSA_sign(rsa, length = 1), my_RSA_verify(rsa, length = 1),
                my_RSA_public_encrypt(rsa, unmodified), my_RSA_private_encrypt(rsa, unmodified),
                my_RSA_public_decrypt(rsa, length, unmodified), my_RSA_private_decrypt(rsa, length, unmodified)}
      ofDH  == {my_DH_compute_key(dh, length), my_DH_compute_key_padded(dh)}
  IN  /\ \A call \in ofRSA \cup ofDH : call.report # <<>> <=> call.rv = 1
      /\ \A call \in ofRSA : Approves(call) => bits \in 2041 .. 4096
      /\ \A call \in ofDH  : Approves(call) => bits \in 2041 .. 8192

\* Under another name an algorithm is reported as under its own, unless it
\* has no number: then it is not approved.
NameReports(table, name) ==
  LET found  == ByName(table, name)
      listed == name \in DOMAIN table
      itself == IF listed THEN name ELSE Standing[name]
  IN  /\ Cardinality(NID_cache_lookup(table, Number(itself))) = 1
      /\ found.key => found.rv = itself
      /\ Approves(found) => itself \in DOMAIN table /\ table[itself]
      /\ itself \in DOMAIN table /\ (listed \/ itself \in HasNumber) => found = ByName(table, itself)
      /\ ICC_EVP_get_byname(table, name).rv = found.rv

StretchReports(md, pass, salt, iters, keylen, kl, works) ==
  LET stretched == my_PKCS5_PBKDF2_HMAC(md, pass, salt, iters, keylen, works)
  IN  /\ SilentUnlessDone(stretched)
      /\ Approves(stretched) <=>
           works /\ md # "none" /\ Approved(md) /\ pass >= 10 /\ salt >= 16 /\ iters >= 1000 /\ keylen >= 14
      /\ Approves(my_SP800_38F_KW(kl, works)) <=> kl \in {16, 24, 32, 128, 192, 256}

(***************************************************************************)
(* The indicator approves nothing that is not, by whatever call a key is   *)
(* made or used (the wrappers of icclib.c, nid_cache.c): what is approved  *)
(* has 112 bits of strength (sizes in bytes let 2041 bits pass), in FIPS   *)
(* mode a new key passed its pair test where its kind has one and there    *)
(* was memory, DSA keys sign nothing approved, a digest that is not makes  *)
(* the whole not approved, and names of one algorithm agree.  A call that  *)
(* failed reports nothing, except a DSA key given up and key wrapping; the *)
(* ways to make a key agree, except for RSA keys over 4096 bits.           *)
(***************************************************************************)
IndicatorSound ==
  /\ Is("key") => KeyReports(input[2], input[3], input[4], input[5], input[6], input[7])
  /\ Is("generate") =>
       /\ RSAKeyReports(input[2], input[3], input[4], input[6], input[7])
       /\ OtherKeyReports(input[2], input[4], input[5], input[6], input[7], input[8])
  /\ Is("use") => UseReports(input[2], input[3], input[4])
  /\ Is("name") => NameReports(input[2], input[3])
  /\ Is("stretch") =>
       StretchReports(input[2], input[3], input[4], input[5], input[6], input[7], input[8])

-----------------------------------------------------------------------------
Wrappable(key, kl, pad) ==
  /\ GetCipher(kl)
  /\ IF pad THEN Len(key) > 0 /\ Len(key) <= MaxPadded ELSE Len(key) % 8 = 0 /\ Len(key) >= 16

(***************************************************************************)
(* A wrapped key is unwrapped to the same key, for every length, with and  *)
(* without padding, in both directions of the cipher; lengths that cannot  *)
(* be wrapped are refused (KW and KU, SP80038F.c).                         *)
(***************************************************************************)
WrapRoundTrip ==
  Is("wrap") =>
    LET key == input[2]  kl == input[3]  isEnc == input[4]  pad == input[5]
        w   == KW(key, Data(16, 2), kl, isEnc, pad)
    IN  /\ w.rv = "OK" <=> Wrappable(key, kl, pad)
        /\ w.rv = "OK" => KU(w.out, Data(16, 2), kl, isEnc, pad) = Answer("OK", key)
=============================================================================
