---------------------------- MODULE MCAlgorithms ----------------------------
(***************************************************************************)
(* Algorithms for TLC: small toy primitives, and inputs around the limits. *)
(***************************************************************************)
EXTENDS Algorithms, Bitwise

BytesXor(a, b) == a ^^ b

\* A digest of 2 bytes; a MAC and a cipher made of the same sum.
Sum17(s) ==
  LET sum[i \in 0 .. Len(s)] == IF i = 0 THEN 1 ELSE (sum[i - 1] * 251 + s[i] + 17) % 65521
  IN  sum[Len(s)]

TwoBytes(n)   == <<n \div 256, n % 256>>
ToyHash(s)    == TwoBytes(Sum17(s))
ToyMac(k, s)  == ToyHash(k \o <<54>> \o s)

ToyEncrypt(k, block) ==
  LET n == Sum17(k \o block)
  IN  [i \in 1 .. 5 |-> ((n + i) * (7 + 30 * i) + n \div 256) % 256]

\* A permutation of 16 bytes: four additions of one half, stirred, to the other.
Added(half, n, sign) == [i \in 1 .. 8 |-> (half[i] + sign * ((n + i) * (7 + 30 * i) + n \div 256)) % 256]
Left(b)  == SubSeq(b, 1, 8)
Right(b) == SubSeq(b, 9, 16)

MixRight(key, b, sign) == Left(b) \o Added(Right(b), Sum17(Left(b) \o key), sign)
MixLeft(key, b, sign)  == Added(Left(b), Sum17(Right(b) \o key), sign) \o Right(b)

ToyEncipher(key, b) == MixLeft(key, MixRight(key, MixLeft(key, MixRight(key, b, 1), 1), 1), 1)
ToyDecipher(key, b) == MixRight(key, MixLeft(key, MixRight(key, MixLeft(key, b, -1), -1), -1), -1)

\* Every value 0 .. values - 1 equally often, but the first one more often.
Skewed(total, first, values) ==
  LET rest == (total - first) \div (values - 1)
  IN  <<<<0, first>>>> \o [v \in 1 .. values - 2 |-> <<v, rest>>]
        \o <<<<values - 1, total - first - rest * (values - 2)>>>>

Around(limits) == UNION {{l - 1, l, l + 1} : l \in limits}

TheNoise ==
  {Skewed(512, k, 9) : k \in Around({62, 64, 128, 177, 256, 311})}
    \cup {Skewed(512, k, 200) : k \in Around({4, 8, 16, 23, 32})}
    \cup {Skewed(64, k, 16) : k \in Around({5, 8, 16, 32})}
    \cup {Skewed(63, 8, 16), <<<<1, 512>>>>}
    \cup {Skewed(512, k, 120) : k \in Around({6, 9, 16})}

TheExcludeLists ==
  {{}, {"SHA512"}, {"HMAC-SHA512"}, {"TRNG_HW", "AES-128-ECB"}, {"TRNG_ALT"}, {"HMAC-SHA1", "ETAP_FIPS"}}

\* Other names of listed algorithms, one that is not listed, one unknown.
TheStanding ==
  [name \in {"RSA-SHA256", "ssl3-md5", "sha-1", "aes128", "blowfish", "aes-128-ctr alias", "whirlpool", "no such"} |->
     CASE name = "RSA-SHA256" -> "SHA256"
       [] name = "ssl3-md5"   -> "MD5"
       [] name = "sha-1"      -> "SHA1"
       [] name = "aes128"     -> "AES-128-CBC"
       [] name = "blowfish"   -> "BF-CBC"
       [] name = "aes-128-ctr alias" -> "AES-128-CTR"
       [] name = "whirlpool"  -> "whirlpool digest"
       [] OTHER               -> "nothing"]

TheNumbered ==
  (DOMAIN C_diglist \cup DOMAIN C_ciplist) \ {"AES-128-CTR", "AES-192-CTR", "AES-256-CTR", "CHACHA20-POLY1305"}

TheCurves == ApprovedCurves \cup {"P-192", "secp160r1", "unknown"}

ThePrimes == {<<113, 101>>, <<101, 113>>, <<131, 107>>}

TheItems ==
  {<<"ICC_TRNG", "TRNG_HW">>, <<"ICC_TRNG", "TRNG_FIPS">>, <<"ICC_TRNG", "TRNG_OS">>, <<"ICC_TRNG", "TRNG_ALT2">>,
   <<"ICC_TRNG", "no such">>, <<"ICC_RANDOM_GENERATOR", "HMAC-SHA256">>, <<"ICC_RNG_EXCLUDED", {"HMAC-SHA256"}>>,
   <<"ICC_ALLOW_INDUCED", 1>>, <<"ICC_RUN_POST", 1>>, <<"ICC_SHIFT", 3>>}

TheLines ==
  {<<"ICC_TRNG", "TRNG_OS">>, <<"ICC_TRNG", "TRNG_FIPS">>, <<"ICC_TRNG", "TRNG_ALT">>,
   <<"ICC_RANDOM_GENERATOR", "SHA1">>, <<"ICC_RNG_EXCLUDED", {"SHA384"}>>, <<"ICC_INDUCED_FAILURE", 4>>,
   <<"ICC_RNG_INSTANCES", 300>>, <<"FILE", 0>>}

TheNumbers == UNION {{2 ^ i, 2 ^ i + 1, 2 ^ (i + 1) - 1} : i \in 0 .. 29}
=============================================================================
