----------------------------- MODULE Algorithms -----------------------------
(***************************************************************************)
(* The algorithms of the library against what they should compute: the     *)
(* tools on keys, besides the services of SelfTests, MechanismServices,    *)
(* KeyServices, KeyExpansion and Settings.  They keep no state between     *)
(* calls, so the specification tries one input of one kind and stops; only *)
(* a generator has a state, and is called several times.                   *)
(***************************************************************************)
EXTENDS SelfTests, MechanismServices, KeyExpansion, KeyTools, Settings

CONSTANT Primes   \* pairs of primes

Kind == {"test", "hkdf", "rsa", "dsa g"} \cup MechanismKind
          \cup ServiceKind \cup KeyServiceKind \cup SettingKind

Init == input \in {<<kind>> : kind \in Kind}

\* An RSA key some parts of which are zeros, with its exponent, another one
\* or none, and a public key or none (n = 0), or that of another key.
TryRSA ==
  May("rsa") /\ \E primes \in Primes, e \in {3, 5, 17}, zeros \in SUBSET {"p", "q", "dmp1", "dmq1", "iqmp"},
                  has \in {"its own", "another", "none"}, pub \in {"its own", "another", "none"} :
    /\ Gcd(e, (primes[1] - 1) * (primes[2] - 1)) = 1
    /\ input' = <<"rsa", primes, e, zeros, has, pub>>

TryGenerator_g ==
  May("dsa g") /\ \E g \in 0 .. 24, memory \in BOOLEAN : input' = <<"dsa g", g, memory>>

vars == <<input>>

Next ==
  \/ TryTest \/ MechanismsNext
  \/ TryHKDF \/ TryRSA \/ TryGenerator_g
  \/ ServicesNext \/ KeyServicesNext \/ SettingsNext

Spec == Init /\ [][Next]_vars

-----------------------------------------------------------------------------
\* A complete key, then with the zeros and the exponent it is given.
CompleteKey(primes, e) ==
  LET p == primes[1]  q == primes[2]  phi == (p - 1) * (q - 1)
      d == CHOOSE d \in 1 .. phi : (e * d) % phi = 1
  IN  [n |-> p * q, e |-> e, d |-> d, p |-> p, q |-> q, dmp1 |-> d % (p - 1),
       dmq1 |-> d % (q - 1), iqmp |-> InverseMod(q, p)]

Exponent(has, e) == CASE has = "its own" -> e [] has = "another" -> e + 2 [] has = "none" -> 0

Given(key, zeros, has) ==
  [field \in DOMAIN key |-> IF field \in zeros THEN 0 ELSE IF field = "e" THEN Exponent(has, key.e) ELSE key[field]]

PublicKey(key, pub) ==
  CASE pub = "its own" -> [n |-> key.n, e |-> key.e]
    [] pub = "another" -> [n |-> key.n + 2, e |-> key.e + 2]
    [] pub = "none"    -> [n |-> 0, e |-> 0]

RepairHolds(primes, e, zeros, has, pub) ==
  LET whole == CompleteKey(primes, e)
      key   == RSA_FixEncodingZeros(Given(whole, zeros, has), PublicKey(whole, pub))
      Right(m) == PrivateOperation(key, m) = PowerMod(m, whole.d, whole.n)
      tested == zeros \cap {"dmp1", "dmq1", "iqmp"} # {}
  IN  \A m \in {2, 3, 77, whole.n - 1} :
        /\ Right(m) \/ PrivateOperation(key, m) = -1
        /\ zeros = {} \/ (tested /\ has # "another") => Right(m)

Changed(s, i) == [k \in DOMAIN s |-> IF k = i THEN (s[k] + 1) % 256 ELSE s[k]]

\* Byte change of what was wrapped is changed.
ChangesRefused(key, kl, isEnc, pad, change) ==
  LET w == KW(key, Data(16, 2), kl, isEnc, pad)
      Refused(answer) == answer.rv \in {"MAC", "DATA"} /\ answer.out = <<>>
  IN  w.rv = "OK" =>
        IF change = 0
        THEN /\ Refused(KU(w.out, Data(16, 2), kl, isEnc, ~pad))
             /\ Refused(KU(w.out, Data(16, 2), kl, ~isEnc, pad))
        ELSE Refused(KU(Changed(w.out, change), Data(16, 2), kl, isEnc, pad))

(***************************************************************************)
(* The tools on keys give the right key or none (HKDF and                  *)
(* RSA_FixEncodingZeros, icclib.c; KU, SP80038F.c): HKDF derives what RFC  *)
(* 5869 says, up to its last block and no further, and both copies alike;  *)
(* an RSA key with zeros among the three CRT parts that are looked at      *)
(* works again, with or without its public exponent, and even with a wrong *)
(* one gives no wrong answer; a DSA generator is accepted iff its order is *)
(* q; and a wrapped key is refused, with nothing output, with the other    *)
(* padding, with the other direction, or after a change.                   *)
(***************************************************************************)
KeysRepaired ==
  /\ HKDFSound
  /\ Is("rsa") => RepairHolds(input[2], input[3], input[4], input[5], input[6])
  /\ Is("wrap") => ChangesRefused(input[2], input[3], input[4], input[5], input[6])
  /\ Is("dsa g") =>
       (dsa_paramgen_check_g(input[2], 23, 11, input[3]) = 1 <=>
          input[3] /\ {i \in 1 .. 11 : PowerMod(input[2], i, 23) = 1} = {11})
=============================================================================
