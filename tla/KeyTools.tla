------------------------------ MODULE KeyTools ------------------------------
(***************************************************************************)
(* The repair of RSA keys without their CRT parts, and the check of a DSA  *)
(* generator (icclib.c).  A missing part of an RSA key is 0, a part that   *)
(* is not there at all is Gone.                                            *)
(***************************************************************************)
EXTENDS Integers, Sequences

-----------------------------------------------------------------------------
(***************************************************************************)
(* Arithmetic of BN: powers modulo n, the greatest common divisor, the     *)
(* inverse modulo a prime.                                                 *)
(***************************************************************************)
RECURSIVE PowerMod(_, _, _)
PowerMod(g, t, n) ==
  IF t = 0 THEN 1 % n
  ELSE LET half == PowerMod((g * g) % n, t \div 2, n)
       IN  IF t % 2 = 1 THEN (g * half) % n ELSE half

RECURSIVE Gcd(_, _)
Gcd(a, b) == IF b = 0 THEN a ELSE Gcd(b, a % b)

InverseMod(a, p) == PowerMod(a % p, p - 2, p)

-----------------------------------------------------------------------------
(***************************************************************************)
(* The repair of an RSA key.                                               *)
(***************************************************************************)
gs == <<2, 3, 5, 7, 11, 13, 17, 19, 23, 29, 31, 37, 41, 43, 47, 53, 59, 61, 67,
        71, 73, 79, 83, 89, 97>>

Gone == -1

\* How often k can be halved: the exponents tried with one g are the halves.
Halvings(k) == CHOOSE h \in 0 .. 30 : k % 2 ^ h = 0 /\ (k \div 2 ^ h) % 2 = 1

\* The factor that g and the i-th half of k give, 1 when none.
Divisor(g, k, i, n) ==
  LET x == PowerMod(g, k \div 2 ^ i, n)
  IN  IF x \in {0, 1} THEN 1 ELSE Gcd(x - 1, n)

\* The first factor found, over the gs and for each the halves; 1 when none.
Factor(k, n) ==
  LET tries == {<<j, i>> \in (DOMAIN gs) \X (1 .. Halvings(k)) : Divisor(gs[j], k, i, n) # 1}
      Before(s, t) == s[1] < t[1] \/ (s[1] = t[1] /\ s[2] <= t[2])
  IN  IF tries = {} THEN 1
      ELSE LET first == CHOOSE t \in tries : \A s \in tries : Before(t, s)
           IN  Divisor(gs[first[1]], k, first[2], n)

\* Mutant: both exponents are taken modulo p - 1.
WithFactor_OneExponent(key, y) ==
  LET p == IF y >= key.n \div y THEN y ELSE key.n \div y
      q == key.n \div p
  IN  [key EXCEPT !.p = p, !.q = q, !.dmp1 = key.d % (p - 1), !.dmq1 = key.d % (p - 1),
                  !.iqmp = InverseMod(q, p)]

\* The key with the larger factor as p.
WithFactor(key, y) ==
  LET p == IF y >= key.n \div y THEN y ELSE key.n \div y
      q == key.n \div p
  IN  [key EXCEPT !.p = p, !.q = q, !.dmp1 = key.d % (p - 1), !.dmq1 = key.d % (q - 1),
                  !.iqmp = InverseMod(q, p)]

\* Without a factor the key stays as it was.  (e d = 1 never ends.)
recalculateCRT(key) ==
  LET y == Factor(key.e * key.d - 1, key.n)
  IN  IF y = 1 THEN key ELSE WithFactor(key, y)

\* pub is a record of n and e, or of n = 0 for no public key.
RSA_MergePubPri(key, pub) ==
  IF key.e = 0 /\ pub.n = key.n THEN [key EXCEPT !.e = pub.e] ELSE key

AnyZero(key) == key.dmp1 = 0 \/ key.dmq1 = 0 \/ key.iqmp = 0

RSA_FixEncodingZeros(key, pub) ==
  IF ~AnyZero(key) THEN key
  ELSE LET merged == RSA_MergePubPri(key, pub)
       IN  IF merged.e # 0 THEN recalculateCRT(merged)
           ELSE [merged EXCEPT !.e = Gone, !.p = Gone, !.q = Gone, !.dmp1 = Gone,
                               !.dmq1 = Gone, !.iqmp = Gone]

\* The private operation of OpenSSL: by the CRT when all parts are there, and
\* then not with zeros.
PrivateOperation(key, m) ==
  IF 0 \in {key.p, key.q, key.dmp1, key.dmq1, key.iqmp} THEN -1
  ELSE IF Gone \in {key.p, key.q, key.dmp1, key.dmq1, key.iqmp} THEN PowerMod(m, key.d, key.n)
  ELSE LET m1 == PowerMod(m % key.p, key.dmp1, key.p)
           m2 == PowerMod(m % key.q, key.dmq1, key.q)
       IN  m2 + key.q * ((key.iqmp * ((m1 - m2) % key.p)) % key.p)

-----------------------------------------------------------------------------
\* 1 for a generator of the subgroup of order q modulo p, 0 otherwise.
dsa_paramgen_check_g(g, p, q, memory) ==
  IF ~memory THEN -1
  ELSE IF g > 1 /\ g < p /\ PowerMod(g, q, p) = 1 THEN 1
  ELSE 0
=============================================================================
