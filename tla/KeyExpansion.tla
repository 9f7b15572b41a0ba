---------------------------- MODULE KeyExpansion ----------------------------
(***************************************************************************)
(* HKDF (icclib.c): there are two copies.  The public one stops at the     *)
(* first error and reports to the callback; the one of the self test goes  *)
(* on, and its count of blocks wraps.  Answers hold what was written to    *)
(* the output.                                                             *)
(***************************************************************************)
EXTENDS KDF, KeyServices

CONSTANTS MaxBlocks,   \* blocks HKDF derives; its counter is a byte, so 255
          OkmLengths   \* lengths of keys derived

ASSUME KeyExpansionAssumption == MaxBlocks \in 1 .. 255 /\ OkmLengths \subseteq Nat

HKDF_Extract(salt, key) == Mac(salt, key)

NextBlock(prk, info, prev, i) == Mac(prk, prev \o info \o <<i % (MaxBlocks + 1)>>)

\* All blocks, the last one cut.
Expanded(prk, info, n) ==
  LET T[i \in 0 .. Ceiling(n, DigestOBL)] == IF i = 0 THEN <<>> ELSE NextBlock(prk, info, T[i - 1], i)
  IN  Blocks(LAMBDA i : T[i], DigestOBL, n)

HKDF_Expand(prk, info, n, md, memory) ==
  IF Ceiling(n, DigestOBL) > MaxBlocks \/ ~memory THEN [rv |-> "NULL", okm |-> <<>>, report |-> <<>>]
  ELSE [rv |-> "okm", okm |-> Expanded(prk, info, n),
        report |-> Approval(Number(md), FIPS_byNID(C_diglist, Number(md)))]

my_HKDF_Expand(prk, info, n, memory) ==
  [rv  |-> IF Ceiling(n, DigestOBL) > MaxBlocks \/ ~memory THEN "NULL" ELSE "okm",
   okm |-> IF memory THEN Expanded(prk, info, n) ELSE <<>>]

HKDF(salt, key, info, n, md, memory) == HKDF_Expand(HKDF_Extract(salt, key), info, n, md, memory)
my_HKDF(salt, key, info, n, memory)  == my_HKDF_Expand(HKDF_Extract(salt, key), info, n, memory)

-----------------------------------------------------------------------------
\* Both copies tried, with and without salt and info.
TryHKDF ==
  May("hkdf") /\ \E n \in OkmLengths, salt, info \in {0, 3}, md \in DigestNames \ {"none"}, memory \in BOOLEAN :
    input' = <<"hkdf", n, salt, info, md, memory>>

HKDFSpec == input = <<"hkdf">> /\ [][TryHKDF]_input

-----------------------------------------------------------------------------
\* HKDF in RFC 5869: each block is the MAC of the block before, the info and
\* the number of the block, and the last one is cut.
Conforms(okm, prk, info) ==
  \A k \in 1 .. Len(okm) :
    LET i == (k - 1) \div DigestOBL + 1
        before == IF i = 1 THEN <<>> ELSE [j \in 1 .. DigestOBL |-> okm[(i - 2) * DigestOBL + j]]
    IN  okm[k] = Mac(prk, before \o info \o <<i>>)[((k - 1) % DigestOBL) + 1]

HKDFAgrees(n, salt, info, md, memory) ==
  LET public == HKDF(Data(salt, 1), Data(4, 2), Data(info, 3), n, md, memory)
      own    == my_HKDF(Data(salt, 1), Data(4, 2), Data(info, 3), n, memory)
  IN  /\ public.rv = own.rv
      /\ public.rv = "NULL" => public.okm = <<>> /\ public.report = <<>>
      /\ public.rv = "okm" =>
           /\ public.okm = own.okm
           /\ Len(public.okm) = n
           /\ Conforms(public.okm, Mac(Data(salt, 1), Data(4, 2)), Data(info, 3))
           /\ Approves(public) <=> Approved(md)
      /\ public.rv = "okm" <=> memory /\ n <= MaxBlocks * DigestOBL

(***************************************************************************)
(* HKDF derives what RFC 5869 says, up to its last block and no further,   *)
(* both copies alike, and reports an approved call only for an approved    *)
(* digest (HKDF_Expand and my_HKDF_Expand, icclib.c).                      *)
(***************************************************************************)
HKDFSound == Is("hkdf") => HKDFAgrees(input[2], input[3], input[4], input[5], input[6])
=============================================================================
