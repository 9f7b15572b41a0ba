-------------------------------- MODULE KDF --------------------------------
(***************************************************************************)
(* Key derivation (icc/SP800_108/SP800-108.c): the counter, feedback and   *)
(* double pipeline modes of SP800-108 over HMAC and over CMAC.  One MAC    *)
(* stands for both; what differs is how a key of the wrong length and a    *)
(* context that cannot be made are answered.                               *)
(***************************************************************************)
EXTENDS Mechanisms

Mode == {"CTR", "FB", "DP"}
Over == {"HMAC", "CMAC"}

\* The derived bytes K0, none when nothing was written, and what is returned.
Derived(rv, K0) == [rv |-> rv, K0 |-> K0]

\* Label || 0x00 || Context || [L]
Fixed(label, context, L) == label \o <<0>> \o context \o uint2BS(L * 8)

(***************************************************************************)
(* The counter is written to IA once, before the loop.                     *)
(***************************************************************************)
KDF_CTR(Ki, label, context, L) ==
  LET IA == uint2BS(1)
  IN  Blocks(LAMBDA i : Mac(Ki, IA \o Fixed(label, context, L)), DigestOBL, L)

KDF_FB(Ki, label, context, L) ==
  LET tmp[i \in 0 .. Ceiling(L, DigestOBL)] ==
        IF i = 0
        THEN Fill(DigestOBL, 0)
        ELSE Mac(Ki, tmp[i - 1] \o uint2BS(i) \o Fixed(label, context, L))
  IN  Blocks(LAMBDA i : tmp[i], DigestOBL, L)

KDF_DP(Ki, label, context, L) ==
  LET tmpA[i \in 0 .. Ceiling(L, DigestOBL)] ==
        IF i = 0 THEN Fixed(label, context, L) ELSE Mac(Ki, tmpA[i - 1])
  IN  Blocks(LAMBDA i : Mac(Ki, tmpA[i] \o uint2BS(i) \o Fixed(label, context, L)), DigestOBL, L)

(***************************************************************************)
(* What is returned when the key does not fit the cipher and when there is *)
(* no memory for the MAC context, in each of the six functions.            *)
(***************************************************************************)
WrongKey(mode) == CASE mode = "CTR" -> -11 [] mode = "FB" -> 1 [] mode = "DP" -> -1

NoContext(over, mode) ==
  CASE over = "HMAC" /\ mode = "DP"  -> 1
    [] over = "HMAC" /\ mode # "DP"  -> -1
    [] over = "CMAC"                 -> WrongKey(mode)

Derive(mode, Ki, label, context, L) ==
  CASE mode = "CTR" -> KDF_CTR(Ki, label, context, L)
    [] mode = "FB"  -> KDF_FB(Ki, label, context, L)
    [] mode = "DP"  -> KDF_DP(Ki, label, context, L)

SP800_108_KDF(over, mode, memory, Ki, label, context, L) ==
  IF over = "CMAC" /\ Len(Ki) # KeyLen
  THEN Derived(WrongKey(mode), <<>>)
  ELSE IF ~memory
       THEN Derived(NoContext(over, mode), <<>>)
       ELSE Derived(1, Derive(mode, Ki, label, context, L))
=============================================================================
