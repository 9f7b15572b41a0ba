----------------------------- MODULE Standards -----------------------------
(***************************************************************************)
(* What the documents the code names say of the same algorithms: SP800-90A *)
(* for the mechanisms and SP800-108 for key derivation.  Written from the  *)
(* documents, with integers where the code has arrays of bytes, and        *)
(* without the buffers the code reuses.                                    *)
(***************************************************************************)
EXTENDS KDF

-----------------------------------------------------------------------------
(***************************************************************************)
(* Hash_DRBG: V and C are integers below 256^HashSeedlen.                  *)
(***************************************************************************)
\* 256 to the power of n.
Power(n) ==
  LET power[i \in 0 .. n] == IF i = 0 THEN 1 ELSE 256 * power[i - 1]
  IN  power[n]

\* The number whose digits are the bytes s, and the digits of a number.
IntOf(s) ==
  LET n == Len(s)
      value[i \in 0 .. n] == IF i = 0 THEN 0 ELSE value[i - 1] + Power(i - 1) * s[n - i + 1]
  IN  value[n]

BytesOf(v) == [i \in 1 .. HashSeedlen |-> (v \div Power(HashSeedlen - i)) % 256]

Modulus == Power(HashSeedlen)

StdHashDf(in, length) ==
  Blocks(LAMBDA i : Hash(<<i>> \o uint2BS(length * 8) \o in), DigestOBL, length)

StdHashSeed(material) ==
  LET seed == StdHashDf(material, HashSeedlen)
  IN  [V |-> IntOf(seed), C |-> IntOf(StdHashDf(<<0>> \o seed, HashSeedlen)), n |-> 1]

StdHashGenerate(w, length, adata) ==
  LET V == IF adata = <<>>
           THEN w.V
           ELSE (w.V + IntOf(Hash(<<2>> \o BytesOf(w.V) \o adata))) % Modulus
      H == IntOf(Hash(<<3>> \o BytesOf(V)))
  IN  [out |-> Blocks(LAMBDA i : Hash(BytesOf((V + i - 1) % Modulus)), DigestOBL, length),
       w   |-> [V |-> (V + H + w.C + w.n) % Modulus, C |-> w.C, n |-> w.n + 1]]

-----------------------------------------------------------------------------
(***************************************************************************)
(* HMAC_DRBG.                                                              *)
(***************************************************************************)
StdHmacUpdate(w, data) ==
  LET K1 == Mac(w.K, w.V \o <<0>> \o data)
      V1 == Mac(K1, w.V)
      K2 == Mac(K1, V1 \o <<1>> \o data)
  IN  IF data = <<>> THEN [K |-> K1, V |-> V1] ELSE [K |-> K2, V |-> Mac(K2, V1)]

StdHmacGenerate(w, length, adata) ==
  LET w1 == IF adata = <<>> THEN w ELSE StdHmacUpdate(w, adata)
      n  == Ceiling(length, DigestOBL)
      V[i \in 0 .. n] == IF i = 0 THEN w1.V ELSE Mac(w1.K, V[i - 1])
  IN  [out |-> Blocks(LAMBDA i : V[i], DigestOBL, length),
       w   |-> StdHmacUpdate([K |-> w1.K, V |-> V[n]], adata)]

-----------------------------------------------------------------------------
(***************************************************************************)
(* CTR_DRBG with the derivation function.  The input of the function is    *)
(* padded with as few zeros as fill its last block; Full tells the inputs  *)
(* that need none.                                                         *)
(***************************************************************************)
Full(in) == (8 + Len(in) + 1) % CipherOBL = 0

StdDfInput(in) ==
  LET s == uint2BS(Len(in)) \o uint2BS(CipherSeedlen) \o in \o <<128>>
  IN  s \o Fill(CipherOBL * Ceiling(Len(s), CipherOBL) - Len(s), 0)

StdBCC(key, data) ==
  LET n == Len(data) \div CipherOBL
      chaining[i \in 0 .. n] ==
        IF i = 0 THEN Fill(CipherOBL, 0) ELSE Encrypt(key, xor(BlockAt(data, i), chaining[i - 1]))
  IN  chaining[n]

StdCipherDf(in) ==
  LET K    == [i \in 1 .. KeyLen |-> i - 1]
      temp == Blocks(LAMBDA i : StdBCC(K, uint2BS(i - 1) \o Fill(CipherOBL - 4, 0) \o StdDfInput(in)),
                     CipherOBL, CipherSeedlen)
      key  == First(temp, KeyLen)
      X[i \in 0 .. Ceiling(CipherSeedlen, CipherOBL)] ==
        IF i = 0 THEN Rest(temp, KeyLen) ELSE Encrypt(key, X[i - 1])
  IN  Blocks(LAMBDA i : Encrypt(key, X[i - 1]), CipherOBL, CipherSeedlen)

\* V + 1 modulo the block size: a byte changes when all after it are 255.
Successor(V) ==
  Whole([i \in 1 .. Len(V) |->
           IF \A j \in i + 1 .. Len(V) : V[j] = 255 THEN (V[i] + 1) % 256 ELSE V[i]])

Plus(V, n) ==
  LET after[i \in 0 .. n] == IF i = 0 THEN V ELSE Successor(after[i - 1])
  IN  after[n]

StdCtrUpdate(w, data) ==
  LET new == xor(Blocks(LAMBDA i : Encrypt(w.K, Plus(w.V, i)), CipherOBL, CipherSeedlen), data)
  IN  [K |-> First(new, KeyLen), V |-> Rest(new, KeyLen)]

StdCtrGenerate(w, length, adata) ==
  LET data == IF adata = <<>> THEN NoData ELSE StdCipherDf(adata)
      w1   == IF adata = <<>> THEN w ELSE StdCtrUpdate(w, data)
      n    == Ceiling(length, CipherOBL)
  IN  [out |-> Blocks(LAMBDA i : Encrypt(w1.K, Plus(w1.V, i)), CipherOBL, length),
       w   |-> StdCtrUpdate([K |-> w1.K, V |-> Plus(w1.V, n)], data)]

-----------------------------------------------------------------------------
(***************************************************************************)
(* The three as one table.                                                 *)
(***************************************************************************)
StdInstantiate(type, seed) ==
  CASE type = "hash" -> StdHashSeed(seed)
    [] type = "hmac" -> StdHmacUpdate([K |-> Fill(DigestOBL, 0), V |-> Fill(DigestOBL, 1)], seed)
    [] type = "ctr"  -> StdCtrUpdate([K |-> Fill(KeyLen, 0), V |-> Fill(CipherOBL, 0)], StdCipherDf(seed))

StdReSeed(type, w, seed) ==
  CASE type = "hash" -> StdHashSeed(<<1>> \o BytesOf(w.V) \o seed)
    [] type = "hmac" -> StdHmacUpdate(w, seed)
    [] type = "ctr"  -> StdCtrUpdate(w, StdCipherDf(seed))

StdGenerate(type, w, length, adata) ==
  CASE type = "hash" -> StdHashGenerate(w, length, adata)
    [] type = "hmac" -> StdHmacGenerate(w, length, adata)
    [] type = "ctr"  -> StdCtrGenerate(w, length, adata)

-----------------------------------------------------------------------------
(***************************************************************************)
(* SP800-108: K(i) is the PRF of the block counter and the fixed input,    *)
(* after the block before it (feedback) or A(i) (double pipeline).         *)
(***************************************************************************)
StdDerive(mode, Ki, label, context, L) ==
  LET fixed == label \o <<0>> \o context \o uint2BS(L * 8)
      n     == Ceiling(L, DigestOBL)
      K[i \in 0 .. n] == IF i = 0 THEN Fill(DigestOBL, 0) ELSE Mac(Ki, K[i - 1] \o uint2BS(i) \o fixed)
      A[i \in 0 .. n] == IF i = 0 THEN fixed ELSE Mac(Ki, A[i - 1])
      Before(i) == CASE mode = "CTR" -> <<>> [] mode = "FB" -> K[i - 1] [] mode = "DP" -> A[i]
  IN  Blocks(LAMBDA i : Mac(Ki, Before(i) \o uint2BS(i) \o fixed), DigestOBL, L)
=============================================================================
