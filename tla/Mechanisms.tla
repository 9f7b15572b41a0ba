----------------------------- MODULE Mechanisms -----------------------------
(***************************************************************************)
(* The mechanisms of the generators (icc/fips-prng): the Hash, HMAC and    *)
(* CTR generators of SP800-90A as methods of a generator type, with the    *)
(* buffers K, V, C of the context they keep.  DRBG is the life cycle that  *)
(* calls them; a primitive that reports an error is its fault "method".    *)
(* Digest, MAC and cipher are external.                                    *)
(***************************************************************************)
EXTENDS ByteStrings

CONSTANTS Hash(_),            \* bytes: a digest of DigestOBL bytes
          Mac(_, _),          \* key, bytes: a MAC of DigestOBL bytes
          Encrypt(_, _),      \* key, block: a block of CipherOBL bytes
          DigestOBL,          \* output block length of the digest
          HashSeedlen,        \* bytes the Hash generator keeps
          CipherOBL,          \* block length of the cipher
          KeyLen              \* key length of the cipher

ASSUME LengthsAreUsable ==
  /\ {DigestOBL, HashSeedlen, CipherOBL, KeyLen} \subseteq Nat \ {0}
  /\ DigestOBL <= HashSeedlen
  /\ HashSeedlen <= 255 * DigestOBL     \* Hash_df counts blocks in one byte
  /\ CipherOBL >= 4                     \* Cipher_df writes a counter there

CipherSeedlen == KeyLen + CipherOBL

-----------------------------------------------------------------------------
(***************************************************************************)
(* utils.c, ds.c: big endian numbers, sums, and chains of buffers.  A      *)
(* chain is the bytes of its buffers; reading it through empties it until  *)
(* it is reset.                                                            *)
(***************************************************************************)
uint2BS(n) == FourBytes(n)

\* src2 is aligned with the end of src1; a carry out of it is dropped.
Add_BE(src1, src2) ==
  LET s1     == Len(src1)
      s2     == Len(src2)
      sum[i \in 0 .. s1] ==
        IF i = 0 THEN 0
        ELSE src1[s1 - i + 1] + (IF i <= s2 THEN src2[s2 - i + 1] ELSE 0) + sum[i - 1] \div 256
  IN  Whole([j \in 1 .. s1 |-> sum[s1 - j + 1] % 256])

\* V after n additions of one.
Counted(V, n) ==
  LET after[i \in 0 .. n] == IF i = 0 THEN V ELSE Add_BE(after[i - 1], <<1>>)
  IN  after[n]

Chain(bytes)  == [data |-> bytes, left |-> TRUE]
Drained(ds)   == [data |-> ds.data, left |-> FALSE]
Extracted(ds) == IF ds.left THEN ds.data ELSE <<>>

\* Mutant: the chain stays as it was read.
DS_Reset_Not(ds) == ds

DS_Reset(ds) == [data |-> ds.data, left |-> TRUE]

\* The bytes of blocks, one after the other, up to length; the last is cut.
Ceiling(a, b) == (a + b - 1) \div b

Joined(blocks, size, length) ==
  [k \in 1 .. length |-> blocks[(k - 1) \div size + 1][((k - 1) % size) + 1]]

Blocks(block(_), size, length) ==
  Joined(Whole([i \in 1 .. Ceiling(length, size) |-> block(i)]), size, length)

-----------------------------------------------------------------------------
(***************************************************************************)
(* SP800-90HashData.c.  C is scratch space while V is made of V.  count is *)
(* the number of calls since the seed, as Inst, Res and Gen keep it.       *)
(***************************************************************************)
Hash_df(in, outl) ==
  Blocks(LAMBDA counter : Hash(<<counter>> \o uint2BS(outl * 8) \o in), DigestOBL, outl)

SHA_Instantiate(seed) ==
  LET V == Hash_df(seed, HashSeedlen)
  IN  [V |-> V, C |-> Hash_df(<<0>> \o V, HashSeedlen), count |-> 1]

SHA_ReSeed(p, seed) ==
  LET V == Hash_df(<<1>> \o p.V \o seed, HashSeedlen)
  IN  [V |-> V, C |-> Hash_df(<<0>> \o V, HashSeedlen), count |-> 1]

SHA_Generate(p, blen, adata) ==
  LET V0 == IF adata = <<>> THEN p.V ELSE Add_BE(p.V, Hash(<<2>> \o p.V \o adata))
      H  == Hash(<<3>> \o V0)
      V1 == Add_BE(Add_BE(V0, H), p.C)
  IN  [out |-> Blocks(LAMBDA i : Hash(Counted(V0, i - 1)), DigestOBL, blen),
       p   |-> [V |-> Add_BE(V1, uint2BS(p.count)), C |-> p.C, count |-> p.count + 1]]

-----------------------------------------------------------------------------
(***************************************************************************)
(* SP800-90HMAC.c.  No result of HMAC_Init_ex, _Update, _Final is looked   *)
(* at, so this mechanism never reports an error.  (Only the Hash generator *)
(* reads the count of calls.)                                              *)
(***************************************************************************)
MacStep(p, tag, data) ==
  LET K == Mac(p.K, p.V \o <<tag>> \o data)
  IN  [K |-> K, V |-> Mac(K, p.V)]

SP_HMAC_Update(p, ds) ==
  LET once == MacStep(p, 0, Extracted(ds))
  IN  IF ds.data = <<>> THEN once ELSE MacStep(once, 1, ds.data)

SP_HMAC_Instantiate(seed) ==
  SP_HMAC_Update([K |-> Fill(DigestOBL, 0), V |-> Fill(DigestOBL, 1)], Chain(seed))

SP_HMAC_ReSeed(p, seed) == SP_HMAC_Update(p, Chain(seed))

\* The chain is read by the first update and must be reset for the last one.
SP_HMAC_Generate(p, blen, adata) ==
  LET ds == Chain(adata)
      p1 == IF adata = <<>> THEN p ELSE SP_HMAC_Update(p, ds)
      n  == Ceiling(blen, DigestOBL)
      V[i \in 0 .. n] == IF i = 0 THEN p1.V ELSE Mac(p1.K, V[i - 1])
  IN  [out |-> Blocks(LAMBDA i : V[i], DigestOBL, blen),
       p   |-> SP_HMAC_Update([K |-> p1.K, V |-> V[n]], DS_Reset(Drained(ds)))]

-----------------------------------------------------------------------------
(***************************************************************************)
(* SP800-90Cipher.c.  The derivation function pads the chain to a full     *)
(* block, and adds a whole block of zeros to one that is full already.     *)
(***************************************************************************)
BlockAt(in, i) == [j \in 1 .. CipherOBL |-> in[(i - 1) * CipherOBL + j]]

BCC(key, in) ==
  LET n == Len(in) \div CipherOBL
      chaining[i \in 0 .. n] ==
        IF i = 0 THEN Fill(CipherOBL, 0) ELSE Encrypt(key, xor(BlockAt(in, i), chaining[i - 1]))
  IN  chaining[n]

DfStart(in) == uint2BS(Len(in)) \o uint2BS(CipherSeedlen) \o in \o <<128>>

DfInput(in) == DfStart(in) \o Fill(CipherOBL - (Len(DfStart(in)) % CipherOBL), 0)

Cipher_df(in) ==
  LET IV(i) == uint2BS(i - 1) \o Fill(CipherOBL - 4, 0)
      K     == [i \in 1 .. KeyLen |-> i - 1]
      T     == Blocks(LAMBDA i : BCC(K, IV(i) \o DfInput(in)), CipherOBL, CipherSeedlen)
      key   == First(T, KeyLen)
      X[i \in 0 .. Ceiling(CipherSeedlen, CipherOBL)] ==
        IF i = 0 THEN Rest(T, KeyLen) ELSE Encrypt(key, X[i - 1])
  IN  Blocks(LAMBDA i : Encrypt(key, X[i - 1]), CipherOBL, CipherSeedlen)

SetKV(p, T) == [K |-> First(T, KeyLen), V |-> Rest(T, KeyLen), C |-> p.C]

Update(p) ==
  SetKV(p, xor(Blocks(LAMBDA i : Encrypt(p.K, Counted(p.V, i)), CipherOBL, CipherSeedlen), p.C))

NoData == Fill(CipherSeedlen, 0)

Cleared(p) == [K |-> p.K, V |-> p.V, C |-> NoData]

CIPHER_Instantiate(seed) ==
  Cleared(Update([K |-> Fill(KeyLen, 0), V |-> Fill(CipherOBL, 0), C |-> Cipher_df(seed)]))

CIPHER_ReSeed(p, seed) == Cleared(Update([K |-> p.K, V |-> p.V, C |-> Cipher_df(seed)]))

CIPHER_Generate(p, blen, adata) ==
  LET p0 == [K |-> p.K, V |-> p.V, C |-> IF adata = <<>> THEN NoData ELSE Cipher_df(adata)]
      p1 == IF adata = <<>> THEN p0 ELSE Update(p0)
      V  == Counted(p1.V, Ceiling(blen, CipherOBL))
  IN  [out |-> Blocks(LAMBDA i : Encrypt(p1.K, Counted(p1.V, i)), CipherOBL, blen),
       p   |-> Cleared(Update([K |-> p1.K, V |-> V, C |-> p1.C]))]

-----------------------------------------------------------------------------
(***************************************************************************)
(* The method table of a generator type.                                   *)
(***************************************************************************)
Type == {"hash", "hmac", "ctr"}

Inst(type, seed) ==
  CASE type = "hash" -> SHA_Instantiate(seed)
    [] type = "hmac" -> SP_HMAC_Instantiate(seed)
    [] type = "ctr"  -> CIPHER_Instantiate(seed)

Res(type, p, seed) ==
  CASE type = "hash" -> SHA_ReSeed(p, seed)
    [] type = "hmac" -> SP_HMAC_ReSeed(p, seed)
    [] type = "ctr"  -> CIPHER_ReSeed(p, seed)

Gen(type, p, blen, adata) ==
  CASE type = "hash" -> SHA_Generate(p, blen, adata)
    [] type = "hmac" -> SP_HMAC_Generate(p, blen, adata)
    [] type = "ctr"  -> CIPHER_Generate(p, blen, adata)
=============================================================================
