------------------------------ MODULE KeyWrap ------------------------------
(***************************************************************************)
(* Key wrapping (icc/SP800_38F/SP80038F.c): KW and KWP of SP800-38F, each  *)
(* with the cipher or its inverse as the forward function.  A buffer is a  *)
(* sequence of bytes, worked on as a sequence of semiblocks of 8.  The AES *)
(* cipher and its inverse are external.                                    *)
(***************************************************************************)
EXTENDS ByteStrings

CONSTANTS Encipher(_, _),   \* key, two semiblocks: a block of 16 bytes
          Decipher(_, _)    \* its inverse

MaxIn     == 2147483639   \* what is wrapped, longer by 8, has a length that is an int;
MaxPadded == 32767        \* with padding it is at most this

(***************************************************************************)
(* SP800_38F_ERR, and the lengths of keys GetCipher knows, in bytes or     *)
(* bits.  Both directions find the same ciphers.                           *)
(***************************************************************************)
Error == {"OK", "PARAM", "DATA", "MEM", "MAC"}

GetCipher(kl) == kl \in {16, 128, 24, 192, 32, 256}

CryptInit(kl) == IF GetCipher(kl) THEN "OK" ELSE "PARAM"

Forward(key, isEnc, block)  == IF isEnc THEN Encipher(key, block) ELSE Decipher(key, block)
Backward(key, isEnc, block) == IF isEnc THEN Decipher(key, block) ELSE Encipher(key, block)

-----------------------------------------------------------------------------
(***************************************************************************)
(* Bytes and semiblocks: the tags, a buffer as semiblocks and back.        *)
(***************************************************************************)
A0           == [i \in 1 .. 8 |-> 166]
AP(length)   == LET b == FourBytes(length) IN <<166, 89, 89, 166, b[1], b[2], b[3], b[4]>>
LengthIn(A)  == 16777216 * A[5] + 65536 * A[6] + 256 * A[7] + A[8]

ZeroPad(s, size) == [k \in 1 .. size |-> IF k <= Len(s) THEN s[k] ELSE 0]
Semiblocks(s)    == [i \in 1 .. Len(s) \div 8 |-> [j \in 1 .. 8 |-> s[8 * (i - 1) + j]]]
Octets(R)        == [k \in 1 .. 8 * Len(R) |-> R[(k - 1) \div 8 + 1][((k - 1) % 8) + 1]]
Tagged(A, R)     ==
  [k \in 1 .. 8 * (Len(R) + 1) |-> IF k <= 8 THEN A[k] ELSE R[(k - 1) \div 8][((k - 1) % 8) + 1]]

XorCount(A, t) == [i \in 1 .. 8 |-> BitXor(A[i], IF i <= 4 THEN 0 ELSE FourBytes(t)[i - 4])]

-----------------------------------------------------------------------------
(***************************************************************************)
(* The rotations: 6 n steps, each through the cipher with the tag A and    *)
(* one semiblock of R, the number t of the step in the tag.                *)
(***************************************************************************)
Turning(n, t) == ((t - 1) % n) + 1

WrapStep(key, isEnc, n, t, w) ==
  LET B == Semiblocks(Forward(key, isEnc, Tagged(w.A, <<w.R[Turning(n, t)]>>)))
  IN  [R |-> [w.R EXCEPT ![Turning(n, t)] = B[2]], A |-> XorCount(B[1], t)]

\* Mutant: the counter is decremented before it is used.
UnwrapStep_Early(key, isEnc, n, t, w) ==
  LET B == Semiblocks(Backward(key, isEnc, Tagged(XorCount(w.A, t - 1), <<w.R[Turning(n, t)]>>)))
  IN  [R |-> [w.R EXCEPT ![Turning(n, t)] = B[2]], A |-> B[1]]

UnwrapStep(key, isEnc, n, t, w) ==
  LET B == Semiblocks(Backward(key, isEnc, Tagged(XorCount(w.A, t), <<w.R[Turning(n, t)]>>)))
  IN  [R |-> [w.R EXCEPT ![Turning(n, t)] = B[2]], A |-> B[1]]

Rotate(key, isEnc, n, w) ==
  LET after[i \in 0 .. 6 * n] == IF i = 0 THEN w ELSE WrapStep(key, isEnc, n, i, after[i - 1])
  IN  after[6 * n]

\* The counter starts at 6 n and goes down.
RotateBack(key, isEnc, n, w) ==
  LET after[i \in 0 .. 6 * n] == IF i = 0 THEN w ELSE UnwrapStep(key, isEnc, n, 6 * n - i + 1, after[i - 1])
  IN  after[6 * n]

-----------------------------------------------------------------------------
(***************************************************************************)
(* KW: wrap.  Without padding the input is at least two whole semiblocks;  *)
(* with it, up to 32767 bytes, the length goes into the tag, and one       *)
(* semiblock is enciphered without rotations.  calloc(0) gives nothing.    *)
(***************************************************************************)
Answer(rv, out) == [rv |-> rv, out |-> out]

WrapCheck(in, kl, pad) ==
  CASE CryptInit(kl) # "OK"                                -> "PARAM"
    [] ~pad /\ (Len(in) % 8 # 0 \/ Len(in) \div 8 < 2)     -> "PARAM"
    [] pad /\ Len(in) > MaxPadded                          -> "PARAM"
    [] pad /\ Len(in) = 0                                  -> "MEM"
    [] OTHER                                               -> "OK"

KW(in, key, kl, isEnc, pad) ==
  LET n   == (Len(in) + 7) \div 8
      tag == IF pad THEN AP(Len(in)) ELSE A0
      R   == Semiblocks(ZeroPad(in, 8 * n))
      w   == Rotate(key, isEnc, n, [A |-> tag, R |-> R])
  IN  IF WrapCheck(in, kl, pad) # "OK"
      THEN Answer(WrapCheck(in, kl, pad), <<>>)
      ELSE Answer("OK", IF pad /\ Len(in) <= 8
                        THEN Forward(key, isEnc, Tagged(tag, R))
                        ELSE Tagged(w.A, w.R))

(***************************************************************************)
(* KU: unwrap.  With padding the length in the tag says what is output;    *)
(* the bytes after it must be zero up to the end of its semiblock, and the *)
(* length is not compared with that of the input.  R is allocated for the  *)
(* whole input, so one semiblock after the data is there and zero.         *)
(***************************************************************************)
UnwrapCheck(in, kl, isPad) ==
  CASE CryptInit(kl) # "OK"                              -> "PARAM"
    [] Len(in) % 8 # 0                                   -> "DATA"
    [] Len(in) \div 8 < (IF isPad THEN 2 ELSE 3)         -> "DATA"
    [] OTHER                                             -> "OK"

Unpadded(w) == IF w.A = A0 THEN Answer("OK", Octets(w.R)) ELSE Answer("MAC", <<>>)

Stripped(w, length, calloced) ==
  LET R   == ZeroPad(Octets(w.R), calloced)
      end == 8 * (length \div 8 + 1)
  IN  IF \A k \in length + 1 .. end : R[k] = 0
      THEN Answer("OK", SubSeq(R, 1, length))
      ELSE Answer("MAC", <<>>)

KU(in, key, kl, isEnc, isPad) ==
  LET n      == Len(in) \div 8
      C      == Semiblocks(IF isPad /\ n = 2 THEN Backward(key, isEnc, in) ELSE in)
      start  == [A |-> Head(C), R |-> Tail(C)]
      w      == IF isPad /\ n = 2 THEN start ELSE RotateBack(key, isEnc, n - 1, start)
  IN  CASE UnwrapCheck(in, kl, isPad) # "OK" -> Answer(UnwrapCheck(in, kl, isPad), <<>>)
        [] UnwrapCheck(in, kl, isPad) = "OK" /\ ~isPad -> Unpadded(w)
        [] OTHER -> IF \A i \in 1 .. 4 : w.A[i] = AP(0)[i]
                    THEN Stripped(w, LengthIn(w.A), Len(in))
                    ELSE Answer("MAC", <<>>)

(***************************************************************************)
(* SP800_38F_KW: the public call; flags is a set here.                     *)
(***************************************************************************)
SP800_38F_KW(in, key, kl, flags) ==
  IF "wrap" \in flags
  THEN KW(in, key, kl, "forward decrypt" \notin flags, "pad" \in flags)
  ELSE KU(in, key, kl, "forward decrypt" \notin flags, "pad" \in flags)
=============================================================================
