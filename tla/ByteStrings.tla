---------------------------- MODULE ByteStrings ----------------------------
(***************************************************************************)
(* Strings of bytes, as the algorithms of the library have them: numbers   *)
(* in four bytes, parts of a string, exclusive or.                         *)
(***************************************************************************)
EXTENDS Integers, Sequences

CONSTANT BitXor(_, _)   \* of two bytes, bit by bit

Octet == 0 .. 255

ASSUME BitXorAssumption ==
  \A a, b \in Octet : BitXor(a, b) \in Octet /\ BitXor(BitXor(a, b), b) = a

\* The same string, written so that TLC evaluates it at once, not at each use.
Whole(s) == s \o <<>>

FourBytes(n)  == <<n \div 16777216, (n \div 65536) % 256, (n \div 256) % 256, n % 256>>
Fill(n, byte) == [i \in 1 .. n |-> byte]
First(s, n)   == Whole([i \in 1 .. n |-> s[i]])
Rest(s, n)    == Whole([i \in 1 .. Len(s) - n |-> s[n + i]])
xor(s1, s2)   == [i \in DOMAIN s1 |-> BitXor(s1[i], s2[i])]

\* Some bytes, different for each length and use.
Data(n, use) == [i \in 1 .. n |-> (97 * i + 13 * n + 31 * use) % 256]
=============================================================================
