------------------------- MODULE MechanismServices -------------------------
(***************************************************************************)
(* The mechanisms of the generators and the derivation of keys, called     *)
(* side by side with what the documents say of them (Standards).           *)
(***************************************************************************)
EXTENDS Services, Standards

CONSTANTS Seeds,       \* lengths of seed material
          Requests,    \* lengths of requests
          AddedData,   \* lengths of additional data
          MaxCalls,    \* calls of one generator
          DerivedKeys  \* lengths of derived keys

\* Lengths are numbers, in bits too an unsigned int; a generator is reseeded
\* long before its count of calls, an unsigned int, wraps.
ASSUME MechanismServicesAssumption ==
  /\ Seeds \cup Requests \cup AddedData \cup DerivedKeys \subseteq Nat
  /\ \A n \in Seeds \cup Requests \cup AddedData \cup DerivedKeys : n < 536870912
  /\ MaxCalls \in Nat /\ MaxCalls < 2147483647

MechanismKind == {"generator", "derivation", "addition"}

(***************************************************************************)
(* A generator is tried call by call, the code's and the document's side   *)
(* by side: p and w are their states, out and std the last outputs, and    *)
(* derived the lengths of what was seeded or added so far.                 *)
(***************************************************************************)
Started(type, n) ==
  [p |-> Inst(type, Data(n, 3)), w |-> StdInstantiate(type, Data(n, 3)),
   out |-> <<>>, std |-> <<>>, derived |-> {n}, calls |-> 0]

Reseeded(type, run, n) ==
  [p |-> Res(type, run.p, Data(n, 4)), w |-> StdReSeed(type, run.w, Data(n, 4)),
   out |-> <<>>, std |-> <<>>, derived |-> run.derived \cup {n}, calls |-> run.calls + 1]

Generated(type, run, length, n) ==
  LET code == Gen(type, run.p, length, Data(n, 5))
      std  == StdGenerate(type, run.w, length, Data(n, 5))
  IN  [p |-> code.p, w |-> std.w, out |-> code.out, std |-> std.out,
       derived |-> IF n = 0 THEN run.derived ELSE run.derived \cup {n}, calls |-> run.calls + 1]

TryGenerator ==
  May("generator") /\ \E type \in Type, n \in Seeds :
    input' = <<"generator", type, Started(type, n)>>

CallReSeed ==
  /\ Is("generator") /\ input[3].calls < MaxCalls
  /\ \E n \in Seeds : input' = <<"generator", input[2], Reseeded(input[2], input[3], n)>>

CallGenerate ==
  /\ Is("generator") /\ input[3].calls < MaxCalls
  /\ \E length \in Requests, n \in AddedData :
       input' = <<"generator", input[2], Generated(input[2], input[3], length, n)>>

TryDerivation ==
  May("derivation") /\ \E over \in Over, mode \in Mode, memory \in BOOLEAN, kilen \in {KeyLen, KeyLen + 1}, L \in DerivedKeys :
    input' = <<"derivation", over, mode, memory, kilen, L>>

TryAddition ==
  May("addition") /\ \E a, b \in [1 .. 3 -> {0, 1, 128, 255}], n \in 1 .. 3 : input' = <<"addition", a, First(b, n)>>

MechanismsNext == TryGenerator \/ CallReSeed \/ CallGenerate \/ TryDerivation \/ TryAddition

MechanismsSpec == input \in {<<kind>> : kind \in MechanismKind} /\ [][MechanismsNext]_input

-----------------------------------------------------------------------------
\* The derivation function of the CTR generator, on one input, and what the
\* generators output last.
GeneratorAgrees(type, run) ==
  /\ \A n \in run.derived :
       DfInput(Data(n, 3)) = StdDfInput(Data(n, 3)) \o
         (IF Full(Data(n, 3)) THEN Fill(CipherOBL, 0) ELSE <<>>)
  /\ (type = "ctr" => \A n \in run.derived : ~Full(Data(n, 3))) => run.out = run.std

DerivationAgrees(over, mode, memory, kilen, L) ==
  LET d == SP800_108_KDF(over, mode, memory, Data(kilen, 7), Data(2, 8), Data(3, 9), L)
  IN  IF memory /\ (over = "CMAC" => kilen = KeyLen)
      THEN /\ d.rv = 1
           /\ mode # "CTR" => d.K0 = StdDerive(mode, Data(kilen, 7), Data(2, 8), Data(3, 9), L)
      ELSE d.K0 = <<>>

(***************************************************************************)
(* The mechanisms output what SP800-90A says after every sequence of       *)
(* calls, except that the derivation function of the CTR generator adds a  *)
(* block of zeros to an input that fills its last block; the feedback and  *)
(* double pipeline modes derive what SP800-108 says; and Add_BE, on which  *)
(* they rest, is addition (SP800-90HashData.c, SP800-90HMAC.c,             *)
(* SP800-90Cipher.c, SP800-108.c, utils.c).                                *)
(***************************************************************************)
MechanismsAgree ==
  /\ Is("generator") => GeneratorAgrees(input[2], input[3])
  /\ Is("derivation") => DerivationAgrees(input[2], input[3], input[4], input[5], input[6])
  /\ Is("addition") =>
       IntOf(Add_BE(input[2], input[3])) = (IntOf(input[2]) + IntOf(input[3])) % Power(3)

(***************************************************************************)
(* The counter mode derives what SP800-108 says, as SP800-108.c:16 has it: *)
(* "Implements SP800-108 key derivation functions".  Violated: the counter *)
(* is encoded once, before the loop, so every block repeats the first.     *)
(***************************************************************************)
CounterModeAgrees ==
  Is("derivation") =>
    LET d == SP800_108_KDF(input[2], input[3], input[4], Data(input[5], 7),
                           Data(2, 8), Data(3, 9), input[6])
    IN  input[3] = "CTR" /\ d.rv = 1 =>
          d.K0 = StdDerive("CTR", Data(input[5], 7), Data(2, 8), Data(3, 9), input[6])
=============================================================================
