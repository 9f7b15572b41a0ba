---------------------------- MODULE HealthTests ----------------------------
(***************************************************************************)
(* The health tests of the noise (icc/TRNG/nist_algs.c): the two entropy   *)
(* estimators and the adaptive proportion and repetition count tests of    *)
(* SP800-90B.  The tests see only how often a value occurs and how long it *)
(* repeats, so a buffer is a sequence of stretches <<value, length>>, and  *)
(* no stretch has the value of the one before it.                          *)
(***************************************************************************)
EXTENDS Naturals, Sequences, FiniteSets, FiniteSetsExt

Values(noise) == {noise[i][1] : i \in DOMAIN noise}

\* How many samples some of the stretches are.
Size(noise, stretches) == Cardinality(UNION {{i} \X (1 .. noise[i][2]) : i \in stretches})

Samples(noise)        == Size(noise, DOMAIN noise)
Occurrences(noise, v) == Size(noise, {i \in DOMAIN noise : noise[i][1] = v})

\* The most common value decides; values that do not occur count zero.
MostCommon(noise) == Max({Occurrences(noise, v) : v \in Values(noise)})

Longest(noise) == Max({noise[i][2] : i \in DOMAIN noise})

-----------------------------------------------------------------------------
(***************************************************************************)
(* ilog2: five tests of half the remaining bits.  v has a bit of the mask  *)
(* b[i] iff it is wider than Shift[i] bits at that point.                *)
(***************************************************************************)
Shift == <<1, 2, 4, 8, 16>>

Halve(i, vr) ==
  IF vr[1] \div 2 ^ Shift[i] > 0 THEN <<vr[1] \div 2 ^ Shift[i], vr[2] + Shift[i]>> ELSE vr

\* Mutant: the loop stops before the last mask.
ilog2_FourMasks(v) == Halve(2, Halve(3, Halve(4, Halve(5, <<v, 0>>))))[2]

ilog2(v) == Halve(1, Halve(2, Halve(3, Halve(4, Halve(5, <<v, 0>>)))))[2]

(***************************************************************************)
(* The estimators return a percentage: of 4 bits per nibble, and twice     *)
(* that of 8 bits per byte.  Too few samples are no entropy at all.        *)
(***************************************************************************)
etab(bits) == 25 * bits

pmaxLGetEnt(bytes) ==
  IF Samples(bytes) >= 512
  THEN etab(ilog2(Samples(bytes) \div MostCommon(bytes)))
  ELSE 0

\* The stretches are of nibbles, two in each byte of the data.
pmax4(nibbles) ==
  IF Samples(nibbles) >= 64
  THEN etab(ilog2(Samples(nibbles) \div MostCommon(nibbles)))
  ELSE 0

-----------------------------------------------------------------------------
(***************************************************************************)
(* The tests of a block of E_ESTB_BUFLEN samples against the guarantee N   *)
(* or H, a percentage of 8 bits.  100 falls through to the default, where  *)
(* every block fails.                                                      *)
(***************************************************************************)
APLimit(N) ==
  CASE N \in {12, 13} -> 311
    [] N = 25 -> 177
    [] N = 50 -> 62
    [] N = 75 -> 23
    [] OTHER -> 0

APtestBK(N, block) == IF MostCommon(block) >= APLimit(N) THEN 1 ELSE 0

RCTable == [H \in {25, 50, 75} |-> CASE H = 25 -> 16 [] H = 50 -> 9 [] H = 75 -> 6]

\* B counts the samples that repeat the one before them.
RCtestBK(H, block) ==
  IF H \notin DOMAIN RCTable
  THEN 2
  ELSE IF Longest(block) - 1 >= RCTable[H] THEN 1 ELSE 0

ht(H, block) ==
  (IF APtestBK(H, block) # 0 THEN 2 ELSE 0) + (IF RCtestBK(H, block) # 0 THEN 4 ELSE 0)
=============================================================================
