----------------------------- MODULE TRNGProofs -----------------------------
(***************************************************************************)
(* Theorems about TRNG: its typing and the invariant on the counters of a  *)
(* request, that noise is used once, and that the TRNG implements          *)
(* SeedSource, for every buffer size, guarantee, retry count and length.   *)
(***************************************************************************)
EXTENDS TRNG, SequenceTheorems, TLAPS

Inv == TypeOK /\ RequestInv

\* The length of the caller's buffer, and what Append does to it.
LEMMA BufLen ==
  ASSUME TypeOK
  PROVE  /\ Len(buf) \in Nat
         /\ \A b \in Block \ Low : /\ Append(buf, b) \in Seq(Block \ Low)
                                  /\ Len(Append(buf, b)) = Len(buf) + 1
  BY LenProperties, AppendProperties DEF TypeOK

\* The initial state satisfies the invariant.
LEMMA InitInv == Init => Inv
<1> SUFFICES ASSUME Init PROVE Inv
  OBVIOUS
<1>1. <<>> \in Seq(Block \ Low) /\ Len(<<>>) = 0
  OBVIOUS
<1>2. TypeOK
  <2>1. fatal \in BOOLEAN /\ inBounds \in BOOLEAN /\ rich \in BOOLEAN
        /\ healthy \in BOOLEAN
    BY Zenon DEF Init
  <2>2. used \subseteq 0 .. Units - 1
    BY DEF Init
  <2>3. QED
    BY <1>1, <2>1, <2>2, TRNGAssumption DEF Init, TypeOK
<1>3. CountersInv /\ OffsetInv
  BY DEF Init, CountersInv, OffsetInv
<1>4. QED
  BY <1>2, <1>3 DEF Inv, RequestInv

(***************************************************************************)
(* Each step of Entropy_to_TRNG, conditioner and trng_raw keeps the        *)
(* counters of the request within their bounds, the buffer of the caller   *)
(* within the request and the noise offset at the unused units.            *)
(***************************************************************************)
LEMMA NextInv == Inv /\ [Next]_vars => Inv'
<1> SUFFICES ASSUME Inv, [Next]_vars PROVE Inv'
  OBVIOUS
<1>0. /\ TypeOK /\ CountersInv /\ OffsetInv
      /\ Len(buf) \in Nat
  BY BufLen DEF Inv, RequestInv
<1> USE TRNGAssumption DEF TypeOK, CountersInv, OffsetInv, Inv, RequestInv
<1> USE DEF loops, cond, noise, est
<1>1. CASE Request
  BY <1>0, <1>1 DEF Request
<1>2. CASE StartPass
  BY <1>0, <1>2 DEF StartPass
<1>3. CASE StartBlock
  BY <1>0, <1>3 DEF StartBlock
<1>4. CASE Refill
  <2>1. TypeOK'
    <3>1. fatal' \in BOOLEAN
      BY <1>0, <1>4, Zenon DEF Refill, Refilled, SetRNGError
    <3>2. QED
      BY <1>0, <1>4, <3>1 DEF Refill, Refilled, SetRNGError
  <2>2. CountersInv'
    BY <1>0, <1>4 DEF Refill, Refilled, SetRNGError
  <2>3. OffsetInv'
    BY <1>0, <1>4 DEF Refill, Refilled, SetRNGError
  <2>4. QED
    BY <2>1, <2>2, <2>3
<1>5. CASE Draw
  BY <1>0, <1>5 DEF Draw, Remaining
<1>6. CASE Output
  <2>1. CASE pc' = "pass"
    BY <1>0, <1>6, <2>1 DEF Output
  <2>2. CASE pc' = "block"
    <3>1. PICK b \in Block \ Low :
            /\ block' = block + 1 /\ UNCHANGED pass
            /\ buf' = IF Len(buf) < len THEN Append(buf, b) ELSE buf
      BY <1>6, <2>2 DEF Output
    <3>2. buf' \in Seq(Block \ Low) /\ Len(buf') <= len
      BY <1>0, <3>1, BufLen
    <3>3. QED
      BY <1>0, <1>6, <2>2, <3>1, <3>2 DEF Output
  <2>3. QED
    BY <1>6, <2>1, <2>2 DEF Output
<1>7. CASE GiveUp
  BY <1>0, <1>7 DEF GiveUp, SetRNGError
<1>8. CASE Estimate
  <2>1. TypeOK'
    <3>1. fatal' \in BOOLEAN
      BY <1>0, <1>8, Zenon DEF Estimate, OutOfPasses, SetRNGError
    <3>2. QED
      BY <1>0, <1>8, <3>1 DEF Estimate, OutOfPasses, SetRNGError
  <2>2. CountersInv'
    BY <1>0, <1>8 DEF Estimate, OutOfPasses, SetRNGError
  <2>3. OffsetInv'
    BY <1>0, <1>8 DEF Estimate, OutOfPasses, SetRNGError
  <2>4. QED
    BY <2>1, <2>2, <2>3
<1>9. CASE Deliver
  BY <1>0, <1>9 DEF Deliver
<1>10. CASE Duplicate
  <2>1. TypeOK'
    <3>1. fatal' \in BOOLEAN
      BY <1>0, <1>10, Zenon DEF Duplicate, SetRNGError
    <3>2. QED
      BY <1>0, <1>10, <3>1 DEF Duplicate, SetRNGError
  <2>2. CountersInv'
    BY <1>0, <1>10 DEF Duplicate, SetRNGError
  <2>3. OffsetInv'
    BY <1>0, <1>10 DEF Duplicate, SetRNGError
  <2>4. QED
    BY <2>1, <2>2, <2>3
<1>11. CASE UNCHANGED vars
  BY <1>0, <1>11 DEF vars
<1>12. QED
  BY <1>1, <1>2, <1>3, <1>4, <1>5, <1>6, <1>7, <1>8, <1>9, <1>10, <1>11
  DEF Next, Step

\* The invariant holds of every behaviour.
THEOREM Invariant == Spec => []Inv
<1>1. QED
  BY InitInv, NextInv, PTL DEF Spec

(***************************************************************************)
(* The request counters of Entropy_to_TRNG and the noise offset of         *)
(* trng_raw are always as RequestInv says.                                 *)
(***************************************************************************)
THEOREM RequestCorrect == Spec => []RequestInv
<1>1. Inv => RequestInv
  BY DEF Inv
<1>2. QED
  BY <1>1, Invariant, PTL

\* Every variable keeps its type.
THEOREM TypeCorrect == Spec => []TypeOK
<1>1. Inv => TypeOK
  BY DEF Inv
<1>2. QED
  BY <1>1, Invariant, PTL

(***************************************************************************)
(* No unit of noise trng_raw copied out is copied out again: the unit at   *)
(* the offset is never among the used ones.                                *)
(***************************************************************************)
THEOREM NoiseOnce == Spec => NoiseUsedOnce
<1>1. Inv /\ [Next]_vars => [Draw => Units - left \notin used]_vars
  BY TRNGAssumption DEF Inv, TypeOK, RequestInv, OffsetInv, Draw
<1>2. QED
  BY <1>1, Invariant, PTL DEF Spec, NoiseUsedOnce

(***************************************************************************)
(* trng_raw copies nothing out of a buffer whose entropy was low.          *)
(***************************************************************************)
THEOREM PoorNoiseDropped == Spec => NoPoorNoise
<1>1. Inv /\ [Next]_vars => [Draw => rich]_vars
  BY TRNGAssumption DEF Inv, TypeOK, RequestInv, OffsetInv, Draw
<1>2. QED
  BY <1>1, Invariant, PTL DEF Spec, NoPoorNoise

(***************************************************************************)
(* A seed Entropy_to_TRNG hands over is one a SeedSource may deliver.      *)
(***************************************************************************)
LEMMA DeliverImplements == Inv /\ Deliver => Source!Deliver
<1> SUFFICES ASSUME Inv, Deliver PROVE Source!Deliver
  OBVIOUS
<1>1. len \in 1 .. MaxLen /\ Len(buf) = len
  BY DEF Inv, TypeOK, RequestInv, CountersInv, OffsetInv, Deliver
<1>2. buf \in Source!Seeds(len)
  BY <1>1, LenProperties DEF Inv, TypeOK, Source!Seeds
<1>3. QED
  BY <1>1, <1>2 DEF Deliver, Source!Deliver

(***************************************************************************)
(* Entropy_to_TRNG implements SeedSource: asking maps to Ask, handing over *)
(* a seed to Deliver, SetRNGError to Fail and every other step to a        *)
(* stutter.                                                                *)
(***************************************************************************)
THEOREM Implements == Spec => IsSeedSource
<1>1. Init => Source!Init
  BY DEF Init, Source!Init
<1>2. Inv /\ [Next]_vars => [Source!Next]_(Source!vars)
  <2> SUFFICES ASSUME Inv, [Next]_vars PROVE [Source!Next]_(Source!vars)
    OBVIOUS
  <2>0. TypeOK /\ CountersInv
    BY DEF Inv, RequestInv
  <2> USE DEF TypeOK, CountersInv, Source!vars, loops, cond, noise, est
  <2>1. CASE Request
    BY <2>0, <2>1 DEF Request, Source!Next, Source!Ask
  <2>2. CASE StartPass
    BY <2>0, <2>2 DEF StartPass
  <2>3. CASE StartBlock
    BY <2>0, <2>3 DEF StartBlock
  <2>4. CASE Refill
    BY <2>0, <2>4 DEF Refill, SetRNGError, Source!Next, Source!Fail
  <2>5. CASE Draw
    BY <2>0, <2>5 DEF Draw
  <2>6. CASE Output
    BY <2>0, <2>6 DEF Output
  <2>7. CASE GiveUp
    BY <2>0, <2>7 DEF GiveUp, SetRNGError, Source!Next, Source!Fail
  <2>8. CASE Estimate
    BY <2>0, <2>8 DEF Estimate, SetRNGError, Source!Next, Source!Fail
  <2>9. CASE Deliver
    BY <2>0, <2>9, DeliverImplements DEF Source!Next
  <2>10. CASE Duplicate
    BY <2>0, <2>10 DEF Duplicate, SetRNGError, Source!Next, Source!Fail
  <2>11. CASE UNCHANGED vars
    BY <2>0, <2>11 DEF vars
  <2>12. QED
    BY <2>1, <2>2, <2>3, <2>4, <2>5, <2>6, <2>7, <2>8, <2>9, <2>10, <2>11
    DEF Next, Step
<1>3. QED
  BY <1>1, <1>2, Invariant, PTL DEF Spec, IsSeedSource, Source!Spec
=============================================================================
