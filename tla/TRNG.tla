-------------------------------- MODULE TRNG --------------------------------
(***************************************************************************)
(* One TRNG instance of icc/TRNG answering requests for seeds:             *)
(* Entropy_to_TRNG, which drives the conditioner, which draws noise with   *)
(* trng_raw, which refills its buffer from the entropy source.  The        *)
(* instance belongs to one PRNG context and serves one request at a time.  *)
(*                                                                         *)
(* Noise is drawn, conditioned and copied in units of one digest (32       *)
(* bytes): a unit of noise is a position of the buffer, a block of output  *)
(* is a value chosen when the conditioner finishes it.  What the data are  *)
(* decides, at each check, whether it passes: that is the environment.     *)
(***************************************************************************)
EXTENDS Integers, Sequences

CONSTANTS
  Block,      \* the values of a conditioned block
  Low,        \* the values pmax4 finds below 50%
  MaxLen,     \* bound: blocks in one request
  Units,      \* units in the noise buffer (E_ESTB_BUFLEN)
  Guarantee,  \* units conditioned into one block (e_guarantee)
  Retries,    \* TRNG_RETRIES
  MaxFail,    \* MAX_HT_FAIL
  MaxDups,    \* duplicate seeds tolerated in one request
  Window      \* blocks the compression estimate is made over

ASSUME TRNGAssumption ==
  /\ Low \subseteq Block
  /\ MaxLen \in Nat \ {0} /\ Units \in Nat \ {0} /\ Guarantee \in Nat \ {0}
  /\ Retries \in Nat \ {0} /\ MaxFail \in Nat /\ MaxDups \in Nat
  /\ Window \in Nat \ {0}

VARIABLES
  pc,         \* where the request is
  len,        \* blocks the request asks for
  pass,       \* j: passes made
  block,      \* l: blocks tried in this pass
  dups,       \* m: duplicate seeds met
  buf,        \* the blocks copied to the caller so far: i is its length
  units,      \* units in the block being conditioned
  fails,      \* failcount of the trng_raw in progress
  left,       \* cnt: units left in the noise buffer
  used,       \* history: the units of the noise buffer copied out
  rich,       \* the buffer's entropy was sufficient
  healthy,    \* the buffer passed the source's health test
  seen,       \* blocks in the window of the long term estimate
  inBounds,   \* that estimate is above the design entropy
  last,       \* the seed lastdigest is the hash of
  fatal       \* error_state of the library

loops == <<len, pass, block, dups>>
cond  == <<units, fails>>
noise == <<left, used, rich, healthy>>
est   == <<seen, inBounds>>
vars  == <<pc, loops, buf, cond, noise, est, last, fatal>>

TypeOK ==
  /\ pc \in {"idle", "pass", "block", "draw", "output", "judge", "compare"}
  /\ len \in 0 .. MaxLen /\ pass \in 0 .. Retries
  /\ block \in 0 .. MaxLen /\ dups \in 0 .. MaxDups
  /\ buf \in Seq(Block \ Low) /\ Len(buf) <= len
  /\ units \in 0 .. Guarantee /\ fails \in 0 .. MaxFail + 1
  /\ left \in 0 .. Units /\ used \subseteq 0 .. Units - 1
  /\ rich \in BOOLEAN /\ healthy \in BOOLEAN
  /\ seen \in 0 .. Window - 1 /\ inBounds \in BOOLEAN
  /\ last \in Seq(Block \ Low)
  /\ fatal \in BOOLEAN

Init ==
  /\ pc = "idle"
  /\ len = 0 /\ pass = 0 /\ block = 0 /\ dups = 0 /\ buf = <<>>
  /\ units = 0 /\ fails = 0
  /\ left = 0 /\ used = {} /\ rich = FALSE /\ healthy = FALSE
  /\ seen = 0 /\ inBounds = TRUE
  /\ last = <<>>
  /\ fatal = FALSE

\* SetRNGError: the request ends in an error, and the library's error is fatal.
SetRNGError ==
  /\ pc' = "idle"
  /\ fatal' = TRUE

Request ==
  /\ pc = "idle" /\ pc' = "pass"
  /\ len' \in 1 .. MaxLen
  /\ pass' = 0 /\ block' = 0 /\ dups' = 0 /\ buf' = <<>>
  /\ UNCHANGED <<cond, noise, est, last, fatal>>

-----------------------------------------------------------------------------
(***************************************************************************)
(* Entropy_to_TRNG: passes over the request, each of len blocks.           *)
(***************************************************************************)
\* Mutant: the passes are not bounded.
StartPass_Unbounded ==
  /\ pc = "pass"
  /\ IF Len(buf) < len
     THEN pc' = "block" /\ block' = 0
     ELSE pc' = "judge" /\ UNCHANGED block
  /\ UNCHANGED <<len, pass, dups, buf, cond, noise, est, last, fatal>>

StartPass ==
  /\ pc = "pass"
  /\ IF pass < Retries /\ Len(buf) < len
     THEN pc' = "block" /\ block' = 0
     ELSE pc' = "judge" /\ UNCHANGED block
  /\ UNCHANGED <<len, pass, dups, buf, cond, noise, est, last, fatal>>

StartBlock ==
  /\ pc = "block"
  /\ IF block < len
     THEN pc' = "draw" /\ UNCHANGED pass
     ELSE pc' = "pass" /\ pass' = pass + 1
  /\ units' = 0 /\ fails' = 0
  /\ UNCHANGED <<len, block, dups, buf, noise, est, last, fatal>>

\* Mutant: a buffer below the guarantee is kept.
Refilled_KeepsLow(ok) == Units

\* trng_raw drops a buffer whose entropy is low.
Refilled(ok) == IF ok THEN Units ELSE 0

\* The source fills the buffer.  FIPS_getbytes runs its health test on what
\* it returns, and returns it whatever the test said.
Refill ==
  /\ pc = "draw" /\ left = 0
  /\ rich' \in BOOLEAN /\ healthy' \in BOOLEAN
  /\ left' = Refilled(rich') /\ used' = {}
  /\ fails' = IF rich' THEN fails ELSE fails + 1
  /\ IF fails' > MaxFail THEN SetRNGError ELSE UNCHANGED <<pc, fatal>>
  /\ UNCHANGED <<loops, buf, units, est, last>>

\* Mutant: the count of bytes left is not reduced.
Remaining_Same(n) == n

\* What is left of n units when one was copied out.
Remaining(n) == n - 1

Draw ==
  /\ pc = "draw" /\ left > 0
  /\ left' = Remaining(left) /\ used' = used \cup {Units - left}
  /\ units' = units + 1 /\ fails' = 0
  /\ pc' = IF units' = Guarantee THEN "output" ELSE "draw"
  /\ UNCHANGED <<loops, buf, rich, healthy, est, last, fatal>>

\* A low block ends the pass; a good one is copied while there is room for it.
Output ==
  /\ pc = "output"
  /\ \/ /\ Low # {}
        /\ pc' = "pass" /\ pass' = pass + 1
        /\ UNCHANGED <<block, buf>>
     \/ \E b \in Block \ Low :
        /\ pc' = "block" /\ block' = block + 1
        /\ buf' = IF Len(buf) < len THEN Append(buf, b) ELSE buf
        /\ UNCHANGED pass
  /\ UNCHANGED <<len, dups, cond, noise, est, last, fatal>>

-----------------------------------------------------------------------------
(***************************************************************************)
(* Entropy_to_TRNG: the checks on the whole request.                       *)
(***************************************************************************)
OutOfPasses == pass >= Retries

GiveUp ==
  /\ pc = "judge" /\ OutOfPasses
  /\ SetRNGError
  /\ UNCHANGED <<loops, buf, cond, noise, est, last>>

\* EntropyEstimator and EntropyOK: a new estimate is made when the request
\* completes a window, otherwise the one before it stands.
Estimate ==
  /\ pc = "judge" /\ ~OutOfPasses
  /\ \/ /\ seen + len >= Window
        /\ seen' = 0 /\ inBounds' \in BOOLEAN
     \/ /\ seen + len < Window
        /\ seen' = seen + len /\ UNCHANGED inBounds
  /\ IF inBounds' THEN pc' = "compare" /\ UNCHANGED fatal ELSE SetRNGError
  /\ UNCHANGED <<loops, buf, cond, noise, last>>

\* Mutant: the hash of the seed is not kept.
Deliver_Forgets ==
  /\ pc = "compare" /\ buf # last
  /\ pc' = "idle"
  /\ UNCHANGED <<loops, buf, cond, noise, est, last, fatal>>

Deliver ==
  /\ pc = "compare" /\ buf # last
  /\ pc' = "idle" /\ last' = buf
  /\ UNCHANGED <<loops, buf, cond, noise, est, fatal>>

\* Mutant: duplicates are not counted.
Duplicate_Uncounted ==
  /\ pc = "compare" /\ buf = last
  /\ pc' = "pass" /\ pass' = 0 /\ buf' = <<>>
  /\ UNCHANGED <<len, block, dups, cond, noise, est, last, fatal>>

Duplicate ==
  /\ pc = "compare" /\ buf = last
  /\ buf' = <<>>
  /\ IF dups + 1 > MaxDups
     THEN SetRNGError /\ UNCHANGED <<dups, pass>>
     ELSE pc' = "pass" /\ dups' = dups + 1 /\ pass' = 0 /\ UNCHANGED fatal
  /\ UNCHANGED <<len, block, cond, noise, est, last>>

Step ==
  \/ StartPass \/ StartBlock \/ Refill \/ Draw \/ Output
  \/ GiveUp \/ Estimate \/ Deliver \/ Duplicate

Next == Request \/ Step

Spec == Init /\ [][Next]_vars

\* A request is a call: once made, the thread that made it executes it.
FairSpec == Spec /\ WF_vars(Step)

-----------------------------------------------------------------------------
(***************************************************************************)
(* Properties.                                                             *)
(***************************************************************************)
\* Where the loop counters are when the control is at each place.
CountersInv ==
  /\ pc # "idle" => len > 0
  /\ pc \in {"judge", "compare"} /\ pass < Retries => Len(buf) = len
  /\ pc \in {"block", "draw", "output", "compare"} => pass < Retries
  /\ pc \in {"draw", "output"} => block < len
  /\ pc = "draw" => units < Guarantee /\ fails <= MaxFail

\* The units before the offset, and they only, have been used; a buffer that
\* is not empty has enough entropy.
OffsetInv == left > 0 => used = 0 .. Units - left - 1 /\ rich

(***************************************************************************)
(* The control of a request is where its counters say it is: a request is  *)
(* compared with the one before it only when it is filled and its last     *)
(* pass was allowed (the loops of Entropy_to_TRNG), and the noise that is  *)
(* left has not been used (the offset E_ESTB_BUFLEN - cnt of trng_raw).    *)
(***************************************************************************)
RequestInv == CountersInv /\ OffsetInv

(***************************************************************************)
(* No unit of noise goes into two blocks, whatever mix of requests, failed *)
(* requests and refills used the buffer before.                            *)
(***************************************************************************)
NoiseUsedOnce == [][Draw => Units - left \notin used]_vars

(***************************************************************************)
(* No noise from a buffer whose entropy was low is conditioned, not even   *)
(* by the request after the one that failed on that buffer.                *)
(***************************************************************************)
NoPoorNoise == [][Draw => rich]_vars

\* What a seed's user sees of this TRNG.
Source == INSTANCE SeedSource WITH asked <- IF pc = "idle" THEN 0 ELSE len

(***************************************************************************)
(* The TRNG is a SeedSource: a request that succeeds hands over a filled   *)
(* seed that differs from the one before, one that does not is fatal.      *)
(***************************************************************************)
IsSeedSource == Source!Spec

(***************************************************************************)
(* Every request is answered: the retries for low blocks, low noise and    *)
(* duplicate seeds are bounded, together too.                              *)
(***************************************************************************)
RequestEnds == pc # "idle" ~> pc = "idle"

(***************************************************************************)
(* "optomistically copy data when it passes the health tests"              *)
(* (noise_to_entropy.c:79): no noise that failed them is copied.           *)
(***************************************************************************)
HealthyNoise == [][Draw => healthy]_vars
=============================================================================
