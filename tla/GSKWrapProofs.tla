--------------------------- MODULE GSKWrapProofs ---------------------------
(***************************************************************************)
(* Theorems about GSKWrap, for any number of contexts (threads): however   *)
(* initialization, values and attaching fail and interleave, no context    *)
(* underneath is lost, and ICC_Attach answers what there is.               *)
(***************************************************************************)
EXTENDS GSKWrap, FiniteSetTheorems, TLAPS

\* What a call has found and done so far: ICC_Attach starts with nothing
\* underneath, and until it returns nothing is attached and its answer is the
\* one it started with; with nothing underneath ICC_SetValue said nothing.
CallSound(c) ==
  /\ pc[c] \in {"none", "libs", "readlibs", "init"} => Empty(c)
  /\ pc[c] \in {"libs", "readlibs", "init", "attach"} => Attaching(c)
  /\ Attaching(c) /\ pc[c] # "idle" =>
       rv[c] = "notinit" /\ \A l \in Library : inner[c][l] # "attached"
  /\ pc[c] = "attach" /\ Empty(c) => status[c] = "ok"
  /\ pc[c] = "idle" /\ Attaching(c) =>
       /\ rv[c] \in Good <=> status[c] \in Good
       /\ rv[c] \in Good <=> \E l \in Library : inner[c][l] = "attached"

GSKInv == TypeOK /\ InnerOwned /\ \A c \in Ctx : CallSound(c)

Owners(l) == {c \in Ctx : inner[c][l] # "none"}

-----------------------------------------------------------------------------
LEMMA OwnersFinite ==
  ASSUME NEW l \in Library
  PROVE  IsFiniteSet(Owners(l)) /\ Cardinality(Owners(l)) \in Nat
  <1>1. Owners(l) \in SUBSET Ctx
    BY DEF Owners
  <1>2. IsFiniteSet(Owners(l))
    BY <1>1, FS_Subset, GSKWrapAssumption
  <1> QED
    BY <1>2, FS_CardinalityType

\* It is enough to know what happens to the contexts of one wrapper: in is
\* what it has underneath afterwards.
LEMMA Recount ==
  ASSUME TypeOK, InnerOwned,
         NEW c \in Ctx, NEW in \in [Library -> Inner],
         \E l \in Library : in[l] = "none",
         inner' = [inner EXCEPT ![c] = in],
         alive' \in [Library -> Int],
         \A l \in Library :
           alive'[l] = (alive[l] - Released(c, l)) + (IF in[l] = "none" THEN 0 ELSE 1)
  PROVE  InnerOwned' /\ inner' \in [Ctx -> [Library -> Inner]] /\ alive' \in [Library -> Nat]
  <1>1. inner \in [Ctx -> [Library -> Inner]] /\ inner' \in [Ctx -> [Library -> Inner]]
    BY DEF TypeOK
  <1>2. inner'[c] = in /\ \A d \in Ctx \ {c} : inner'[d] = inner[d]
    BY <1>1
  <1>3. ASSUME NEW l \in Library
        PROVE  alive'[l] = Cardinality({d \in Ctx : inner'[d][l] # "none"}) /\ alive'[l] \in Nat
    <2> DEFINE Before == Owners(l)
               After  == {d \in Ctx : inner'[d][l] # "none"}
    <2>1. alive[l] = Cardinality(Before) /\ IsFiniteSet(Before) /\ Cardinality(Before) \in Nat
      BY OwnersFinite DEF InnerOwned, Owners
    <2>2. alive'[l] = (alive[l] - Released(c, l)) + (IF in[l] = "none" THEN 0 ELSE 1)
      OBVIOUS
    <2>3. CASE inner[c][l] = "none" /\ in[l] = "none"
      <3>1. After = Before
        BY <1>2, <2>3 DEF Owners
      <3>2. Cardinality(After) = Cardinality(Before)
        BY <3>1
      <3>3. alive'[l] = alive[l]
        BY <2>1, <2>2, <2>3 DEF Released
      <3> QED
        BY <2>1, <3>2, <3>3
    <2>4. CASE inner[c][l] # "none" /\ in[l] # "none"
      <3>1. After = Before
        BY <1>2, <2>4 DEF Owners
      <3>2. Cardinality(After) = Cardinality(Before)
        BY <3>1
      <3>3. alive'[l] = alive[l]
        BY <2>1, <2>2, <2>4 DEF Released
      <3> QED
        BY <2>1, <3>2, <3>3
    <2>5. CASE inner[c][l] = "none" /\ in[l] # "none"
      <3>1. After = Before \cup {c} /\ c \notin Before
        BY <1>2, <2>5 DEF Owners
      <3>2. Cardinality(After) = Cardinality(Before) + 1
        BY <2>1, <3>1, FS_AddElement
      <3> QED
        BY <2>1, <2>2, <2>5, <3>2 DEF Released
    <2>6. CASE inner[c][l] # "none" /\ in[l] = "none"
      <3>1. After = Before \ {c} /\ c \in Before
        BY <1>2, <2>6 DEF Owners
      <3>2. Cardinality(After) = Cardinality(Before) - 1
        BY <2>1, <3>1, FS_RemoveElement
      <3>3. Cardinality(Before) # 0
        BY <2>1, <3>1, FS_EmptySet
      <3> QED
        BY <2>1, <2>2, <2>6, <3>2, <3>3 DEF Released
    <2> QED
      BY <2>3, <2>4, <2>5, <2>6
  <1>4. \A d \in Ctx : \E l \in Library : inner'[d][l] = "none"
    BY <1>2 DEF InnerOwned
  <1>5. alive' \in [Library -> Nat]
    BY <1>3
  <1> QED
    BY <1>1, <1>3, <1>4, <1>5 DEF InnerOwned

\* A step that changes neither inner nor alive.
LEMMA Kept ==
  ASSUME InnerOwned, inner' = inner, alive' = alive
  PROVE  InnerOwned'
  BY DEF InnerOwned

\* A step on the context c: whatever it does to c, the others are as before.
LEMMA OneContext ==
  ASSUME GSKInv, NEW c \in Ctx, TypeOK', InnerOwned', CallSound(c)',
         \A d \in Ctx \ {c} :
           /\ pc'[d] = pc[d] /\ inner'[d] = inner[d] /\ rv'[d] = rv[d]
           /\ status'[d] = status[d] /\ last'[d] = last[d]
  PROVE  GSKInv'
  <1>1. ASSUME NEW d \in Ctx \ {c} PROVE CallSound(d)'
    BY DEF GSKInv, CallSound, Empty, Attaching
  <1> QED
    BY <1>1 DEF GSKInv

-----------------------------------------------------------------------------
(***************************************************************************)
(* One lemma per kind of step.                                             *)
(***************************************************************************)
\* What the actions read, as plain facts.
LEMMA Types ==
  ASSUME TypeOK, NEW c \in Ctx
  PROVE  /\ inner[c] \in [Library -> Inner]
         /\ wanted[c][1] \in Library /\ wanted[c][2] \in {1, 2}
         /\ rv[c] \in Status /\ status[c] \in Status
         /\ NoInner \in [Library -> Inner] /\ (\A l \in Library : NoInner[l] = "none")
         /\ Empty(c) <=> \A l \in Library : inner[c][l] = "none"
  <1>1. NoInner \in [Library -> Inner] /\ (\A l \in Library : NoInner[l] = "none")
    BY DEF NoInner, Inner
  <1>2. inner[c] \in [Library -> Inner]
    BY DEF TypeOK
  <1>3. wanted[c][1] \in Library /\ wanted[c][2] \in {1, 2}
    BY DEF TypeOK
  <1>4. Empty(c) <=> \A l \in Library : inner[c][l] = "none"
    BY <1>1, <1>2 DEF Empty
  <1> QED
    BY <1>1, <1>2, <1>3, <1>4 DEF TypeOK

LEMMA AttachBegins ==
  ASSUME GSKInv, NEW c \in Ctx, CallAttach(c)
  PROVE  GSKInv'
  <1> USE DEF CallAttach, Goto, Says, answer, switches
  <1>1. TypeOK /\ InnerOwned
    BY DEF GSKInv
  <1>2. Fips(prefer[c] /\ ~ignoreFips) \in Library
    BY DEF Fips, Library
  <1>3. TypeOK'
    BY <1>1, <1>2 DEF TypeOK, Pc, Status
  <1>4. InnerOwned'
    BY <1>1, Kept
  <1>5. pc'[c] = "libs" /\ rv'[c] = "notinit" /\ last'[c] = "Attach" /\ inner' = inner
    BY <1>1 DEF TypeOK
  <1>6. CallSound(c)'
    BY <1>1, <1>5, Types DEF CallSound, Empty, Attaching
  <1> QED
    BY <1>1, <1>3, <1>4, <1>6, OneContext DEF TypeOK

LEMMA SetValueBegins ==
  ASSUME GSKInv, NEW c \in Ctx, CallSetValue(c)
  PROVE  GSKInv'
  <1> USE DEF CallSetValue, Goto, Says, answer, switches
  <1>1. TypeOK /\ InnerOwned /\ CallSound(c)
    BY DEF GSKInv
  <1>2. TypeOK'
    BY <1>1 DEF TypeOK, Pc, Status
  <1>3. InnerOwned'
    BY <1>1, Kept
  <1>4. pc'[c] = "env" /\ last'[c] = "SetValue" /\ inner' = inner
    BY <1>1 DEF TypeOK
  <1>5. CallSound(c)'
    BY <1>1, <1>4, Types DEF CallSound, Empty, Attaching
  <1> QED
    BY <1>1, <1>2, <1>3, <1>5, OneContext DEF TypeOK

LEMMA LibsChecked ==
  ASSUME GSKInv, NEW c \in Ctx, CheckLibs(c)
  PROVE  GSKInv'
  <1> USE DEF CheckLibs, Goto, Says, answer, switches
  <1>1. TypeOK /\ InnerOwned /\ CallSound(c)
    BY DEF GSKInv
  <1>2. TypeOK'
    BY <1>1 DEF TypeOK, Pc, Status
  <1>3. InnerOwned'
    BY <1>1, Kept
  <1>4. pc'[c] \in {"init", "readlibs"} /\ pc[c] = "libs" /\ UNCHANGED <<inner, rv, status, last>>
    BY <1>1 DEF TypeOK
  <1>5. CallSound(c)'
    BY <1>1, <1>4, Types DEF CallSound, Empty, Attaching
  <1> QED
    BY <1>1, <1>2, <1>3, <1>5, OneContext DEF TypeOK

LEMMA LibsRead ==
  ASSUME GSKInv, NEW c \in Ctx, ReadLibs(c)
  PROVE  GSKInv'
  <1> USE DEF ReadLibs, Goto, Says, answer, switches
  <1>1. TypeOK /\ InnerOwned /\ CallSound(c)
    BY DEF GSKInv
  <1>2. TypeOK'
    BY <1>1 DEF TypeOK, Pc, Status
  <1>3. InnerOwned'
    BY <1>1, Kept
  <1>4. pc'[c] = "init" /\ pc[c] = "readlibs" /\ UNCHANGED <<inner, rv, status, last>>
    BY <1>1 DEF TypeOK
  <1>5. CallSound(c)'
    BY <1>1, <1>4, Types DEF CallSound, Empty, Attaching
  <1> QED
    BY <1>1, <1>2, <1>3, <1>5, OneContext DEF TypeOK

LEMMA EnvChecked ==
  ASSUME GSKInv, NEW c \in Ctx, CheckEnv(c)
  PROVE  GSKInv'
  <1> USE DEF CheckEnv, Goto, Says, answer, switches
  <1>1. TypeOK /\ InnerOwned /\ CallSound(c)
    BY DEF GSKInv
  <1>2. TypeOK'
    BY <1>1 DEF TypeOK, Pc, Status
  <1>3. InnerOwned'
    BY <1>1, Kept
  <1>4. pc'[c] \in {"value", "readenv"} /\ pc[c] = "env" /\ UNCHANGED <<inner, rv, last>>
    BY <1>1 DEF TypeOK
  <1>5. CallSound(c)'
    BY <1>1, <1>4, Types DEF CallSound, Empty, Attaching
  <1> QED
    BY <1>1, <1>2, <1>3, <1>5, OneContext DEF TypeOK

LEMMA EnvRead ==
  ASSUME GSKInv, NEW c \in Ctx, ReadEnv(c)
  PROVE  GSKInv'
  <1> USE DEF ReadEnv, Goto, Says, answer, switches
  <1>1. TypeOK /\ InnerOwned /\ CallSound(c)
    BY DEF GSKInv
  <1>2. TypeOK'
    BY <1>1 DEF TypeOK, Pc, Status
  <1>3. InnerOwned'
    BY <1>1, Kept
  <1>4. pc'[c] = "value" /\ pc[c] = "readenv" /\ UNCHANGED <<inner, rv, status, last>>
    BY <1>1 DEF TypeOK
  <1>5. CallSound(c)'
    BY <1>1, <1>4, Types DEF CallSound, Empty, Attaching
  <1> QED
    BY <1>1, <1>2, <1>3, <1>5, OneContext DEF TypeOK

LEMMA LibsSet ==
  ASSUME GSKInv, NEW c \in Ctx, SetLibs(c)
  PROVE  GSKInv'
  <1> USE DEF SetLibs, Goto, Says, answer, switches
  <1>1. TypeOK /\ InnerOwned /\ CallSound(c)
    BY DEF GSKInv
  <1>2. TypeOK'
    BY <1>1 DEF TypeOK, Pc, Status
  <1>3. InnerOwned'
    BY <1>1, Kept
  <1>4. pc'[c] = "idle" /\ ~Attaching(c) /\ UNCHANGED <<inner, last>>
    BY <1>1 DEF TypeOK
  <1>5. CallSound(c)'
    BY <1>1, <1>4, Types DEF CallSound, Empty, Attaching
  <1> QED
    BY <1>1, <1>2, <1>3, <1>5, OneContext DEF TypeOK

LEMMA OtherSet ==
  ASSUME GSKInv, NEW c \in Ctx, SetOther(c)
  PROVE  GSKInv'
  <1> USE DEF SetOther, Goto, Says, answer, switches
  <1>1. TypeOK /\ InnerOwned /\ CallSound(c)
    BY DEF GSKInv
  <1>2. TypeOK'
    BY <1>1 DEF TypeOK, Pc, Status
  <1>3. InnerOwned'
    BY <1>1, Kept
  <1>4. pc'[c] = "idle" /\ ~Attaching(c) /\ UNCHANGED <<inner, last>>
    BY <1>1 DEF TypeOK
  <1>5. CallSound(c)'
    BY <1>1, <1>4, Types DEF CallSound, Empty, Attaching
  <1> QED
    BY <1>1, <1>2, <1>3, <1>5, OneContext DEF TypeOK

LEMMA ValueGot ==
  ASSUME GSKInv, NEW c \in Ctx, GetValue(c)
  PROVE  GSKInv'
  <1> USE DEF GetValue, Goto, Says, answer, switches
  <1>1. TypeOK /\ InnerOwned /\ CallSound(c)
    BY DEF GSKInv
  <1>2. TypeOK'
    <2>1. PICK v, s \in Status :
            rv' = [rv EXCEPT ![c] = v] /\ status' = [status EXCEPT ![c] = s]
      BY DEF Status
    <2> QED
      BY <1>1, <2>1 DEF TypeOK
  <1>3. InnerOwned'
    BY <1>1, Kept
  <1>4. pc'[c] = "idle" /\ last'[c] = "GetValue" /\ UNCHANGED inner
    BY <1>1 DEF TypeOK
  <1>5. CallSound(c)'
    BY <1>1, <1>4, Types DEF CallSound, Empty, Attaching
  <1> QED
    BY <1>1, <1>2, <1>3, <1>5, OneContext DEF TypeOK

LEMMA FipsSet ==
  ASSUME GSKInv, NEW c \in Ctx, SetFips(c)
  PROVE  GSKInv'
  <1> USE DEF SetFips, Goto, Says, answer, switches
  <1>1. TypeOK /\ InnerOwned /\ CallSound(c)
    BY DEF GSKInv
  <1>2. PICK v, s \in Status :
          /\ Forward(c, v, s)
          /\ status' = [status EXCEPT ![c] = s]
          /\ rv' = IF Attaching(c) THEN rv ELSE [rv EXCEPT ![c] = v]
    OBVIOUS
  <1>3. TypeOK'
    <2>1. rv' \in [Ctx -> Status] /\ status' \in [Ctx -> Status]
      BY <1>1, <1>2 DEF TypeOK
    <2>2. pc' \in [Ctx -> Pc] /\ prefer' \in [Ctx -> BOOLEAN]
      BY <1>1 DEF TypeOK, Pc
    <2> QED
      BY <1>1, <2>1, <2>2 DEF TypeOK
  <1>4. InnerOwned'
    BY <1>1, Kept
  <1>5. UNCHANGED <<inner, last>> /\ pc[c] = "value"
        /\ pc'[c] = IF Attaching(c) THEN "attach" ELSE "idle"
    BY <1>1 DEF TypeOK
  <1>6. Empty(c) => status'[c] = "ok"
    BY <1>1, <1>2, Types DEF TypeOK, Forward, Library
  <1>7. CallSound(c)'
    <2>1. CASE Attaching(c)
      BY <1>1, <1>2, <1>5, <1>6, <2>1 DEF CallSound, Empty, Attaching
    <2>2. CASE ~Attaching(c)
      BY <1>5, <2>2 DEF CallSound, Attaching
    <2> QED
      BY <2>1, <2>2
  <1> QED
    BY <1>1, <1>2, <1>3, <1>4, <1>5, <1>7, OneContext DEF TypeOK

\* ICC_Init and ICC_Cleanup: nothing underneath afterwards.
LEMMA WrapperMade ==
  ASSUME GSKInv, NEW c \in Ctx, ICC_Init(c)
  PROVE  GSKInv'
  <1> USE DEF ICC_Init, Goto, Says, answer, switches
  <1>1. TypeOK /\ InnerOwned /\ CallSound(c)
    BY DEF GSKInv
  <1>2. Empty(c)
    BY <1>1 DEF CallSound
  <1>3. inner' = inner
    BY <1>1, <1>2 DEF TypeOK, Empty
  <1>4. TypeOK'
    BY <1>1, <1>3 DEF TypeOK, Pc, Status
  <1>5. InnerOwned'
    BY <1>1, <1>3, Kept
  <1>6. pc'[c] \in {"none", "idle"} /\ last'[c] = "none"
    BY <1>1 DEF TypeOK
  <1>7. CallSound(c)'
    BY <1>1, <1>2, <1>3, <1>6 DEF CallSound, Empty, Attaching
  <1> QED
    BY <1>1, <1>3, <1>4, <1>5, <1>7, OneContext DEF TypeOK

LEMMA WrapperGone ==
  ASSUME GSKInv, NEW c \in Ctx, ICC_Cleanup(c)
  PROVE  GSKInv'
  <1> USE DEF ICC_Cleanup, Goto, Says, answer, switches
  <1>1. TypeOK /\ InnerOwned /\ CallSound(c)
    BY DEF GSKInv
  <1>2. InnerOwned' /\ inner' \in [Ctx -> [Library -> Inner]] /\ alive' \in [Library -> Nat]
    <2>1. \A l \in Library : NoInner[l] = "none" /\ Released(c, l) \in Int /\ alive[l] \in Int
      BY <1>1, Types DEF Released, TypeOK
    <2>2. alive' \in [Library -> Int]
      BY <2>1
    <2>3. \A l \in Library :
            alive'[l] = (alive[l] - Released(c, l)) + (IF NoInner[l] = "none" THEN 0 ELSE 1)
      BY <2>1
    <2>4. NoInner \in [Library -> Inner] /\ \E l \in Library : NoInner[l] = "none"
      BY <1>1, Types DEF Library
    <2> QED
      BY <1>1, <2>2, <2>3, <2>4, Recount
  <1>s. PICK v, s \in Status :
          rv' = [rv EXCEPT ![c] = v] /\ status' = [status EXCEPT ![c] = s]
    BY DEF Status
  <1>3. TypeOK'
    BY <1>1, <1>2, <1>s DEF TypeOK, Pc
  <1>4. pc'[c] = "none" /\ last'[c] = "none" /\ inner'[c] = NoInner
    BY <1>1 DEF TypeOK
  <1>5. CallSound(c)'
    BY <1>4 DEF CallSound, Empty, Attaching
  <1>6. \A d \in Ctx \ {c} :
          /\ pc'[d] = pc[d] /\ inner'[d] = inner[d] /\ rv'[d] = rv[d]
          /\ status'[d] = status[d] /\ last'[d] = last[d]
    BY <1>1, <1>s DEF TypeOK
  <1> QED
    BY <1>2, <1>3, <1>5, <1>6, OneContext

\* InitReal: a context of the library wanted, or none.
LEMMA Initialized ==
  ASSUME GSKInv, NEW c \in Ctx, InitReal(c)
  PROVE  GSKInv'
  <1> DEFINE lib == wanted[c][1]
  <1>1. TypeOK /\ InnerOwned /\ CallSound(c) /\ lib \in Library
    BY Types DEF GSKInv
  <1>2. pc[c] = "init" /\ Empty(c) /\ Attaching(c) /\ rv[c] = "notinit"
    BY <1>1 DEF InitReal, CallSound
  <1>3. PICK made \in BOOLEAN, s \in Status :
          /\ status' = [status EXCEPT ![c] = s]
          /\ inner' = IF made THEN [inner EXCEPT ![c][lib] = "init"] ELSE inner
          /\ alive' = IF made THEN [alive EXCEPT ![lib] = @ + 1] ELSE alive
          /\ Goto(c, AfterInit(made, wanted[c][2]))
          /\ wanted' = IF AfterInit(made, wanted[c][2]) = "libs"
                       THEN [wanted EXCEPT ![c] = <<Other(lib), 2>>]
                       ELSE [wanted EXCEPT ![c] = <<"N", 1>>]
    BY DEF InitReal
  <1>4. UNCHANGED <<switches, env, prefer, rv, last>>
    BY DEF InitReal
  <1>5. /\ InnerOwned' /\ inner' \in [Ctx -> [Library -> Inner]] /\ alive' \in [Library -> Nat]
        /\ \A l \in Library : inner'[c][l] # "attached"
        /\ \A d \in Ctx \ {c} : inner'[d] = inner[d]
        /\ ~made => inner'[c] = NoInner
    <2>1. CASE made
      <3> DEFINE in == [inner[c] EXCEPT ![lib] = "init"]
      <3>1. /\ in \in [Library -> Inner] /\ in[lib] = "init"
            /\ \A l \in Library \ {lib} : in[l] = "none"
        BY <1>1, <1>2, Types DEF Inner
      <3>2. \E l \in Library : in[l] = "none"
        BY <1>1, <3>1 DEF Library
      <3>3. inner' = [inner EXCEPT ![c] = in]
        BY <1>1, <1>3, <2>1 DEF TypeOK
      <3>4. alive' = [alive EXCEPT ![lib] = alive[lib] + 1]
        BY <1>1, <1>3, <2>1 DEF TypeOK
      <3>5. alive' \in [Library -> Int] /\ \A l \in Library :
              alive'[l] = (alive[l] - Released(c, l)) + (IF in[l] = "none" THEN 0 ELSE 1)
        <4>1. \A l \in Library : Released(c, l) = 0
          BY <1>1, <1>2, Types DEF Released
        <4> QED
          BY <1>1, <3>1, <3>4, <4>1 DEF TypeOK
      <3> HIDE DEF in
      <3>6. InnerOwned' /\ inner' \in [Ctx -> [Library -> Inner]] /\ alive' \in [Library -> Nat]
        BY <1>1, <3>1, <3>2, <3>3, <3>5, Recount
      <3>7. inner'[c] = in /\ \A d \in Ctx \ {c} : inner'[d] = inner[d]
        BY <1>1, <3>3 DEF TypeOK
      <3>8. \A l \in Library : inner'[c][l] # "attached"
        BY <3>1, <3>7
      <3> QED
        BY <2>1, <3>6, <3>7, <3>8
    <2>2. CASE ~made
      <3>1. inner' = inner /\ alive' = alive
        BY <1>3, <2>2
      <3>2. InnerOwned'
        BY <1>1, <3>1, Kept
      <3> QED
        BY <1>1, <1>2, <3>1, <3>2, Types DEF TypeOK, Empty
    <2> QED
      BY <2>1, <2>2
  <1>6. /\ pc' = [pc EXCEPT ![c] = AfterInit(made, wanted[c][2])]
        /\ AfterInit(made, wanted[c][2]) \in {"libs", "env"}
        /\ AfterInit(made, wanted[c][2]) = "libs" => ~made
    BY <1>3 DEF Goto, AfterInit
  <1>7. TypeOK'
    <2>1. Other(lib) \in Library /\ "N" \in Library
      BY DEF Other, Library
    <2>2. wanted' \in [Ctx -> Library \X {1, 2}]
      BY <1>1, <1>3, <2>1 DEF TypeOK
    <2>3. pc' \in [Ctx -> Pc] /\ status' \in [Ctx -> Status]
      BY <1>1, <1>3, <1>6 DEF TypeOK, Pc
    <2> QED
      BY <1>1, <1>4, <1>5, <2>2, <2>3 DEF TypeOK, switches
  <1>8. CallSound(c)'
    BY <1>1, <1>2, <1>4, <1>5, <1>6 DEF TypeOK, CallSound, Empty, Attaching
  <1>9. \A d \in Ctx \ {c} :
          /\ pc'[d] = pc[d] /\ inner'[d] = inner[d] /\ rv'[d] = rv[d]
          /\ status'[d] = status[d] /\ last'[d] = last[d]
    BY <1>1, <1>3, <1>4, <1>5, <1>6 DEF TypeOK
  <1> QED
    BY <1>5, <1>7, <1>8, <1>9, OneContext

\* The end of ICC_Attach: attached, refused and cleaned up, or nothing there.
LEMMA InnerAttached ==
  ASSUME GSKInv, NEW c \in Ctx, AttachInner(c)
  PROVE  GSKInv'
  <1> DEFINE lib == Chosen(c)
  <1>1. TypeOK /\ InnerOwned /\ CallSound(c) /\ lib \in Library
    BY DEF GSKInv, Chosen, Library
  <1>2. pc[c] = "attach" /\ Attaching(c) /\ rv[c] = "notinit"
        /\ \A l \in Library : inner[c][l] # "attached"
    BY <1>1 DEF AttachInner, CallSound
  <1>3. /\ pc' = [pc EXCEPT ![c] = "idle"]
        /\ UNCHANGED <<switches, env, prefer, wanted, last>>
    BY DEF AttachInner, Goto
  <1>4. \/ /\ ~Empty(c) /\ \E s \in Good : Says(c, s, s)
           /\ inner' = [inner EXCEPT ![c][lib] = "attached"] /\ alive' = alive
        \/ ~Empty(c) /\ Says(c, "error", "error") /\ Refused(c, lib)
        \/ Empty(c) /\ NothingToAttach(c) /\ inner' = inner /\ alive' = alive
    BY DEF AttachInner
  <1>5. ~Empty(c) => inner[c][lib] # "none" /\ \A l \in Library \ {lib} : inner[c][l] = "none"
    BY <1>1, Types DEF Chosen, Library, InnerOwned
  <1>6. PICK v, s \in Status :
          rv' = [rv EXCEPT ![c] = v] /\ status' = [status EXCEPT ![c] = s]
    <2>1. CASE Empty(c)
      <3>1. status[c] = "ok"
        BY <1>1, <1>2, <2>1 DEF CallSound
      <3> QED
        BY <1>4, <2>1, <3>1 DEF NothingToAttach, Says, Status
    <2>2. CASE ~Empty(c)
      BY <1>4, <2>2 DEF Says, Status, Good
    <2> QED
      BY <2>1, <2>2
  <1>7. /\ InnerOwned' /\ inner' \in [Ctx -> [Library -> Inner]] /\ alive' \in [Library -> Nat]
        /\ \A d \in Ctx \ {c} : inner'[d] = inner[d]
        /\ v \in Good <=> s \in Good
        /\ v \in Good <=> \E l \in Library : inner'[c][l] = "attached"
    <2>1. ASSUME ~Empty(c), NEW new \in {"attached", "none"},
                 inner' = [inner EXCEPT ![c][lib] = new],
                 alive' = IF new = "none" THEN [alive EXCEPT ![lib] = alive[lib] - 1] ELSE alive
          PROVE  /\ InnerOwned' /\ inner' \in [Ctx -> [Library -> Inner]]
                 /\ alive' \in [Library -> Nat] /\ \A d \in Ctx \ {c} : inner'[d] = inner[d]
                 /\ inner'[c][lib] = new /\ \A l \in Library \ {lib} : inner'[c][l] = "none"
      <3> DEFINE in == [inner[c] EXCEPT ![lib] = new]
      <3>1. /\ in \in [Library -> Inner] /\ in[lib] = new
            /\ \A l \in Library \ {lib} : in[l] = "none"
        BY <1>1, <1>5, <2>1, Types DEF Inner
      <3>2. \E l \in Library : in[l] = "none"
        BY <1>1, <3>1 DEF Library
      <3>3. inner' = [inner EXCEPT ![c] = in]
        BY <1>1, <2>1 DEF TypeOK
      <3>4. alive' \in [Library -> Int] /\ \A l \in Library :
              alive'[l] = (alive[l] - Released(c, l)) + (IF in[l] = "none" THEN 0 ELSE 1)
        <4>1. \A l \in Library : Released(c, l) = IF l = lib THEN 1 ELSE 0
          BY <1>1, <1>5, <2>1 DEF Released
        <4>2. alive \in [Library -> Nat]
          BY <1>1 DEF TypeOK
        <4> QED
          BY <1>1, <2>1, <3>1, <4>1, <4>2
      <3> HIDE DEF in
      <3>5. InnerOwned' /\ inner' \in [Ctx -> [Library -> Inner]] /\ alive' \in [Library -> Nat]
        BY <1>1, <3>1, <3>2, <3>3, <3>4, Recount
      <3>6. inner'[c] = in /\ \A d \in Ctx \ {c} : inner'[d] = inner[d]
        BY <1>1, <3>3 DEF TypeOK
      <3> QED
        BY <3>1, <3>5, <3>6
    <2>2. rv'[c] = v /\ status'[c] = s
      BY <1>1, <1>6 DEF TypeOK
    <2>3. CASE ~Empty(c) /\ \E g \in Good : Says(c, g, g)
               /\ inner' = [inner EXCEPT ![c][lib] = "attached"] /\ alive' = alive
      <3>1. v \in Good /\ s \in Good
        BY <1>1, <2>2, <2>3 DEF Says, TypeOK
      <3>2. /\ InnerOwned' /\ inner' \in [Ctx -> [Library -> Inner]]
            /\ alive' \in [Library -> Nat] /\ \A d \in Ctx \ {c} : inner'[d] = inner[d]
            /\ inner'[c][lib] = "attached"
        BY <2>1, <2>3
      <3> QED
        BY <1>1, <3>1, <3>2
    <2>4. CASE ~Empty(c) /\ Says(c, "error", "error") /\ Refused(c, lib)
      <3>1. v \notin Good /\ s \notin Good
        BY <1>1, <2>2, <2>4 DEF Says, TypeOK, Good
      <3>2. /\ inner' = [inner EXCEPT ![c][lib] = "none"]
            /\ alive' = [alive EXCEPT ![lib] = alive[lib] - 1]
        BY <1>1, <2>4 DEF Refused, Cleaned, TypeOK
      <3>3. /\ InnerOwned' /\ inner' \in [Ctx -> [Library -> Inner]]
            /\ alive' \in [Library -> Nat] /\ \A d \in Ctx \ {c} : inner'[d] = inner[d]
            /\ inner'[c][lib] = "none" /\ \A l \in Library \ {lib} : inner'[c][l] = "none"
        BY <2>1, <2>4, <3>2
      <3> QED
        BY <1>1, <3>1, <3>3
    <2>5. CASE Empty(c) /\ NothingToAttach(c) /\ inner' = inner /\ alive' = alive
      <3>1. status[c] = "ok"
        BY <1>1, <1>2, <2>5 DEF CallSound
      <3>2. v \notin Good /\ s \notin Good
        BY <1>1, <2>2, <2>5, <3>1 DEF NothingToAttach, Says, TypeOK, Good
      <3>3. InnerOwned'
        BY <1>1, <2>5, Kept
      <3> QED
        BY <1>1, <1>2, <2>5, <3>2, <3>3 DEF TypeOK
    <2> QED
      BY <1>4, <2>3, <2>4, <2>5
  <1>8. TypeOK'
    BY <1>1, <1>3, <1>6, <1>7 DEF TypeOK, Pc, switches
  <1>9. CallSound(c)'
    <2>1. pc'[c] = "idle" /\ rv'[c] = v /\ status'[c] = s
      BY <1>1, <1>3, <1>6 DEF TypeOK
    <2> QED
      BY <1>7, <2>1 DEF CallSound
  <1>10. \A d \in Ctx \ {c} :
          /\ pc'[d] = pc[d] /\ inner'[d] = inner[d] /\ rv'[d] = rv[d]
          /\ status'[d] = status[d] /\ last'[d] = last[d]
    BY <1>1, <1>3, <1>6, <1>7 DEF TypeOK
  <1> QED
    BY <1>7, <1>8, <1>9, <1>10, OneContext

-----------------------------------------------------------------------------
(***************************************************************************)
(* The invariant of the wrapper: contexts of the libraries are counted     *)
(* exactly, and every call is where its context and its answer say, for    *)
(* any finite number of contexts and whatever the environment and the      *)
(* libraries do.                                                           *)
(***************************************************************************)
THEOREM WrapperInvariant == Spec => []GSKInv
  <1>1. Init => GSKInv
    <2> SUFFICES ASSUME Init PROVE GSKInv
      OBVIOUS
    <2>1. inner \in [Ctx -> [Library -> Inner]] /\ \A c \in Ctx : Empty(c)
      BY DEF Init, NoInner, Inner, Empty
    <2>2. alive \in [Library -> Nat] /\ \A l \in Library : alive[l] = 0
      BY DEF Init
    <2>3. TypeOK
      BY <2>1, <2>2 DEF Init, TypeOK, Pc, Status, Library
    <2>4. InnerOwned
      <3>1. \A l \in Library : {c \in Ctx : inner[c][l] # "none"} = {}
        BY DEF Init, NoInner
      <3>2. \A c \in Ctx : \E l \in Library : inner[c][l] = "none"
        BY DEF Init, NoInner, Library
      <3> QED
        BY <2>2, <3>1, <3>2, FS_EmptySet DEF InnerOwned
    <2>5. \A c \in Ctx : CallSound(c)
      BY <2>1 DEF Init, CallSound, Attaching
    <2> QED
      BY <2>3, <2>4, <2>5 DEF GSKInv
  <1>2. GSKInv /\ [Next]_vars => GSKInv'
    <2>1. ASSUME GSKInv, Next PROVE GSKInv'
      BY <2>1, WrapperMade, AttachBegins, SetValueBegins, ValueGot, WrapperGone,
         LibsChecked, LibsRead, Initialized, EnvChecked, EnvRead, FipsSet, LibsSet,
         OtherSet, InnerAttached DEF Next, Calls, Steps
    <2>2. ASSUME GSKInv, UNCHANGED vars PROVE GSKInv'
      BY <2>2 DEF vars, switches, answer, GSKInv, TypeOK, InnerOwned, CallSound, Empty, Attaching
    <2> QED
      BY <2>1, <2>2
  <1> QED
    BY <1>1, <1>2, PTL DEF Spec

(***************************************************************************)
(* Every variable of GSKWrap keeps its type; no count of contexts goes     *)
(* below zero (ICC_Cleanup and the failures of ICC_Attach, gsk_wrap2.c).   *)
(***************************************************************************)
THEOREM TypeCorrect == Spec => []TypeOK
  <1>1. GSKInv => TypeOK
    BY DEF GSKInv
  <1> QED
    BY <1>1, WrapperInvariant, PTL

(***************************************************************************)
(* ICC_Attach, which may fail at four places and be called again, loses no *)
(* context of a library, and ICC_Cleanup releases all.                     *)
(***************************************************************************)
THEOREM NothingLost == Spec => []InnerOwned
  <1>1. GSKInv => InnerOwned
    BY DEF GSKInv
  <1> QED
    BY <1>1, WrapperInvariant, PTL

(***************************************************************************)
(* The return code of ICC_Attach, its status and the context agree.        *)
(***************************************************************************)
THEOREM AttachTellsTruth == Spec => []AttachAnswers
  <1>1. GSKInv => AttachAnswers
    BY DEF GSKInv, CallSound, AttachAnswers, Attaching
  <1> QED
    BY <1>1, WrapperInvariant, PTL
=============================================================================
