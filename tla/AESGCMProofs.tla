--------------------------- MODULE AESGCMProofs ---------------------------
(***************************************************************************)
(* Proofs about AESGCM: no nonce encrypts two messages under one key, and  *)
(* a generator issues no IV twice before it has counted round.             *)
(***************************************************************************)
EXTENDS AESGCM, TLAPS

-----------------------------------------------------------------------------
(***************************************************************************)
(* The shape of a context.                                                 *)
(***************************************************************************)

\* The fields that are set when others are.
Fields ==
  /\ evp.made <=> iv # NoIV
  /\ iv = NoIV => evp.len = "short"
  /\ init # 0 => key # NoKey /\ iv # NoIV
  /\ init = 1 => evp.len = iv.len
  /\ evp.nonce # NoIV => init = 1 /\ evp.key # NoKey
  /\ init = 1 => evp.key = key

\* A context that generates does nothing else.
Apart == ivInit => mode = "plain" /\ iv = NoIV /\ key = NoKey

\* A context in a TLS mode; its counter starts with the second IV.
InTLS ==
  /\ mode # "plain" => /\ iv # NoIV => iv.len = "short"
                       /\ evp.len = "short"
  /\ ~ivInit /\ (iv = NoIV \/ mode = "plain") => counter = 0

\* The place of an n in the sequence that a TLS mode enforces.
Number(n) == IF mode = "TLS12" THEN n ELSE BitXor(mask, n)

\* The context may encrypt with its IV when OpenSSL's is not initialized.
Armed ==
  /\ init = 0 /\ rv = 1 /\ iv # NoIV /\ key # NoKey
  /\ mode # "plain" => counter > 0

\* OpenSSL's context has a nonce that has not encrypted yet.
Unspent == evp.nonce # NoIV /\ evp.dir = "encrypt" /\ ~evp.data

\* In a TLS mode the counter is past all that was encrypted under the key, past
\* the IV in the context unless it was refused, and past OpenSSL's nonce.
Counted ==
  mode # "plain" =>
    /\ key # NoKey => \A m \in msgs : m[1] = key => Number(m[2].n) < counter
    /\ ~refused /\ counter > 0 /\ iv # NoIV => Number(iv.n) < counter
    /\ evp.nonce # NoIV => Number(evp.nonce.n) < counter
    /\ Armed => ~refused
    /\ init # 0 => counter > 0

\* The next message has a nonce of its own, or one the application asked for.
Fresh ==
  /\ Unspent => <<evp.key, evp.nonce>> \notin msgs
  /\ Armed => <<key, iv>> \notin msgs

\* How many calls ago the counter was x.
Ago(x) == IF x <= counter THEN counter - x ELSE counter + N - x

\* What was issued since the last drawing lies close behind the counter.
Behind == count > 0 => \A n \in issued : Ago(BitXor(n, mask)) < count

\* mask is fixed while the generator counts.
IssueInv ==
  /\ Behind /\ IssuedOnce
  /\ ~ivInit => count = 0

-----------------------------------------------------------------------------
(***************************************************************************)
(* Arithmetic and records.                                                 *)
(***************************************************************************)
LEMMA NextModulo ==
  ASSUME NEW n \in Nat, NEW a \in 0 .. n - 1
  PROVE  (a + 1) % n = IF a + 1 = n THEN 0 ELSE a + 1
  OBVIOUS

LEMMA NonceIsIV ==
  ASSUME NEW v \in IV, NEW len \in {"short", "long"}, v.len = len
  PROVE  Nonce(v, len) = v
  BY DEF Nonce, IV

LEMMA IVFields ==
  ASSUME NEW v \in IV
  PROVE  v.n \in Value /\ v.len \in {"short", "long"}
  BY AESGCMAssumption DEF IV

LEMMA XorIn ==
  ASSUME NEW a \in Value, NEW m \in Value
  PROVE  BitXor(a, m) \in Value
  BY AESGCMAssumption

LEMMA NonceType ==
  ASSUME NEW v \in IV, NEW len \in {"short", "long"}
  PROVE  Nonce(v, len) \in IV
  BY AESGCMAssumption DEF Nonce, IV

-----------------------------------------------------------------------------
(***************************************************************************)
(* The types, in parts.                                                    *)
(***************************************************************************)
FlagTypes ==
  /\ enc \in BOOLEAN /\ ivInit \in BOOLEAN /\ refused \in BOOLEAN
  /\ reused \in BOOLEAN /\ again \in BOOLEAN

ContextTypes ==
  /\ mode \in {"plain", "TLS12", "TLS13"}
  /\ iv \in IV \cup {NoIV} /\ key \in Key \cup {NoKey}
  /\ init \in 0 .. 2 /\ rv \in {0, 1}

CounterTypes == counter \in Value /\ mask \in Value /\ count \in 0 .. Wrap - 1

EVPType ==
  /\ evp.made \in BOOLEAN /\ evp.data \in BOOLEAN
  /\ evp.len \in {"short", "long"} /\ evp.dir \in {"none", "encrypt", "decrypt"}
  /\ evp.key \in Key \cup {NoKey} /\ evp.nonce \in IV \cup {NoIV}
  /\ evp = [made |-> evp.made, len |-> evp.len, dir |-> evp.dir, key |-> evp.key,
            nonce |-> evp.nonce, data |-> evp.data]

HistoryTypes ==
  msgs \subseteq Key \X IV /\ issued \subseteq Value

LEMMA TypeParts ==
  TypeOK <=> FlagTypes /\ ContextTypes /\ CounterTypes /\ EVPType /\ HistoryTypes
  <1>1. EVPType <=> evp \in [made : BOOLEAN, len : {"short", "long"},
                             dir : {"none", "encrypt", "decrypt"}, key : Key \cup {NoKey},
                             nonce : IV \cup {NoIV}, data : BOOLEAN]
    BY DEF EVPType
  <1> QED
    BY <1>1 DEF TypeOK, FlagTypes, ContextTypes, CounterTypes, HistoryTypes

LEMMA TypePartsNow ==
  TypeOK' => CounterTypes'
  BY TypeParts, PTL

LEMMA TypePartsNext ==
  FlagTypes' /\ ContextTypes' /\ CounterTypes' /\ EVPType' /\ HistoryTypes' => TypeOK'
  BY TypeParts, PTL

-----------------------------------------------------------------------------
(***************************************************************************)
(* The shape of a context, action by action.                               *)
(***************************************************************************)
ShapeInv == TypeOK /\ Fields /\ Apart /\ InTLS

\* The initial state, and a new context.
LEMMA ShapeInit ==
  ASSUME Init
  PROVE  ShapeInv
  <1> USE AESGCMAssumption DEF Init, NoEVP
  <1>1. FlagTypes
    BY DEF FlagTypes
  <1>2. ContextTypes
    BY DEF ContextTypes
  <1>3. CounterTypes
    BY DEF CounterTypes, Value
  <1>4. EVPType
    BY DEF EVPType
  <1>5. HistoryTypes
    BY DEF HistoryTypes
  <1>6. Fields
    BY DEF Fields
  <1>7. Apart /\ InTLS
    BY DEF Apart, InTLS
  <1> QED
    BY <1>1, <1>2, <1>3, <1>4, <1>5, <1>6, <1>7, TypeParts DEF ShapeInv

LEMMA ShapeRenew ==
  ASSUME ShapeInv, Renew
  PROVE  ShapeInv'
  <1> USE AESGCMAssumption, TypeParts DEF Renew, NoEVP, ShapeInv
  <1>1. FlagTypes'
    BY DEF FlagTypes
  <1>2. ContextTypes'
    BY DEF ContextTypes
  <1>3. CounterTypes'
    BY DEF CounterTypes, Value
  <1>4. EVPType'
    BY DEF EVPType
  <1>5. HistoryTypes'
    BY DEF HistoryTypes
  <1>6. Fields'
    BY DEF Fields
  <1>7. Apart' /\ InTLS'
    BY DEF Apart, InTLS
  <1> QED
    BY <1>1, <1>2, <1>3, <1>4, <1>5, <1>6, <1>7, TypePartsNext

\* AES_GCM_CTX_ctrl, on a context without key and IV.
LEMMA ShapeCtrl ==
  ASSUME ShapeInv, Ctrl
  PROVE  ShapeInv'
  <1> USE TypeParts DEF Ctrl, stored, genVars, ShapeInv
  <1>1. FlagTypes'
    BY DEF FlagTypes
  <1>2. ContextTypes'
    BY DEF ContextTypes
  <1>3. CounterTypes'
    BY DEF CounterTypes
  <1>4. EVPType'
    BY DEF EVPType
  <1>5. HistoryTypes'
    BY DEF HistoryTypes
  <1>6. Fields'
    BY DEF Fields
  <1>7. Apart' /\ InTLS'
    BY DEF Apart, InTLS, Fields
  <1> QED
    BY <1>1, <1>2, <1>3, <1>4, <1>5, <1>6, <1>7, TypePartsNext

\* AES_GCM_Init: what it does to the fields, and what the application gave.
LEMMA InitFacts ==
  ASSUME ShapeInv, NEW v \in IV \cup {NoIV}, NEW k \in Key \cup {NoKey},
         ~ivInit, Counting, MayGive(v, k), AES_GCM_Init(v, k)
  PROVE  /\ key' \in Key \cup {NoKey} /\ iv' \in IV \cup {NoIV}
         /\ counter' \in Value /\ mask' \in Value /\ rv' \in {0, 1}
         /\ refused' \in BOOLEAN
         /\ iv' = NoIV => iv = NoIV
         /\ key' = NoKey => key = NoKey
         /\ rv' = 1 => key' # NoKey
         /\ k # NoKey => rv' = 1
         /\ iv = NoIV => counter' = counter
         /\ mode = "plain" => counter' = counter
  <1> USE AESGCMAssumption DEF ShapeInv
  <1>1. key' \in Key \cup {NoKey} /\ (key' = NoKey => key = NoKey)
    BY TypeParts DEF AES_GCM_Init, ContextTypes
  <1>2. iv' \in IV \cup {NoIV} /\ (iv' = NoIV => iv = NoIV)
    BY TypeParts DEF AES_GCM_Init, ContextTypes
  <1>3. PICK old \in (IF v = NoIV THEN {iv} ELSE Compared(v)) :
          /\ counter' = IF Rollover(v, k) /\ Counts(old, v) THEN (counter + 1) % N ELSE counter
          /\ rv' = Result(Rollover(v, k) => Accepts(old, v), key')
          /\ refused' = IF v = NoIV THEN refused ELSE ~(Rollover(v, k) => Accepts(old, v))
    BY Zenon DEF AES_GCM_Init
  <1>4. counter \in 0 .. N - 1 /\ mask \in Value /\ (counter + 1) % N \in Value
    <2>1. counter \in 0 .. N - 1 /\ mask \in Value /\ N \in Nat
      BY TypeParts DEF CounterTypes, Value
    <2>2. (counter + 1) % N = IF counter + 1 = N THEN 0 ELSE counter + 1
      BY <2>1, NextModulo
    <2> QED
      BY <2>1, <2>2 DEF Value
  <1>5. counter' \in Value
    BY <1>3, <1>4 DEF Value
  <1>6. mask' \in Value
    BY <1>4, IVFields DEF AES_GCM_Init
  <1>7. rv' \in {0, 1} /\ (rv' = 1 => key' # NoKey)
    BY <1>3 DEF Result
  <1>a. k # NoKey => rv' = 1
    <2>1. k # NoKey => key' = k /\ ~Rollover(v, k)
      BY DEF AES_GCM_Init, Rollover
    <2> QED
      BY <1>3, <2>1 DEF Result
  <1>8. iv = NoIV => counter' = counter
    BY <1>3 DEF Rollover, Fields
  <1>b. refused' \in BOOLEAN
    BY <1>3, TypeParts DEF FlagTypes
  <1>9. mode = "plain" => counter' = counter
    BY <1>3 DEF Counts
  <1> QED
    BY <1>1, <1>2, <1>5, <1>6, <1>7, <1>8, <1>9, <1>a, <1>b

LEMMA ShapeCallInit ==
  ASSUME ShapeInv, CallInit
  PROVE  ShapeInv'
  <1>1. PICK v \in IV \cup {NoIV}, k \in Key \cup {NoKey} :
          ~ivInit /\ Counting /\ MayGive(v, k) /\ AES_GCM_Init(v, k)
    BY DEF CallInit
  <1>2. /\ key' \in Key \cup {NoKey} /\ iv' \in IV \cup {NoIV}
        /\ counter' \in Value /\ mask' \in Value /\ rv' \in {0, 1}
        /\ refused' \in BOOLEAN
        /\ iv' = NoIV => iv = NoIV
        /\ key' = NoKey => key = NoKey
        /\ rv' = 1 => key' # NoKey
        /\ k # NoKey => rv' = 1
        /\ iv = NoIV => counter' = counter
        /\ mode = "plain" => counter' = counter
    BY <1>1, InitFacts
  <1>3. /\ UNCHANGED <<mode, enc, count, ivInit, issued, again, reused>>
        /\ key' = IF k = NoKey THEN key ELSE k
        /\ iv' = IF v = NoIV THEN iv ELSE v
        /\ msgs' \subseteq msgs
    BY <1>1 DEF AES_GCM_Init, genVars
  <1> USE AESGCMAssumption, TypeParts DEF ShapeInv
  <1>4. FlagTypes'
    BY <1>2, <1>3 DEF FlagTypes
  <1>5. HistoryTypes'
    BY <1>3 DEF HistoryTypes
  <1>6. CounterTypes'
    BY <1>2, <1>3 DEF CounterTypes
  <1>7. Apart'
    BY <1>1, <1>3 DEF Apart
  <1>8. ContextTypes' /\ EVPType' /\ Fields' /\ InTLS'
    <2>1. CASE rv' = 1 /\ iv' # NoIV /\ init = 1
      <3>1. /\ evp' = [EVPInit(IF enc THEN "encrypt" ELSE "decrypt", iv', evp.len)
                         EXCEPT !.key = key']
            /\ init' = init
        BY <1>1, <2>1 DEF AES_GCM_Init
      <3>2. evp.len \in {"short", "long"} /\ iv'.len = evp.len
        <4>1. iv # NoIV /\ evp.len = iv.len /\ evp.len \in {"short", "long"}
          BY <2>1 DEF Fields, EVPType
        <4>2. mode \in {"plain", "TLS12", "TLS13"}
          BY DEF ContextTypes
        <4> QED
          BY <1>1, <1>3, <2>1, <4>1, <4>2 DEF MayGive, InTLS
      <3>3. Nonce(iv', evp.len) = iv'
        BY <1>2, <2>1, <3>2, NonceIsIV
      <3>4. evp' = [made |-> TRUE, len |-> evp.len,
                    dir |-> IF enc THEN "encrypt" ELSE "decrypt",
                    key |-> key', nonce |-> iv', data |-> FALSE]
        BY <3>1, <3>3 DEF EVPInit, EVPType
      <3>5. ContextTypes'
        BY <1>2, <1>3, <3>1 DEF ContextTypes
      <3>6. EVPType'
        BY <1>2, <3>2, <3>4 DEF EVPType
      <3>7. Fields'
        BY <1>2, <2>1, <3>1, <3>2, <3>4 DEF Fields
      <3>9. InTLS'
        BY <1>1, <1>2, <1>3, <3>1, <3>2, <3>4 DEF InTLS, MayGive
      <3> QED
        BY <3>5, <3>6, <3>7, <3>9
    <2>2. CASE ~(rv' = 1 /\ iv' # NoIV /\ init = 1)
      <3>1. /\ evp' = [evp EXCEPT !.made = @ \/ iv' # NoIV]
            /\ init' = IF rv' = 1 THEN 0 ELSE init
        BY <1>1, <2>2 DEF AES_GCM_Init
      <3>2. evp' = [made |-> evp.made \/ iv' # NoIV, len |-> evp.len, dir |-> evp.dir,
                    key |-> evp.key, nonce |-> evp.nonce, data |-> evp.data]
        BY <3>1 DEF EVPType
      <3>3. ContextTypes'
        BY <1>2, <1>3, <3>1 DEF ContextTypes
      <3>4. EVPType'
        BY <3>2 DEF EVPType
      <3>5. Fields'
        <4>1. init' = 1 => rv' # 1 /\ init = 1 /\ key' = key
          BY <1>2, <1>3, <3>1
        <4>2. init' = 1 => iv'.len = evp.len
          <5>1. mode = "plain" /\ init = 1 => iv'.len = evp.len
            BY <1>1, <1>3 DEF Fields, MayGive
          <5>2. mode # "plain" /\ init = 1 => iv'.len = evp.len
            BY <1>1, <1>3 DEF Fields, MayGive, InTLS
          <5> QED
            BY <4>1, <5>1, <5>2
        <4>3. (evp'.made <=> iv' # NoIV) /\ (iv' = NoIV => evp'.len = "short")
          BY <1>2, <3>2 DEF Fields
        <4>4. init' # 0 => key' # NoKey /\ iv' # NoIV
          BY <1>2, <3>1 DEF Fields
        <4>5. evp'.nonce # NoIV => init' = 1 /\ evp'.key # NoKey
          BY <1>2, <2>2, <3>1, <3>2 DEF Fields
        <4> QED
          BY <3>2, <4>1, <4>2, <4>3, <4>4, <4>5 DEF Fields
      <3>7. InTLS'
        BY <1>1, <1>2, <1>3, <3>1, <3>2 DEF InTLS, MayGive
      <3> QED
        BY <3>3, <3>4, <3>5, <3>7
    <2> QED
      BY <2>1, <2>2
  <1> QED
    BY <1>4, <1>5, <1>6, <1>7, <1>8, TypePartsNext

\* OpenSSL's context when a message is continued or begun.
LEMMA BegunFacts ==
  ASSUME ShapeInv, MayUse, NEW dir \in {"encrypt", "decrypt"}
  PROVE  /\ iv \in IV /\ key \in Key /\ ~ivInit /\ init \in 0 .. 2
         /\ Begun(dir).made = TRUE /\ Begun(dir).data \in BOOLEAN
         /\ Begun(dir).len \in {"short", "long"}
         /\ Begun(dir).dir \in {"none", "encrypt", "decrypt"}
         /\ Begun(dir).key \in Key \cup {NoKey}
         /\ Begun(dir).nonce \in IV \cup {NoIV}
         /\ Begun(dir) = [made |-> Begun(dir).made, len |-> Begun(dir).len,
                          dir |-> Begun(dir).dir, key |-> Begun(dir).key,
                          nonce |-> Begun(dir).nonce, data |-> Begun(dir).data]
         /\ init # 2 => Begun(dir).len = iv.len /\ Begun(dir).key = key
         /\ init = 0 => Begun(dir).nonce = iv /\ Begun(dir).dir = dir
                        /\ Begun(dir).data = FALSE
         /\ init # 0 => Begun(dir) = evp
         /\ Begun(dir).nonce # NoIV => init # 2
         /\ mode # "plain" => Begun(dir).len = "short"
  <1> USE TypeParts DEF ShapeInv
  <1>1. iv \in IV /\ key \in Key /\ iv.len \in {"short", "long"}
    BY IVFields DEF MayUse, Fields, ContextTypes
  <1>2. ~ivInit /\ init \in 0 .. 2
    BY <1>1, AESGCMAssumption DEF Apart, ContextTypes
  <1>3. CASE init = 0
    <2>1. Nonce(iv, iv.len) = iv
      BY <1>1, NonceIsIV
    <2>2. Begun(dir) = [made |-> TRUE, len |-> iv.len, dir |-> dir, key |-> key,
                        nonce |-> iv, data |-> FALSE]
      BY <1>3, <2>1 DEF Begun, EVPInit, EVPType
    <2>3. mode # "plain" => iv.len = "short"
      BY <1>1, <1>3 DEF InTLS, MayUse, Fields
    <2> QED
      BY <1>1, <1>2, <1>3, <2>2, <2>3
  <1>4. CASE init # 0
    <2>1. Begun(dir) = evp
      BY <1>4 DEF Begun
    <2>2. evp.made = TRUE /\ evp.data \in BOOLEAN
      BY DEF MayUse, EVPType
    <2>3. /\ evp.len \in {"short", "long"}
          /\ evp.dir \in {"none", "encrypt", "decrypt"}
          /\ evp.key \in Key \cup {NoKey} /\ evp.nonce \in IV \cup {NoIV}
          /\ evp = [made |-> evp.made, len |-> evp.len, dir |-> evp.dir,
                    key |-> evp.key, nonce |-> evp.nonce, data |-> evp.data]
      BY DEF EVPType
    <2>4. /\ init # 2 => evp.len = iv.len /\ evp.key = key
          /\ evp.nonce # NoIV => init # 2
          /\ mode # "plain" => evp.len = "short"
      BY <1>2, <1>4 DEF Fields, InTLS
    <2> QED
      BY <1>1, <1>2, <1>4, <2>1, <2>2, <2>3, <2>4
  <1> QED
    BY <1>3, <1>4

\* A call of a message keeps the shape: it leaves a nonce only in a message.
LEMMA UseKeepsShape ==
  ASSUME ShapeInv, MayUse, NEW dir \in {"encrypt", "decrypt"}, NEW d \in BOOLEAN,
         NEW n \in {Begun(dir).nonce, NoIV},
         evp' = [made |-> TRUE, len |-> Begun(dir).len, dir |-> Begun(dir).dir,
                 key |-> Begun(dir).key, nonce |-> n, data |-> d],
         init' \in {1, 2}, init' = 1 => init # 2, n # NoIV => init' = 1,
         rv' \in {0, 1}, enc' \in BOOLEAN, reused' \in BOOLEAN,
         \A m \in msgs' : m \in msgs \/ (m = <<key, Begun(dir).nonce>>
                                         /\ Begun(dir).nonce # NoIV),
         UNCHANGED <<mode, iv, key, counter, mask, genVars, refused>>
  PROVE  ShapeInv'
  <1> DEFINE e == Begun(dir)
  <1>1. /\ iv \in IV /\ key \in Key /\ ~ivInit /\ init \in 0 .. 2
        /\ e.made = TRUE /\ e.data \in BOOLEAN
        /\ e.len \in {"short", "long"}
        /\ e.dir \in {"none", "encrypt", "decrypt"}
        /\ e.key \in Key \cup {NoKey}
        /\ e.nonce \in IV \cup {NoIV}
        /\ e = [made |-> e.made, len |-> e.len, dir |-> e.dir, key |-> e.key,
                nonce |-> e.nonce, data |-> e.data]
        /\ init # 2 => e.len = iv.len /\ e.key = key
        /\ e.nonce # NoIV => init # 2
        /\ mode # "plain" => e.len = "short"
    BY BegunFacts
  <1>2. evp' = [made |-> TRUE, len |-> e.len, dir |-> e.dir, key |-> e.key,
                nonce |-> n, data |-> d]
    OBVIOUS
  <1>3. n \in IV \cup {NoIV} /\ (n # NoIV => n = e.nonce)
    BY <1>1
  <1> HIDE DEF e
  <1>g. evp'.made = TRUE
    BY <1>2
  <1>b. /\ evp'.len = e.len /\ evp'.dir = e.dir
        /\ evp'.key = e.key /\ evp'.nonce = n
    BY <1>2
  <1>f. evp'.data = d
    BY <1>2
  <1> USE AESGCMAssumption, TypeParts DEF ShapeInv
  <1>4. FlagTypes'
    BY DEF FlagTypes, genVars
  <1>5. ContextTypes'
    BY DEF ContextTypes
  <1>6. CounterTypes'
    BY DEF CounterTypes, genVars
  <1>a. e.len \in {"short", "long"} /\ e.dir \in {"none", "encrypt", "decrypt"}
        /\ e.key \in Key \cup {NoKey}
    BY <1>1
  <1>c. iv # NoIV /\ key # NoKey /\ ~ivInit /\ iv' = iv /\ key' = key
    BY <1>1
  <1>7. EVPType'
    BY <1>2, <1>3, <1>a, <1>b, <1>f, <1>g DEF EVPType
  <1>8. \A m \in msgs' : m \in msgs \/ (m = <<key, e.nonce>> /\ e.nonce \in IV)
    BY <1>1 DEF e
  <1>9. HistoryTypes'
    BY <1>1, <1>8 DEF HistoryTypes, genVars
  <1>d. init # 2 => e.len = iv.len /\ e.key = key
    BY <1>1
  <1>10. Fields'
    BY <1>b, <1>c, <1>d, <1>g DEF Fields
  <1>12. Apart'
    BY <1>1 DEF Apart, genVars
  <1>e. mode # "plain" => e.len = "short"
    BY <1>1
  <1>13. InTLS'
    BY <1>b, <1>c, <1>e DEF InTLS, genVars
  <1> QED
    BY <1>4, <1>5, <1>6, <1>7, <1>9, <1>10, <1>12, <1>13, TypePartsNext

-----------------------------------------------------------------------------
(***************************************************************************)
(* What the calls of a message have in common: e is OpenSSL's context when *)
(* the call has begun; n and d are what the call leaves as its nonce and   *)
(* its mark of data.                                                       *)
(***************************************************************************)
Uses(dir, n, d) ==
  LET e == Begun(dir) IN
  /\ MayUse
  /\ d \in BOOLEAN /\ n \in {e.nonce, NoIV}
  /\ evp' = [made |-> TRUE, len |-> e.len, dir |-> e.dir, key |-> e.key,
             nonce |-> n, data |-> d]
  /\ init' \in {1, 2} /\ (init' = 1 => init # 2) /\ (n # NoIV => init' = 1)
  /\ rv' \in {0, 1} /\ enc' \in BOOLEAN
  /\ \/ /\ e.nonce # NoIV /\ e.dir = "encrypt" /\ ~e.data
        /\ n = NoIV \/ d = TRUE
        /\ reused' = (reused \/ <<e.key, e.nonce>> \in msgs)
        /\ msgs' = msgs \cup {<<e.key, e.nonce>>}
     \/ /\ n = NoIV \/ d = TRUE \/ d = e.data
        /\ UNCHANGED <<reused, msgs>>
  /\ UNCHANGED <<mode, iv, key, counter, mask, genVars, refused>>

LEMMA UpdateUses ==
  ASSUME ShapeInv, NEW dir \in {"encrypt", "decrypt"}, Update(dir)
  PROVE  \E n \in IV \cup {NoIV}, d \in BOOLEAN : Uses(dir, n, d)
  <1> DEFINE e == Begun(dir)
  <1>1. MayUse
    BY DEF Update
  <1>2. /\ iv \in IV /\ key \in Key /\ init \in 0 .. 2
        /\ e.made = TRUE /\ e.data \in BOOLEAN
        /\ e.nonce \in IV \cup {NoIV}
        /\ e = [made |-> e.made, len |-> e.len, dir |-> e.dir, key |-> e.key,
                nonce |-> e.nonce, data |-> e.data]
        /\ e.nonce # NoIV => init # 2
    BY <1>1, BegunFacts
  <1>3. /\ \/ /\ Ready(e, dir)
              /\ evp' = [e EXCEPT !.data = TRUE]
              /\ Encrypts(e, ~e.data) /\ rv' = 1
           \/ /\ evp' = e /\ rv' \in {0, 1}
              /\ UNCHANGED <<msgs, reused>>
        /\ enc' = IF init = 0 /\ dir = "encrypt" THEN TRUE ELSE enc
        /\ init' = IF init = 0 THEN 1 ELSE init
        /\ UNCHANGED <<mode, iv, key, counter, mask, genVars, refused>>
    BY DEF Update
  <1> HIDE DEF e
  <1>4. enc' \in BOOLEAN
    BY <1>3, TypeParts DEF ShapeInv, FlagTypes
  <1>5. init' \in {1, 2} /\ (init' = 1 => init # 2) /\ (e.nonce # NoIV => init' = 1)
    BY <1>2, <1>3
  <1>6. CASE /\ Ready(e, dir)
             /\ evp' = [e EXCEPT !.data = TRUE]
             /\ Encrypts(e, ~e.data) /\ rv' = 1
    <2>1. evp' = [made |-> TRUE, len |-> e.len, dir |-> e.dir, key |-> e.key,
                  nonce |-> e.nonce, data |-> TRUE]
      BY <1>2, <1>6
    <2>2. Uses(dir, e.nonce, TRUE)
      BY <1>1, <1>3, <1>4, <1>5, <1>6, <2>1 DEF Uses, Encrypts, Ready, e
    <2> QED
      BY <1>2, <2>2
  <1>7. CASE evp' = e /\ rv' \in {0, 1} /\ UNCHANGED <<msgs, reused>>
    <2>1. evp' = [made |-> TRUE, len |-> e.len, dir |-> e.dir, key |-> e.key,
                  nonce |-> e.nonce, data |-> e.data]
      BY <1>2, <1>7
    <2>2. Uses(dir, e.nonce, e.data)
      BY <1>1, <1>2, <1>3, <1>4, <1>5, <1>7, <2>1 DEF Uses, e
    <2> QED
      BY <1>2, <2>2
  <1> QED
    BY <1>3, <1>6, <1>7

LEMMA EncryptFinalUses ==
  ASSUME ShapeInv, EncryptFinal
  PROVE  \E d \in BOOLEAN : Uses("encrypt", NoIV, d)
  <1> DEFINE e == Begun("encrypt")
  <1>1. MayUse
    BY DEF EncryptFinal
  <1>2. /\ e.made = TRUE /\ e.data \in BOOLEAN
        /\ e = [made |-> e.made, len |-> e.len, dir |-> e.dir, key |-> e.key,
                nonce |-> e.nonce, data |-> e.data]
    BY <1>1, BegunFacts
  <1>3. /\ IF Ready(e, "encrypt") THEN Encrypts(e, ~e.data)
           ELSE UNCHANGED <<msgs, reused>>
        /\ evp' = [e EXCEPT !.nonce = NoIV]
        /\ enc' = IF init = 0 THEN TRUE ELSE enc
        /\ init' = 2 /\ rv' = 1
        /\ UNCHANGED <<mode, iv, key, counter, mask, genVars, refused>>
    BY DEF EncryptFinal, Finalized
  <1> HIDE DEF e
  <1>4. enc' \in BOOLEAN
    BY <1>3, TypeParts DEF ShapeInv, FlagTypes
  <1>5. evp' = [made |-> TRUE, len |-> e.len, dir |-> e.dir, key |-> e.key,
                nonce |-> NoIV, data |-> e.data]
    BY <1>2, <1>3
  <1>6. \/ /\ e.nonce # NoIV /\ e.dir = "encrypt" /\ ~e.data
           /\ reused' = (reused \/ <<e.key, e.nonce>> \in msgs)
           /\ msgs' = msgs \cup {<<e.key, e.nonce>>}
        \/ UNCHANGED <<reused, msgs>>
    BY <1>3 DEF Encrypts, Ready
  <1>7. init' = 2 /\ rv' = 1 /\ UNCHANGED <<mode, iv, key, counter, mask, genVars, refused>>
    BY <1>3
  <1>8. e.data \in BOOLEAN
    BY <1>2
  <1>9. Uses("encrypt", NoIV, e.data)
    BY <1>1, <1>4, <1>5, <1>6, <1>7, <1>8 DEF Uses, e
  <1> QED
    BY <1>8, <1>9

LEMMA DecryptFinalUses ==
  ASSUME ShapeInv, DecryptFinal
  PROVE  \E d \in BOOLEAN : Uses("decrypt", NoIV, d)
  <1> DEFINE e == Begun("decrypt")
  <1>1. MayUse
    BY DEF DecryptFinal
  <1>2. /\ e.made = TRUE /\ e.data \in BOOLEAN
        /\ e = [made |-> e.made, len |-> e.len, dir |-> e.dir, key |-> e.key,
                nonce |-> e.nonce, data |-> e.data]
    BY <1>1, BegunFacts
  <1>3. /\ rv' \in {0, 1}
        /\ evp' = [e EXCEPT !.nonce = NoIV]
        /\ enc' = IF init = 0 THEN FALSE ELSE enc
        /\ init' = 2
        /\ UNCHANGED <<mode, iv, key, counter, mask, genVars, refused, msgs, reused>>
    BY DEF DecryptFinal, Finalized
  <1> HIDE DEF e
  <1>4. enc' \in BOOLEAN
    BY <1>3, TypeParts DEF ShapeInv, FlagTypes
  <1>5. evp' = [made |-> TRUE, len |-> e.len, dir |-> e.dir, key |-> e.key,
                nonce |-> NoIV, data |-> e.data]
    BY <1>2, <1>3
  <1>6. /\ init' = 2 /\ rv' \in {0, 1}
        /\ UNCHANGED <<mode, iv, key, counter, mask, genVars, refused, msgs, reused>>
    BY <1>3
  <1>7. e.data \in BOOLEAN
    BY <1>2
  <1>8. Uses("decrypt", NoIV, e.data)
    BY <1>1, <1>4, <1>5, <1>6, <1>7 DEF Uses, e
  <1> QED
    BY <1>7, <1>8

LEMMA ShapeUses ==
  ASSUME ShapeInv, NEW dir \in {"encrypt", "decrypt"},
         NEW n \in IV \cup {NoIV}, NEW d \in BOOLEAN, Uses(dir, n, d)
  PROVE  ShapeInv'
  <1>1. reused \in BOOLEAN
    BY TypeParts DEF ShapeInv, FlagTypes
  <1>2. reused' \in BOOLEAN
    BY <1>1 DEF Uses
  <1>3. Begun(dir).nonce # NoIV => Begun(dir).key = key
    BY BegunFacts DEF Uses
  <1>4. \A m \in msgs' : m \in msgs \/ (m = <<key, Begun(dir).nonce>>
                                         /\ Begun(dir).nonce # NoIV)
    BY <1>3 DEF Uses
  <1> QED
    BY <1>2, <1>4, UseKeepsShape DEF Uses

\* AES_GCM_GenerateIV_NIST, on a context that does nothing else.
LEMMA ShapeGenerate ==
  ASSUME ShapeInv, GenerateIV_NIST
  PROVE  ShapeInv'
  <1>1. PICK c \in Value, m \in Value :
          /\ mask' = m /\ counter' = (c + 1) % N
          /\ rv' = IF count = 0 /\ ivInit THEN 0 ELSE 1
          /\ again' = (again \/ BitXor(counter', m) \in (IF count = 0 THEN {} ELSE issued))
          /\ issued' = (IF count = 0 THEN {} ELSE issued) \cup {BitXor(counter', m)}
    BY DEF GenerateIV_NIST
  <1>2. /\ mode = "plain" /\ iv = NoIV /\ key = NoKey
        /\ ivInit' = TRUE /\ count' = (count + 1) % Wrap
        /\ UNCHANGED <<mode, iv, key, init, enc, evp, refused, msgs, reused>>
    BY DEF GenerateIV_NIST, CountOn, stored
  <1> USE AESGCMAssumption, TypeParts DEF ShapeInv
  <1>3. FlagTypes'
    BY <1>1, <1>2 DEF FlagTypes
  <1>4. ContextTypes'
    BY <1>1, <1>2 DEF ContextTypes
  <1>5. CounterTypes'
    <2>1. N \in Nat /\ Wrap \in Nat /\ c \in 0 .. N - 1 /\ count \in 0 .. Wrap - 1
      BY DEF CounterTypes, Value
    <2>2. /\ (c + 1) % N = IF c + 1 = N THEN 0 ELSE c + 1
          /\ (count + 1) % Wrap = IF count + 1 = Wrap THEN 0 ELSE count + 1
      BY <2>1, NextModulo
    <2>3. (c + 1) % N \in 0 .. N - 1 /\ (count + 1) % Wrap \in 0 .. Wrap - 1
      BY <2>1, <2>2
    <2> QED
      BY <1>1, <1>2, <2>3 DEF CounterTypes, Value
  <1>6. EVPType'
    BY <1>2 DEF EVPType
  <1>7. HistoryTypes'
    <2>1. counter' \in Value
      BY <1>5 DEF CounterTypes
    <2>2. BitXor(counter', m) \in Value
      BY <2>1, XorIn
    <2> QED
      BY <1>1, <1>2, <2>2 DEF HistoryTypes
  <1>8. Fields'
    BY <1>2 DEF Fields
  <1>9. Apart' /\ InTLS'
    BY <1>2 DEF Apart, InTLS, Fields
  <1> QED
    BY <1>3, <1>4, <1>5, <1>6, <1>7, <1>8, <1>9, TypePartsNext

-----------------------------------------------------------------------------
(***************************************************************************)
(* NonceOnce, action by action.                                            *)
(***************************************************************************)
NonceInv == ShapeInv /\ Counted /\ Fresh /\ NonceOnce

LEMMA NumberIn ==
  ASSUME ShapeInv, NEW n \in Value
  PROVE  Number(n) \in Value
  BY XorIn, TypeParts DEF ShapeInv, CounterTypes, Number

\* Of the calls of a message, one encrypts with the nonce, and spends it.
LEMMA NonceUses ==
  ASSUME NonceInv, NEW dir \in {"encrypt", "decrypt"},
         NEW n \in IV \cup {NoIV}, NEW d \in BOOLEAN, Uses(dir, n, d)
  PROVE  NonceInv'
  <1> DEFINE e == Begun(dir)
  <1>1. /\ iv \in IV /\ key \in Key /\ init \in 0 .. 2
        /\ e.nonce \in IV \cup {NoIV}
        /\ init # 2 => e.len = iv.len /\ e.key = key
        /\ init = 0 => e.nonce = iv /\ e.dir = dir /\ e.data = FALSE
        /\ init # 0 => e = evp
        /\ e.nonce # NoIV => init # 2
    BY BegunFacts DEF Uses, NonceInv
  <1>2. iv # NoIV /\ key # NoKey /\ (init = 0 => Armed)
    BY <1>1, AESGCMAssumption DEF Uses, MayUse, Armed
  <1>3. e.nonce # NoIV /\ e.dir = "encrypt" /\ ~e.data => <<e.key, e.nonce>> \notin msgs
    BY <1>1, <1>2 DEF NonceInv, Fresh, Unspent
  <1>4. mode # "plain" /\ e.nonce # NoIV => Number(e.nonce.n) < counter
    BY <1>1, <1>2 DEF NonceInv, Counted, Armed
  <1>5. ShapeInv'
    BY ShapeUses DEF NonceInv
  <1>6. evp' = [made |-> TRUE, len |-> e.len, dir |-> e.dir, key |-> e.key,
                nonce |-> n, data |-> d]
    BY DEF Uses
  <1>7. \/ /\ e.nonce # NoIV /\ e.dir = "encrypt" /\ ~e.data
           /\ n = NoIV \/ d = TRUE
           /\ reused' = (reused \/ <<e.key, e.nonce>> \in msgs)
           /\ msgs' = msgs \cup {<<e.key, e.nonce>>}
        \/ /\ n = NoIV \/ d = TRUE \/ d = e.data
           /\ UNCHANGED <<reused, msgs>>
    BY DEF Uses
  <1>8. /\ UNCHANGED <<mode, iv, key, counter, mask, refused>>
        /\ init' \in {1, 2} /\ n \in {e.nonce, NoIV}
        /\ mode # "plain" => counter > 0
    BY DEF Uses, MayUse
  <1> HIDE DEF e
  <1>9. NonceOnce'
    BY <1>3, <1>7 DEF NonceInv, NonceOnce
  <1>10. evp'.dir = e.dir /\ evp'.key = e.key /\ evp'.nonce = n
    BY <1>6
  <1>11. evp'.data = d
    BY <1>6
  <1>12. Fresh'
    <2>1. Unspent' => <<evp'.key, evp'.nonce>> \notin msgs'
      BY <1>3, <1>7, <1>8, <1>10, <1>11 DEF Unspent
    <2>2. ~Armed' /\ key' # NoKey
      BY <1>2, <1>8 DEF Armed
    <2> QED
      BY <2>1, <2>2 DEF Fresh
  <1>13. Counted'
    <2>1. \A x : Number(x)' = Number(x)
      BY <1>8 DEF Number
    <2>2. ASSUME mode # "plain", NEW m \in msgs', m[1] = key
          PROVE  Number(m[2].n) < counter
      BY <1>2, <1>4, <1>7, <2>2 DEF NonceInv, Counted
    <2>3. ~Armed'
      BY <1>8 DEF Armed
    <2>4. mode # "plain" /\ ~refused => Number(iv.n) < counter
      BY <1>2, <1>8 DEF NonceInv, Counted
    <2> QED
      BY <1>4, <1>8, <1>10, <2>1, <2>2, <2>3, <2>4 DEF Counted, Number
  <1> QED
    BY <1>5, <1>9, <1>12, <1>13 DEF NonceInv

LEMMA NonceRest ==
  ASSUME NonceInv, Renew \/ Ctrl \/ GenerateIV_NIST
  PROVE  NonceInv'
  <1>1. ShapeInv'
    BY ShapeRenew, ShapeCtrl, ShapeGenerate DEF NonceInv
  <1>2. CASE Renew
    <2>1. Counted' /\ Fresh'
      BY <1>2 DEF Renew, NoEVP, Counted, Fresh, Unspent, Armed
    <2> QED
      BY <1>1, <1>2, <2>1 DEF NonceInv, NonceOnce, Renew
  <1>3. CASE Ctrl
    <2>1. iv = NoIV /\ key = NoKey /\ evp.nonce = NoIV
      BY <1>3 DEF Ctrl, NonceInv, ShapeInv, Fields
    <2>2. UNCHANGED <<iv, key, evp, msgs, reused>> /\ init' = 0
      BY <1>3 DEF Ctrl, stored, NonceInv, ShapeInv, ContextTypes, Fields
    <2>3. Counted' /\ Fresh'
      BY <2>1, <2>2 DEF Counted, Fresh, Unspent, Armed
    <2> QED
      BY <1>1, <2>2, <2>3 DEF NonceInv, NonceOnce
  <1>4. CASE GenerateIV_NIST
    <2>1. mode = "plain" /\ iv = NoIV /\ key = NoKey /\ evp.nonce = NoIV
      BY <1>4 DEF GenerateIV_NIST, NonceInv, ShapeInv, Fields
    <2>2. UNCHANGED <<mode, iv, key, evp, msgs, reused>>
      BY <1>4 DEF GenerateIV_NIST, stored
    <2>3. Counted' /\ Fresh'
      BY <2>1, <2>2 DEF Counted, Fresh, Unspent, Armed
    <2> QED
      BY <1>1, <2>2, <2>3 DEF NonceInv, NonceOnce
  <1> QED
    BY <1>2, <1>3, <1>4

\* In a TLS mode an IV that replaces another is accepted at its place only.
LEMMA RollsOver ==
  ASSUME ShapeInv, NEW v \in IV, ~ivInit, Counting, MayGive(v, NoKey),
         AES_GCM_Init(v, NoKey), mode # "plain", iv # NoIV
  PROVE  /\ iv' = v /\ key' = key /\ mask' = mask /\ msgs' = msgs
         /\ counter \in Nat /\ counter' = counter + 1
         /\ ~refused' => Number(v.n) = counter
         /\ rv' = 1 => ~refused'
  <1>1. v # NoIV /\ v.len = "short" /\ counter < N - 1 /\ evp.made
    BY AESGCMAssumption DEF MayGive, Counting, ShapeInv, Fields
  <1>2. iv' = v /\ key' = key /\ mask' = mask
    BY <1>1 DEF AES_GCM_Init
  <1>3. iv.len = "short" /\ mode \in {"TLS12", "TLS13"}
    BY TypeParts DEF ShapeInv, InTLS, ContextTypes
  <1>4. Compared(v) = {iv}
    BY <1>1, <1>3 DEF Compared
  <1>5. Rollover(v, NoKey) /\ Counts(iv, v)
    BY <1>1, <1>3 DEF Rollover, Counts
  <1>6. PICK old \in (IF v = NoIV THEN {iv} ELSE Compared(v)) :
          /\ counter' = IF Rollover(v, NoKey) /\ Counts(old, v) THEN (counter + 1) % N
                        ELSE counter
          /\ rv' = Result(Rollover(v, NoKey) => Accepts(old, v), key')
          /\ refused' = IF v = NoIV THEN refused
                        ELSE ~(Rollover(v, NoKey) => Accepts(old, v))
    BY Zenon DEF AES_GCM_Init
  <1>7. old = iv
    BY <1>1, <1>4, <1>6
  <1>8. N \in Nat /\ counter \in 0 .. N - 1
    BY TypeParts, AESGCMAssumption DEF ShapeInv, CounterTypes, Value
  <1>9. counter' = counter + 1
    <2>1. (counter + 1) % N = counter + 1
      BY <1>1, <1>8, NextModulo
    <2> QED
      BY <1>5, <1>6, <1>7, <2>1
  <1>10. refused' = ~Accepts(iv, v) /\ (rv' = 1 => Accepts(iv, v))
    BY <1>1, <1>5, <1>6, <1>7 DEF Result
  <1>11. Accepts(iv, v) => Number(v.n) = counter
    BY <1>3 DEF Accepts, Number
  <1>12. msgs' = msgs
    BY <1>5 DEF AES_GCM_Init, Asks
  <1>13. counter \in Nat
    BY <1>8
  <1>14. (~refused' => Number(v.n) = counter) /\ (rv' = 1 => ~refused')
    BY Zenon, <1>10, <1>11
  <1> QED
    BY <1>2, <1>9, <1>12, <1>13, <1>14

\* In a TLS mode a call without an IV goes on with one that was not refused;
\* otherwise the IV is checked, or nothing was encrypted under the key.
LEMMA TLSInit ==
  ASSUME ShapeInv, NEW v \in IV \cup {NoIV}, NEW k \in Key \cup {NoKey},
         ~ivInit, Counting, MayGive(v, k), AES_GCM_Init(v, k), mode # "plain"
  PROVE  \/ /\ v = NoIV /\ iv' = iv /\ mask' = mask /\ counter' = counter
            /\ ~refused /\ ~refused'
         \/ v # NoIV /\ counter = 0 /\ counter' = 0
         \/ v # NoIV /\ k = NoKey /\ iv # NoIV
  <1>1. PICK old \in (IF v = NoIV THEN {iv} ELSE Compared(v)) :
          /\ counter' = IF Rollover(v, k) /\ Counts(old, v) THEN (counter + 1) % N ELSE counter
          /\ refused' = IF v = NoIV THEN refused ELSE ~(Rollover(v, k) => Accepts(old, v))
    BY Zenon DEF AES_GCM_Init
  <1>2. CASE v = NoIV
    BY <1>1, <1>2 DEF AES_GCM_Init, MayGive, Rollover
  <1>3. CASE v # NoIV /\ k # NoKey
    BY <1>1, <1>3 DEF MayGive, Rollover
  <1>4. CASE v # NoIV /\ k = NoKey /\ iv = NoIV
    BY <1>1, <1>4 DEF Rollover, ShapeInv, InTLS, Fields
  <1> QED
    BY <1>2, <1>3, <1>4

\* What a call that is accepted begins with is new, or was asked for.
LEMMA BeginsFresh ==
  ASSUME NonceInv, NEW v \in IV \cup {NoIV}, NEW k \in Key \cup {NoKey},
         ~ivInit, Counting, MayGive(v, k), AES_GCM_Init(v, k), rv' = 1
  PROVE  <<key', iv'>> \notin msgs'
  <1>1. CASE Asks(v, k)
    <2>1. msgs' = msgs \ {<<key', iv'>>}
      BY <1>1 DEF AES_GCM_Init
    <2> QED
      BY <2>1
  <1>2. CASE ~Asks(v, k)
    <2>1. Rollover(v, k) /\ ~(mode = "plain" /\ v # iv)
      BY <1>2 DEF Asks
    <2>2. v \in IV /\ v # NoIV /\ k = NoKey /\ iv # NoIV
      BY <2>1 DEF Rollover, NonceInv, ShapeInv, Fields
    <2>3. CASE mode = "plain"
      <3>1. v = iv
        BY <2>1, <2>3
      <3>2. Compared(v) = {iv}
        BY <2>2, <3>1, IVFields DEF Compared
      <3>3. PICK old \in (IF v = NoIV THEN {iv} ELSE Compared(v)) :
              rv' = Result(Rollover(v, k) => Accepts(old, v), key')
        BY Zenon DEF AES_GCM_Init
      <3>4. ~Accepts(iv, v)
        BY <2>3, <3>1 DEF Accepts
      <3> QED
        BY <2>1, <2>2, <3>2, <3>3, <3>4 DEF Result
    <2>4. CASE mode # "plain"
      <3>1. /\ iv' = v /\ key' = key /\ msgs' = msgs /\ counter \in Nat
            /\ Number(v.n) = counter
        BY <2>2, <2>4, RollsOver DEF NonceInv
      <3>2. key # NoKey
        BY <3>1, InitFacts DEF NonceInv
      <3>3. \A m \in msgs : m[1] = key => Number(m[2].n) < counter
        BY <2>4, <3>2 DEF NonceInv, Counted
      <3>4. SUFFICES ASSUME <<key, v>> \in msgs PROVE FALSE
        BY <3>1
      <3>5. Number(v.n) < counter
        BY <3>3, <3>4
      <3> QED
        BY <3>1, <3>5
    <2> QED
      BY <2>3, <2>4
  <1> QED
    BY <1>1, <1>2

LEMMA NonceCallInit ==
  ASSUME NonceInv, CallInit
  PROVE  NonceInv'
  <1>1. PICK v \in IV \cup {NoIV}, k \in Key \cup {NoKey} :
          ~ivInit /\ Counting /\ MayGive(v, k) /\ AES_GCM_Init(v, k)
    BY DEF CallInit
  <1>2. ShapeInv /\ ShapeInv'
    BY ShapeCallInit DEF NonceInv
  <1>4. /\ UNCHANGED <<mode, reused>> /\ msgs' \subseteq msgs
        /\ key' = IF k = NoKey THEN key ELSE k
        /\ iv' = IF v = NoIV THEN iv ELSE v
        /\ init' = init \/ (init' = 0 /\ rv' = 1)
    BY <1>1 DEF AES_GCM_Init
  <1>7. \/ /\ rv' = 1 /\ iv' # NoIV /\ init = 1 /\ init' = 1
           /\ evp'.nonce = iv' /\ evp'.key = key'
        \/ /\ evp'.nonce = evp.nonce /\ evp'.key = evp.key
           /\ evp'.dir = evp.dir /\ evp'.data = evp.data
    <2>1. CASE rv' = 1 /\ iv' # NoIV /\ init = 1
      <3>1. /\ evp' = [EVPInit(IF enc THEN "encrypt" ELSE "decrypt", iv', evp.len)
                         EXCEPT !.key = key']
            /\ init' = init
        BY <1>1, <2>1 DEF AES_GCM_Init
      <3>2. evp'.key = key' /\ evp'.nonce = Nonce(iv', evp.len)
        BY <1>2, <3>1, TypeParts DEF EVPInit, ShapeInv, EVPType
      <3>3. evp'.nonce # NoIV => evp'.len = iv'.len /\ evp'.len = evp.len
        BY <1>2, <2>1, <3>1, TypeParts DEF EVPInit, ShapeInv, EVPType, Fields
      <3>4. iv' \in IV /\ evp.len \in {"short", "long"}
        BY <1>1, <1>2, <2>1, InitFacts, TypeParts DEF ShapeInv, EVPType
      <3>5. evp'.nonce # NoIV
        BY <3>2, <3>4, NonceType, AESGCMAssumption
      <3>6. Nonce(iv', evp.len) = iv'
        BY <3>3, <3>4, <3>5, NonceIsIV
      <3> QED
        BY <2>1, <3>1, <3>2, <3>6
    <2>2. CASE ~(rv' = 1 /\ iv' # NoIV /\ init = 1)
      <3>1. evp' = [evp EXCEPT !.made = @ \/ iv' # NoIV]
        BY <1>1, <2>2 DEF AES_GCM_Init
      <3>2. evp' = [made |-> evp.made \/ iv' # NoIV, len |-> evp.len, dir |-> evp.dir,
                    key |-> evp.key, nonce |-> evp.nonce, data |-> evp.data]
        BY <1>2, <3>1, TypeParts DEF ShapeInv, EVPType
      <3> QED
        BY <3>2
    <2> QED
      BY <2>1, <2>2
  <1>9. rv' = 1 => <<key', iv'>> \notin msgs'
    BY <1>1, BeginsFresh
  <1>10. Fresh'
    <2>1. ASSUME Unspent' PROVE <<evp'.key, evp'.nonce>> \notin msgs'
      <3>1. CASE rv' = 1 /\ evp'.nonce = iv' /\ evp'.key = key'
        BY <1>9, <3>1
      <3>2. CASE /\ evp'.nonce = evp.nonce /\ evp'.key = evp.key
                 /\ evp'.dir = evp.dir /\ evp'.data = evp.data
        BY <1>4, <2>1, <3>2 DEF NonceInv, Fresh, Unspent
      <3> QED
        BY <1>7, <3>1, <3>2
    <2>2. Armed' => <<key', iv'>> \notin msgs'
      BY <1>9 DEF Armed
    <2> QED
      BY <2>1, <2>2 DEF Fresh
  <1>11. Counted'
    <2>1. SUFFICES ASSUME mode # "plain" PROVE Counted'
      BY <1>4 DEF Counted
    <2>2. /\ key # NoKey => \A m \in msgs : m[1] = key => Number(m[2].n) < counter
          /\ ~refused /\ counter > 0 /\ iv # NoIV => Number(iv.n) < counter
          /\ evp.nonce # NoIV => Number(evp.nonce.n) < counter
          /\ init # 0 => counter > 0
      BY <2>1 DEF NonceInv, Counted
    <2>3. \A x \in Value : Number(x) \in Nat
      BY <1>2, NumberIn, AESGCMAssumption DEF Value
    <2>4. /\ \A m \in msgs : m[2] \in IV /\ Number(m[2].n) \in Nat
          /\ evp.nonce # NoIV => evp.nonce \in IV /\ Number(evp.nonce.n) \in Nat
          /\ evp.nonce # NoIV => init = 1
      BY <1>2, <2>3, IVFields, TypeParts DEF ShapeInv, HistoryTypes, EVPType, Fields
    <2>5. k \notin {NoKey, key} => \A m \in msgs : m[1] # k
      BY <1>1, <2>1 DEF MayGive
    <2>6. Armed' => rv' = 1
      BY DEF Armed
    \* The call goes on with the IV of the context.
    <2>7. CASE /\ v = NoIV /\ iv' = iv /\ mask' = mask /\ counter' = counter
               /\ ~refused /\ ~refused'
      <3>1. \A x : Number(x)' = Number(x)
        BY <1>4, <2>7 DEF Number
      <3>2. ASSUME key' # NoKey, NEW m \in msgs', m[1] = key'
            PROVE  Number(m[2].n) < counter
        BY <1>4, <2>2, <2>5, <3>2
      <3>3. evp'.nonce # NoIV => Number(evp'.nonce.n) < counter
        BY <1>7, <2>2, <2>7
      <3>4. init' # 0 => counter > 0
        BY <1>4, <2>2
      <3> QED
        BY <1>4, <2>2, <2>7, <3>1, <3>2, <3>3, <3>4 DEF Counted, Number
    \* No IV has been checked, and nothing was encrypted under the key.
    <2>8. CASE v # NoIV /\ counter = 0 /\ counter' = 0
      <3>1. init = 0 /\ evp.nonce = NoIV
        BY <2>2, <2>4, <2>8
      <3>2. init' = 0 /\ evp'.nonce = NoIV
        BY <1>4, <1>7, <3>1
      <3>3. ~Armed'
        BY <1>4, <2>1, <2>8 DEF Armed
      <3>4. ASSUME key' # NoKey, NEW m \in msgs', m[1] = key' PROVE FALSE
        <4>1. m[1] = key /\ key # NoKey /\ m \in msgs
          BY <1>4, <2>5, <3>4
        <4>2. Number(m[2].n) < 0 /\ Number(m[2].n) \in Nat
          BY <2>2, <2>4, <2>8, <4>1
        <4> QED
          BY <4>2
      <3> QED
        BY <2>8, <3>2, <3>3, <3>4 DEF Counted
    \* The IV is checked.
    <2>9. CASE v # NoIV /\ k = NoKey /\ iv # NoIV
      <3>1. /\ iv' = v /\ key' = key /\ mask' = mask /\ msgs' = msgs
            /\ counter \in Nat /\ counter' = counter + 1
            /\ ~refused' => Number(v.n) = counter
            /\ rv' = 1 => ~refused'
        BY <1>1, <1>2, <2>1, <2>9, RollsOver
      <3>2. \A x : Number(x)' = Number(x)
        BY <1>4, <3>1 DEF Number
      <3>3. ASSUME key' # NoKey, NEW m \in msgs', m[1] = key'
            PROVE  Number(m[2].n) < counter'
        <4>1. Number(m[2].n) < counter /\ Number(m[2].n) \in Nat
          BY <2>2, <2>4, <3>1, <3>3
        <4> QED
          BY <3>1, <4>1
      <3>4. ~refused' => Number(v.n) < counter'
        BY <3>1
      <3>5. evp'.nonce # NoIV => Number(evp'.nonce.n) < counter'
        <4>1. CASE rv' = 1 /\ evp'.nonce = iv'
          BY <3>1, <3>4, <4>1
        <4>2. CASE evp'.nonce = evp.nonce
          BY <2>2, <2>4, <3>1, <4>2
        <4> QED
          BY <1>7, <4>1, <4>2
      <3> QED
        BY <2>6, <3>1, <3>2, <3>3, <3>4, <3>5 DEF Counted, Number
    <2> QED
      BY <1>1, <1>2, <2>1, <2>7, <2>8, <2>9, TLSInit
  <1>12. NonceOnce'
    BY <1>4 DEF NonceInv, NonceOnce
  <1> QED
    BY <1>2, <1>10, <1>11, <1>12 DEF NonceInv

LEMMA NonceNext ==
  ASSUME NonceInv, [Next]_vars
  PROVE  NonceInv'
  <1>1. CASE CallInit
    BY <1>1, NonceCallInit
  <1>2. CASE Renew \/ Ctrl \/ GenerateIV_NIST
    BY <1>2, NonceRest
  <1>3. ASSUME NEW dir \in {"encrypt", "decrypt"}, Update(dir) PROVE NonceInv'
    BY <1>3, UpdateUses, NonceUses DEF NonceInv
  <1>4. CASE EncryptFinal
    BY <1>4, EncryptFinalUses, NonceUses DEF NonceInv
  <1>5. CASE DecryptFinal
    BY <1>5, DecryptFinalUses, NonceUses DEF NonceInv
  <1>6. CASE UNCHANGED vars
    <2>1. UNCHANGED <<mode, iv, key, init, enc, counter, mask, count, ivInit, issued,
                      again, evp, rv, refused, msgs, reused>>
      BY <1>6 DEF vars, stored, genVars
    <2>2. UNCHANGED ShapeInv
      BY <2>1 DEF ShapeInv, TypeOK, Fields, Apart, InTLS
    <2>3. UNCHANGED <<Armed, Unspent>> /\ \A x : Number(x)' = Number(x)
      BY <2>1 DEF Armed, Unspent, Number
    <2>4. UNCHANGED Counted /\ UNCHANGED Fresh /\ UNCHANGED NonceOnce
      BY <2>1 DEF Armed, Unspent, Number, Counted, Fresh, NonceOnce
    <2> QED
      BY <2>2, <2>4 DEF NonceInv
  <1> QED
    BY <1>1, <1>2, <1>3, <1>4, <1>5, <1>6 DEF Next

(***************************************************************************)
(* The invariant of a context: the next message has a nonce of its own,    *)
(* unless the application asked for one again, and in a TLS mode the       *)
(* counter is past what was encrypted, for any keys, IVs and widths of the *)
(* counter (AES_GCM_Init, also without an IV or a key, and the calls of a  *)
(* message, aes_gcm.c).                                                    *)
(***************************************************************************)
THEOREM ContextInvariant == Spec => []NonceInv
  <1>1. Init => NonceInv
    <2>1. ASSUME Init PROVE Counted /\ Fresh /\ NonceOnce
      BY <2>1 DEF Init, NoEVP, Counted, Fresh, Unspent, Armed, NonceOnce
    <2> QED
      BY <2>1, ShapeInit DEF NonceInv
  <1>2. NonceInv /\ [Next]_vars => NonceInv'
    BY NonceNext
  <1> QED
    BY <1>1, <1>2, PTL DEF Spec

(***************************************************************************)
(* Every variable of AESGCM has its type: the counters keep their width    *)
(* and a nonce is a whole IV, never cut (aes_gcm.c).                       *)
(***************************************************************************)
THEOREM TypeCorrect == Spec => []TypeOK
  <1>1. NonceInv => TypeOK
    BY DEF NonceInv, ShapeInv
  <1> QED
    BY <1>1, ContextInvariant, PTL

(***************************************************************************)
(* No nonce encrypts two messages under one key, in the plain mode and in  *)
(* the TLS modes, whatever the order of the calls and the refusals, unless *)
(* the application asks for both again by an AES_GCM_Init that is not      *)
(* checked (AES_GCM_Init and AES_GCM_EncryptFinal, aes_gcm.c).             *)
(***************************************************************************)
THEOREM NoncesOnce == Spec => []NonceOnce
  <1>1. NonceInv => NonceOnce
    BY DEF NonceInv
  <1> QED
    BY <1>1, ContextInvariant, PTL

-----------------------------------------------------------------------------
(***************************************************************************)
(* IssuedOnce: what was issued since the last drawing lies close behind    *)
(* the counter, and the counter is not round before it is drawn again.     *)
(***************************************************************************)
LEMMA IssueGenerate ==
  ASSUME TypeOK, TypeOK', IssueInv, GenerateIV_NIST
  PROVE  Behind' /\ IssuedOnce' /\ ivInit'
  <1>1. PICK c \in Value, m \in Value :
          /\ count = 0 \/ (c = counter /\ m = mask)
          /\ mask' = m /\ counter' = (c + 1) % N
          /\ again' = (again \/ BitXor(counter', m) \in (IF count = 0 THEN {} ELSE issued))
          /\ issued' = (IF count = 0 THEN {} ELSE issued) \cup {BitXor(counter', m)}
    BY DEF GenerateIV_NIST, Mask
  <1>2. ivInit' /\ count' = (count + 1) % Wrap
    BY DEF GenerateIV_NIST, CountOn
  <1>3. /\ N \in Nat /\ Wrap \in Nat /\ Wrap <= N
        /\ c \in 0 .. N - 1 /\ count \in 0 .. Wrap - 1
    BY AESGCMAssumption, TypeParts DEF CounterTypes, Value
  <1>4. /\ counter' = IF c + 1 = N THEN 0 ELSE c + 1
        /\ count' = IF count + 1 = Wrap THEN 0 ELSE count + 1
    BY <1>1, <1>2, <1>3, NextModulo
  <1>5. counter' \in Value
    BY TypePartsNow DEF CounterTypes
  <1>6. BitXor(BitXor(counter', m), m) = counter'
    BY <1>5, AESGCMAssumption
  <1>7. CASE count = 0
    <2>1. IssuedOnce'
      BY <1>1, <1>7 DEF IssueInv, IssuedOnce
    <2>2. issued' = {BitXor(counter', m)}
      BY <1>1, <1>7
    <2>3. ASSUME count' > 0, NEW n \in issued' PROVE Ago(BitXor(n, mask))' < count'
      <3>1. BitXor(n, mask') = counter'
        BY <1>1, <1>6, <2>2, <2>3
      <3>2. Ago(BitXor(n, mask))' = 0
        BY <1>3, <1>4, <3>1 DEF Ago
      <3> QED
        BY <2>3, <3>2
    <2> QED
      BY <1>2, <2>1, <2>3 DEF Behind
  <1>8. CASE count # 0
    <2>1. c = counter /\ mask = m
      BY <1>1, <1>8
    <2>2. \A n \in issued : BitXor(n, m) \in 0 .. N - 1 /\ Ago(BitXor(n, m)) < count
      BY <1>3, <1>8, <2>1, TypeParts, XorIn DEF IssueInv, Behind, HistoryTypes, Value
    <2>3. BitXor(counter', m) \notin issued
      <3>1. SUFFICES ASSUME BitXor(counter', m) \in issued PROVE FALSE
        OBVIOUS
      <3>2. Ago(counter') < count
        BY <1>6, <2>2, <3>1
      <3> QED
        BY <1>3, <1>4, <2>1, <3>2 DEF Ago
    <2>4. IssuedOnce'
      BY <1>1, <2>3 DEF IssueInv, IssuedOnce
    <2>5. ASSUME count' > 0, NEW n \in issued' PROVE Ago(BitXor(n, mask))' < count'
      <3>1. count' = count + 1
        BY <1>3, <1>4, <2>5
      <3>2. CASE n = BitXor(counter', m)
        <4>1. Ago(BitXor(n, mask))' = 0
          BY <1>1, <1>3, <1>4, <1>6, <3>2 DEF Ago
        <4> QED
          BY <2>5, <4>1
      <3>3. CASE n \in issued
        <4>1. BitXor(n, m) \in 0 .. N - 1 /\ Ago(BitXor(n, m)) < count
          BY <2>2, <3>3
        <4>2. Ago(BitXor(n, mask))' <= Ago(BitXor(n, m)) + 1
          BY <1>1, <1>3, <1>4, <2>1, <4>1 DEF Ago
        <4>3. Ago(BitXor(n, mask))' \in Nat /\ Ago(BitXor(n, m)) \in Nat
          BY <1>1, <1>3, <1>4, <2>1, <4>1 DEF Ago
        <4> QED
          BY <1>3, <3>1, <4>1, <4>2, <4>3
      <3> QED
        BY <1>1, <1>8, <2>5, <3>2, <3>3
    <2> QED
      BY <2>4, <2>5, <1>2 DEF Behind
  <1> QED
    BY <1>7, <1>8

LEMMA IssueNext ==
  ASSUME TypeOK, TypeOK', IssueInv, [Next]_vars
  PROVE  IssueInv'
  <1>1. CASE GenerateIV_NIST
    BY <1>1, IssueGenerate DEF IssueInv
  <1>2. CASE Renew
    BY <1>2 DEF Renew, IssueInv, Behind, IssuedOnce
  <1>3. CASE CallInit
    <2>1. count' = count /\ count = 0 /\ UNCHANGED <<ivInit, again>>
      BY <1>3 DEF CallInit, AES_GCM_Init, genVars, IssueInv
    <2> QED
      BY <2>1 DEF IssueInv, Behind, IssuedOnce
  <1>4. ASSUME UNCHANGED <<counter, mask, genVars>> PROVE IssueInv'
    BY <1>4 DEF genVars, IssueInv, Behind, IssuedOnce, Ago
  <1>5. ASSUME \/ Ctrl \/ (\E dir \in {"encrypt", "decrypt"} : Update(dir))
               \/ EncryptFinal \/ DecryptFinal \/ UNCHANGED vars
        PROVE  UNCHANGED <<counter, mask, genVars>>
    BY <1>5 DEF Ctrl, Update, EncryptFinal, DecryptFinal, vars
  <1> QED
    BY <1>1, <1>2, <1>3, <1>4, <1>5 DEF Next

(***************************************************************************)
(* A generator issues no IV twice before it has counted Wrap of them, for  *)
(* any width of its counter and any exclusive or with its mask             *)
(* (AES_GCM_GenerateIV_NIST, aes_gcm.c:118).                               *)
(***************************************************************************)
THEOREM IVsIssuedOnce == Spec => []IssuedOnce
  <1>1. Init => IssueInv
    BY DEF Init, IssueInv, Behind, IssuedOnce
  <1>2. TypeOK /\ TypeOK' /\ IssueInv /\ [Next]_vars => IssueInv'
    BY IssueNext
  <1>3. IssueInv => IssuedOnce
    BY DEF IssueInv
  <1> QED
    BY <1>1, <1>2, <1>3, TypeCorrect, PTL DEF Spec
=============================================================================
