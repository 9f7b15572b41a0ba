------------------------------ MODULE AESGCM ------------------------------
(***************************************************************************)
(* The AES-GCM interface of ICC (icc/platforms/1.1.1/API/aes_gcm.c): one   *)
(* AES_GCM_CTX and the calls on it, with OpenSSL's cipher context behind   *)
(* it and the two generators of IVs that share its fields.                 *)
(*                                                                         *)
(* GCM is lost when one nonce encrypts two messages under one key.  The    *)
(* context helps to avoid it: AES_GCM_Init checks the IV that replaces     *)
(* another, EncryptFinal closes the message, the generators count.         *)
(*                                                                         *)
(* An IV is its first 4 bytes (salt), the next 8 (n) and its length, which *)
(* fits the context's own buffer ("short", 12 bytes) or not.               *)
(***************************************************************************)
EXTENDS Naturals

CONSTANTS
  Key, NoKey,   \* keys of valid length; none was given
  Salt, NoIV,   \* the first bytes of IVs; a NULL IV
  N,            \* the n's are 0 .. N - 1: N is 2^64 in the code
  Long,         \* the n's of the long IVs
  Wrap,         \* how many IVs a generator counts: 2^32 in the code
  BitXor(_, _)  \* of two n's, bit by bit

Value == 0 .. N - 1
IV == [salt : Salt, n : Value, len : {"short"}]
      \cup [salt : Salt, n : Long, len : {"long"}]

ASSUME AESGCMAssumption ==
  /\ N \in Nat /\ Wrap \in 1 .. N /\ Long \subseteq Value
  /\ NoKey \notin Key /\ NoIV \notin IV
  /\ \A a, m \in Value : BitXor(a, m) \in Value /\ BitXor(BitXor(a, m), m) = a

VARIABLES
  mode,     \* a->flags: "plain", "TLS12", "TLS13"
  iv,       \* a->iv, a->ivlen
  key,      \* a->key, a->klen
  init,     \* a->init: 0 to be initialized, 1 in a message, 2 finalized
  enc,      \* a->enc
  counter,  \* a->IVcounter
  mask,     \* a->mask
  count,    \* a->count
  ivInit,   \* a->iv_initialized
  evp,      \* a->ctx: OpenSSL's context
  rv,       \* what the last call returned
  refused,  \* history: the IV in the context is one that it has refused
  msgs,     \* history: the <<key, nonce>> messages were encrypted with, less
            \* those the application has asked for again since
  reused,   \* history: one of them encrypted another message
  issued,   \* the n's AES_GCM_GenerateIV_NIST has issued since it last drew
  again     \* one of them twice

stored == <<iv, key, init, enc>>
genVars == <<count, ivInit, issued, again>>
vars == <<mode, stored, counter, mask, genVars, evp, rv, refused, msgs, reused>>

\* EVP_CIPHER_CTX: nothing made yet.
NoEVP == [made |-> FALSE, len |-> "short", dir |-> "none", key |-> NoKey,
          nonce |-> NoIV, data |-> FALSE]

Init ==
  /\ mode = "plain" /\ iv = NoIV /\ key = NoKey /\ init = 0 /\ enc = FALSE
  /\ counter = 0 /\ mask = 0 /\ count = 0 /\ ivInit = FALSE
  /\ evp = NoEVP /\ rv = 1
  /\ refused = FALSE /\ msgs = {} /\ reused = FALSE /\ issued = {} /\ again = FALSE

\* AES_GCM_CTX_free and AES_GCM_CTX_new: what was encrypted stays encrypted.
Renew ==
  /\ mode' = "plain" /\ iv' = NoIV /\ key' = NoKey /\ init' = 0 /\ enc' = FALSE
  /\ counter' = 0 /\ mask' = 0 /\ count' = 0 /\ ivInit' = FALSE
  /\ evp' = NoEVP /\ rv' = 1
  /\ refused' = FALSE /\ issued' = {} /\ again' = FALSE
  /\ UNCHANGED <<msgs, reused>>

\* AES_GCM_CTX_ctrl, first of all: flags are only added, and TLS 1.3 is looked
\* at first.
Ctrl ==
  /\ \/ mode = "plain" /\ mode' = "TLS12"
     \/ mode \in {"plain", "TLS12"} /\ mode' = "TLS13"
  /\ rv' = 1 /\ ~ivInit /\ iv = NoIV /\ key = NoKey
  /\ UNCHANGED <<stored, counter, mask, genVars, evp, refused, msgs, reused>>

-----------------------------------------------------------------------------
(***************************************************************************)
(* OpenSSL.  With the length the context was told, a nonce is the IV or    *)
(* its first 12 bytes.  A finished message leaves no nonce.                *)
(***************************************************************************)
Nonce(v, len) == IF len = "short" THEN [v EXCEPT !.len = "short"] ELSE v

EVPInit(dir, v, len) ==
  [evp EXCEPT !.made = TRUE, !.len = len, !.dir = dir, !.key = key,
              !.nonce = Nonce(v, len), !.data = FALSE]

Ready(e, dir) == e.nonce # NoIV /\ e.dir = dir

\* A nonce encrypts: of e's message, for the first time since it was set.
Encrypts(e, first) ==
  IF e.dir = "encrypt" /\ first
  THEN /\ reused' = (reused \/ <<e.key, e.nonce>> \in msgs)
       /\ msgs' = msgs \cup {<<e.key, e.nonce>>}
  ELSE UNCHANGED <<reused, msgs>>

-----------------------------------------------------------------------------
(***************************************************************************)
(* AES_GCM_Init: the check of an IV that replaces old under the same key.  *)
(* The TLS modes expect their counter and count on, also when they refuse. *)
(***************************************************************************)
Accepts(old, v) ==
  CASE mode = "TLS13" -> /\ v.len = "short" /\ old.len = "short"
                         /\ old.salt = v.salt /\ BitXor(mask, v.n) = counter
    [] mode = "TLS12" -> old.salt = v.salt /\ v.n = counter
    [] OTHER          -> old.len = v.len /\ old # v

Counts(old, v) ==
  \/ mode = "TLS12"
  \/ mode = "TLS13" /\ v.len = "short" /\ old.len = "short"

\* A longer IV gets a new buffer, whose bytes the check reads before any are
\* written.
Compared(v) ==
  IF v.len = "long" /\ (iv = NoIV \/ iv.len = "short")
  THEN {v, [v EXCEPT !.n = (@ + 1) % N]} ELSE IF iv = NoIV THEN {v} ELSE {iv}

Rollover(v, k) == v # NoIV /\ evp.made /\ k = NoKey

\* What becomes of the context: refused, without a key, in a message, or not.
Result(ok, k) == IF ok /\ k # NoKey THEN 1 ELSE 0

\* The application asks for the IV v itself: the check does not look at the
\* call, or, without a counter, only at the last IV.
Asks(v, k) == ~Rollover(v, k) \/ (mode = "plain" /\ v # iv)

\* Without an IV and a key the call is made all the same: it begins again with
\* those the context has, as a call with the key alone does.
AES_GCM_Init(v, k) ==
  /\ key' = IF k = NoKey THEN key ELSE k
  /\ iv' = IF v = NoIV THEN iv ELSE v
  /\ \E old \in (IF v = NoIV THEN {iv} ELSE Compared(v)) :
       LET roll == Rollover(v, k)
           ok   == roll => Accepts(old, v) IN
       /\ counter' = IF roll /\ Counts(old, v) THEN (counter + 1) % N ELSE counter
       /\ rv' = Result(ok, key')
       /\ refused' = IF v = NoIV THEN refused ELSE ~ok
  /\ msgs' = IF rv' = 1 /\ Asks(v, k) THEN msgs \ {<<key', iv'>>} ELSE msgs
  /\ mask' = IF v # NoIV /\ ~evp.made /\ mode = "TLS13" THEN v.n ELSE mask
  /\ IF rv' = 1 /\ iv' # NoIV /\ init = 1
     THEN /\ evp' = [EVPInit(IF enc THEN "encrypt" ELSE "decrypt", iv', evp.len)
                       EXCEPT !.key = key']
          /\ UNCHANGED init
     ELSE /\ evp' = [evp EXCEPT !.made = @ \/ iv' # NoIV]
          /\ init' = IF rv' = 1 THEN 0 ELSE init
  /\ UNCHANGED <<mode, enc, genVars, reused>>

\* Bound: the counter, 64 bits in the code, does not come round.
Counting == mode # "plain" => counter < N - 1

(***************************************************************************)
(* What applications may do.  In the plain mode, anything, but within a    *)
(* message every IV is as long as the one before.  In a TLS mode, IVs of   *)
(* 12 bytes, any of them; one comes with a key only before the first that  *)
(* is checked, a key is not one of another context, and a call without an  *)
(* IV is not made when the last one was refused.                           *)
(***************************************************************************)
MayGive(v, k) ==
  /\ mode = "plain" => (v # NoIV /\ iv # NoIV /\ init = 1 => v.len = iv.len)
  /\ mode # "plain" =>
       /\ IF v = NoIV THEN ~refused ELSE v.len = "short"
       /\ v # NoIV /\ k # NoKey => counter = 0
       /\ k \notin {NoKey, key} => \A m \in msgs : m[1] # k

CallInit == \E v \in IV \cup {NoIV}, k \in Key \cup {NoKey} :
  ~ivInit /\ Counting /\ MayGive(v, k) /\ AES_GCM_Init(v, k)

\* The application stops at a refusal, and in a TLS mode it encrypts nothing with
\* the IV that only sets the base.
MayUse ==
  /\ evp.made /\ key # NoKey /\ (init = 0 => rv = 1)
  /\ mode # "plain" => counter > 0

\* The first call of a message initializes OpenSSL's context.
Begun(dir) == IF init = 0 THEN EVPInit(dir, iv, iv.len) ELSE evp

(***************************************************************************)
(* AES_GCM_EncryptUpdate, AES_GCM_DecryptUpdate, with data or only with    *)
(* additional data, which OpenSSL refuses after data.                      *)
(***************************************************************************)
Update(dir) ==
  /\ MayUse
  /\ LET e == Begun(dir) IN
     \/ /\ Ready(e, dir)                       \* data
        /\ evp' = [e EXCEPT !.data = TRUE]
        /\ Encrypts(e, ~e.data) /\ rv' = 1
     \/ /\ Ready(e, dir) /\ evp' = e           \* additional data only
        /\ rv' = IF e.data THEN 0 ELSE 1
        /\ UNCHANGED <<msgs, reused>>
     \/ /\ ~Ready(e, dir) /\ evp' = e /\ rv' = 0
        /\ UNCHANGED <<msgs, reused>>
  /\ enc' = IF init = 0 /\ dir = "encrypt" THEN TRUE ELSE enc
  /\ init' = IF init = 0 THEN 1 ELSE init
  /\ UNCHANGED <<mode, iv, key, counter, mask, genVars, refused>>

\* Mutant: a finished message leaves the context to be initialized again.
Finalized_Reopens == 0

Finalized == 2

\* AES_GCM_EncryptFinal; its return code is that of the initialization.
EncryptFinal ==
  /\ MayUse
  /\ LET e == Begun("encrypt") IN
     /\ IF Ready(e, "encrypt") THEN Encrypts(e, ~e.data)
        ELSE UNCHANGED <<msgs, reused>>
     /\ evp' = [e EXCEPT !.nonce = NoIV]
  /\ enc' = IF init = 0 THEN TRUE ELSE enc
  /\ init' = Finalized
  /\ rv' = 1
  /\ UNCHANGED <<mode, iv, key, counter, mask, genVars, refused>>

\* AES_GCM_DecryptFinal: the tag is right, or not.
DecryptFinal ==
  /\ MayUse
  /\ LET e == Begun("decrypt") IN
     /\ rv' \in IF Ready(e, "decrypt") THEN {0, 1} ELSE {0}
     /\ evp' = [e EXCEPT !.nonce = NoIV]
  /\ enc' = IF init = 0 THEN FALSE ELSE enc
  /\ init' = Finalized
  /\ UNCHANGED <<mode, iv, key, counter, mask, genVars, refused, msgs, reused>>

-----------------------------------------------------------------------------
(***************************************************************************)
(* AES_GCM_GenerateIV_NIST: counter and mask are drawn when the count is   *)
(* zero, the first time and after Wrap calls, when it returns 0 once.      *)
(*                                                                         *)
(* Here the context generates and does nothing else: in the plain mode the *)
(* other calls do not look at these fields; in the TLS modes, whose check  *)
(* uses them, the generator is not for the application to call.            *)
(***************************************************************************)
\* Mutant: the mask is drawn in every call.
Mask_Redrawn(m) == TRUE

Mask(m) == count = 0 \/ m = mask

CountOn(n) == (n + 1) % Wrap

GenerateIV_NIST ==
  /\ mode = "plain" /\ iv = NoIV /\ key = NoKey /\ msgs = {}
  /\ \E c, m \in Value :
       /\ count = 0 \/ c = counter
       /\ Mask(m)
       /\ mask' = m
       /\ counter' = (c + 1) % N
       /\ rv' = IF count = 0 /\ ivInit THEN 0 ELSE 1
       /\ LET n == BitXor(counter', m)
              before == IF count = 0 THEN {} ELSE issued IN
          /\ again' = (again \/ n \in before)
          /\ issued' = before \cup {n}
  /\ ivInit' = TRUE
  /\ count' = CountOn(count)
  /\ UNCHANGED <<mode, stored, evp, refused, msgs, reused>>

Next ==
  \/ Renew \/ Ctrl \/ CallInit
  \/ \E dir \in {"encrypt", "decrypt"} : Update(dir)
  \/ EncryptFinal \/ DecryptFinal \/ GenerateIV_NIST

Spec == Init /\ [][Next]_vars

-----------------------------------------------------------------------------

\* Every variable has its type.
TypeOK ==
  /\ mode \in {"plain", "TLS12", "TLS13"}
  /\ iv \in IV \cup {NoIV} /\ key \in Key \cup {NoKey}
  /\ init \in 0 .. 2 /\ rv \in {0, 1}
  /\ enc \in BOOLEAN /\ ivInit \in BOOLEAN
  /\ refused \in BOOLEAN /\ reused \in BOOLEAN /\ again \in BOOLEAN
  /\ counter \in Value /\ mask \in Value /\ count \in 0 .. Wrap - 1
  /\ evp \in [made : BOOLEAN, len : {"short", "long"}, dir : {"none", "encrypt", "decrypt"},
              key : Key \cup {NoKey}, nonce : IV \cup {NoIV}, data : BOOLEAN]
  /\ msgs \subseteq Key \X IV /\ issued \subseteq Value

(***************************************************************************)
(* No nonce encrypts two messages under one key, whatever is called and in *)
(* whatever order, unless the application asks for that key and IV again   *)
(* between them, by an AES_GCM_Init that is not checked.  In a TLS mode no *)
(* IV that is checked asks for anything: the application may pass any, and *)
(* only has to go by the return code.                                      *)
(***************************************************************************)
NonceOnce == ~reused

(***************************************************************************)
(* A generator issues no IV twice until it has counted round               *)
(* (aes_gcm.c:118: "non-repitition").                                      *)
(***************************************************************************)
IssuedOnce == ~again
=============================================================================
