--------------------------- MODULE ShCryptoProofs ---------------------------
(***************************************************************************)
(* What key generation and segment encryption guarantee for every number   *)
(* of key addresses, every buffer a caller may bring along, every setting  *)
(* of the policy row and every set of library calls that fail.             *)
(***************************************************************************)
EXTENDS ShCrypto, ShCoreProofs

(* Lines 83-92: the row that every lookup returns asks for AES192, whose   *)
(* keys have 24 bytes.                                                     *)
LEMMA KeySizeIs24 == KeySize = 24
<1>. DEFINE hits == { k \in 1 .. 6 : key_size_table[k].algorithm = "AES192" }
<1>1. sh_get_protection_policy(SH_PROTECT_MEDIUM).algorithm = "AES192"
  BY LookupReturnsMedium, MediumRow
<1>2. hits = {2}
  BY DEF key_size_table
<1>3. KeySize = key_size_table[CHOOSE k \in hits : \A l \in hits : k <= l].sz_max
  BY <1>1 DEF KeySize, sh_get_key_size
<1>4. (CHOOSE k \in hits : \A l \in hits : k <= l) = 2
  BY <1>2
<1>. QED
  BY <1>3, <1>4 DEF key_size_table
-----------------------------------------------------------------------------
(* The stream of a key generation is open from a successful fopen to the   *)
(* fclose, and a call begins without failures.                             *)
StreamInv ==
  /\ pc = "fopen" => "fopen" \notin failed
  /\ streams = IF pc = "fclose" \/ (pc = "fread" /\ "fopen" \notin failed) THEN 1 ELSE 0

(* A cipher handle is open exactly while sh_encrypt_segment holds it, and  *)
(* libgcrypt is ready by then.                                             *)
HandleInv ==
  /\ handles = IF cipher = Null THEN 0 ELSE 1
  /\ cipher # Null => pc \in {"setkey", "encrypt", "close"} /\ gcrypt # "none"
  /\ pc \in {"encrypt", "close"} => cipher # Null
  /\ pc = "setkey" /\ cipher = Null => "open" \in failed

(* The caller's buffer is there unless it has moved; the buffer that a key *)
(* is read into holds a whole key unless realloc has failed.               *)
BufferInv ==
  /\ caller # Null /\ ~moved => Live(caller)
  /\ pc \in {"fopen", "fread"} =>
       IF "realloc" \in failed THEN key = caller
       ELSE key \in KeyAddr /\ keys[key].size >= KeySize
  /\ pc \in {"fopen", "fread", "fclose"} => key = caller \/ moved
  /\ pc = "fclose" =>
       /\ key \in KeyAddr /\ keys[key].size >= KeySize
       /\ "fread" \notin failed => keys[key].random

(* The inductive invariant. *)
CryptoInv == CryptoTypeOK /\ StreamInv /\ HandleInv /\ BufferInv /\ CryptoStopHasCause

LEMMA InitHolds == Init => CryptoInv
<1>. SUFFICES ASSUME Init PROVE CryptoInv
  OBVIOUS
<1>1. keys \in [ KeyAddr -> [ size : Nat, random : BOOLEAN ] ]
  BY DEF Init, NoKey
<1>2. CryptoTypeOK
  <2>1. {caller, key} \subseteq KeyAddr \union {Null} /\ local_key \in 0 .. KeySize
    BY KeySizeIs24 DEF Init
  <2>2. /\ pc = "idle" /\ status = "ok" /\ store \in Stores /\ streams = 0 /\ handles = 0
        /\ moved \in BOOLEAN /\ gcrypt \in {"none", "checked", "finished"} /\ cipher = Null
        /\ segment = "plain" /\ retcode = "none" /\ failed = {}
    BY DEF Init
  <2>. QED
    BY <1>1, <2>1, <2>2 DEF CryptoTypeOK
<1>3. StreamInv /\ HandleInv /\ BufferInv /\ CryptoStopHasCause
  BY DEF Init, StreamInv, HandleInv, BufferInv, CryptoStopHasCause
<1>. QED
  BY <1>2, <1>3 DEF CryptoInv

(* A step that stops the process keeps everything but the cause of it.     *)
LEMMA StopKeeps ==
  ASSUME CryptoInv, NEW reason \in {"invalid_pointer", "null_deref", "overrun"},
         Stop(reason), UNCHANGED failed, CryptoStopHasCause'
  PROVE  CryptoInv'
BY DEF CryptoInv, CryptoTypeOK, StreamInv, HandleInv, BufferInv, Live, Stop, vars, genVars, encVars

LEMMA TakeBufferKeeps == CryptoInv /\ TakeBuffer => CryptoInv'
<1>. SUFFICES ASSUME CryptoInv, TakeBuffer PROVE CryptoInv'
  OBVIOUS
<1>. DEFINE rest == [ a \in KeyAddr |-> IF a = caller THEN NoKey ELSE keys[a] ]
<1>1. rest \in [ KeyAddr -> [ size : Nat, random : BOOLEAN ] ]
  BY DEF CryptoInv, CryptoTypeOK, NoKey
<1>2. /\ caller' \in KeyAddr \union {Null}
      /\ keys' \in [ KeyAddr -> [ size : Nat, random : BOOLEAN ] ]
      /\ caller' # Null => keys'[caller'] # NoKey
  <2>1. CASE caller' = Null /\ keys' = rest
    BY <1>1, <2>1
  <2>2. CASE \E a \in KeyAddr, n \in BufferSizes :
               caller' = a /\ keys' = [ rest EXCEPT ![a] = [ size |-> n, random |-> FALSE ] ]
    <3>. HIDE DEF rest
    <3>1. PICK a \in KeyAddr, n \in BufferSizes :
                 caller' = a /\ keys' = [ rest EXCEPT ![a] = [ size |-> n, random |-> FALSE ] ]
      BY <2>2
    <3>2. n \in Nat \ {0}
      BY CryptoAssumption
    <3>. QED
      BY <1>1, <3>1, <3>2 DEF NoKey
  <2>. QED
    BY <2>1, <2>2 DEF TakeBuffer
<1>. QED
  BY <1>2 DEF TakeBuffer, CryptoInv, CryptoTypeOK, StreamInv, HandleInv, BufferInv,
              CryptoStopHasCause, Live, encVars

LEMMA GenerateKeeps == CryptoInv /\ sh_generate_key => CryptoInv'
<1>. SUFFICES ASSUME CryptoInv, sh_generate_key PROVE CryptoInv'
  OBVIOUS
<1>. USE DEF CryptoInv
<1>1. AfterSwitch \in {"fopen", "idle"} /\ pc = "idle" /\ status = "ok"
  BY DEF AfterSwitch, sh_generate_key
<1>2. CASE caller # Null /\ ~Live(caller) /\ Stop("invalid_pointer") /\ failed' = {}
  BY <1>1, <1>2 DEF Stop, genVars, encVars, CryptoTypeOK, StreamInv, HandleInv, BufferInv,
                    CryptoStopHasCause, Live
<1>3. ASSUME NEW a \in KeyAddr, a = caller \/ ~Live(a),
             key' = a, moved' = (moved \/ a # caller), keys' = KeyMovedTo(a),
             failed' = {}, pc' = AfterSwitch,
             UNCHANGED << status, store, caller, streams, encVars >>
      PROVE  CryptoInv'
  <2>. DEFINE r == caller # Null /\ keys[caller].random
              moving == [ size |-> KeySize, random |-> r ]
  <2>1. moving \in [ size : Nat, random : BOOLEAN ] /\ moving.size = KeySize
    <3>1. r \in BOOLEAN
      OBVIOUS
    <3>. HIDE DEF r
    <3>. QED
      BY <3>1, KeySizeIs24
  <2>2. /\ KeyMovedTo(a) \in [ KeyAddr -> [ size : Nat, random : BOOLEAN ] ]
        /\ KeyMovedTo(a)[a].size = KeySize
    <3>1. KeyMovedTo(a) = [ b \in KeyAddr |-> IF b = a THEN moving
                                              ELSE IF b = caller THEN NoKey ELSE keys[b] ]
      BY DEF KeyMovedTo, AskedSize
    <3>2. NoKey \in [ size : Nat, random : BOOLEAN ]
      BY DEF NoKey
    <3>. HIDE DEF moving
    <3>. QED
      BY <2>1, <3>1, <3>2 DEF CryptoTypeOK
  <2>3. caller' # Null /\ ~moved' => keys'[caller'] # NoKey
    <3>1. ~moved' => a = caller
      BY <1>3, Zenon
    <3>. QED
      BY <1>3, <2>2, <3>1, KeySizeIs24 DEF NoKey
  <2>4. CryptoTypeOK'
    BY <1>1, <1>3, <2>2 DEF CryptoTypeOK, encVars
  <2>5. BufferInv'
    <3>1. key' = caller' \/ moved'
      BY <1>3, Zenon
    <3>. QED
      BY <1>1, <1>3, <2>2, <2>3, <3>1, KeySizeIs24 DEF BufferInv, Live
  <2>6. StreamInv' /\ HandleInv' /\ CryptoStopHasCause'
    BY <1>1, <1>3 DEF StreamInv, HandleInv, CryptoStopHasCause, encVars
  <2>. QED
    BY <2>4, <2>5, <2>6
<1>4. CASE /\ "realloc" \in MayFail /\ failed' = {"realloc"}
           /\ key' = caller /\ pc' = AfterSwitch
           /\ UNCHANGED << status, store, caller, keys, streams, moved, encVars >>
  BY <1>1, <1>4 DEF CryptoTypeOK, StreamInv, HandleInv, BufferInv, CryptoStopHasCause, Live, encVars
<1>. QED
  BY <1>2, <1>3, <1>4 DEF sh_generate_key

LEMMA OpenKeeps == CryptoInv /\ OpenUrandom => CryptoInv'
<1>. SUFFICES ASSUME CryptoInv, OpenUrandom PROVE CryptoInv'
  OBVIOUS
<1>1. PICK ok \in BOOLEAN : Outcome("fopen", ok) /\ streams' = IF ok THEN streams + 1 ELSE streams
  BY DEF OpenUrandom
<1>2. failed' \subseteq MayFail /\ failed \subseteq failed' /\ failed' \subseteq failed \union {"fopen"}
      /\ (ok => "fopen" \notin failed') /\ (~ok => "fopen" \in failed')
  BY <1>1 DEF Outcome, OpenUrandom, CryptoInv, CryptoTypeOK, StreamInv
<1>. QED
  BY <1>1, <1>2 DEF OpenUrandom, CryptoInv, CryptoTypeOK, StreamInv, HandleInv, BufferInv,
                    CryptoStopHasCause, Live, encVars

LEMMA ReadKeeps == CryptoInv /\ ReadUrandom => CryptoInv'
<1>. SUFFICES ASSUME CryptoInv, ReadUrandom PROVE CryptoInv'
  OBVIOUS
<1>1. pc = "fread" /\ status = "ok" /\ ItemSize = KeySize
  BY DEF ReadUrandom, ItemSize
<1>2. CASE ("fopen" \in failed \/ key = Null) /\ Stop("null_deref") /\ UNCHANGED failed
  <2>1. failed \intersect {"fopen", "realloc"} # {}
    BY <1>1, <1>2, CryptoAssumption DEF CryptoInv, BufferInv
  <2>2. CryptoStopHasCause'
    BY <1>1, <1>2, <2>1 DEF CryptoStopHasCause, Stop
  <2>. QED
    BY <1>2, <2>2, StopKeeps
<1>3. CASE /\ "fopen" \notin failed /\ key # Null /\ keys[key].size < ItemSize
           /\ Stop("overrun") /\ UNCHANGED failed
  <2>1. key \in KeyAddr /\ keys[key].size \in Nat
    BY <1>3 DEF CryptoInv, CryptoTypeOK
  <2>2. "realloc" \in failed
    BY <1>1, <1>3, <2>1, KeySizeIs24 DEF CryptoInv, BufferInv
  <2>3. CryptoStopHasCause'
    BY <1>1, <1>3, <2>2 DEF CryptoStopHasCause, Stop
  <2>. QED
    BY <1>3, <2>3, StopKeeps
<1>4. ASSUME "fopen" \notin failed, key # Null, keys[key].size >= ItemSize,
             NEW ok \in BOOLEAN, Outcome("fread", ok),
             keys' = IF ok THEN [ keys EXCEPT ![key] = Filled(@, ItemSize) ] ELSE keys,
             pc' = "fclose", UNCHANGED << status, store, caller, key, streams, moved, encVars >>
      PROVE  CryptoInv'
  <2>1. key \in KeyAddr /\ keys[key] \in [ size : Nat, random : BOOLEAN ]
        /\ keys \in [ KeyAddr -> [ size : Nat, random : BOOLEAN ] ]
    BY <1>4 DEF CryptoInv, CryptoTypeOK
  <2>. DEFINE new == Filled(keys[key], ItemSize)
  <2>2. new \in [ size : Nat, random : BOOLEAN ] /\ new.size = keys[key].size /\ new.random = TRUE
    <3>1. (ItemSize >= KeySize) = TRUE
      BY <1>1, KeySizeIs24
    <3>2. new = [ keys[key] EXCEPT !.random = TRUE ]
      BY <3>1 DEF Filled
    <3>. QED
      BY <2>1, <3>2
  <2>. HIDE DEF new
  <2>3. keys' = IF ok THEN [ keys EXCEPT ![key] = new ] ELSE keys
    BY <1>4 DEF new
  <2>4. /\ keys' \in [ KeyAddr -> [ size : Nat, random : BOOLEAN ] ]
        /\ keys'[key].size >= KeySize
        /\ ok => keys'[key].random = TRUE
        /\ \A b \in KeyAddr : b # key => keys'[b] = keys[b]
    BY <1>1, <1>4, <2>1, <2>2, <2>3
  <2>5. failed' \subseteq MayFail /\ (~ok => "fread" \in failed')
    BY <1>4 DEF Outcome, CryptoInv, CryptoTypeOK
  <2>6. keys'[key] # NoKey
    BY <2>4, KeySizeIs24 DEF NoKey
  <2>7. CryptoTypeOK'
    BY <1>4, <2>4, <2>5 DEF CryptoInv, CryptoTypeOK, encVars
  <2>8. caller' # Null /\ ~moved' => keys'[caller'] # NoKey
    BY <1>4, <2>4, <2>6 DEF CryptoInv, CryptoTypeOK, BufferInv, Live
  <2>9. BufferInv'
    BY <1>1, <1>4, <2>1, <2>4, <2>5, <2>8 DEF CryptoInv, BufferInv, Live
  <2>10. StreamInv' /\ HandleInv' /\ CryptoStopHasCause'
    BY <1>1, <1>4 DEF CryptoInv, StreamInv, HandleInv, CryptoStopHasCause, encVars
  <2>. QED
    BY <2>7, <2>9, <2>10 DEF CryptoInv
<1>. QED
  BY <1>2, <1>3, <1>4 DEF ReadUrandom

LEMMA EncryptionKeeps ==
  CryptoInv /\ (sh_encrypt_segment \/ OpenCipher \/ SetKey \/ Encrypt \/ CloseCipher) => CryptoInv'
<1>. SUFFICES ASSUME CryptoInv, sh_encrypt_segment \/ OpenCipher \/ SetKey \/ Encrypt \/ CloseCipher
              PROVE  CryptoInv'
  OBVIOUS
<1>. USE DEF CryptoInv
<1>1. CASE sh_encrypt_segment
  BY <1>1, KeySizeIs24 DEF sh_encrypt_segment, CryptoTypeOK, StreamInv, HandleInv, BufferInv,
                           CryptoStopHasCause, Live, genVars
<1>2. CASE OpenCipher
  <2>1. PICK ok \in BOOLEAN : /\ Outcome("open", ok)
                              /\ cipher' = IF ok THEN "open" ELSE Null
                              /\ handles' = IF ok THEN handles + 1 ELSE handles
    BY <1>2 DEF OpenCipher
  <2>2. failed' \subseteq MayFail /\ (~ok => "open" \in failed')
    BY <2>1 DEF Outcome, CryptoTypeOK
  <2>3. gcrypt' \in {"checked", "finished"}
    BY <1>2 DEF OpenCipher, sh_init_gcrypt
  <2>. QED
    BY <1>2, <2>1, <2>2, <2>3, CryptoAssumption
    DEF OpenCipher, CryptoTypeOK, StreamInv, HandleInv, BufferInv, CryptoStopHasCause, Live, genVars
<1>3. CASE SetKey
  <2>1. CASE cipher = Null /\ Stop("null_deref") /\ UNCHANGED failed
    <3>1. CryptoStopHasCause'
      BY <1>3, <2>1 DEF SetKey, Stop, HandleInv, CryptoStopHasCause
    <3>. QED
      BY <2>1, <3>1, StopKeeps
  <2>2. ASSUME cipher # Null, NEW ok \in BOOLEAN, Outcome("setkey", ok),
               cipher' = IF ok THEN "keyed" ELSE cipher, pc' = "encrypt",
               UNCHANGED << status, store, genVars, gcrypt, handles, local_key, segment, retcode >>
        PROVE  CryptoInv'
    <3>1. failed' \subseteq MayFail
      BY <2>2 DEF Outcome, CryptoTypeOK
    <3>. QED
      BY <1>3, <2>2, <3>1, CryptoAssumption
      DEF SetKey, CryptoTypeOK, StreamInv, HandleInv, BufferInv, CryptoStopHasCause, Live, genVars
  <2>. QED
    BY <1>3, <2>1, <2>2 DEF SetKey
<1>4. CASE Encrypt
  <2>1. PICK ok \in BOOLEAN : /\ cipher = "keyed" => Outcome("encrypt", ok)
                              /\ cipher # "keyed" => UNCHANGED failed
                              /\ retcode' = IF ok THEN "success" ELSE "error"
                              /\ pc' = AfterEncrypt(retcode')
    BY <1>4 DEF Encrypt
  <2>2. failed' \subseteq MayFail /\ pc' = "close"
    BY <2>1 DEF Outcome, CryptoTypeOK, AfterEncrypt
  <2>. QED
    BY <1>4, <2>1, <2>2
    DEF Encrypt, CryptoTypeOK, StreamInv, HandleInv, BufferInv, CryptoStopHasCause, Live, genVars
<1>5. CASE CloseCipher
  BY <1>5 DEF CloseCipher, CryptoTypeOK, StreamInv, HandleInv, BufferInv, CryptoStopHasCause, Live, genVars
<1>. QED
  BY <1>1, <1>2, <1>3, <1>4, <1>5

LEMMA GetKeyKeeps == CryptoInv /\ sh_get_key => CryptoInv'
<1>. SUFFICES ASSUME CryptoInv, sh_get_key PROVE CryptoInv'
  OBVIOUS
<1>1. store \in Stores /\ store.unsecure_key \in Nat \union {Null} /\ UNCHANGED failed
  BY CryptoAssumption DEF CryptoInv, CryptoTypeOK, sh_get_key
<1>2. CASE store.unsecure_key = Null /\ Stop("null_deref")
  <2>1. CryptoStopHasCause'
    BY <1>2 DEF sh_get_key, Stop, CryptoStopHasCause
  <2>. QED
    BY <1>1, <1>2, <2>1, StopKeeps
<1>3. CASE store.unsecure_key # Null /\ ~Fits(store.unsecure_key) /\ Stop("overrun")
  <2>1. store.unsecure_key >= KeySize
    BY <1>1, <1>3, KeySizeIs24 DEF Fits
  <2>2. CryptoStopHasCause'
    BY <1>3, <2>1 DEF sh_get_key, Stop, CryptoStopHasCause
  <2>. QED
    BY <1>1, <1>3, <2>2, StopKeeps
<1>4. CASE /\ store.unsecure_key # Null /\ Fits(store.unsecure_key)
           /\ local_key' = store.unsecure_key + 1 /\ pc' = "open"
           /\ UNCHANGED << status, store, genVars, gcrypt, handles, cipher, segment, retcode >>
  <2>1. local_key' \in 0 .. KeySize
    BY <1>1, <1>4, KeySizeIs24 DEF Fits
  <2>. QED
    BY <1>1, <1>4, <2>1
    DEF sh_get_key, CryptoInv, CryptoTypeOK, StreamInv, HandleInv, BufferInv, CryptoStopHasCause,
        Live, genVars
<1>. QED
  BY <1>2, <1>3, <1>4 DEF sh_get_key

LEMMA CryptoStepKeeps == CryptoInv /\ [Next]_vars => CryptoInv'
<1>. SUFFICES ASSUME CryptoInv, [Next]_vars PROVE CryptoInv'
  OBVIOUS
<1>1. CASE UNCHANGED vars
  BY <1>1 DEF vars, genVars, encVars, CryptoInv, CryptoTypeOK, StreamInv, HandleInv, BufferInv,
              CryptoStopHasCause, Live
<1>2. CASE CloseUrandom
  BY <1>2 DEF CloseUrandom, CryptoInv, CryptoTypeOK, StreamInv, HandleInv, BufferInv,
              CryptoStopHasCause, Live, encVars
<1>. QED
  BY <1>1, <1>2, TakeBufferKeeps, GenerateKeeps, OpenKeeps, ReadKeeps, EncryptionKeeps, GetKeyKeeps
  DEF Next

LEMMA CryptoInvHolds == CryptoSpec => []CryptoInv
<1>1. QED
  BY InitHolds, CryptoStepKeeps, PTL DEF CryptoSpec
-----------------------------------------------------------------------------
(* Ranges of the variables: no second stream or handle is ever open, and   *)
(* never less than none; the key array is not written beyond its end.      *)
THEOREM CryptoTypeCorrect == CryptoSpec => []CryptoTypeOK
<1>1. CryptoInv => CryptoTypeOK
  BY DEF CryptoInv
<1>. QED
  BY <1>1, CryptoInvHolds, PTL

(* Lines 116-123 and 66-77: whatever fails, a call that returns has closed *)
(* its stream and its cipher handle, and not twice.                        *)
THEOREM NothingStaysOpen == CryptoSpec => []AllClosed
<1>1. CryptoInv => AllClosed
  BY DEF CryptoInv, AllClosed, StreamInv, HandleInv
<1>. QED
  BY <1>1, CryptoInvHolds, PTL

(* Lines 101-117: a key that could be read is whole, and the caller's      *)
(* unless a realloc has moved it.                                          *)
THEOREM KeysReachTheirCaller == CryptoSpec => []KeyReachesCaller
<1>1. CryptoInv => KeyReachesCaller
  BY DEF CryptoInv, KeyReachesCaller, BufferInv
<1>. QED
  BY <1>1, CryptoInvHolds, PTL

(* Lines 35-38 and 101-117: only a failed library call, a moved buffer or  *)
(* an unsuitable key string stops a call.                                  *)
THEOREM CryptoStopsAreCaused == CryptoSpec => []CryptoStopHasCause
<1>1. CryptoInv => CryptoStopHasCause
  BY DEF CryptoInv
<1>. QED
  BY <1>1, CryptoInvHolds, PTL
=============================================================================
