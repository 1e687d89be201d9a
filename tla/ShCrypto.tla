------------------------------ MODULE ShCrypto ------------------------------
(***************************************************************************)
(* Keys and segment encryption (src/sh_crypto.c): sh_generate_key on a key *)
(* buffer of the caller's, and sh_encrypt_segment with the sh_get_key call *)
(* it makes.  One caller; a call is taken apart where it calls the C       *)
(* library or libgcrypt, because every such call may fail.                 *)
(*                                                                         *)
(* Of a key's bytes the model keeps whether or how far they have been set. *)
(* What the source leaves unfinished is taken as it stands: the TPM branch *)
(* of sh_generate_key and sh_tpm_get_key do nothing, and the missing       *)
(* initialisation vector of the gcry_cipher_setiv call is not looked at.   *)
(***************************************************************************)
EXTENDS ShCore, FiniteSets

CONSTANTS
  KeyAddr,     \* heap addresses a key buffer can be placed at (a bound)
  BufferSizes, \* sizes of the key buffers callers bring along
  Stores,      \* the key store settings an application may make in the policy row
  MayFail,     \* the calls that may fail: "realloc", "fopen", "fread", "open", ...
  Null         \* the null pointer

ASSUME CryptoAssumption ==
  /\ Null \notin KeyAddr /\ Null \notin Nat /\ Null \notin {"open", "keyed"}
  /\ BufferSizes \subseteq Nat \ {0}
  /\ \A s \in Stores : /\ s.key_store_type \in {TPM_STORE, MEMORY_STORE}
                       /\ s.unsecure_key \in Nat \union {Null}

VARIABLES
  pc,        \* the next step of the call in progress, or "idle"
  status,    \* "ok", or how the process was stopped
  store,     \* the row's key_store_type, and of the key that unsecure_key points
             \* at the number of bytes before its first zero byte
  caller,    \* the key pointer that the caller of sh_generate_key holds
  keys,      \* the heap: address -> size of the key buffer there (0: none) and
             \* whether a key has been read into it
  key,       \* sh_generate_key's own copy of the pointer
  streams,   \* FILE streams that are open
  gcrypt,    \* libgcrypt: "none", "checked" (version check made) or "finished"
  handles,   \* cipher handles that are open
  local_key, \* sh_encrypt_segment's key array: bytes that sh_get_key has set
  cipher,    \* the handle: Null, "open" or "keyed"
  segment,   \* what the segment's memory holds: "plain" or "cipher"
  retcode,   \* of gcry_cipher_encrypt
  failed,    \* history: what has failed during this call
  moved      \* history: a key buffer has moved away from its caller's pointer

genVars == << caller, keys, key, streams, moved >>
encVars == << gcrypt, handles, local_key, cipher, segment, retcode >>
vars == << pc, status, store, genVars, encVars, failed >>

key_size_table ==
  << [algorithm |-> "AES128", sz_max |-> 16], [algorithm |-> "AES192",   sz_max |-> 24],
     [algorithm |-> "AES256", sz_max |-> 32], [algorithm |-> "3DES",     sz_max |-> 21],
     [algorithm |-> "TWOFISH", sz_max |-> 32], [algorithm |-> "BLOWFISH", sz_max |-> 56] >>

(* The first row of the policy's algorithm.  No row the lookup returns is  *)
(* without one, so the walk past the table's end does not happen.          *)
sh_get_key_size(protection) ==
  LET algo == sh_get_protection_policy(protection).algorithm
      hits == { k \in 1 .. 6 : key_size_table[k].algorithm = algo }
  IN  key_size_table[CHOOSE k \in hits : \A l \in hits : k <= l].sz_max

KeySize == sh_get_key_size(SH_PROTECT_MEDIUM)

NoKey == [ size |-> 0, random |-> FALSE ]
Live(a) == keys[a] # NoKey

Stop(reason) ==
  /\ status' = reason
  /\ UNCHANGED << pc, store, genVars, encVars >>

(* The step of a call that fails or succeeds under the name what.          *)
Outcome(what, ok) ==
  /\ ~ok => what \in MayFail
  /\ failed' = IF ok THEN failed ELSE failed \union {what}

Init ==
  /\ pc = "idle" /\ status = "ok" /\ store \in Stores
  /\ caller = Null /\ keys = [ a \in KeyAddr |-> NoKey ] /\ key = Null
  /\ streams = 0 /\ moved = FALSE
  /\ gcrypt \in {"none", "finished"} /\ handles = 0 /\ local_key = 0 /\ cipher = Null
  /\ segment = "plain" /\ retcode = "none" /\ failed = {}

(* The caller starts over with a null pointer or a fresh buffer, and frees *)
(* the one it has.                                                         *)
TakeBuffer ==
  /\ pc = "idle" /\ status = "ok"
  /\ LET rest == [ a \in KeyAddr |-> IF a = caller THEN NoKey ELSE keys[a] ]
     IN  \/ caller' = Null /\ keys' = rest
         \/ \E a \in KeyAddr, n \in BufferSizes :
              /\ rest[a] = NoKey
              /\ caller' = a /\ keys' = [ rest EXCEPT ![a] = [ size |-> n, random |-> FALSE ] ]
  /\ UNCHANGED << pc, status, store, key, streams, moved, encVars, failed >>

(* Where the switch on key_store_type leads. *)
AfterSwitch == IF store.key_store_type = MEMORY_STORE THEN "fopen" ELSE "idle"

(* Mutant: room is made for one byte less than the key has. *)
OneByteShort == KeySize - 1

(* The size that realloc is asked for. *)
AskedSize == KeySize

(* The heap once the caller's buffer has been resized and placed at a. *)
KeyMovedTo(a) ==
  [ b \in KeyAddr |->
      IF b = a THEN [ size |-> AskedSize, random |-> caller # Null /\ keys[caller].random ]
      ELSE IF b = caller THEN NoKey ELSE keys[b] ]

(* Entry, realloc of the pointer passed by value, and the switch.          *)
sh_generate_key ==
  /\ pc = "idle" /\ status = "ok"
  /\ \/ /\ caller # Null /\ ~Live(caller)
        /\ Stop("invalid_pointer") /\ failed' = {}
     \/ /\ caller # Null => Live(caller)
        /\ \E a \in KeyAddr :
             /\ a = caller \/ ~Live(a)
             /\ key' = a
             /\ moved' = (moved \/ a # caller)
             /\ keys' = KeyMovedTo(a)
        /\ failed' = {} /\ pc' = AfterSwitch
        /\ UNCHANGED << status, store, caller, streams, encVars >>
     \/ /\ caller # Null => Live(caller)
        /\ "realloc" \in MayFail /\ failed' = {"realloc"}
        /\ key' = caller /\ pc' = AfterSwitch
        /\ UNCHANGED << status, store, caller, keys, streams, moved, encVars >>

OpenUrandom ==
  /\ pc = "fopen" /\ status = "ok"
  /\ \E ok \in BOOLEAN :
       /\ Outcome("fopen", ok)
       /\ streams' = IF ok THEN streams + 1 ELSE streams
  /\ pc' = "fread"
  /\ UNCHANGED << status, store, caller, keys, key, moved, encVars >>

(* Mutant: the size of a pointer is read, not that of the key. *)
PointerSize == 8

(* The size of the one item that fread is to read. *)
ItemSize == KeySize

(* A buffer after n bytes have been read into it. *)
Filled(buffer, n) == [ buffer EXCEPT !.random = n >= KeySize ]

(* fread of one item into the buffer.  The comparison of its result, 0 or  *)
(* 1, with the key size decides only what is printed; either way the       *)
(* stream is closed next.                                                  *)
ReadUrandom ==
  /\ pc = "fread" /\ status = "ok"
  /\ \/ /\ "fopen" \in failed \/ key = Null
        /\ Stop("null_deref") /\ UNCHANGED failed
     \/ /\ "fopen" \notin failed /\ key # Null /\ keys[key].size < ItemSize
        /\ Stop("overrun") /\ UNCHANGED failed
     \/ /\ "fopen" \notin failed /\ key # Null /\ keys[key].size >= ItemSize
        /\ \E ok \in BOOLEAN :
             /\ Outcome("fread", ok)
             /\ keys' = IF ok THEN [ keys EXCEPT ![key] = Filled(@, ItemSize) ] ELSE keys
        /\ pc' = "fclose"
        /\ UNCHANGED << status, store, caller, key, streams, moved, encVars >>

(* Mutant: the error path closes the stream and goes on to the next fclose. *)
CloseTwice ==
  /\ pc = "fclose" /\ status = "ok"
  /\ streams' = streams - 2 /\ pc' = "idle"
  /\ UNCHANGED << status, store, caller, keys, key, moved, encVars, failed >>

(* Both paths close the stream once. *)
CloseUrandom ==
  /\ pc = "fclose" /\ status = "ok"
  /\ streams' = streams - 1 /\ pc' = "idle"
  /\ UNCHANGED << status, store, caller, keys, key, moved, encVars, failed >>

(* Entry of sh_encrypt_segment.  The walk to the policy's row gives the    *)
(* same row for every grade, with encryption enabled, so the safeguard of  *)
(* sh_get_key lets every grade pass; with it or not, the switch follows.   *)
sh_encrypt_segment ==
  /\ pc = "idle" /\ status = "ok"
  /\ local_key' = 0 /\ cipher' = Null /\ retcode' = "none" /\ failed' = {}
  /\ pc' = "getkey"
  /\ UNCHANGED << status, store, genVars, gcrypt, handles, segment >>

(* A string of n bytes and its terminator fit into the key array. *)
Fits(n) == n < KeySize

(* The switch: the TPM case falls through to the copy.  strcpy copies up   *)
(* to the first zero byte and one byte more.                               *)
sh_get_key ==
  /\ pc = "getkey" /\ status = "ok"
  /\ \/ /\ store.unsecure_key = Null
        /\ Stop("null_deref")
     \/ /\ store.unsecure_key # Null /\ ~Fits(store.unsecure_key)
        /\ Stop("overrun")
     \/ /\ store.unsecure_key # Null /\ Fits(store.unsecure_key)
        /\ local_key' = store.unsecure_key + 1
        /\ pc' = "open"
        /\ UNCHANGED << status, store, genVars, gcrypt, handles, cipher, segment, retcode >>
  /\ UNCHANGED failed

(* gcry_check_version makes libgcrypt ready, and never marks its           *)
(* initialisation as finished.                                             *)
sh_init_gcrypt(state) == IF state = "finished" THEN state ELSE "checked"

OpenCipher ==
  /\ pc = "open" /\ status = "ok"
  /\ gcrypt' = sh_init_gcrypt(gcrypt)
  /\ \E ok \in BOOLEAN :
       /\ Outcome("open", ok)
       /\ cipher' = IF ok THEN "open" ELSE Null
       /\ handles' = IF ok THEN handles + 1 ELSE handles
  /\ pc' = "setkey"
  /\ UNCHANGED << status, store, genVars, local_key, segment, retcode >>

(* The key and the vector are set through the handle; the result of        *)
(* neither call is looked at.                                              *)
SetKey ==
  /\ pc = "setkey" /\ status = "ok"
  /\ \/ /\ cipher = Null
        /\ Stop("null_deref") /\ UNCHANGED failed
     \/ /\ cipher # Null
        /\ \E ok \in BOOLEAN :
             /\ Outcome("setkey", ok)
             /\ cipher' = IF ok THEN "keyed" ELSE cipher
        /\ pc' = "encrypt"
        /\ UNCHANGED << status, store, genVars, gcrypt, handles, local_key, segment, retcode >>

(* Mutant: the handle is closed after an error only. *)
CloseAfterError(code) == IF code = "error" THEN "close" ELSE "idle"

(* What follows the encryption, whatever its result. *)
AfterEncrypt(code) == "close"

(* The ciphertext goes to the local array out, which nobody copies from.   *)
Encrypt ==
  /\ pc = "encrypt" /\ status = "ok"
  /\ \E ok \in BOOLEAN :
       /\ ok => cipher = "keyed"
       /\ cipher = "keyed" => Outcome("encrypt", ok)
       /\ cipher # "keyed" => UNCHANGED failed
       /\ retcode' = IF ok THEN "success" ELSE "error"
       /\ pc' = AfterEncrypt(retcode')
  /\ UNCHANGED << status, store, genVars, gcrypt, handles, local_key, cipher, segment >>

CloseCipher ==
  /\ pc = "close" /\ status = "ok"
  /\ handles' = handles - 1 /\ cipher' = Null /\ pc' = "idle"
  /\ UNCHANGED << status, store, genVars, gcrypt, local_key, segment, retcode, failed >>

Next ==
  \/ TakeBuffer \/ sh_generate_key \/ OpenUrandom \/ ReadUrandom \/ CloseUrandom
  \/ sh_encrypt_segment \/ sh_get_key \/ OpenCipher \/ SetKey \/ Encrypt \/ CloseCipher

CryptoSpec == Init /\ [][Next]_vars
-----------------------------------------------------------------------------
(* Ranges of the variables. *)
CryptoTypeOK ==
  /\ pc \in {"idle", "fopen", "fread", "fclose", "getkey", "open", "setkey", "encrypt", "close"}
  /\ status \in {"ok", "invalid_pointer", "null_deref", "overrun"}
  /\ store \in Stores /\ {caller, key} \subseteq KeyAddr \union {Null}
  /\ keys \in [ KeyAddr -> [ size : Nat, random : BOOLEAN ] ]
  /\ streams \in 0 .. 1 /\ handles \in 0 .. 1 /\ moved \in BOOLEAN
  /\ gcrypt \in {"none", "checked", "finished"} /\ local_key \in 0 .. KeySize
  /\ cipher \in {Null, "open", "keyed"} /\ segment \in {"plain", "cipher"}
  /\ retcode \in {"none", "success", "error"} /\ failed \subseteq MayFail

(* Lines 116-123 and 66-77: on every path through its error handling, and  *)
(* after any number of calls, a call that returns has closed its stream    *)
(* and its cipher handle, and not twice.                                   *)
AllClosed == pc = "idle" /\ status = "ok" => streams = 0 /\ handles = 0

(* Lines 101-117: a key that could be read is in an allocated buffer which *)
(* holds all of it, and in the caller's own unless a realloc has moved it. *)
KeyReachesCaller ==
  pc = "fclose" /\ status = "ok" /\ "fread" \notin failed =>
    /\ key \in KeyAddr /\ keys[key].size >= KeySize /\ keys[key].random
    /\ key = caller \/ moved

(* Lines 35-38 and 101-117: what can stop a call, and nothing else can: a  *)
(* failed library call, a key buffer that moved under its caller, or the   *)
(* key string of the policy row being absent or a full key long.           *)
CryptoStopHasCause ==
  /\ status = "invalid_pointer" => moved
  /\ status = "overrun" =>
       \/ pc = "fread" /\ "realloc" \in failed
       \/ pc = "getkey" /\ store.unsecure_key >= KeySize
  /\ status = "null_deref" =>
       \/ pc = "fread" /\ failed \intersect {"fopen", "realloc"} # {}
       \/ pc = "getkey" /\ store.unsecure_key = Null
       \/ pc = "setkey" /\ "open" \in failed
=============================================================================
