----------------------------- MODULE FapiProofs -----------------------------
(***************************************************************************)
(* Proofs about Fapi_GetRandom: however many commands are started, for     *)
(* however many bytes, and whatever fails, nothing is left in the TPM      *)
(* unless it was refused, no buffer is lost or freed under the             *)
(* application, and a flush is only sent for what a command made.          *)
(***************************************************************************)
EXTENDS FapiRandom, TLAPS

(* Between the start of a command and its cleanup.                         *)
InCommand == context.state # "INIT" /\ pc \notin {"clean", "flush"}

InState(state) == InCommand /\ context.state = state

InPrimary(states) ==
  /\ InState("WAIT_FOR_SESSION")
  /\ context.session_state = "WAIT_FOR_PRIMARY" /\ context.primary_state \in states

(* The command waits for a response of ESYS.                               *)
Waiting ==
  \/ InPrimary({"HAUTH_SENT", "GET_CAP"})
  \/ InState("WAIT_FOR_SESSION") /\ context.session_state = "WAIT_FOR_SESSION1"
  \/ InState("WAIT_FOR_RANDOM") /\ context.get_random_state = "SENT"
  \/ InState("CLEANUP") /\ context.cleanup_state \in {"SESSION1", "SRK"}
  \/ pc = "flush"

(* ESYS is ready, or works for the command in progress.  Once it does not, *)
(* because it failed or a pending command was forgotten, it never will.    *)
Sound == port = "INIT" \/ Waiting

Handles(c) == {c.session1, c.srk_handle} \intersect Objects

Held == Handles(context)

(* What the TPM holds for the command, the pending response included.      *)
Now ==
  IF port = "SENT" /\ done THEN (Held \union command.adds) \ command.takes ELSE Held

Sends1(adds, takes) == command = [ adds |-> adds, takes |-> takes ]

(* Session and key are told apart.                                         *)
HandleInv ==
  /\ context.session1 \in ({"session"} \X Nat) \union {None}
  /\ context.srk_handle \in ({"srk"} \X Nat) \union {None, StoredKey}

(* Where the command may be between two calls.                             *)
PhaseInv ==
  /\ pc # "idle" => context.state # "INIT"
  /\ pc \in {"idle", "poll"} /\ context.state # "INIT" =>
       Waiting \/ InPrimary({"READ_KEY", "READ_HIERARCHY_FINISH", "VERIFY_PERSISTENT"})
  /\ InState("WAIT_FOR_SESSION") => context.session1 = None
  /\ InPrimary({"READ_KEY", "READ_HIERARCHY_FINISH", "HAUTH_SENT", "VERIFY_PERSISTENT",
                "GET_CAP"})
       => context.srk_handle = None
  /\ InState("WAIT_FOR_RANDOM") => context.session1 # None
  /\ InState("CLEANUP") =>
       IF context.cleanup_state \in {"INIT", "SESSION1"} THEN context.session1 # None
       ELSE context.session1 = None /\ OwnKey(context) # None
  /\ pc = "flush" => Target(context) # None

(* Whether the root key is persistent agrees with its handle.              *)
KeyInv ==
  /\ context.state # "INIT" =>
       /\ context.srk_handle = StoredKey => context.srk_persistent
       /\ context.srk_handle \in Objects => ~context.srk_persistent
  /\ InPrimary({"READ_HIERARCHY_FINISH", "HAUTH_SENT"}) => ~context.srk_persistent
  /\ InPrimary({"VERIFY_PERSISTENT", "GET_CAP"}) => context.srk_persistent

(* A command that waits has sent what its state says.                      *)
WaitInv ==
  /\ Waiting => port = "SENT"
  /\ InPrimary({"HAUTH_SENT"}) => Sends1({<< "srk", calls >>}, {})
  /\ InPrimary({"GET_CAP"}) => Sends1({}, {})
  /\ InState("WAIT_FOR_SESSION") /\ context.session_state = "WAIT_FOR_SESSION1" =>
       Sends1({<< "session", calls >>}, {})
  /\ InState("WAIT_FOR_RANDOM") /\ context.get_random_state = "SENT" => Sends1({}, {})
  /\ InState("CLEANUP") /\ context.cleanup_state = "SESSION1" =>
       Sends1({}, {context.session1})
  /\ InState("CLEANUP") /\ context.cleanup_state = "SRK" => Sends1({}, {context.srk_handle})
  /\ pc = "flush" => Sends1({}, {Target(context)})

(* The ledger of the objects in the TPM, and of the buffers.               *)
LedgerInv ==
  Sound =>
    /\ Now \subseteq live /\ live \subseteq lost \union Now
    /\ context.state = "INIT" => Held = {}
    /\ ~InState("CLEANUP") => context.cleanup_state = "INIT"
    /\ buffers \subseteq given \union freed \union (IF InCommand THEN {context.data} ELSE {})

BufferInv ==
  /\ buffers \subseteq 1 .. calls /\ given \subseteq 1 .. calls /\ freed \subseteq 1 .. calls
  /\ given \intersect freed = {}
  /\ InCommand => calls > 0 /\ calls \notin given \union freed /\ context.data \in {0, calls}
  /\ InState("WAIT_FOR_RANDOM") /\ context.get_random_state = "SENT" => context.data = calls
  /\ InState("CLEANUP") => context.data = calls
  /\ InState("WAIT_FOR_SESSION") => context.data = 0
  /\ InState("WAIT_FOR_RANDOM") /\ context.get_random_state = "INIT" => context.data = 0

(* The bytes that are there and those that are to come.                    *)
BytesInv ==
  /\ InState("WAIT_FOR_SESSION") => context.numBytes = wanted
  /\ InState("WAIT_FOR_RANDOM") =>
       context.numBytes = wanted - (IF context.get_random_state = "SENT" THEN context.idx ELSE 0)
  /\ InState("CLEANUP") => context.idx = wanted

Inv ==
  /\ FapiTypeOK /\ HandleInv /\ PhaseInv /\ KeyInv /\ WaitInv /\ LedgerInv /\ BufferInv
  /\ BytesInv

LEMMA Initially == Init => Inv
<1>. SUFFICES ASSUME Init PROVE Inv
  OBVIOUS
<1>. USE HandlesAssumption DEF Init, PortInit
<1>1. FapiTypeOK
  BY DEF FapiTypeOK, Contexts
<1>2. HandleInv /\ PhaseInv /\ KeyInv /\ WaitInv
  BY DEF HandleInv, PhaseInv, KeyInv, WaitInv, Waiting, InPrimary, InState, InCommand
<1>3. LedgerInv /\ BufferInv /\ BytesInv
  BY DEF LedgerInv, BufferInv, BytesInv, Now, Held, Handles, InState, InCommand
<1>. QED
  BY <1>1, <1>2, <1>3 DEF Inv

(* What the places where a command fails have in common.                   *)
Failing(c) ==
  /\ pc = "finish" /\ Fail(c) /\ SameCall
  /\ c \in Contexts /\ c.state = context.state
  /\ c.session1 \in ({"session"} \X Nat) \union {None}
  /\ c.srk_handle \in ({"srk"} \X Nat) \union {None, StoredKey}
  /\ c.srk_handle = StoredKey => c.srk_persistent
  /\ c.srk_handle \in Objects => ~c.srk_persistent
  /\ c.data \in {0, calls}
  /\ buffers' \subseteq 1 .. calls
  /\ port' \in {"INIT", "SENT", "STUCK"} /\ done' \in BOOLEAN
  /\ outcome' \in {"none", "pending", "ok", "failed"} /\ pollevents' \in BOOLEAN
  /\ command' \in [ adds : SUBSET Objects, takes : SUBSET Objects ]
  /\ port' = "INIT" =>
       /\ c.cleanup_state = "INIT"
       /\ Handles(c) \subseteq live /\ live \subseteq lost \union Handles(c)
       /\ buffers' \subseteq given \union freed \union {c.data}

LEMMA FailKeeps ==
  ASSUME Inv, NEW c, Failing(c)
  PROVE  Inv'
<1>. USE DEF Failing, Fail, SameCall, Inv
<1>1. context' \in Contexts /\ context' = [ c EXCEPT !.data = 0, !.get_random_state = "INIT" ]
  BY DEF Contexts
<1>2. /\ context'.state = c.state /\ context'.session1 = c.session1
      /\ context'.srk_handle = c.srk_handle /\ context'.srk_persistent = c.srk_persistent
      /\ context'.cleanup_state = c.cleanup_state
  BY <1>1 DEF Contexts
<1>3. ~InCommand' /\ ~Waiting' /\ context'.state # "INIT"
  BY <1>2 DEF InCommand, Waiting, InPrimary, InState, PhaseInv
<1>4. freed' \subseteq 1 .. calls /\ calls \in Nat /\ given \intersect freed' = {}
  BY DEF BufferInv, FapiTypeOK, InCommand, PhaseInv
<1>5. FapiTypeOK'
  BY <1>1, <1>4 DEF FapiTypeOK
<1>6. HandleInv' /\ KeyInv' /\ PhaseInv' /\ WaitInv'
  BY <1>2, <1>3 DEF HandleInv, KeyInv, PhaseInv, WaitInv, InCommand, InState, InPrimary
<1>7. BufferInv' /\ BytesInv'
  BY <1>3, <1>4 DEF BufferInv, BytesInv, InState
<1>8. LedgerInv'
  <2>1. Held' = Handles(c)
    BY <1>2 DEF Held, Handles
  <2>2. freed' = freed \union ({c.data} \ {0}) /\ 0 \notin buffers'
    OBVIOUS
  <2>. QED
    BY <1>2, <1>3, <2>1, <2>2 DEF LedgerInv, Sound, Now, InState
<1>. QED
  BY <1>5, <1>6, <1>7, <1>8

(* A command that fails where it stands, ready for another one only if the *)
(* TPM has not acted on what it waits for.                                 *)
LEMMA FailHere ==
  ASSUME Inv, pc = "finish", context.state # "CLEANUP", Fail(context), SameCall,
         UNCHANGED buffers, pollevents' \in BOOLEAN,
         (UNCHANGED << portVars, command >>) \/ EsysRefuses \/ (EsysFails /\ Waiting)
  PROVE  Inv'
<1>. USE DEF Inv
<1>1. /\ port' \in {"INIT", "SENT", "STUCK"} /\ done' \in BOOLEAN
      /\ outcome' \in {"none", "pending", "ok", "failed"} /\ command' = command
  BY DEF EsysRefuses, Refuses, EsysFails, Fails, portVars, FapiTypeOK
<1>2. port' = "INIT" => Sound /\ ~(port = "SENT" /\ done)
  BY DEF EsysRefuses, Refuses, EsysFails, Fails, portVars, FapiTypeOK, Sound, WaitInv
<1>3. InCommand /\ context.state # "INIT"
  BY DEF PhaseInv, InCommand
<1>4. port' = "INIT" =>
        /\ context.cleanup_state = "INIT"
        /\ Handles(context) \subseteq live /\ live \subseteq lost \union Handles(context)
        /\ buffers' \subseteq given \union freed \union {context.data}
  BY <1>2, <1>3 DEF LedgerInv, Now, Held, InState
<1>5. Failing(context)
  BY <1>1, <1>3, <1>4 DEF Failing, FapiTypeOK, HandleInv, KeyInv, BufferInv
<1>. QED
  BY <1>5, FailKeeps

-----------------------------------------------------------------------------
(* The steps that only lead into a call or out of it. *)
LEMMA QuietKeeps ==
  ASSUME Inv, Poll \/ Finish \/ TryAgain
  PROVE  Inv'
<1>. USE DEF Inv
<1>1. /\ UNCHANGED << context, portVars, timeout, command, stored, live, historyVars >>
      /\ pc' \in {"idle", "poll", "finish"} /\ pc \in {"idle", "poll", "finish"}
      /\ blocking' \in BOOLEAN /\ pollevents' \in BOOLEAN /\ context.state # "INIT"
  BY DEF Poll, Finish, TryAgain, Return, FapiTypeOK, PhaseInv, At, AtPrimary
<1>2. InCommand /\ InCommand'
  BY <1>1 DEF InCommand
<1>3. Waiting' = Waiting
  BY <1>1, <1>2 DEF Waiting, InPrimary, InState
<1>4. FapiTypeOK' /\ HandleInv' /\ KeyInv' /\ WaitInv'
  BY <1>1, <1>2, <1>3
  DEF FapiTypeOK, HandleInv, KeyInv, WaitInv, InPrimary, InState, portVars, historyVars, Sends1
<1>5. PhaseInv'
  BY <1>1, <1>2, <1>3
  DEF PhaseInv, InPrimary, InState, Poll, Finish, TryAgain, Waiting, At, AtPrimary, OwnKey
<1>6. LedgerInv' /\ BufferInv' /\ BytesInv'
  BY <1>1, <1>2, <1>3
  DEF LedgerInv, BufferInv, BytesInv, InState, portVars, historyVars, Sound, Now, Held, Handles
<1>. QED
  BY <1>4, <1>5, <1>6

LEMMA TpmKeeps ==
  ASSUME Inv, Tpm
  PROVE  Inv'
<1>. USE DEF Inv
<1>1. /\ UNCHANGED << context, port, outcome, timeout, command, pollevents, stored, pc, blocking,
                      historyVars >>
      /\ port # "INIT" /\ ~done /\ done' = TRUE
      /\ live' = (live \union command.adds) \ command.takes
  BY DEF Tpm, Acts
<1>2. Waiting' = Waiting /\ InCommand' = InCommand /\ Held' = Held /\ Sound' = Sound
  BY <1>1 DEF Waiting, InPrimary, InState, InCommand, Held, Handles, Sound
<1>3. FapiTypeOK' /\ HandleInv' /\ KeyInv' /\ WaitInv' /\ PhaseInv'
  BY <1>1, <1>2
  DEF FapiTypeOK, HandleInv, KeyInv, WaitInv, PhaseInv, InPrimary, InState, historyVars, Sends1,
      Target, OwnKey
<1>4. BufferInv' /\ BytesInv'
  BY <1>1, <1>2 DEF BufferInv, BytesInv, InState, historyVars
<1>5. LedgerInv'
  <2>1. Sound => port = "SENT" /\ Now = Held /\ Now' = (Held \union command.adds) \ command.takes
    BY <1>1, <1>2 DEF Sound, WaitInv, Now
  <2>. QED
    BY <1>1, <1>2, <2>1 DEF LedgerInv, InState, historyVars
<1>. QED
  BY <1>3, <1>4, <1>5

LEMMA BeginKeeps ==
  ASSUME Inv, NEW block \in BOOLEAN, Begin(block)
  PROVE  Inv'
<1>. USE DEF Inv
<1>1. /\ pc = "idle" /\ UNCHANGED << portVars, command, pollevents, stored, live, buffers, given,
                                     freed, lost >>
      /\ timeout' \in {0, -1} /\ blocking' \in BOOLEAN
  BY DEF Begin, FapiTypeOK
<1>2. CASE /\ context.state # "INIT" /\ context' = [ context EXCEPT !.state = "INIT" ]
           /\ UNCHANGED << pc, calls, wanted >>
  <2>1. context' \in Contexts /\ context'.state = "INIT"
    BY <1>2 DEF FapiTypeOK, Contexts
  <2>2. /\ context'.session1 = context.session1 /\ context'.srk_handle = context.srk_handle
        /\ context'.cleanup_state = context.cleanup_state
    BY <1>2 DEF FapiTypeOK, Contexts
  <2>3. ~InCommand' /\ ~Waiting' /\ InCommand
    BY <1>1, <1>2, <2>1 DEF InCommand, Waiting, InPrimary, InState
  <2>4. FapiTypeOK' /\ HandleInv' /\ PhaseInv' /\ KeyInv' /\ WaitInv' /\ BufferInv' /\ BytesInv'
    BY <1>1, <1>2, <2>1, <2>2, <2>3
    DEF FapiTypeOK, HandleInv, PhaseInv, KeyInv, WaitInv, BufferInv, BytesInv, InState, InPrimary,
        portVars
  <2>5. LedgerInv'
    <3>1. SUFFICES ASSUME port = "INIT" PROVE LedgerInv'
      BY <1>1, <2>3 DEF LedgerInv, Sound, portVars
    <3>2. /\ InState("WAIT_FOR_SESSION") /\ context.session1 = None /\ context.srk_handle = None
          /\ context.data = 0
      BY <1>1, <1>2, <3>1 DEF PhaseInv, WaitInv, InPrimary, InState, BufferInv
    <3>3. Held = {} /\ Held' = {} /\ 0 \notin buffers
      BY <2>2, <3>2, HandlesAssumption DEF Held, Handles, BufferInv
    <3>. QED
      BY <1>1, <2>1, <2>2, <2>3, <3>1, <3>2, <3>3
      DEF LedgerInv, Now, Sound, InState, portVars
  <2>. QED
    BY <2>4, <2>5
<1>3. CASE /\ context.state = "INIT" /\ calls' = calls + 1
           /\ \E n \in 0 .. MaxBytes :
                /\ wanted' = n
                /\ \/ /\ context' = [ Fresh(context, n) EXCEPT
                                        !.state = "WAIT_FOR_SESSION", !.primary_state = "READ_KEY",
                                        !.session_state = "WAIT_FOR_PRIMARY" ]
                      /\ pc' \in {"poll", "idle"}
                   \/ context' = Fresh(context, n) /\ UNCHANGED pc
  <2>1. PICK n \in 0 .. MaxBytes :
          /\ wanted' = n
          /\ \/ /\ context' = [ Fresh(context, n) EXCEPT
                                  !.state = "WAIT_FOR_SESSION", !.primary_state = "READ_KEY",
                                  !.session_state = "WAIT_FOR_PRIMARY" ]
                /\ pc' \in {"poll", "idle"}
             \/ context' = Fresh(context, n) /\ UNCHANGED pc
    BY <1>3
  <2>2. /\ context' \in Contexts /\ context'.session1 = None /\ context'.srk_handle = None
        /\ context'.numBytes = n /\ context'.data = 0
        /\ context'.cleanup_state = context.cleanup_state
        /\ \/ /\ context'.state = "WAIT_FOR_SESSION" /\ context'.primary_state = "READ_KEY"
              /\ context'.session_state = "WAIT_FOR_PRIMARY" /\ pc' \in {"poll", "idle"}
           \/ context'.state = "INIT" /\ pc' = "idle"
    <3>1. n \in Nat /\ context \in Contexts
      BY NumbersAssumption DEF FapiTypeOK
    <3>2. /\ Fresh(context, n) \in Contexts
          /\ Fresh(context, n).session1 = None /\ Fresh(context, n).srk_handle = None
          /\ Fresh(context, n).numBytes = n /\ Fresh(context, n).data = 0
          /\ Fresh(context, n).cleanup_state = context.cleanup_state
          /\ Fresh(context, n).state = "INIT"
      BY <1>3, <3>1 DEF Fresh, Contexts
    <3>. QED
      BY <1>1, <2>1, <3>2, ZenonT(30) DEF Contexts
  <2>3. ~InCommand /\ ~Waiting /\ ~Waiting'
    BY <1>1, <1>3, <2>2 DEF InCommand, Waiting, InPrimary, InState
  <2>4. FapiTypeOK'
    BY <1>1, <1>3, <2>1, <2>2, NumbersAssumption DEF FapiTypeOK, portVars
  <2>5. HandleInv' /\ PhaseInv' /\ KeyInv' /\ WaitInv'
    BY <2>2, <2>3, HandlesAssumption
    DEF HandleInv, PhaseInv, KeyInv, WaitInv, InCommand, InPrimary, InState
  <2>6. BufferInv'
    <3>1. calls \in Nat /\ calls' = calls + 1
      BY <1>3 DEF FapiTypeOK
    <3>2. calls' \notin given \union freed /\ 1 .. calls \subseteq 1 .. calls'
      BY <3>1 DEF BufferInv
    <3>. QED
      BY <1>1, <2>2, <3>1, <3>2 DEF BufferInv, InCommand, InState
  <2>7. BytesInv'
    BY <2>1, <2>2 DEF BytesInv, InState
  <2>8. LedgerInv'
    <3>1. Held' = {}
      BY <2>2, HandlesAssumption DEF Held, Handles
    <3>. QED
      BY <1>1, <1>3, <2>2, <2>3, <3>1 DEF LedgerInv, Sound, Now, InState, InCommand, portVars
  <2>. QED
    BY <2>4, <2>5, <2>6, <2>7, <2>8
<1>. QED
  BY <1>2, <1>3 DEF Begin
-----------------------------------------------------------------------------
(* What the steps of a command that goes on have in common. *)
Going ==
  /\ InCommand /\ pc = "finish" /\ InCommand' /\ SameCall /\ UNCHANGED freed
  /\ pc' \in {"finish", "poll", "idle"}
  /\ context' \in Contexts /\ context'.cleanup_state = context.cleanup_state

LEMMA GoingKeeps ==
  ASSUME Inv, Going, UNCHANGED << portVars, command, buffers >>, pollevents' \in BOOLEAN,
         ~Waiting, ~Waiting', ~InState("CLEANUP"), ~InState("CLEANUP")',
         UNCHANGED << context.session1, context.srk_handle, context.data >>,
         PhaseInv', KeyInv', BufferInv', BytesInv'
  PROVE  Inv'
<1>. USE DEF Inv, Going, SameCall
<1>1. FapiTypeOK'
  BY DEF FapiTypeOK, portVars
<1>2. HandleInv'
  BY DEF HandleInv
<1>3. WaitInv'
  BY DEF WaitInv, Waiting, InPrimary
<1>4. LedgerInv'
  BY DEF LedgerInv, Sound, Now, Held, Handles, portVars, InCommand
<1>. QED
  BY <1>1, <1>2, <1>3, <1>4

LEMMA ReadKeyKeeps ==
  ASSUME Inv, ReadKey
  PROVE  Inv'
<1>. USE DEF Inv
<1>1. /\ pc = "finish" /\ InPrimary({"READ_KEY"}) /\ context \in Contexts
      /\ UNCHANGED << portVars, command, buffers >> /\ SameCall /\ pollevents' \in BOOLEAN
  BY DEF ReadKey, AtPrimary, At, InPrimary, InState, InCommand, FapiTypeOK
<1>2. ~Waiting
  BY <1>1 DEF Waiting, InPrimary, InState
<1>3. CASE Fail(context)
  BY <1>1, <1>3, FailHere DEF InPrimary, InState
<1>4. CASE /\ Wait([ context EXCEPT !.srk_persistent = TRUE, !.primary_state = "VERIFY_PERSISTENT" ])
           \/ GoOn([ context EXCEPT !.srk_persistent = FALSE,
                                    !.primary_state = "READ_HIERARCHY_FINISH" ])
  <2>1. /\ context' \in Contexts /\ context'.state = "WAIT_FOR_SESSION"
        /\ context'.session_state = "WAIT_FOR_PRIMARY"
        /\ UNCHANGED << context.session1, context.srk_handle, context.data, context.numBytes,
                        context.cleanup_state >>
        /\ \/ context'.primary_state = "VERIFY_PERSISTENT" /\ context'.srk_persistent
           \/ /\ context'.primary_state = "READ_HIERARCHY_FINISH" /\ ~context'.srk_persistent
              /\ pc' = "finish"
        /\ pc' \in {"finish", "poll", "idle"} /\ UNCHANGED freed
    BY <1>1, <1>4 DEF Wait, GoOn, Return, InPrimary, InState, Contexts
  <2>2. InCommand /\ InCommand' /\ ~Waiting' /\ ~InState("CLEANUP") /\ ~InState("CLEANUP")'
    BY <1>1, <2>1 DEF InCommand, InPrimary, InState, Waiting
  <2>3. context.srk_handle = None /\ context.session1 = None /\ context.data = 0
    BY <1>1 DEF PhaseInv, BufferInv, InPrimary, InState
  <2>4. PhaseInv' /\ KeyInv'
    BY <2>1, <2>2, <2>3, HandlesAssumption DEF PhaseInv, KeyInv, InPrimary, InState
  <2>5. BufferInv' /\ BytesInv'
    BY <1>1, <2>1, <2>2, <2>3 DEF BufferInv, BytesInv, InState, InPrimary, SameCall
  <2>. QED
    BY <1>1, <1>2, <2>1, <2>2, <2>4, <2>5, GoingKeeps DEF Going
<1>. QED
  BY <1>3, <1>4 DEF ReadKey

(* A command is sent and its response waited for. *)
LEMMA SendingKeeps ==
  ASSUME Inv, Going, NEW adds \in SUBSET Objects, EsysSends(adds, {}),
         pollevents' \in BOOLEAN, Waiting', ~InState("CLEANUP"), ~InState("CLEANUP")',
         UNCHANGED << context.session1, context.srk_handle >>,
         buffers' \subseteq buffers \union {context'.data},
         context'.data = context.data \/ context.data = 0,
         InPrimary({"HAUTH_SENT"})' => adds = {<< "srk", calls >>},
         InPrimary({"GET_CAP"})' => adds = {},
         InState("WAIT_FOR_SESSION")' /\ context'.session_state = "WAIT_FOR_SESSION1" =>
           adds = {<< "session", calls >>},
         InState("WAIT_FOR_RANDOM")' /\ context'.get_random_state = "SENT" => adds = {},
         PhaseInv', KeyInv', BufferInv', BytesInv'
  PROVE  Inv'
<1>. USE DEF Inv, Going, SameCall
<1>1. /\ port = "INIT" /\ port' = "SENT" /\ done' = FALSE /\ outcome' = "pending"
      /\ command' = [ adds |-> adds, takes |-> {} ]
  BY DEF EsysSends, Sends
<1>2. FapiTypeOK'
  <2>1. buffers' \subseteq Nat /\ command' \in [ adds : SUBSET Objects, takes : SUBSET Objects ]
    BY <1>1 DEF BufferInv
  <2>. QED
    BY <1>1, <2>1 DEF FapiTypeOK
<1>3. WaitInv' /\ HandleInv'
  BY <1>1 DEF WaitInv, HandleInv, Sends1, InPrimary, InState, InCommand
<1>4. LedgerInv'
  <2>1. Now = Held /\ Now' = Held' /\ Held' = Held
    BY <1>1 DEF Now, Held, Handles
  <2>2. 0 \notin buffers
    BY DEF BufferInv
  <2>. QED
    BY <1>1, <2>1, <2>2 DEF LedgerInv, Sound, InCommand
<1>. QED
  BY <1>2, <1>3, <1>4

LEMMA ReadHierarchyKeeps ==
  ASSUME Inv, ReadHierarchy
  PROVE  Inv'
<1>. USE DEF Inv
<1>1. /\ pc = "finish" /\ InPrimary({"READ_HIERARCHY_FINISH"}) /\ context \in Contexts
      /\ UNCHANGED buffers /\ SameCall /\ pollevents' \in BOOLEAN
  BY DEF ReadHierarchy, AtPrimary, At, InPrimary, InState, InCommand, FapiTypeOK
<1>2. CASE Fail(context)
  BY <1>1, <1>2, FailHere DEF InPrimary, InState, ReadHierarchy, GoOn, Fail
<1>3. CASE /\ EsysSends({<< "srk", calls >>}, {})
           /\ GoOn([ context EXCEPT !.primary_state = "HAUTH_SENT" ])
  <2>1. /\ context' \in Contexts /\ context'.state = "WAIT_FOR_SESSION"
        /\ context'.session_state = "WAIT_FOR_PRIMARY" /\ context'.primary_state = "HAUTH_SENT"
        /\ UNCHANGED << context.session1, context.srk_handle, context.data, context.numBytes,
                        context.srk_persistent, context.cleanup_state, pc, freed >>
    BY <1>1, <1>3 DEF GoOn, InPrimary, InState, Contexts
  <2>2. InCommand /\ InCommand' /\ Waiting' /\ ~InState("CLEANUP") /\ ~InState("CLEANUP")'
    BY <1>1, <2>1 DEF InCommand, InPrimary, InState, Waiting
  <2>3. /\ context.srk_handle = None /\ context.session1 = None /\ context.data = 0
        /\ ~context.srk_persistent
    BY <1>1 DEF PhaseInv, BufferInv, KeyInv, InPrimary, InState
  <2>4. PhaseInv' /\ KeyInv'
    BY <1>1, <2>1, <2>2, <2>3, HandlesAssumption DEF PhaseInv, KeyInv, InPrimary, InState
  <2>5. BufferInv' /\ BytesInv'
    BY <1>1, <2>1, <2>2, <2>3 DEF BufferInv, BytesInv, InState, InPrimary, SameCall
  <2>6. {<< "srk", calls >>} \in SUBSET Objects
    BY DEF FapiTypeOK, Objects
  <2>7. /\ ~(InState("WAIT_FOR_SESSION")' /\ context'.session_state = "WAIT_FOR_SESSION1")
        /\ ~InState("WAIT_FOR_RANDOM")' /\ ~InPrimary({"GET_CAP"})'
    BY <2>1 DEF InState, InPrimary
  <2>. QED
    BY <1>1, <1>3, <2>1, <2>2, <2>4, <2>5, <2>6, <2>7, SendingKeeps DEF Going
<1>. QED
  BY <1>2, <1>3 DEF ReadHierarchy

(* A response has come that takes nothing away. *)
LEMMA ReceivingKeeps ==
  ASSUME Inv, Going, EsysSucceeds, UNCHANGED << pollevents, buffers, context.data >>,
         Waiting, ~Waiting', ~InState("CLEANUP"),
         command.takes = {}, Held' = Held \union command.adds,
         HandleInv', PhaseInv', KeyInv', BufferInv', BytesInv'
  PROVE  Inv'
<1>. USE DEF Inv, Going, SameCall
<1>1. /\ port = "SENT" /\ port' = "INIT" /\ done /\ done' = done /\ outcome' = "ok"
      /\ command' = command
  BY DEF EsysSucceeds, Succeeds
<1>2. FapiTypeOK'
  BY <1>1 DEF FapiTypeOK
<1>3. WaitInv'
  BY DEF WaitInv, Waiting, InPrimary
<1>4. LedgerInv'
  BY <1>1 DEF LedgerInv, Sound, Now, InCommand
<1>. QED
  BY <1>2, <1>3, <1>4

(* It has come, and the command fails all the same. *)
LEMMA ReceivingFails ==
  ASSUME Inv, NEW c \in Contexts, pc = "finish", context.state \notin {"INIT", "CLEANUP"},
         EsysSucceeds, Waiting, Fail(c), SameCall, UNCHANGED << pollevents, buffers >>,
         command.takes = {}, Handles(c) = Held \union command.adds,
         c.state = context.state, c.data = context.data,
         c.cleanup_state = context.cleanup_state,
         c.session1 \in ({"session"} \X Nat) \union {None},
         c.srk_handle \in ({"srk"} \X Nat) \union {None, StoredKey},
         c.srk_handle = StoredKey => c.srk_persistent,
         c.srk_handle \in Objects => ~c.srk_persistent
  PROVE  Inv'
<1>. USE DEF Inv
<1>1. /\ port = "SENT" /\ port' = "INIT" /\ done /\ done' = done /\ outcome' = "ok"
      /\ command' = command
  BY DEF EsysSucceeds, Succeeds
<1>2. InCommand
  BY DEF InCommand
<1>3. Handles(c) \subseteq live /\ live \subseteq lost \union Handles(c)
  BY <1>1 DEF LedgerInv, Sound, Now
<1>4. /\ context.cleanup_state = "INIT"
      /\ buffers \subseteq given \union freed \union {context.data}
  BY <1>1, <1>2 DEF LedgerInv, Sound, InState
<1>5. Failing(c)
  BY <1>1, <1>2, <1>3, <1>4 DEF Failing, BufferInv, FapiTypeOK
<1>. QED
  BY <1>5, FailKeeps

LEMMA CreatePrimaryKeeps ==
  ASSUME Inv, CreatePrimary
  PROVE  Inv'
<1>. USE DEF Inv
<1>. DEFINE made == [ context EXCEPT !.srk_handle = << "srk", calls >>, !.primary_state = "INIT" ]
<1>1. /\ pc = "finish" /\ InPrimary({"HAUTH_SENT"}) /\ context \in Contexts /\ calls \in Nat
      /\ UNCHANGED << pollevents, buffers >> /\ SameCall
  BY DEF CreatePrimary, AtPrimary, At, InPrimary, InState, InCommand, FapiTypeOK
<1>2. Waiting /\ pollevents' \in BOOLEAN
  BY <1>1 DEF Waiting, InPrimary, InState, FapiTypeOK
<1>3. CASE EsysFails /\ Fail(context)
  BY <1>1, <1>2, <1>3, FailHere DEF InPrimary, InState
<1>4. << "srk", calls >> \in Objects
  BY <1>1 DEF Objects
<1>5. /\ context.srk_handle = None /\ context.session1 = None /\ context.data = 0
      /\ ~context.srk_persistent /\ Sends1({<< "srk", calls >>}, {})
      /\ context.state = "WAIT_FOR_SESSION" /\ InCommand
  BY <1>1 DEF PhaseInv, BufferInv, KeyInv, WaitInv, InPrimary, InState
<1>6. /\ made \in Contexts /\ made.srk_handle = << "srk", calls >> /\ made.session1 = None
      /\ made.state = "WAIT_FOR_SESSION" /\ made.data = 0 /\ ~made.srk_persistent
      /\ made.cleanup_state = context.cleanup_state /\ made.numBytes = context.numBytes
  BY <1>1, <1>4, <1>5 DEF Contexts
<1>7. << "srk", calls >> \in {"srk"} \X Nat /\ << "srk", calls >> # StoredKey
  BY <1>1, <1>4, HandlesAssumption
<1>8. Handles(made) = Held \union command.adds /\ command.takes = {}
  BY <1>4, <1>5, <1>6, HandlesAssumption DEF Handles, Held, Sends1
<1>9. CASE EsysSucceeds /\ Fail(made)
  <2>. HIDE DEF made
  <2>. QED
    BY <1>1, <1>2, <1>5, <1>6, <1>7, <1>8, <1>9, ReceivingFails
<1>10. CASE EsysSucceeds /\ GoOn([ made EXCEPT !.session_state = "CREATE_SESSION" ])
  <2>. HIDE DEF made
  <2>1. /\ context' \in Contexts /\ context'.state = "WAIT_FOR_SESSION"
        /\ context'.session_state = "CREATE_SESSION"
        /\ context'.srk_handle = made.srk_handle /\ context'.session1 = None
        /\ context'.data = 0 /\ ~context'.srk_persistent /\ context'.numBytes = context.numBytes
        /\ context'.cleanup_state = context.cleanup_state /\ UNCHANGED << pc, freed >>
    BY <1>6, <1>10 DEF GoOn, Contexts
  <2>2. InCommand' /\ ~Waiting' /\ ~InState("CLEANUP")
    BY <1>1, <1>5, <2>1 DEF InCommand, InPrimary, InState, Waiting
  <2>3. HandleInv' /\ PhaseInv' /\ KeyInv'
    BY <1>1, <1>6, <1>7, <2>1, <2>2 DEF HandleInv, PhaseInv, KeyInv, InPrimary, InState
  <2>4. BufferInv' /\ BytesInv'
    BY <1>1, <1>5, <2>1, <2>2 DEF BufferInv, BytesInv, InState, SameCall
  <2>5. Held' = Held \union command.adds
    BY <1>6, <1>8, <2>1 DEF Held, Handles
  <2>. QED
    BY <1>1, <1>2, <1>5, <1>8, <1>10, <2>1, <2>2, <2>3, <2>4, <2>5, ReceivingKeeps DEF Going
<1>. QED
  BY <1>3, <1>9, <1>10 DEF CreatePrimary

LEMMA AskPersistentKeeps ==
  ASSUME Inv, AskPersistent
  PROVE  Inv'
<1>. USE DEF Inv
<1>1. /\ pc = "finish" /\ InPrimary({"VERIFY_PERSISTENT"}) /\ context \in Contexts
      /\ UNCHANGED << pollevents, buffers >> /\ SameCall /\ pollevents' \in BOOLEAN
  BY DEF AskPersistent, AtPrimary, At, InPrimary, InState, InCommand, FapiTypeOK
<1>2. CASE EsysRefuses /\ Fail(context)
  BY <1>1, <1>2, FailHere DEF InPrimary, InState
<1>3. CASE EsysSends({}, {}) /\ GoOn([ context EXCEPT !.primary_state = "GET_CAP" ])
  <2>1. /\ context' \in Contexts /\ context'.state = "WAIT_FOR_SESSION"
        /\ context'.session_state = "WAIT_FOR_PRIMARY" /\ context'.primary_state = "GET_CAP"
        /\ UNCHANGED << context.session1, context.srk_handle, context.data, context.numBytes,
                        context.srk_persistent, context.cleanup_state, pc, freed >>
    BY <1>1, <1>3 DEF GoOn, InPrimary, InState, Contexts
  <2>2. InCommand /\ InCommand' /\ Waiting' /\ ~InState("CLEANUP") /\ ~InState("CLEANUP")'
    BY <1>1, <2>1 DEF InCommand, InPrimary, InState, Waiting
  <2>3. /\ context.srk_handle = None /\ context.session1 = None /\ context.data = 0
        /\ context.srk_persistent
    BY <1>1 DEF PhaseInv, BufferInv, KeyInv, InPrimary, InState
  <2>4. PhaseInv' /\ KeyInv'
    BY <1>1, <2>1, <2>2, <2>3, HandlesAssumption DEF PhaseInv, KeyInv, InPrimary, InState
  <2>5. BufferInv' /\ BytesInv'
    BY <1>1, <2>1, <2>2, <2>3 DEF BufferInv, BytesInv, InState, InPrimary, SameCall
  <2>6. /\ ~(InState("WAIT_FOR_SESSION")' /\ context'.session_state = "WAIT_FOR_SESSION1")
        /\ ~InPrimary({"HAUTH_SENT"})'
    BY <2>1 DEF InState, InPrimary
  <2>7. {} \in SUBSET Objects
    OBVIOUS
  <2>. QED
    BY <1>1, <1>3, <2>1, <2>2, <2>4, <2>5, <2>6, <2>7, SendingKeeps DEF Going
<1>. QED
  BY <1>2, <1>3 DEF AskPersistent

LEMMA VerifyPersistentKeeps ==
  ASSUME Inv, VerifyPersistent
  PROVE  Inv'
<1>. USE DEF Inv
<1>1. /\ pc = "finish" /\ InPrimary({"GET_CAP"}) /\ context \in Contexts
      /\ UNCHANGED << pollevents, buffers >> /\ SameCall
  BY DEF VerifyPersistent, AtPrimary, At, InPrimary, InState, InCommand, FapiTypeOK
<1>2. Waiting /\ pollevents' \in BOOLEAN
  BY <1>1 DEF Waiting, InPrimary, InState, FapiTypeOK
<1>3. CASE EsysFails /\ Fail(context)
  BY <1>1, <1>2, <1>3, FailHere DEF InPrimary, InState
<1>4. /\ context.srk_handle = None /\ context.session1 = None /\ context.data = 0
      /\ context.srk_persistent /\ Sends1({}, {})
      /\ context.state = "WAIT_FOR_SESSION" /\ InCommand
  BY <1>1 DEF PhaseInv, BufferInv, KeyInv, WaitInv, InPrimary, InState
<1>5. Held = Held \union command.adds /\ command.takes = {} /\ Held = {}
  BY <1>4, HandlesAssumption DEF Sends1, Held, Handles
<1>6. CASE EsysSucceeds /\ Fail(context)
  BY <1>1, <1>2, <1>4, <1>5, <1>6, ReceivingFails, HandlesAssumption DEF Held
<1>7. CASE /\ EsysSucceeds
           /\ GoOn([ context EXCEPT !.srk_handle = StoredKey, !.session_state = "CREATE_SESSION" ])
  <2>1. /\ context' \in Contexts /\ context'.state = "WAIT_FOR_SESSION"
        /\ context'.session_state = "CREATE_SESSION" /\ context'.srk_handle = StoredKey
        /\ UNCHANGED << context.session1, context.data, context.numBytes, context.srk_persistent,
                        context.cleanup_state, pc, freed >>
    BY <1>1, <1>4, <1>7 DEF GoOn, Contexts
  <2>2. InCommand' /\ ~Waiting' /\ ~InState("CLEANUP")
    BY <1>1, <1>4, <2>1 DEF InCommand, InPrimary, InState, Waiting
  <2>3. HandleInv' /\ PhaseInv' /\ KeyInv'
    BY <1>1, <1>4, <2>1, <2>2, HandlesAssumption
    DEF HandleInv, PhaseInv, KeyInv, InPrimary, InState
  <2>4. BufferInv' /\ BytesInv'
    BY <1>1, <1>4, <2>1, <2>2 DEF BufferInv, BytesInv, InState, SameCall
  <2>5. Held' = Held \union command.adds
    BY <1>4, <1>5, <2>1, HandlesAssumption DEF Held, Handles
  <2>. QED
    BY <1>1, <1>2, <1>4, <1>5, <1>7, <2>1, <2>2, <2>3, <2>4, <2>5, ReceivingKeeps DEF Going
<1>. QED
  BY <1>3, <1>6, <1>7 DEF VerifyPersistent

LEMMA CreateSessionKeeps ==
  ASSUME Inv, CreateSession
  PROVE  Inv'
<1>. USE DEF Inv
<1>1. /\ pc = "finish" /\ InState("WAIT_FOR_SESSION") /\ context.session_state = "CREATE_SESSION"
      /\ context \in Contexts /\ UNCHANGED << pollevents, buffers >> /\ SameCall
      /\ pollevents' \in BOOLEAN
  BY DEF CreateSession, At, InState, InCommand, FapiTypeOK
<1>2. CASE EsysRefuses /\ Fail(context)
  BY <1>1, <1>2, FailHere DEF InState
<1>3. CASE /\ EsysSends({<< "session", calls >>}, {})
           /\ GoOn([ context EXCEPT !.session_state = "WAIT_FOR_SESSION1" ])
  <2>1. /\ context' \in Contexts /\ context'.state = "WAIT_FOR_SESSION"
        /\ context'.session_state = "WAIT_FOR_SESSION1"
        /\ UNCHANGED << context.session1, context.srk_handle, context.data, context.numBytes,
                        context.srk_persistent, context.cleanup_state, pc, freed >>
    BY <1>1, <1>3 DEF GoOn, InState, Contexts
  <2>2. InCommand /\ InCommand' /\ Waiting' /\ ~InState("CLEANUP") /\ ~InState("CLEANUP")'
    BY <1>1, <2>1 DEF InCommand, InState, Waiting
  <2>3. context.session1 = None /\ context.data = 0
    BY <1>1 DEF PhaseInv, BufferInv
  <2>4. PhaseInv' /\ KeyInv'
    BY <1>1, <2>1, <2>2, <2>3 DEF PhaseInv, KeyInv, InPrimary, InState
  <2>5. BufferInv' /\ BytesInv'
    BY <1>1, <2>1, <2>2, <2>3 DEF BufferInv, BytesInv, InState, SameCall
  <2>6. {<< "session", calls >>} \in SUBSET Objects
    BY DEF FapiTypeOK, Objects
  <2>7. /\ ~InPrimary({"HAUTH_SENT"})' /\ ~InPrimary({"GET_CAP"})'
        /\ ~InState("WAIT_FOR_RANDOM")'
    BY <2>1 DEF InState, InPrimary
  <2>. QED
    BY <1>1, <1>3, <2>1, <2>2, <2>4, <2>5, <2>6, <2>7, SendingKeeps DEF Going
<1>. QED
  BY <1>2, <1>3 DEF CreateSession

LEMMA WaitForSessionKeeps ==
  ASSUME Inv, WaitForSession
  PROVE  Inv'
<1>. USE DEF Inv
<1>. DEFINE started == [ context EXCEPT !.session1 = << "session", calls >> ]
<1>1. /\ pc = "finish" /\ InState("WAIT_FOR_SESSION")
      /\ context.session_state = "WAIT_FOR_SESSION1"
      /\ context \in Contexts /\ calls \in Nat
      /\ UNCHANGED << pollevents, buffers >> /\ SameCall
  BY DEF WaitForSession, At, InState, InCommand, FapiTypeOK
<1>2. Waiting /\ pollevents' \in BOOLEAN
  BY <1>1 DEF Waiting, FapiTypeOK
<1>3. CASE EsysFails /\ Fail(context)
  BY <1>1, <1>2, <1>3, FailHere DEF InState
<1>4. << "session", calls >> \in Objects
  BY <1>1 DEF Objects
<1>5. /\ context.session1 = None /\ context.data = 0 /\ Sends1({<< "session", calls >>}, {})
      /\ context.state = "WAIT_FOR_SESSION" /\ InCommand
  BY <1>1 DEF PhaseInv, BufferInv, WaitInv, InState
<1>6. /\ started \in Contexts /\ started.session1 = << "session", calls >>
      /\ started.srk_handle = context.srk_handle /\ started.data = 0
      /\ started.srk_persistent = context.srk_persistent /\ started.state = "WAIT_FOR_SESSION"
      /\ started.cleanup_state = context.cleanup_state /\ started.numBytes = context.numBytes
  BY <1>1, <1>4, <1>5 DEF Contexts
<1>7. << "session", calls >> \in {"session"} \X Nat /\ << "session", calls >> # None
  BY <1>1, <1>4, HandlesAssumption
<1>8. Handles(started) = Held \union command.adds /\ command.takes = {}
  BY <1>4, <1>5, <1>6, HandlesAssumption DEF Handles, Held, Sends1
<1>9. CASE EsysSucceeds /\ Fail(started)
  <2>1. /\ started.srk_handle \in ({"srk"} \X Nat) \union {None, StoredKey}
        /\ started.srk_handle = StoredKey => started.srk_persistent
        /\ started.srk_handle \in Objects => ~started.srk_persistent
    BY <1>5, <1>6 DEF HandleInv, KeyInv
  <2>. HIDE DEF started
  <2>. QED
    BY <1>1, <1>2, <1>5, <1>6, <1>7, <1>8, <1>9, <2>1, ReceivingFails
<1>10. CASE /\ EsysSucceeds
            /\ GoOn([ started EXCEPT !.state = "WAIT_FOR_RANDOM", !.get_random_state = "INIT" ])
  <2>. HIDE DEF started
  <2>1. /\ context' \in Contexts /\ context'.state = "WAIT_FOR_RANDOM"
        /\ context'.get_random_state = "INIT"
        /\ context'.srk_handle = context.srk_handle /\ context'.session1 = started.session1
        /\ context'.data = 0 /\ context'.srk_persistent = context.srk_persistent
        /\ context'.numBytes = context.numBytes
        /\ context'.cleanup_state = context.cleanup_state /\ UNCHANGED << pc, freed >>
    BY <1>6, <1>10 DEF GoOn, Contexts
  <2>2. InCommand' /\ ~Waiting' /\ ~InState("CLEANUP")
    BY <1>1, <1>5, <2>1 DEF InCommand, InPrimary, InState, Waiting
  <2>3. HandleInv' /\ PhaseInv' /\ KeyInv'
    BY <1>1, <1>6, <1>7, <2>1, <2>2 DEF HandleInv, PhaseInv, KeyInv, InPrimary, InState
  <2>4. BufferInv' /\ BytesInv'
    BY <1>1, <1>5, <2>1, <2>2
    DEF BufferInv, BytesInv, InState, SameCall, FapiTypeOK, Contexts
  <2>5. Held' = Held \union command.adds
    BY <1>6, <1>8, <2>1 DEF Held, Handles
  <2>. QED
    BY <1>1, <1>2, <1>5, <1>8, <1>10, <2>1, <2>2, <2>3, <2>4, <2>5, ReceivingKeeps DEF Going
<1>. QED
  BY <1>3, <1>9, <1>10 DEF WaitForSession

LEMMA AskFirstKeeps ==
  ASSUME Inv, AskFirst
  PROVE  Inv'
<1>. USE DEF Inv
<1>1. /\ pc = "finish" /\ InState("WAIT_FOR_RANDOM") /\ context.get_random_state = "INIT"
      /\ context \in Contexts /\ UNCHANGED pollevents /\ SameCall /\ calls \in Nat
      /\ pollevents' \in BOOLEAN
  BY DEF AskFirst, At, InState, InCommand, FapiTypeOK
<1>2. /\ context.data = 0 /\ calls > 0 /\ calls \notin given \union freed
      /\ context.state = "WAIT_FOR_RANDOM" /\ ~Waiting /\ context.session1 # None
  BY <1>1 DEF BufferInv, Waiting, InPrimary, InState, PhaseInv
<1>. DEFINE asked == [ context EXCEPT !.data = calls, !.idx = 0 ]
            none == [ context EXCEPT !.data = 0, !.idx = 0 ]
<1>3. \A c \in {asked, none} :
        /\ c \in Contexts /\ c.state = "WAIT_FOR_RANDOM" /\ c.data \in {0, calls}
        /\ c.session1 = context.session1 /\ c.srk_handle = context.srk_handle
        /\ c.srk_persistent = context.srk_persistent /\ c.idx = 0
        /\ c.cleanup_state = context.cleanup_state /\ c.numBytes = context.numBytes
  <2>1. SUFFICES ASSUME NEW d \in {0, calls}, NEW c, c = [ context EXCEPT !.data = d, !.idx = 0 ]
                 PROVE  /\ c \in Contexts /\ c.state = "WAIT_FOR_RANDOM" /\ c.data = d
                        /\ c.session1 = context.session1 /\ c.srk_handle = context.srk_handle
                        /\ c.srk_persistent = context.srk_persistent /\ c.idx = 0
                        /\ c.cleanup_state = context.cleanup_state
                        /\ c.numBytes = context.numBytes
    BY Zenon
  <2>. QED
    BY <1>1, <1>2, <2>1 DEF Contexts
<1>4. asked.data = calls
  BY <1>1 DEF Contexts
<1>. HIDE DEF asked, none
<1>5. ASSUME NEW c \in {asked, none}, Fail(c), buffers' \subseteq buffers \union ({c.data} \ {0}),
             (UNCHANGED << portVars, command >>) \/ EsysRefuses
      PROVE  Inv'
  <2>1. /\ port' \in {"INIT", "SENT", "STUCK"} /\ done' \in BOOLEAN
        /\ outcome' \in {"none", "pending", "ok", "failed"} /\ command' = command
        /\ port' = "INIT" => port = "INIT"
    BY <1>5 DEF EsysRefuses, Refuses, portVars, FapiTypeOK
  <2>2. port' = "INIT" =>
          /\ Held \subseteq live /\ live \subseteq lost \union Held
          /\ context.cleanup_state = "INIT" /\ buffers \subseteq given \union freed
    <3>1. 0 \notin buffers
      BY DEF BufferInv
    <3>. QED
      BY <1>1, <1>2, <2>1, <3>1 DEF LedgerInv, Sound, Now, InState
  <2>3. Handles(c) = Held
    BY <1>3, <1>5 DEF Handles, Held
  <2>4. /\ c.session1 \in ({"session"} \X Nat) \union {None}
        /\ c.srk_handle \in ({"srk"} \X Nat) \union {None, StoredKey}
        /\ c.srk_handle = StoredKey => c.srk_persistent
        /\ c.srk_handle \in Objects => ~c.srk_persistent
    BY <1>2, <1>3, <1>5 DEF HandleInv, KeyInv
  <2>5. buffers' \subseteq 1 .. calls
    BY <1>1, <1>2, <1>3, <1>5 DEF BufferInv
  <2>6. command' \in [ adds : SUBSET Objects, takes : SUBSET Objects ]
    BY <2>1 DEF FapiTypeOK
  <2>7. port' = "INIT" => buffers' \subseteq given \union freed \union {c.data}
    BY <1>5, <2>2
  <2>8. Failing(c)
    BY <1>1, <1>2, <1>3, <1>5, <2>1, <2>2, <2>3, <2>4, <2>5, <2>6, <2>7 DEF Failing
  <2>. QED
    BY <2>8, FailKeeps
<1>6. CASE Fail(none) /\ UNCHANGED << portVars, command, buffers >>
  BY <1>5, <1>6
<1>7. CASE buffers' = buffers \union {calls} /\ EsysRefuses /\ Fail(asked)
  <2>1. buffers' \subseteq buffers \union ({asked.data} \ {0})
    BY <1>2, <1>4, <1>7
  <2>. QED
    BY <1>5, <1>7, <2>1
<1>8. CASE /\ buffers' = buffers \union {calls} /\ EsysSends({}, {})
           /\ GoOn([ asked EXCEPT !.get_random_state = "SENT" ])
  <2>1. /\ context' \in Contexts /\ context'.state = "WAIT_FOR_RANDOM"
        /\ context'.get_random_state = "SENT" /\ context'.data = calls /\ context'.idx = 0
        /\ UNCHANGED << context.session1, context.srk_handle, context.numBytes,
                        context.srk_persistent, context.cleanup_state, pc, freed >>
    BY <1>3, <1>4, <1>8 DEF GoOn, Contexts
  <2>2. InCommand /\ InCommand' /\ Waiting' /\ ~InState("CLEANUP") /\ ~InState("CLEANUP")'
    BY <1>1, <2>1 DEF InCommand, InState, Waiting
  <2>3. PhaseInv' /\ KeyInv'
    BY <1>1, <1>2, <2>1, <2>2 DEF PhaseInv, KeyInv, InPrimary, InState
  <2>4. BufferInv'
    <3>1. buffers' \subseteq 1 .. calls
      BY <1>1, <1>2, <1>8 DEF BufferInv
    <3>. QED
      BY <1>1, <1>2, <2>1, <2>2, <3>1 DEF BufferInv, InState, SameCall
  <2>5. BytesInv'
    BY <1>1, <2>1, <2>2 DEF BytesInv, InState, SameCall, FapiTypeOK, Contexts
  <2>6. /\ ~InPrimary({"HAUTH_SENT"})' /\ ~InPrimary({"GET_CAP"})'
        /\ ~InState("WAIT_FOR_SESSION")'
    BY <2>1 DEF InState, InPrimary
  <2>7. {} \in SUBSET Objects
    OBVIOUS
  <2>8. buffers' \subseteq buffers \union {context'.data}
    BY <1>8, <2>1
  <2>. QED
    BY <1>1, <1>2, <1>8, <2>1, <2>2, <2>3, <2>4, <2>5, <2>6, <2>7, <2>8, SendingKeeps DEF Going
<1>. QED
  BY <1>6, <1>7, <1>8 DEF AskFirst, asked, none

LEMMA NoPieceKeeps ==
  ASSUME Inv, NoPiece
  PROVE  Inv'
<1>1. /\ pc = "finish" /\ InState("WAIT_FOR_RANDOM") /\ context.get_random_state = "SENT"
      /\ UNCHANGED << pollevents, buffers >> /\ SameCall /\ EsysFails /\ Fail(context)
  BY DEF NoPiece, At, InState, InCommand
<1>. QED
  BY <1>1, FailHere DEF Waiting, InState, Inv, FapiTypeOK

LEMMA PieceKeeps ==
  ASSUME Inv, NEW size \in 0 .. Chunk, Piece(size)
  PROVE  Inv'
<1>. USE DEF Inv
<1>. DEFINE c == Saved(size)
<1>1. /\ pc = "finish" /\ InState("WAIT_FOR_RANDOM") /\ context.get_random_state = "SENT"
      /\ context \in Contexts /\ UNCHANGED << pollevents, buffers >> /\ SameCall
      /\ calls \in Nat /\ wanted \in Nat /\ pollevents' \in BOOLEAN /\ size \in Nat
  BY NumbersAssumption DEF Piece, At, InState, InCommand, FapiTypeOK
<1>2. /\ Waiting /\ port = "SENT" /\ context.data = calls /\ calls > 0 /\ Sends1({}, {})
      /\ context.state = "WAIT_FOR_RANDOM" /\ context.session1 # None /\ InCommand
      /\ calls \notin given \union freed /\ context.cleanup_state = "INIT"
      /\ context.numBytes = wanted - context.idx
  BY <1>1 DEF Waiting, WaitInv, BufferInv, BytesInv, PhaseInv, InState, LedgerInv, Sound
<1>3. Held = Held \union command.adds /\ command.takes = {}
  BY <1>2 DEF Sends1
<1>4. CASE TooMany(size) /\ EsysSucceeds /\ Fail(context)
  BY <1>1, <1>2, <1>3, <1>4, ReceivingFails DEF Held, HandleInv, KeyInv
<1>5. ASSUME ~TooMany(size)
      PROVE  /\ c \in Contexts /\ c.state = "WAIT_FOR_RANDOM" /\ c.get_random_state = "SENT"
             /\ c.data = calls /\ c.session1 = context.session1
             /\ c.srk_handle = context.srk_handle /\ c.srk_persistent = context.srk_persistent
             /\ c.cleanup_state = "INIT" /\ c.numBytes = wanted - c.idx
  <2>1. /\ context.numBytes - size \in Nat /\ context.idx + size \in Nat
        /\ context.numBytes - size = wanted - (context.idx + size)
    BY <1>1, <1>2, <1>5 DEF TooMany, Contexts
  <2>. DEFINE n == context.numBytes - size
              i == context.idx + size
  <2>3. c = [ context EXCEPT !.numBytes = n, !.idx = i, !.get_random_state = "SENT" ]
    BY DEF Saved
  <2>4. n \in Nat /\ i \in Nat /\ n = wanted - i
    BY <2>1
  <2>. HIDE DEF c, n, i
  <2>5. /\ c \in Contexts /\ c.state = context.state /\ c.get_random_state = "SENT"
        /\ c.data = context.data /\ c.session1 = context.session1
        /\ c.srk_handle = context.srk_handle /\ c.srk_persistent = context.srk_persistent
        /\ c.cleanup_state = context.cleanup_state /\ c.numBytes = n /\ c.idx = i
    BY <1>1, <2>3, <2>4 DEF Contexts
  <2>. QED
    BY <1>2, <2>4, <2>5
<1>. HIDE DEF c
<1>6. Handles(c) = Held \/ TooMany(size)
  BY <1>5 DEF Handles, Held
<1>7. CASE /\ ~TooMany(size) /\ c.numBytes = 0 /\ EsysSucceeds
           /\ GoOn([ c EXCEPT !.state = "CLEANUP", !.get_random_state = "INIT" ])
  <2>1. /\ context' \in Contexts /\ context'.state = "CLEANUP" /\ context'.idx = wanted
        /\ UNCHANGED << context.session1, context.srk_handle, context.data,
                        context.srk_persistent, context.cleanup_state, pc, freed >>
    <3>1. c.idx = wanted
      BY <1>1, <1>5, <1>7 DEF Contexts
    <3>. QED
      BY <1>2, <1>5, <1>7, <3>1 DEF GoOn, Contexts
  <2>2. InCommand' /\ ~Waiting' /\ ~InState("CLEANUP")
    BY <1>1, <1>2, <2>1 DEF InCommand, InPrimary, InState, Waiting
  <2>3. HandleInv' /\ PhaseInv' /\ KeyInv'
    BY <1>1, <1>2, <2>1, <2>2 DEF HandleInv, PhaseInv, KeyInv, InPrimary, InState
  <2>4. BufferInv' /\ BytesInv'
    BY <1>1, <1>2, <2>1, <2>2 DEF BufferInv, BytesInv, InState, SameCall
  <2>5. Held' = Held \union command.adds
    BY <1>3, <2>1 DEF Held, Handles
  <2>. QED
    BY <1>1, <1>2, <1>3, <1>7, <2>1, <2>2, <2>3, <2>4, <2>5, ReceivingKeeps DEF Going
<1>8. CASE /\ ~TooMany(size) /\ done /\ UNCHANGED command /\ port' = "SENT" /\ done' = FALSE
           /\ outcome' = "pending" /\ Wait(c)
  <2>1. context' = c /\ pc' \in {"poll", "idle"} /\ UNCHANGED freed
    BY <1>8 DEF Wait, Return
  <2>2. InCommand' /\ Waiting' /\ InState("WAIT_FOR_RANDOM")'
    BY <1>5, <1>8, <2>1 DEF InCommand, InState, Waiting
  <2>3. FapiTypeOK'
    BY <1>1, <1>5, <1>8, <2>1 DEF FapiTypeOK, SameCall
  <2>4. HandleInv' /\ PhaseInv' /\ KeyInv'
    BY <1>2, <1>5, <1>8, <2>1, <2>2 DEF HandleInv, PhaseInv, KeyInv, InPrimary, InState
  <2>5. WaitInv'
    BY <1>2, <1>5, <1>8, <2>1, <2>2 DEF WaitInv, InPrimary, InState, Sends1
  <2>6. BufferInv' /\ BytesInv'
    BY <1>1, <1>2, <1>5, <1>8, <2>1, <2>2 DEF BufferInv, BytesInv, InState, SameCall
  <2>7. Now = Held /\ Now' = Held' /\ Held' = Held
    BY <1>3, <1>6, <1>8, <2>1 DEF Now, Held, Sends1
  <2>8. LedgerInv'
    BY <1>1, <1>2, <1>5, <1>8, <2>1, <2>2, <2>7 DEF LedgerInv, Sound, InState, SameCall
  <2>. QED
    BY <2>3, <2>4, <2>5, <2>6, <2>8
<1>9. CASE /\ ~TooMany(size) /\ done /\ UNCHANGED command /\ port' \in {"INIT", "STUCK"}
           /\ done' = done /\ outcome' = "failed" /\ Fail(c)
  <2>1. /\ Handles(c) \subseteq live /\ live \subseteq lost \union Handles(c)
        /\ buffers \subseteq given \union freed \union {c.data} /\ buffers \subseteq 1 .. calls
    BY <1>2, <1>3, <1>5, <1>6, <1>9 DEF LedgerInv, Sound, Now, BufferInv
  <2>2. /\ c.session1 \in ({"session"} \X Nat) \union {None}
        /\ c.srk_handle \in ({"srk"} \X Nat) \union {None, StoredKey}
        /\ c.srk_handle = StoredKey => c.srk_persistent
        /\ c.srk_handle \in Objects => ~c.srk_persistent
    BY <1>2, <1>5, <1>9 DEF HandleInv, KeyInv
  <2>3. Failing(c)
    BY <1>1, <1>2, <1>5, <1>9, <2>1, <2>2 DEF Failing, FapiTypeOK
  <2>. QED
    BY <2>3, FailKeeps
<1>. QED
  BY <1>4, <1>7, <1>8, <1>9 DEF Piece, c
-----------------------------------------------------------------------------
(* The cleanup.  A flush is sent for an object that the command holds. *)
LEMMA FlushingKeeps ==
  ASSUME Inv, InState("CLEANUP"), pc = "finish", SameCleanup, UNCHANGED given,
         NEW target, EsysSends({}, {target}), target \in Held,
         NEW state \in {"SESSION1", "SRK"}, GoOn([ context EXCEPT !.cleanup_state = state ]),
         state = "SESSION1" => target = context.session1 /\ context.session1 # None,
         state = "SRK" => /\ target = context.srk_handle /\ context.session1 = None
                          /\ OwnKey(context) # None
  PROVE  Inv'
<1>. USE DEF Inv, SameCleanup
<1>1. /\ port = "INIT" /\ port' = "SENT" /\ done' = FALSE /\ outcome' = "pending"
      /\ command' = [ adds |-> {}, takes |-> {target} ] /\ target \in Objects
  BY DEF EsysSends, Sends, Held, Handles
<1>2. /\ context' \in Contexts /\ context'.state = "CLEANUP" /\ context'.cleanup_state = state
      /\ UNCHANGED << context.session1, context.srk_handle, context.srk_persistent, context.data,
                      context.idx, pc, freed >>
  BY DEF GoOn, InState, FapiTypeOK, Contexts
<1>3. InCommand /\ InCommand' /\ Waiting' /\ InState("CLEANUP")'
  BY <1>2 DEF InCommand, InState, Waiting
<1>4. FapiTypeOK'
  BY <1>1, <1>2 DEF FapiTypeOK
<1>5. HandleInv' /\ PhaseInv' /\ KeyInv'
  BY <1>2, <1>3 DEF HandleInv, PhaseInv, KeyInv, InPrimary, InState, OwnKey
<1>6. WaitInv'
  BY <1>1, <1>2, <1>3 DEF WaitInv, InPrimary, InState, Sends1
<1>7. BufferInv' /\ BytesInv'
  BY <1>2, <1>3 DEF BufferInv, BytesInv, InState
<1>8. LedgerInv'
  <2>1. Now = Held /\ Now' = Held' /\ Held' = Held
    BY <1>1, <1>2 DEF Now, Held, Handles
  <2>. QED
    BY <1>1, <1>2, <1>3, <2>1 DEF LedgerInv, Sound, InState
<1>. QED
  BY <1>4, <1>5, <1>6, <1>7, <1>8

(* The cleanup fails; the key and the session are cleaned up once more. *)
LEMMA CleanupFailKeeps ==
  ASSUME Inv, InState("CLEANUP"), pc = "finish", SameCleanup, CleanupFails,
         EsysRefuses \/ (EsysFails /\ Waiting)
  PROVE  Inv'
<1>. USE DEF Inv
<1>. DEFINE c == [ context EXCEPT !.cleanup_state = "INIT" ]
<1>1. /\ c \in Contexts /\ c.state = "CLEANUP" /\ c.cleanup_state = "INIT"
      /\ c.session1 = context.session1 /\ c.srk_handle = context.srk_handle
      /\ c.srk_persistent = context.srk_persistent /\ c.data = context.data
  BY DEF InState, FapiTypeOK, Contexts
<1>. HIDE DEF c
<1>2. /\ port' \in {"INIT", "SENT", "STUCK"} /\ done' \in BOOLEAN
      /\ outcome' \in {"none", "pending", "ok", "failed"} /\ command' = command
  BY DEF EsysRefuses, Refuses, EsysFails, Fails, FapiTypeOK
<1>3. port' = "INIT" => Sound /\ ~(port = "SENT" /\ done)
  BY DEF EsysRefuses, Refuses, EsysFails, Fails, FapiTypeOK, Sound
<1>4. InCommand /\ Handles(c) = Held
  BY <1>1 DEF InState, Held, Handles
<1>5. port' = "INIT" =>
        /\ Handles(c) \subseteq live /\ live \subseteq lost \union Handles(c)
        /\ buffers \subseteq given \union freed \union {c.data}
  BY <1>1, <1>3, <1>4 DEF LedgerInv, Now
<1>6. /\ c.session1 \in ({"session"} \X Nat) \union {None}
      /\ c.srk_handle \in ({"srk"} \X Nat) \union {None, StoredKey}
      /\ c.srk_handle = StoredKey => c.srk_persistent
      /\ c.srk_handle \in Objects => ~c.srk_persistent
  BY <1>1 DEF HandleInv, KeyInv, InState
<1>7. c.data \in {0, calls} /\ buffers \subseteq 1 .. calls
  BY <1>1, <1>4 DEF BufferInv
<1>8. Fail(c) /\ SameCall /\ UNCHANGED << buffers, pollevents >>
  BY DEF CleanupFails, SameCleanup, SameCall, c
<1>9. context.state = "CLEANUP"
  BY DEF InState
<1>10. Failing(c)
  BY <1>1, <1>2, <1>5, <1>6, <1>7, <1>8, <1>9 DEF Failing, FapiTypeOK
<1>. QED
  BY <1>10, FailKeeps

LEMMA FlushSessionKeeps ==
  ASSUME Inv, FlushSession
  PROVE  Inv'
<1>1. /\ pc = "finish" /\ InState("CLEANUP") /\ context.cleanup_state = "INIT" /\ SameCleanup
  BY DEF FlushSession, At, InState, InCommand
<1>2. context.session1 # None /\ context.session1 \in Held
  BY <1>1 DEF Inv, PhaseInv, FapiTypeOK, Contexts, Held, Handles
<1>3. CASE EsysRefuses /\ CleanupFails
  BY <1>1, <1>3, CleanupFailKeeps
<1>4. CASE EsysSends({}, {context.session1}) /\ FallThrough(context, "SESSION1")
  BY <1>1, <1>2, <1>4, FlushingKeeps DEF FallThrough
<1>. QED
  BY <1>3, <1>4 DEF FlushSession

LEMMA FlushKeyKeeps ==
  ASSUME Inv, FlushKey
  PROVE  Inv'
<1>1. /\ pc = "finish" /\ InState("CLEANUP") /\ context.cleanup_state = "SESSION2"
      /\ SameCleanup /\ context.state = "CLEANUP"
  BY DEF FlushKey, At, InState, InCommand
<1>2. context.session1 = None /\ OwnKey(context) # None
  BY <1>1 DEF Inv, PhaseInv
<1>3. context.srk_handle \in Held
  BY <1>1, <1>2 DEF Inv, KeyInv, FapiTypeOK, Contexts, Held, Handles, OwnKey
<1>4. CASE EsysRefuses /\ CleanupFails
  BY <1>1, <1>4, CleanupFailKeeps
<1>5. CASE EsysSends({}, {context.srk_handle}) /\ FallThrough(context, "SRK")
  BY <1>1, <1>2, <1>3, <1>5, FlushingKeeps DEF FallThrough
<1>. QED
  BY <1>4, <1>5 DEF FlushKey

(* The end of a successful cleanup: the last flush has been answered. *)
LEMMA SucceedKeeps ==
  ASSUME Inv, InState("CLEANUP"), pc = "finish", SameCleanup, EsysSucceeds, Waiting,
         NEW c, c \in Contexts, Succeed(c), c.state = "CLEANUP", c.data = context.data,
         c.srk_persistent = context.srk_persistent, Sends1({}, Held \ Handles(c)),
         Handles(c) \subseteq Held,
         c.session1 = None, c.srk_handle \in {None, context.srk_handle}
  PROVE  Inv'
<1>. USE DEF Inv, SameCleanup
<1>1. /\ port = "SENT" /\ port' = "INIT" /\ done /\ done' = done /\ outcome' = "ok"
      /\ command' = command
  BY DEF EsysSucceeds, Succeeds
<1>2. /\ context' \in Contexts /\ context'.state = "CLEANUP" /\ context'.cleanup_state = "INIT"
      /\ context'.session1 = None /\ context'.srk_handle = c.srk_handle
      /\ context'.srk_persistent = context.srk_persistent
      /\ given' = given \union {context.data} /\ pc' = "clean" /\ freed' = freed
  BY DEF Succeed, Contexts
<1>3. InCommand /\ ~InCommand' /\ ~Waiting'
  BY <1>2 DEF InCommand, InState, Waiting, InPrimary
<1>4. calls > 0 /\ calls \in Nat /\ context.data = calls /\ calls \notin freed
  BY <1>3 DEF BufferInv, FapiTypeOK
<1>5. given' \subseteq 1 .. calls /\ given' \intersect freed' = {}
  BY <1>2, <1>4 DEF BufferInv
<1>6. FapiTypeOK'
  BY <1>1, <1>2, <1>4, <1>5 DEF FapiTypeOK
<1>7. HandleInv' /\ PhaseInv' /\ KeyInv' /\ WaitInv'
  BY <1>2, <1>3, HandlesAssumption
  DEF HandleInv, PhaseInv, KeyInv, WaitInv, InPrimary, InState
<1>8. BufferInv' /\ BytesInv'
  BY <1>2, <1>3, <1>5 DEF BufferInv, BytesInv, InState
<1>9. LedgerInv'
  <2>1. Now = Handles(c) /\ Held' = Handles(c) /\ Now' = Held'
    BY <1>1, <1>2 DEF Now, Held, Handles, Sends1
  <2>. QED
    BY <1>1, <1>2, <1>3, <2>1 DEF LedgerInv, Sound, InState
<1>. QED
  BY <1>6, <1>7, <1>8, <1>9

LEMMA SessionFlushedKeeps ==
  ASSUME Inv, SessionFlushed
  PROVE  Inv'
<1>. USE DEF Inv
<1>. DEFINE c == [ context EXCEPT !.session1 = None ]
<1>1. /\ pc = "finish" /\ InState("CLEANUP") /\ context.cleanup_state = "SESSION1"
      /\ SameCleanup /\ context \in Contexts /\ Waiting
  BY DEF SessionFlushed, At, InState, InCommand, FapiTypeOK, Waiting
<1>2. /\ c \in Contexts /\ c.state = "CLEANUP" /\ c.data = context.data /\ c.session1 = None
      /\ c.srk_handle = context.srk_handle /\ c.srk_persistent = context.srk_persistent
      /\ c.idx = context.idx
  BY <1>1 DEF Contexts, InState
<1>. HIDE DEF c
<1>3. context.session1 \in Objects /\ Sends1({}, {context.session1})
  BY <1>1 DEF PhaseInv, HandleInv, WaitInv, Objects
<1>4. Handles(c) = Held \ {context.session1} /\ {context.session1} = Held \ Handles(c)
  BY <1>2, <1>3, HandlesAssumption DEF Handles, Held, HandleInv
<1>5. CASE EsysSucceeds /\ OwnKey(c) = None /\ Succeed(c)
  BY <1>1, <1>2, <1>3, <1>4, <1>5, SucceedKeeps
<1>6. CASE EsysSucceeds /\ OwnKey(c) # None /\ FallThrough(c, "SESSION2")
  <2>1. /\ port = "SENT" /\ port' = "INIT" /\ done /\ done' = done /\ outcome' = "ok"
        /\ command' = command /\ UNCHANGED << pc, given, freed >>
    BY <1>6 DEF EsysSucceeds, Succeeds, FallThrough, GoOn
  <2>2. /\ context' \in Contexts /\ context'.state = "CLEANUP"
        /\ context'.cleanup_state = "SESSION2" /\ context'.session1 = None
        /\ UNCHANGED << context.srk_handle, context.srk_persistent, context.data, context.idx >>
    BY <1>2, <1>6 DEF FallThrough, GoOn, Contexts
  <2>3. InCommand /\ InCommand' /\ ~Waiting' /\ InState("CLEANUP")' /\ OwnKey(context') # None
    BY <1>1, <1>2, <1>6, <2>1, <2>2 DEF InCommand, InState, Waiting, InPrimary, OwnKey
  <2>4. FapiTypeOK'
    BY <1>1, <2>1, <2>2 DEF FapiTypeOK, SameCleanup
  <2>5. HandleInv' /\ PhaseInv' /\ KeyInv' /\ WaitInv'
    BY <1>1, <2>1, <2>2, <2>3
    DEF HandleInv, PhaseInv, KeyInv, WaitInv, InPrimary, InState
  <2>6. BufferInv' /\ BytesInv'
    BY <1>1, <2>1, <2>2, <2>3 DEF BufferInv, BytesInv, InState, SameCleanup
  <2>7. LedgerInv'
    <3>1. Now = Handles(c) /\ Held' = Handles(c) /\ Now' = Held'
      BY <1>2, <1>3, <1>4, <2>1, <2>2 DEF Now, Held, Handles, Sends1
    <3>. QED
      BY <1>1, <2>1, <2>2, <2>3, <3>1 DEF LedgerInv, Sound, InState, SameCleanup
  <2>. QED
    BY <2>4, <2>5, <2>6, <2>7
<1>7. CASE EsysFails /\ CleanupFails
  BY <1>1, <1>7, CleanupFailKeeps
<1>. QED
  BY <1>5, <1>6, <1>7 DEF SessionFlushed, c

LEMMA KeyFlushedKeeps ==
  ASSUME Inv, KeyFlushed
  PROVE  Inv'
<1>. USE DEF Inv
<1>. DEFINE c == [ context EXCEPT !.srk_handle = None ]
<1>1. /\ pc = "finish" /\ InState("CLEANUP") /\ context.cleanup_state = "SRK"
      /\ SameCleanup /\ context \in Contexts /\ Waiting
  BY DEF KeyFlushed, At, InState, InCommand, FapiTypeOK, Waiting
<1>2. context.session1 = None /\ OwnKey(context) # None
  BY <1>1 DEF PhaseInv
<1>3. /\ c \in Contexts /\ c.state = "CLEANUP" /\ c.data = context.data /\ c.session1 = None
      /\ c.srk_handle = None /\ c.srk_persistent = context.srk_persistent
  BY <1>1, <1>2 DEF Contexts, InState
<1>. HIDE DEF c
<1>4. context.srk_handle \in Objects /\ Sends1({}, {context.srk_handle})
  BY <1>1, <1>2 DEF KeyInv, HandleInv, WaitInv, Objects, OwnKey, InState
<1>5. Handles(c) \subseteq Held /\ {context.srk_handle} = Held \ Handles(c)
  BY <1>2, <1>3, <1>4, HandlesAssumption DEF Handles, Held
<1>6. CASE EsysSucceeds /\ Succeed(c)
  BY <1>1, <1>3, <1>4, <1>5, <1>6, SucceedKeeps
<1>7. CASE EsysFails /\ CleanupFails
  BY <1>1, <1>7, CleanupFailKeeps
<1>. QED
  BY <1>6, <1>7 DEF KeyFlushed, c
-----------------------------------------------------------------------------
(* The end of the command: what is left is flushed or given up. *)
Flushing == pc \in {"clean", "flush"}

(* What a step of this end shares when it drops the handle of Target. *)
LEMMA DropKeeps ==
  ASSUME Inv, Flushing, Target(context) # None, pc' = "clean",
         UNCHANGED << timeout, pollevents, stored, blocking, live, calls, wanted, buffers, given,
                      freed, command >>,
         NEW left, Drop(left), left \subseteq {Target(context)},
         port' \in {"INIT", "SENT", "STUCK"}, done' \in BOOLEAN, outcome' \in {"ok", "failed"},
         port' = "INIT" => /\ Sound /\ live \subseteq lost' \union (Held \ {Target(context)})
                           /\ Held \ {Target(context)} \subseteq live
  PROVE  Inv'
<1>. USE DEF Inv
<1>1. context.state # "INIT" /\ context \in Contexts /\ ~InCommand
  BY DEF Flushing, PhaseInv, FapiTypeOK, InCommand
<1>2. Target(context) \in Objects
  BY <1>1 DEF Target, OwnKey, HandleInv, KeyInv, Objects
<1>3. /\ context' \in Contexts /\ context'.state = context.state
      /\ context'.cleanup_state = context.cleanup_state
      /\ context'.srk_persistent = context.srk_persistent
      /\ \/ /\ context.session1 # None /\ context'.session1 = None
            /\ context'.srk_handle = context.srk_handle
         \/ /\ context.session1 = None /\ context'.session1 = None /\ context'.srk_handle = None
  BY <1>1 DEF Drop, Contexts
<1>4. Held' = Held \ {Target(context)}
  BY <1>2, <1>3, HandlesAssumption DEF Held, Handles, Target, OwnKey, HandleInv, Objects
<1>5. ~InCommand' /\ ~Waiting' /\ context'.state # "INIT"
  BY <1>1, <1>3 DEF InCommand, Waiting, InPrimary, InState
<1>6. FapiTypeOK'
  BY <1>2, <1>3 DEF FapiTypeOK, Drop
<1>7. HandleInv' /\ PhaseInv' /\ KeyInv' /\ WaitInv'
  BY <1>1, <1>3, <1>5, HandlesAssumption
  DEF HandleInv, PhaseInv, KeyInv, WaitInv, InPrimary, InState
<1>8. BufferInv' /\ BytesInv'
  BY <1>5 DEF BufferInv, BytesInv, InState
<1>9. LedgerInv'
  <2>1. Sound' => port' = "INIT" /\ Now' = Held'
    BY <1>5 DEF Sound, Now
  <2>. QED
    BY <1>1, <1>3, <1>4, <1>5, <2>1 DEF LedgerInv, InState
<1>. QED
  BY <1>6, <1>7, <1>8, <1>9

LEMMA CleanKeeps ==
  ASSUME Inv, Clean
  PROVE  Inv'
<1>. USE DEF Inv
<1>1. /\ pc = "clean" /\ context.state # "INIT" /\ context \in Contexts /\ ~InCommand
      /\ UNCHANGED << pollevents, stored, blocking, live, calls, wanted, buffers, given, freed >>
      /\ ~Waiting /\ Flushing
  BY DEF Clean, PhaseInv, FapiTypeOK, InCommand, Waiting, InPrimary, InState, Flushing
<1>2. CASE /\ Target(context) = None /\ pc' = "idle" /\ timeout' \in {timeout, 0}
           /\ context' = [ context EXCEPT !.state = "INIT", !.srk_persistent = FALSE ]
           /\ UNCHANGED << portVars, command, lost >>
  <2>1. /\ context' \in Contexts /\ context'.state = "INIT"
        /\ UNCHANGED << context.session1, context.srk_handle, context.cleanup_state >>
    BY <1>1, <1>2 DEF Contexts
  <2>2. ~InCommand' /\ ~Waiting'
    BY <2>1, <1>2 DEF InCommand, Waiting, InPrimary, InState
  <2>3. Held = {} /\ Held' = {}
    BY <1>1, <1>2, <2>1, HandlesAssumption
    DEF Held, Handles, Target, OwnKey, HandleInv, KeyInv, Objects
  <2>4. FapiTypeOK'
    BY <1>1, <1>2, <2>1 DEF FapiTypeOK, portVars
  <2>5. HandleInv' /\ PhaseInv' /\ KeyInv' /\ WaitInv'
    BY <1>1, <1>2, <2>1, <2>2 DEF HandleInv, PhaseInv, KeyInv, WaitInv, InPrimary, InState
  <2>6. BufferInv' /\ BytesInv'
    BY <1>1, <2>2 DEF BufferInv, BytesInv, InState
  <2>7. LedgerInv'
    <3>1. Sound' = Sound /\ Now' = (IF Sound THEN {} ELSE Now') /\ (Sound => Now = {})
      BY <1>1, <1>2, <2>2, <2>3 DEF Sound, Now, portVars
    <3>. QED
      BY <1>1, <1>2, <2>1, <2>2, <2>3, <3>1 DEF LedgerInv, InState
  <2>. QED
    BY <2>4, <2>5, <2>6, <2>7
<1>3. CASE /\ Target(context) # None /\ EsysSends({}, {Target(context)})
           /\ pc' = "flush" /\ UNCHANGED << timeout, context, lost >>
  <2>1. /\ port = "INIT" /\ port' = "SENT" /\ done' = FALSE /\ outcome' = "pending"
        /\ command' = [ adds |-> {}, takes |-> {Target(context)} ]
    BY <1>3 DEF EsysSends, Sends
  <2>2. Target(context) \in Objects
    BY <1>1, <1>3 DEF Target, OwnKey, HandleInv, KeyInv, Objects
  <2>3. ~InCommand' /\ Waiting' /\ Held' = Held /\ Now = Held /\ Now' = Held /\ Sound
    BY <1>3, <2>1 DEF InCommand, Waiting, Held, Handles, Now, Sound
  <2>4. FapiTypeOK'
    BY <1>1, <1>3, <2>1, <2>2 DEF FapiTypeOK
  <2>5. HandleInv' /\ PhaseInv' /\ KeyInv' /\ WaitInv'
    BY <1>1, <1>3, <2>1, <2>3
    DEF HandleInv, PhaseInv, KeyInv, WaitInv, InPrimary, InState, Sends1, Target, OwnKey
  <2>6. BufferInv' /\ BytesInv' /\ LedgerInv'
    BY <1>1, <1>3, <2>3 DEF BufferInv, BytesInv, LedgerInv, InState
  <2>. QED
    BY <2>4, <2>5, <2>6
<1>4. CASE /\ Target(context) # None /\ EsysRefuses /\ Drop({Target(context)})
           /\ UNCHANGED << timeout, pc >>
  <2>1. /\ command' = command /\ port' \in {"INIT", "SENT", "STUCK"} /\ done' \in BOOLEAN
        /\ outcome' = "failed"
        /\ port' = "INIT" => port = "INIT"
    BY <1>4 DEF EsysRefuses, Refuses, FapiTypeOK
  <2>2. lost' = lost \union {Target(context)}
    BY <1>4 DEF Drop
  <2>3. port' = "INIT" => Sound /\ Now = Held
    BY <2>1 DEF Sound, Now
  <2>4. port' = "INIT" =>
          /\ Sound /\ live \subseteq lost' \union (Held \ {Target(context)})
          /\ Held \ {Target(context)} \subseteq live
    BY <2>2, <2>3 DEF LedgerInv
  <2>. QED
    BY <1>1, <1>4, <2>1, <2>4, DropKeeps DEF FapiTypeOK
<1>. QED
  BY <1>2, <1>3, <1>4 DEF Clean

LEMMA FlushKeeps ==
  ASSUME Inv, Flush
  PROVE  Inv'
<1>. USE DEF Inv
<1>1. /\ pc = "flush" /\ pc' = "clean" /\ Flushing /\ Waiting /\ port = "SENT"
      /\ UNCHANGED << timeout, pollevents, stored, blocking, live, calls, wanted, buffers, given,
                      freed >>
      /\ Target(context) # None /\ Sends1({}, {Target(context)})
  BY DEF Flush, Flushing, Waiting, WaitInv, PhaseInv
<1>2. CASE EsysSucceeds /\ Drop({})
  <2>1. /\ port' = "INIT" /\ done /\ done' = done /\ outcome' = "ok" /\ command' = command
    BY <1>2 DEF EsysSucceeds, Succeeds
  <2>2. lost' = lost /\ Now = Held \ {Target(context)} /\ Sound
    BY <1>1, <1>2, <2>1 DEF Drop, Now, Sends1, Sound
  <2>. QED
    BY <1>1, <1>2, <2>1, <2>2, DropKeeps DEF LedgerInv
<1>3. CASE EsysFails /\ Drop({Target(context)})
  <2>1. /\ done' = done /\ command' = command /\ port' \in {"INIT", "STUCK"} /\ outcome' = "failed"
        /\ done' \in BOOLEAN
    BY <1>3 DEF EsysFails, Fails, FapiTypeOK
  <2>2. Sound /\ lost' = lost \union {Target(context)}
        /\ Held \ {Target(context)} \subseteq Now /\ Now \subseteq Held
    BY <1>1, <1>3 DEF Sound, Drop, Now, Sends1
  <2>3. /\ live \subseteq lost' \union (Held \ {Target(context)})
        /\ Held \ {Target(context)} \subseteq live
    BY <2>2 DEF LedgerInv
  <2>. QED
    BY <1>1, <1>3, <2>1, <2>2, <2>3, DropKeeps
<1>. QED
  BY <1>2, <1>3 DEF Flush
-----------------------------------------------------------------------------
LEMMA NextKeeps == Inv /\ [Next]_fapiVars => Inv'
<1>. SUFFICES ASSUME Inv, [Next]_fapiVars PROVE Inv'
  OBVIOUS
<1>1. ASSUME NEW block \in BOOLEAN, Begin(block) PROVE Inv'
  BY <1>1, BeginKeeps
<1>2. CASE Poll \/ Finish \/ TryAgain
  BY <1>2, QuietKeeps
<1>3. CASE KeyStep
  BY <1>3, ReadKeyKeeps, ReadHierarchyKeeps, CreatePrimaryKeeps, AskPersistentKeeps,
     VerifyPersistentKeeps
  DEF KeyStep
<1>4. CASE SessionStep
  BY <1>4, CreateSessionKeeps, WaitForSessionKeeps DEF SessionStep
<1>5. CASE RandomStep(0)
  BY <1>5, AskFirstKeeps, PieceKeeps, NoPieceKeeps DEF RandomStep
<1>6. CASE CleanupStep
  BY <1>6, FlushSessionKeeps, SessionFlushedKeeps, FlushKeyKeeps, KeyFlushedKeeps, CleanKeeps,
     FlushKeeps
  DEF CleanupStep
<1>7. CASE Tpm
  BY <1>7, TpmKeeps
<1>8. CASE UNCHANGED fapiVars
  BY <1>8
  DEF fapiVars, portVars, historyVars, Inv, FapiTypeOK, HandleInv, PhaseInv, KeyInv, WaitInv,
      LedgerInv, BufferInv, BytesInv, Waiting, Sound, Now, Held, Handles, Sends1, InPrimary, InState,
      InCommand, Target, OwnKey
<1>. QED
  BY <1>1, <1>2, <1>3, <1>4, <1>5, <1>6, <1>7, <1>8 DEF Next, Step

LEMMA Invariance == FapiSpec => []Inv
<1>. QED
  BY Initially, NextKeeps, PTL DEF FapiSpec

(* FapiTypeOK: every field of the context keeps its range; what is counted *)
(* off never gets negative.                                                *)
THEOREM TheoremFapiType == FapiSpec => []FapiTypeOK
<1>. Inv => FapiTypeOK
  BY DEF Inv
<1>. QED
  BY Invariance, PTL

(* NothingLeft: after a command, whichever step of it failed, the TPM      *)
(* holds only what it refused to give back, and no buffer is lost.         *)
THEOREM TheoremNothingLeft == FapiSpec => []NothingLeft
<1>. Inv => NothingLeft
  BY DEF Inv, NothingLeft, Ready, LedgerInv, Sound, Now, InCommand
<1>. QED
  BY Invariance, PTL

(* GivenKept: no command frees a buffer that the application was given.    *)
THEOREM TheoremGivenKept == FapiSpec => []GivenKept
<1>. Inv => GivenKept
  BY DEF Inv, GivenKept, BufferInv
<1>. QED
  BY Invariance, PTL

(* Delivered: the pieces add up to what was asked for, and no piece is     *)
(* written past the end of the buffer.                                     *)
THEOREM TheoremDelivered == FapiSpec => Delivered
<1>. DEFINE Step1 == /\ context'.idx # context.idx => context'.idx <= wanted
                     /\ given' # given =>
                          context.idx = wanted /\ given' = given \union {calls}
<1>1. Inv /\ [Next]_fapiVars => [Step1]_fapiVars
  <2>. SUFFICES ASSUME Inv, Next PROVE Step1
    OBVIOUS
  <2>. USE DEF Inv
  <2>0. context \in Contexts /\ wanted \in Nat /\ calls \in Nat
    BY DEF FapiTypeOK
  <2>1. ASSUME NEW c, c \in Contexts, Fail(c), c.idx \in {0, context.idx}
        PROVE  context'.idx \in {0, context.idx}
    BY <2>1 DEF Fail, Contexts
  <2>2. ASSUME NEW block \in BOOLEAN, Begin(block) PROVE Step1
    <3>1. UNCHANGED given
      BY <2>2 DEF Begin
    <3>2. \A n : Fresh(context, n).idx = context.idx
      BY <2>0 DEF Fresh, Contexts
    <3>3. context'.idx = context.idx
      BY <2>0, <2>2, <3>2 DEF Begin, Fresh, Contexts
    <3>. QED
      BY <3>1, <3>3
  <2>3. CASE Poll \/ Finish \/ TryAgain \/ Tpm
    BY <2>3 DEF Poll, Finish, TryAgain, Tpm, historyVars
  <2>4. CASE KeyStep \/ SessionStep \/ NoPiece
    <3>1. UNCHANGED given /\ pc = "finish"
      BY <2>4
      DEF KeyStep, SessionStep, ReadKey, ReadHierarchy, CreatePrimary, AskPersistent,
          VerifyPersistent, CreateSession, WaitForSession, NoPiece, SameCall, At, AtPrimary
    <3>2. context'.idx = context.idx
      BY <2>0, <2>4
      DEF KeyStep, SessionStep, ReadKey, ReadHierarchy, CreatePrimary, AskPersistent,
          VerifyPersistent, CreateSession, WaitForSession, NoPiece, Fail, GoOn, Wait, Contexts
    <3>. QED
      BY <3>1, <3>2
  <2>5. CASE AskFirst
    <3>1. UNCHANGED given
      BY <2>5 DEF AskFirst, SameCall
    <3>2. context'.idx = 0
      BY <2>0, <2>5 DEF AskFirst, Fail, GoOn, Contexts
    <3>. QED
      BY <2>0, <3>1, <3>2
  <2>6. ASSUME NEW size \in 0 .. Chunk, Piece(size) PROVE Step1
    <3>1. UNCHANGED given /\ size \in Nat /\ context.numBytes = wanted - context.idx
      BY <2>6, NumbersAssumption DEF Piece, SameCall, At, BytesInv, InState, InCommand
    <3>2. CASE TooMany(size)
      BY <2>0, <2>6, <3>1, <3>2 DEF Piece, Fail, Contexts
    <3>3. CASE ~TooMany(size)
      <4>1. context.idx + size <= wanted
        BY <2>0, <3>1, <3>3 DEF TooMany, Contexts
      <4>2. context'.idx = context.idx + size
        BY <2>0, <2>6, <3>3 DEF Piece, Fail, GoOn, Wait, Saved, Contexts
      <4>. QED
        BY <3>1, <4>1, <4>2
    <3>. QED
      BY <3>2, <3>3
  <2>7. CASE CleanupStep
    <3>1. context'.idx = context.idx
      BY <2>0, <2>7
      DEF CleanupStep, FlushSession, SessionFlushed, FlushKey, KeyFlushed, Clean, Flush, Fail,
          GoOn, CleanupFails, FallThrough, Succeed, Drop, Contexts
    <3>2. \/ UNCHANGED given
          \/ InState("CLEANUP") /\ given' = given \union {context.data}
      BY <2>0, <2>7
      DEF CleanupStep, FlushSession, SessionFlushed, FlushKey, KeyFlushed, Clean, Flush,
          CleanupFails, FallThrough, Succeed, Contexts, InState, InCommand, At
    <3>. QED
      BY <3>1, <3>2 DEF BytesInv, BufferInv
  <2>. QED
    BY <2>2, <2>3, <2>4, <2>5, <2>6, <2>7 DEF Next, Step, RandomStep
<1>. QED
  BY <1>1, Invariance, PTL DEF FapiSpec, Delivered

(* FlushesOwn: a flush is sent for a session or a key that a command made  *)
(* and the TPM still holds, never for the persistent key.                  *)
THEOREM TheoremFlushesOwn == FapiSpec => FlushesOwn
<1>. DEFINE Step1 == (pc = "clean" \/ At("CLEANUP")) /\ port # "SENT" /\ port' = "SENT"
                       => command'.takes = {Target(context)} /\ Target(context) \in live
<1>1. Inv /\ [Next]_fapiVars => [Step1]_fapiVars
  <2>. SUFFICES ASSUME Inv, Next, pc = "clean" \/ At("CLEANUP"), port # "SENT", port' = "SENT"
                PROVE  command'.takes = {Target(context)} /\ Target(context) \in live
    OBVIOUS
  <2>. USE DEF Inv
  <2>1. CleanupStep
    <3>1. ~(\E block \in BOOLEAN : Begin(block)) /\ ~Poll /\ ~Finish /\ ~TryAgain /\ ~Tpm
      BY DEF Begin, Poll, Finish, TryAgain, Tpm, Acts, portVars
    <3>2. ~KeyStep
      BY DEF KeyStep, ReadKey, ReadHierarchy, CreatePrimary, AskPersistent, VerifyPersistent,
             AtPrimary, At
    <3>3. ~SessionStep /\ ~RandomStep(0)
      BY DEF SessionStep, CreateSession, WaitForSession, RandomStep, AskFirst, Piece, NoPiece, At
    <3>. QED
      BY <3>1, <3>2, <3>3 DEF Next, Step
  <2>2. /\ port = "INIT" /\ command'.takes = {Target(context)} /\ Target(context) # None
        /\ context.state # "INIT"
    <3>1. ~EsysRefuses
      BY DEF EsysRefuses, Refuses
    <3>2. ASSUME NEW target, EsysSends({}, {target})
          PROVE  port = "INIT" /\ command'.takes = {target}
      BY <3>2 DEF EsysSends, Sends
    <3>3. CASE FlushSession
      <4>1. EsysSends({}, {context.session1}) /\ InState("CLEANUP") /\ context.session1 # None
        BY <3>1, <3>3 DEF FlushSession, At, PhaseInv, InState, InCommand
      <4>. QED
        BY <3>2, <4>1 DEF Target, InState
    <3>4. CASE FlushKey
      <4>1. EsysSends({}, {context.srk_handle}) /\ InState("CLEANUP") /\ context.session1 = None
            /\ OwnKey(context) # None
        BY <3>1, <3>4 DEF FlushKey, At, PhaseInv, InState, InCommand
      <4>. QED
        BY <3>2, <4>1 DEF Target, InState, OwnKey
    <3>5. CASE Clean
      <4>1. EsysSends({}, {Target(context)}) /\ Target(context) # None /\ context.state # "INIT"
        BY <3>1, <3>5 DEF Clean, PhaseInv, portVars
      <4>. QED
        BY <3>2, <4>1
    <3>6. ~SessionFlushed /\ ~KeyFlushed /\ ~Flush
      BY DEF SessionFlushed, KeyFlushed, Flush, EsysSucceeds, Succeeds, EsysFails, Fails
    <3>. QED
      BY <2>1, <3>3, <3>4, <3>5, <3>6 DEF CleanupStep
  <2>3. Target(context) \in Held
    BY <2>2 DEF Target, OwnKey, HandleInv, KeyInv, Held, Handles, Objects
  <2>. QED
    BY <2>2, <2>3 DEF LedgerInv, Sound, Now
<1>. QED
  BY <1>1, Invariance, PTL DEF FapiSpec, FlushesOwn
-----------------------------------------------------------------------------
(* The flushes that the end of the command has still to do. *)
Targets(c) ==
  (IF c.session1 # None THEN 1 ELSE 0) + (IF OwnKey(c) # None THEN 1 ELSE 0)

(* How many more steps can bring the command on: the states that are still *)
(* to come, and a step for each byte.                                      *)
Left(c, at) ==
  LET key     == [ INIT |-> 0, GET_CAP |-> 1, HAUTH_SENT |-> 1, VERIFY_PERSISTENT |-> 2,
                   READ_HIERARCHY_FINISH |-> 2, READ_KEY |-> 3 ]
      session == [ INIT |-> 0, WAIT_FOR_SESSION1 |-> 0, CREATE_SESSION |-> 1,
                   WAIT_FOR_PRIMARY |-> 1 + key[c.primary_state] ]
      random  == [ SENT |-> 0, INIT |-> 1 ]
      cleanup == [ SRK |-> 6, SESSION2 |-> 7, SESSION1 |-> 8, INIT |-> 9 ]
  IN  CASE at = "flush" -> 2 * Targets(c)
        [] at = "clean" -> 2 * Targets(c) + 1
        [] OTHER ->
             CASE c.state = "INIT" -> 0
               [] c.state = "CLEANUP" -> cleanup[c.cleanup_state]
               [] c.state = "WAIT_FOR_RANDOM" -> 10 + c.numBytes + random[c.get_random_state]
               [] c.state = "WAIT_FOR_SESSION" -> 12 + c.numBytes + session[c.session_state]

StepsLeft == Left(context, pc)

(* Fapi_GetRandom.c lines 93-106 and 235-279: whatever fails, a command    *)
(* never goes back: a step that is not a wait leaves it fewer to take, and *)
(* only the start of the next command gives it new ones.                   *)
CommandWindsDown ==
  [][ /\ calls' = calls => StepsLeft' <= StepsLeft
      /\ Progress => StepsLeft' \in 0 .. StepsLeft - 1 ]_fapiVars

(* What is left of a command at each place, in any context.                *)
LEMMA TargetsLeft ==
  ASSUME NEW c \in Contexts
  PROVE  /\ Targets(c) \in {0, 1, 2}
         /\ Target(c) # None => Targets(c) # 0
         /\ Left(c, "clean") = 2 * Targets(c) + 1 /\ Left(c, "flush") = 2 * Targets(c)
  BY DEF Targets, Target, Left

LEMMA LeftHere ==
  ASSUME NEW c \in Contexts, NEW at \in {"idle", "poll", "finish"}
  PROVE  /\ c.state = "INIT" => Left(c, at) = 0
         /\ c.state = "CLEANUP" =>
              /\ Left(c, at) \in 6 .. 9
              /\ c.cleanup_state = "SRK" => Left(c, at) = 6
              /\ c.cleanup_state = "SESSION2" => Left(c, at) = 7
              /\ c.cleanup_state = "SESSION1" => Left(c, at) = 8
              /\ c.cleanup_state = "INIT" => Left(c, at) = 9
         /\ c.state = "WAIT_FOR_RANDOM" =>
              /\ c.get_random_state = "SENT" => Left(c, at) = 10 + c.numBytes
              /\ c.get_random_state = "INIT" => Left(c, at) = 11 + c.numBytes
         /\ c.state = "WAIT_FOR_SESSION" =>
              /\ c.session_state \in {"INIT", "WAIT_FOR_SESSION1"} => Left(c, at) = 12 + c.numBytes
              /\ c.session_state = "CREATE_SESSION" => Left(c, at) = 13 + c.numBytes
              /\ c.session_state = "WAIT_FOR_PRIMARY" =>
                   /\ c.primary_state = "INIT" => Left(c, at) = 13 + c.numBytes
                   /\ c.primary_state \in {"GET_CAP", "HAUTH_SENT"} =>
                        Left(c, at) = 14 + c.numBytes
                   /\ c.primary_state \in {"VERIFY_PERSISTENT", "READ_HIERARCHY_FINISH"} =>
                        Left(c, at) = 15 + c.numBytes
                   /\ c.primary_state = "READ_KEY" => Left(c, at) = 16 + c.numBytes
<1>1. c.numBytes \in Nat
  BY DEF Contexts
<1>2. CASE c.state = "INIT"
  BY <1>2 DEF Left
<1>3. CASE c.state = "CLEANUP"
  <2>1. c.cleanup_state \in {"INIT", "SESSION1", "SESSION2", "SRK"}
    BY DEF Contexts
  <2>. QED
    BY <1>3, <2>1 DEF Left
<1>4. CASE c.state = "WAIT_FOR_RANDOM"
  BY <1>1, <1>4 DEF Left
<1>5. CASE c.state = "WAIT_FOR_SESSION"
  BY <1>1, <1>5 DEF Left
<1>. QED
  BY <1>2, <1>3, <1>4, <1>5 DEF Contexts

LEMMA LeftFar ==
  ASSUME NEW c \in Contexts, NEW at \in {"idle", "poll", "finish"}
  PROVE  Left(c, at) \in Nat /\ (c.state # "INIT" => Left(c, at) >= 6)
<1>1. /\ c.numBytes \in Nat /\ c.get_random_state \in {"INIT", "SENT"}
      /\ c.state \in {"INIT", "WAIT_FOR_SESSION", "WAIT_FOR_RANDOM", "CLEANUP"}
      /\ c.session_state \in {"INIT", "WAIT_FOR_PRIMARY", "CREATE_SESSION", "WAIT_FOR_SESSION1"}
      /\ c.primary_state \in {"INIT", "READ_KEY", "READ_HIERARCHY_FINISH", "HAUTH_SENT",
                              "VERIFY_PERSISTENT", "GET_CAP"}
  BY DEF Contexts
<1>. QED
  BY <1>1, LeftHere

(* Where a command fails or has got its bytes, only its flushes are left.  *)
LEMMA EndShortens ==
  ASSUME Inv, Inv', pc = "finish", context.state # "INIT", pc' = "clean"
  PROVE  StepsLeft' \in 0 .. StepsLeft - 1
<1>1. PICK c \in Contexts : c = context'
  BY DEF Inv, FapiTypeOK
<1>2. StepsLeft' = Left(c, "clean")
  BY <1>1 DEF StepsLeft
<1>3. StepsLeft' \in 1 .. 5
  BY <1>2, TargetsLeft
<1>4. StepsLeft \in Nat /\ StepsLeft >= 6
  BY LeftFar DEF StepsLeft, Inv, FapiTypeOK
<1>. QED
  BY <1>3, <1>4

(* The states of the key and of the session, which come one after another. *)
LEMMA KeyShortens ==
  ASSUME Inv, Inv', KeyStep \/ SessionStep
  PROVE  StepsLeft' \in 0 .. StepsLeft - 1
<1>1. /\ pc = "finish" /\ context.state = "WAIT_FOR_SESSION" /\ context \in Contexts
      /\ context.numBytes \in Nat
  BY DEF KeyStep, SessionStep, ReadKey, ReadHierarchy, CreatePrimary, AskPersistent,
         VerifyPersistent, CreateSession, WaitForSession, AtPrimary, At, Inv, FapiTypeOK, Contexts
<1>2. CASE pc' = "clean"
  BY <1>1, <1>2, EndShortens
<1>3. CASE pc' # "clean"
  <2>0. \A c : ~Fail(c)
    BY <1>3 DEF Fail
  <2>1. PICK c \in Contexts : c = context'
    BY DEF Inv, FapiTypeOK
  <2>2. StepsLeft = Left(context, "finish") /\ StepsLeft' = Left(c, pc')
    BY <1>1, <2>1 DEF StepsLeft
  <2>3. pc' \in {"idle", "poll", "finish"}
    BY <1>1, <2>0
    DEF KeyStep, SessionStep, ReadKey, ReadHierarchy, CreatePrimary, AskPersistent,
        VerifyPersistent, CreateSession, WaitForSession, GoOn, Wait, Return
  <2>4. CASE ReadKey
    <3>1. /\ context.session_state = "WAIT_FOR_PRIMARY" /\ context.primary_state = "READ_KEY"
          /\ c.state = "WAIT_FOR_SESSION" /\ c.session_state = "WAIT_FOR_PRIMARY"
          /\ c.primary_state \in {"VERIFY_PERSISTENT", "READ_HIERARCHY_FINISH"}
          /\ c.numBytes = context.numBytes
      <4>1. \/ c = [ context EXCEPT !.srk_persistent = TRUE,
                                    !.primary_state = "VERIFY_PERSISTENT" ]
            \/ c = [ context EXCEPT !.srk_persistent = FALSE,
                                    !.primary_state = "READ_HIERARCHY_FINISH" ]
        BY <2>0, <2>1, <2>4 DEF ReadKey, GoOn, Wait
      <4>2. /\ context.session_state = "WAIT_FOR_PRIMARY" /\ context.primary_state = "READ_KEY"
        BY <2>4 DEF ReadKey, AtPrimary
      <4>. QED
        BY <1>1, <4>1, <4>2 DEF Contexts
    <3>2. Left(context, "finish") = 16 + context.numBytes
      BY <1>1, <3>1, LeftHere
    <3>3. Left(c, pc') = 15 + context.numBytes
      BY <2>3, <3>1, LeftHere
    <3>. QED
      BY <1>1, <2>2, <3>2, <3>3
  <2>5. CASE ReadHierarchy \/ AskPersistent
    <3>1. /\ context.session_state = "WAIT_FOR_PRIMARY"
          /\ context.primary_state \in {"VERIFY_PERSISTENT", "READ_HIERARCHY_FINISH"}
          /\ c.state = "WAIT_FOR_SESSION" /\ c.session_state = "WAIT_FOR_PRIMARY"
          /\ c.primary_state \in {"GET_CAP", "HAUTH_SENT"} /\ c.numBytes = context.numBytes
      BY <1>1, <2>0, <2>1, <2>5 DEF ReadHierarchy, AskPersistent, AtPrimary, GoOn, Contexts
    <3>. QED
      BY <1>1, <2>2, <2>3, <3>1, LeftHere
  <2>6. CASE CreatePrimary \/ VerifyPersistent
    <3>1. /\ context.session_state = "WAIT_FOR_PRIMARY"
          /\ context.primary_state \in {"GET_CAP", "HAUTH_SENT"}
          /\ c.state = "WAIT_FOR_SESSION" /\ c.session_state = "CREATE_SESSION"
          /\ c.numBytes = context.numBytes
      <4>. DEFINE made == [ context EXCEPT !.srk_handle = << "srk", calls >>,
                                           !.primary_state = "INIT" ]
      <4>1. \/ c = [ made EXCEPT !.session_state = "CREATE_SESSION" ]
            \/ c = [ context EXCEPT !.srk_handle = StoredKey,
                                    !.session_state = "CREATE_SESSION" ]
        BY <2>0, <2>1, <2>6 DEF CreatePrimary, VerifyPersistent, GoOn
      <4>2. /\ context.session_state = "WAIT_FOR_PRIMARY"
            /\ context.primary_state \in {"GET_CAP", "HAUTH_SENT"}
        BY <2>6 DEF CreatePrimary, VerifyPersistent, AtPrimary
      <4>. QED
        BY <1>1, <4>1, <4>2 DEF Contexts
    <3>2. Left(context, "finish") = 14 + context.numBytes
      BY <1>1, <3>1, LeftHere
    <3>3. Left(c, pc') = 13 + context.numBytes
      BY <2>3, <3>1, LeftHere
    <3>. QED
      BY <1>1, <2>2, <3>2, <3>3
  <2>7. CASE CreateSession
    <3>1. /\ context.session_state = "CREATE_SESSION"
          /\ c.state = "WAIT_FOR_SESSION" /\ c.session_state = "WAIT_FOR_SESSION1"
          /\ c.numBytes = context.numBytes
      BY <1>1, <2>0, <2>1, <2>7 DEF CreateSession, GoOn, Contexts
    <3>. QED
      BY <1>1, <2>2, <2>3, <3>1, LeftHere
  <2>8. CASE WaitForSession
    <3>1. /\ context.session_state = "WAIT_FOR_SESSION1"
          /\ c.state = "WAIT_FOR_RANDOM" /\ c.get_random_state = "INIT"
          /\ c.numBytes = context.numBytes
      BY <1>1, <2>0, <2>1, <2>8 DEF WaitForSession, GoOn, Contexts
    <3>. QED
      BY <1>1, <2>2, <2>3, <3>1, LeftHere
  <2>. QED
    BY <2>4, <2>5, <2>6, <2>7, <2>8 DEF KeyStep, SessionStep
<1>. QED
  BY <1>2, <1>3
(* The pieces: each one but an empty one is bytes that are not to come.    *)
LEMMA PieceShortens ==
  ASSUME Inv, Inv', NEW size \in 0 .. Chunk, Piece(size)
  PROVE  StepsLeft' \in 0 .. StepsLeft /\ (size # 0 => StepsLeft' # StepsLeft)
<1>1. /\ pc = "finish" /\ context.state = "WAIT_FOR_RANDOM" /\ context \in Contexts
      /\ context.get_random_state = "SENT" /\ context.numBytes \in Nat /\ size \in Nat
  BY NumbersAssumption DEF Piece, At, Inv, FapiTypeOK, Contexts
<1>2. StepsLeft = 10 + context.numBytes
  BY <1>1, LeftHere DEF StepsLeft
<1>3. CASE pc' = "clean"
  <2>1. StepsLeft' \in 0 .. StepsLeft - 1
    BY <1>1, <1>3, EndShortens
  <2>. QED
    BY <1>1, <1>2, <2>1
<1>4. CASE pc' # "clean"
  <2>0. \A c : ~Fail(c)
    BY <1>4 DEF Fail
  <2>1. PICK c \in Contexts : c = context'
    BY DEF Inv, FapiTypeOK
  <2>2. PICK s : s = Saved(size)
    OBVIOUS
  <2>3. /\ size <= context.numBytes /\ s.numBytes = context.numBytes - size
        /\ s.state = "WAIT_FOR_RANDOM" /\ s.get_random_state = "SENT"
        /\ s.cleanup_state = context.cleanup_state /\ s \in Contexts
    <3>1. ~TooMany(size)
      BY <2>0 DEF Piece
    <3>2. size <= context.numBytes /\ context.idx \in Nat
      BY <1>1, <3>1 DEF TooMany, Contexts
    <3>3. context.numBytes - size \in Nat /\ context.idx + size \in Nat
      BY <1>1, <3>2
    <3>4. s = [ context EXCEPT !.numBytes = context.numBytes - size,
                               !.idx = context.idx + size, !.get_random_state = "SENT" ]
      BY <2>2 DEF Saved
    <3>. QED
      BY <1>1, <3>2, <3>3, <3>4 DEF Contexts
  <2>4. /\ pc' \in {"idle", "poll", "finish"}
        /\ \/ s.numBytes = 0 /\ c = [ s EXCEPT !.state = "CLEANUP", !.get_random_state = "INIT" ]
           \/ s.numBytes # 0 /\ c = s
    BY <1>1, <2>0, <2>1, <2>2 DEF Piece, GoOn, Wait, Return
  <2>5. StepsLeft' = Left(c, pc')
    BY <2>1 DEF StepsLeft
  <2>6. CASE s.numBytes = 0
    <3>1. c.state = "CLEANUP"
      BY <2>3, <2>4, <2>6 DEF Contexts
    <3>2. StepsLeft' \in 6 .. 9
      BY <2>4, <2>5, <3>1, LeftHere
    <3>. QED
      BY <1>1, <1>2, <3>2
  <2>7. CASE s.numBytes # 0
    <3>1. StepsLeft' = 10 + s.numBytes
      BY <2>3, <2>4, <2>5, <2>7, LeftHere
    <3>. QED
      BY <1>1, <1>2, <2>3, <3>1
  <2>. QED
    BY <2>6, <2>7
<1>. QED
  BY <1>3, <1>4

LEMMA RandomShortens ==
  ASSUME Inv, Inv', RandomStep(1)
  PROVE  StepsLeft' \in 0 .. StepsLeft - 1
<1>1. CASE NoPiece
  BY <1>1, EndShortens DEF NoPiece, At, Fail
<1>2. ASSUME NEW size \in 1 .. Chunk, Piece(size)
      PROVE  StepsLeft' \in 0 .. StepsLeft - 1
  <2>1. size \in 0 .. Chunk /\ size # 0
    BY NumbersAssumption
  <2>2. StepsLeft' \in 0 .. StepsLeft /\ StepsLeft' # StepsLeft
    BY <1>2, <2>1, PieceShortens
  <2>3. StepsLeft \in Nat
    BY <1>2, LeftFar DEF StepsLeft, Piece, At, Inv, FapiTypeOK
  <2>. QED
    BY <2>2, <2>3
<1>3. CASE AskFirst
  <2>1. /\ pc = "finish" /\ context.state = "WAIT_FOR_RANDOM" /\ context \in Contexts
        /\ context.get_random_state = "INIT" /\ context.numBytes \in Nat
    BY <1>3 DEF AskFirst, At, Inv, FapiTypeOK, Contexts
  <2>2. CASE pc' = "clean"
    BY <2>1, <2>2, EndShortens
  <2>3. CASE pc' # "clean"
    <3>1. PICK c \in Contexts : c = context'
      BY DEF Inv, FapiTypeOK
    <3>2. \A d : ~Fail(d)
      BY <2>3 DEF Fail
    <3>3. \E d : /\ d = [ context EXCEPT !.data = calls, !.idx = 0 ]
                 /\ c = [ d EXCEPT !.get_random_state = "SENT" ] /\ pc' = pc
      BY <1>3, <3>1, <3>2 DEF AskFirst, GoOn
    <3>4. /\ c.state = "WAIT_FOR_RANDOM" /\ c.get_random_state = "SENT"
          /\ c.numBytes = context.numBytes
      BY <2>1, <3>3 DEF Contexts
    <3>5. StepsLeft = 11 + context.numBytes
      BY <2>1, LeftHere DEF StepsLeft
    <3>6. Left(c, "finish") = 10 + c.numBytes
      BY <3>4, LeftHere
    <3>7. StepsLeft' = Left(c, "finish")
      BY <2>1, <3>1, <3>3 DEF StepsLeft
    <3>. QED
      BY <2>1, <3>4, <3>5, <3>6, <3>7
  <2>. QED
    BY <2>2, <2>3
<1>. QED
  BY <1>1, <1>2, <1>3 DEF RandomStep

(* The flushes of a command that has got its bytes.                        *)
LEMMA FlushesShorten ==
  ASSUME Inv, Inv', FlushSession \/ SessionFlushed \/ FlushKey \/ KeyFlushed
  PROVE  StepsLeft' \in 0 .. StepsLeft - 1
<1>1. pc = "finish" /\ context.state = "CLEANUP" /\ context \in Contexts
  BY DEF FlushSession, SessionFlushed, FlushKey, KeyFlushed, At, Inv, FapiTypeOK
<1>2. CASE pc' = "clean"
  BY <1>1, <1>2, EndShortens
<1>3. CASE pc' # "clean"
  <2>1. PICK c \in Contexts : c = context'
    BY DEF Inv, FapiTypeOK
  <2>2. ~CleanupFails /\ \A d : ~Succeed(d)
    BY <1>3 DEF CleanupFails, Fail, Succeed
  <2>3. PICK d \in Contexts, state \in {"SESSION1", "SESSION2", "SRK"} :
          /\ FallThrough(d, state) /\ d.state = "CLEANUP"
          /\ \/ context.cleanup_state = "INIT" /\ state = "SESSION1"
             \/ context.cleanup_state = "SESSION1" /\ state = "SESSION2"
             \/ context.cleanup_state = "SESSION2" /\ state = "SRK"
    <3>1. [ context EXCEPT !.session1 = None ] \in Contexts
      BY <1>1 DEF Contexts
    <3>2. [ context EXCEPT !.session1 = None ].state = "CLEANUP"
      BY <1>1 DEF Contexts
    <3>. QED
      BY <1>1, <2>2, <3>1, <3>2 DEF FlushSession, SessionFlushed, FlushKey, KeyFlushed
  <2>4. c = [ d EXCEPT !.cleanup_state = state ] /\ pc' = "finish"
    BY <1>1, <2>1, <2>3 DEF FallThrough, GoOn
  <2>5. c.state = "CLEANUP" /\ c.cleanup_state = state
    BY <2>3, <2>4 DEF Contexts
  <2>6. StepsLeft = Left(context, "finish") /\ StepsLeft' = Left(c, "finish")
    BY <1>1, <2>1, <2>4 DEF StepsLeft
  <2>. QED
    BY <1>1, <2>3, <2>5, <2>6, LeftHere
<1>. QED
  BY <1>2, <1>3

(* The flushes of one that failed, and its end.                            *)
LEMMA DropShortens ==
  ASSUME Inv, NEW left, Drop(left), Target(context) # None
  PROVE  Targets(context)' = Targets(context) - 1
<1>1. context \in Contexts
  BY DEF Inv, FapiTypeOK
<1>2. CASE context.session1 # None
  <2>1. context'.session1 = None /\ OwnKey(context)' = OwnKey(context)
    BY <1>1, <1>2 DEF Drop, Contexts, OwnKey
  <2>. QED
    BY <1>2, <2>1 DEF Targets
<1>3. CASE context.session1 = None
  <2>1. context'.session1 = None /\ OwnKey(context)' = None /\ OwnKey(context) # None
    BY <1>1, <1>3 DEF Drop, Contexts, OwnKey, Target
  <2>. QED
    BY <1>3, <2>1 DEF Targets
<1>. QED
  BY <1>2, <1>3

LEMMA CleaningShortens ==
  ASSUME Inv, Inv', Clean \/ Flush
  PROVE  StepsLeft' \in 0 .. StepsLeft - 1
<1>1. PICK t \in {0, 1, 2} : t = Targets(context) /\ (Target(context) # None => t # 0)
  BY TargetsLeft DEF Inv, FapiTypeOK
<1>2. /\ pc = "clean" => StepsLeft = 2 * t + 1
      /\ pc = "flush" => StepsLeft = 2 * t
  BY <1>1, TargetsLeft DEF StepsLeft, Inv, FapiTypeOK
<1>3. PICK u \in {0, 1, 2} : u = Targets(context)'
  BY DEF Targets
<1>4. /\ pc' = "clean" => StepsLeft' = 2 * u + 1
      /\ pc' = "flush" => StepsLeft' = 2 * u
  BY <1>3 DEF StepsLeft, Left
<1>5. ASSUME NEW left, Drop(left), Target(context) # None, pc' = "clean"
      PROVE  StepsLeft' = 2 * t - 1
  <2>1. u = t - 1
    BY <1>1, <1>3, <1>5, DropShortens
  <2>. QED
    BY <1>4, <1>5, <2>1
<1>6. CASE Flush
  <2>1. Target(context) # None
    BY <1>6 DEF Flush, Inv, PhaseInv
  <2>2. StepsLeft' = 2 * t - 1
    BY <1>5, <1>6, <2>1 DEF Flush
  <2>. QED
    BY <1>1, <1>2, <1>6, <2>1, <2>2 DEF Flush
<1>7. CASE Clean /\ Target(context) = None
  <2>1. context'.state = "INIT" /\ pc' = "idle"
    BY <1>7 DEF Clean, Inv, FapiTypeOK, Contexts
  <2>2. StepsLeft' = 0
    BY <2>1 DEF StepsLeft, Left
  <2>. QED
    BY <1>2, <1>7, <2>2 DEF Clean
<1>8. CASE Clean /\ Target(context) # None
  <2>1. pc = "clean"
    BY <1>8 DEF Clean
  <2>2. CASE pc' = "flush" /\ UNCHANGED context
    <3>1. u = t
      BY <1>1, <1>3, <2>2 DEF Targets, OwnKey
    <3>. QED
      BY <1>1, <1>2, <1>4, <1>8, <2>1, <2>2, <3>1
  <2>3. CASE Drop({Target(context)}) /\ UNCHANGED pc
    BY <1>1, <1>2, <1>5, <1>8, <2>1, <2>3
  <2>. QED
    BY <1>8, <2>2, <2>3 DEF Clean
<1>. QED
  BY <1>6, <1>7, <1>8

LEMMA ProgressShortens ==
  ASSUME Inv, Inv', Progress
  PROVE  StepsLeft' \in 0 .. StepsLeft - 1
  BY KeyShortens, RandomShortens, FlushesShorten, CleaningShortens DEF Progress, CleanupStep

(* What is not progress: waits, an empty piece, the TPM, and a call that   *)
(* is refused.                                                             *)
LEMMA OthersLengthenNothing ==
  ASSUME Inv, Inv', Next, calls' = calls, ~Progress
  PROVE  StepsLeft' <= StepsLeft
<1>1. CASE Poll \/ Finish \/ TryAgain
  <2>1. context' = context /\ pc \in {"idle", "poll", "finish"} /\ pc' \in {"idle", "poll", "finish"}
    BY <1>1 DEF Poll, Finish, TryAgain, Return, At, AtPrimary
  <2>2. StepsLeft' = StepsLeft
    BY <2>1 DEF StepsLeft, Left
  <2>3. StepsLeft \in Nat
    BY <2>1, LeftFar DEF StepsLeft, Inv, FapiTypeOK
  <2>. QED
    BY <2>2, <2>3
<1>2. CASE Tpm
  <2>1. StepsLeft' = StepsLeft
    BY <1>2 DEF Tpm, StepsLeft
  <2>2. StepsLeft \in Nat
    <3>1. pc \in {"idle", "poll", "finish", "clean", "flush"} /\ context \in Contexts
      BY DEF Inv, FapiTypeOK
    <3>. QED
      BY <3>1, LeftFar, TargetsLeft DEF StepsLeft
  <2>. QED
    BY <2>1, <2>2
<1>3. ASSUME NEW block \in BOOLEAN, Begin(block)
      PROVE  StepsLeft' <= StepsLeft
  <2>0. calls' # calls + 1
    BY DEF Inv, FapiTypeOK
  <2>1. pc = "idle" /\ pc' = "idle" /\ context' = [ context EXCEPT !.state = "INIT" ]
    <3>1. /\ pc = "idle"
          /\ \/ /\ context' = [ context EXCEPT !.state = "INIT" ]
                /\ UNCHANGED << pc, blocking, calls, wanted >>
             \/ calls' = calls + 1
      BY <1>3, Zenon DEF Begin
    <3>. QED
      BY <2>0, <3>1
  <2>2. context'.state = "INIT"
    BY <2>1 DEF Inv, FapiTypeOK, Contexts
  <2>3. StepsLeft' = 0
    BY <2>1, <2>2 DEF StepsLeft, Left
  <2>4. StepsLeft \in Nat
    BY <2>1, LeftFar DEF StepsLeft, Inv, FapiTypeOK
  <2>. QED
    BY <2>3, <2>4
<1>4. CASE RandomStep(0)
  <2>1. PICK size \in 0 .. Chunk : Piece(size)
    BY <1>4 DEF RandomStep, Progress
  <2>2. StepsLeft \in Nat
    BY <2>1, LeftFar DEF StepsLeft, Piece, At, Inv, FapiTypeOK
  <2>. QED
    BY <2>1, <2>2, PieceShortens
<1>. QED
  BY <1>1, <1>2, <1>3, <1>4 DEF Next, Step, Progress

(* CommandWindsDown: a command never goes back, whatever fails and however *)
(* many bytes it is for; only waiting, and a TPM that returns no bytes,    *)
(* can keep it from its end.                                               *)
THEOREM TheoremCommandWindsDown == FapiSpec => CommandWindsDown
<1>. DEFINE Step1 == /\ calls' = calls => StepsLeft' <= StepsLeft
                     /\ Progress => StepsLeft' \in 0 .. StepsLeft - 1
<1>1. Inv /\ [Next]_fapiVars => [Step1]_fapiVars
  <2>. SUFFICES ASSUME Inv, Next PROVE Step1
    OBVIOUS
  <2>1. Inv'
    BY NextKeeps
  <2>2. StepsLeft \in Nat
    <3>1. pc \in {"idle", "poll", "finish", "clean", "flush"} /\ context \in Contexts
      BY DEF Inv, FapiTypeOK
    <3>. QED
      BY <3>1, LeftFar, TargetsLeft DEF StepsLeft
  <2>3. CASE Progress
    <3>1. StepsLeft' \in 0 .. StepsLeft - 1
      BY <2>1, <2>3, ProgressShortens
    <3>. QED
      BY <2>2, <3>1
  <2>4. CASE ~Progress
    BY <2>1, <2>4, OthersLengthenNothing
  <2>. QED
    BY <2>3, <2>4
<1>. QED
  BY <1>1, Invariance, PTL DEF FapiSpec, CommandWindsDown
=============================================================================
