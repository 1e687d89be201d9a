----------------------------- MODULE FapiRandom -----------------------------
(***************************************************************************)
(* A command of the top layer of tpm2-tss, src/_include/tss2/tss2-fapi:    *)
(* Fapi_GetRandom_Async and Fapi_GetRandom_Finish, and Fapi_GetRandom,     *)
(* which calls both and waits.  A command loads or makes the storage root  *)
(* key, starts a session, fetches the bytes in pieces and gives the        *)
(* session and the key back.  Finish is called again and again: it goes on *)
(* at the states the context holds, and falls through from state to state  *)
(* until it has to wait.                                                   *)
(*                                                                         *)
(* ESYS is that of EsysPort, which EsysCommand implements.  An object of   *)
(* the TPM is known by its kind and the number of the call that made it, a *)
(* buffer by the number of its call.  Policies on the hierarchy are left   *)
(* out: the key is made without one.                                       *)
(***************************************************************************)
EXTENDS EsysPort, Integers

CONSTANTS
  None,         \* ESYS_TR_NONE
  StoredKey,    \* the handle of a persistent storage root key
  Chunk,        \* sizeof(TPMU_HA), the most that the TPM returns at once
  MaxBytes,     \* the most an application asks for (a bound)
  MaxCalls      \* commands an application starts (a bound)

ASSUME NumbersAssumption ==
  Chunk \in Nat \ {0} /\ MaxBytes \in Nat \ {0} /\ MaxCalls \in Nat

Objects == {"srk", "session"} \X Nat

ASSUME HandlesAssumption ==
  None \notin Objects /\ StoredKey \notin Objects /\ None # StoredKey

VARIABLES
  context,      \* FAPI_CONTEXT
  timeout,      \* that of ESYS
  command,      \* what the command ESYS last sent makes and unmakes
  pollevents,   \* IFAPI_IO: is a file waited for?
  stored,       \* does the key store say that the root key is persistent?
  pc,           \* where the call in progress is, or "idle"
  blocking,     \* is that call Fapi_GetRandom?
  live,         \* the objects that commands have made in the TPM
  calls,        \* history: commands started
  wanted,       \* history: the bytes that the last of them asked for
  buffers,      \* history: the buffers that were allocated,
  given,        \*   those of them the application got,
  freed,        \*   and those that were freed
  lost          \* history: objects given up after the TPM or ESYS refused

historyVars == << calls, wanted, buffers, given, freed, lost >>
fapiVars ==
  << context, portVars, timeout, command, pollevents, stored, pc, blocking, live, historyVars >>

Init ==
  /\ context = [ state |-> "INIT", session_state |-> "INIT", primary_state |-> "INIT",
                 get_random_state |-> "INIT", cleanup_state |-> "INIT",
                 session1 |-> None, srk_handle |-> None, srk_persistent |-> FALSE,
                 data |-> 0, numBytes |-> 0, idx |-> 0 ]
  /\ PortInit /\ timeout = 0 /\ command = [ adds |-> {}, takes |-> {} ]
  /\ pollevents = FALSE /\ stored \in BOOLEAN
  /\ pc = "idle" /\ blocking = FALSE
  /\ live = {} /\ calls = 0 /\ wanted = 0
  /\ buffers = {} /\ given = {} /\ freed = {} /\ lost = {}
-----------------------------------------------------------------------------
(* Esys_..._Async: a command that makes and unmakes objects. *)
EsysSends(adds, takes) ==
  Sends /\ command' = [ adds |-> adds, takes |-> takes ]

EsysRefuses == Refuses /\ done' = done /\ UNCHANGED command

(* Esys_..._Finish *)
EsysSucceeds == Succeeds /\ UNCHANGED command

EsysFails == Fails /\ UNCHANGED command

(* The TPM acts on the command. *)
Tpm ==
  /\ Acts
  /\ live' = (live \union command.adds) \ command.takes
  /\ UNCHANGED << context, timeout, command, pollevents, stored, pc, blocking, historyVars >>
-----------------------------------------------------------------------------
(* A call of Finish returns TRY_AGAIN: Fapi_GetRandom polls and calls it   *)
(* again.                                                                  *)
Return == pc' = (IF blocking THEN "poll" ELSE "idle")

(* Finish falls through to another case. *)
GoOn(c) == context' = c /\ UNCHANGED << pc, freed >>

Wait(c) == context' = c /\ Return /\ UNCHANGED freed

(* The label error_cleanup: the buffer is freed and the rest cleaned up.   *)
(* The states of the session, the key and the bytes are set anew by the    *)
(* next command; the state of the cleanup is not.                          *)
Fail(c) ==
  /\ context' = [ c EXCEPT !.data = 0, !.get_random_state = "INIT" ]
  /\ freed' = freed \union ({c.data} \ {0})
  /\ pc' = "clean"

SameCall == UNCHANGED << timeout, stored, blocking, live, calls, wanted, given, lost >>

(* Between two cases of Finish. *)
At(state) == pc = "finish" /\ context.state = state

AtPrimary(state) ==
  /\ At("WAIT_FOR_SESSION")
  /\ context.session_state = "WAIT_FOR_PRIMARY" /\ context.primary_state = state

(* Mutant: the pointer to the last command's buffer is kept. *)
FreshKept(c, n) ==
  [ c EXCEPT !.session1 = None, !.srk_handle = None, !.numBytes = n, !.primary_state = "INIT" ]

(* What ifapi_session_init and the lines after it set for n bytes. *)
Fresh(c, n) ==
  [ c EXCEPT !.session1 = None, !.srk_handle = None, !.numBytes = n, !.primary_state = "INIT",
             !.data = 0 ]

(* Fapi_GetRandom_Async, or as far as it Fapi_GetRandom: in another state  *)
(* than INIT it is refused, and Fapi_GetRandom resets the state.           *)
Begin(block) ==
  /\ pc = "idle"
  /\ timeout' = IF block THEN -1 ELSE timeout
  /\ \/ /\ context.state # "INIT" /\ block
        /\ context' = [ context EXCEPT !.state = "INIT" ]
        /\ UNCHANGED << pc, blocking, calls, wanted >>
     \/ /\ context.state = "INIT" /\ calls < MaxCalls
        /\ \E n \in 0 .. MaxBytes :
             /\ wanted' = n
             /\ \/ /\ context' = [ Fresh(context, n) EXCEPT
                                     !.state = "WAIT_FOR_SESSION", !.primary_state = "READ_KEY",
                                     !.session_state = "WAIT_FOR_PRIMARY" ]
                   /\ pc' = (IF block THEN "poll" ELSE "idle")
                \/ context' = Fresh(context, n) /\ UNCHANGED pc
        /\ calls' = calls + 1 /\ blocking' = block
  /\ UNCHANGED << portVars, command, pollevents, stored, live, buffers, given, freed, lost >>

(* ifapi_io_poll in Fapi_GetRandom: if it fails, the call returns at once. *)
Poll ==
  /\ pc = "poll"
  /\ pc' = "finish" \/ (pollevents /\ pc' = "idle")
  /\ UNCHANGED << context, portVars, timeout, command, pollevents, stored, blocking, live,
                  historyVars >>

(* The application calls Fapi_GetRandom_Finish. *)
Finish ==
  /\ pc = "idle" /\ context.state # "INIT"
  /\ pc' = "finish" /\ blocking' = FALSE
  /\ UNCHANGED << context, portVars, timeout, command, pollevents, stored, live, historyVars >>
-----------------------------------------------------------------------------
(* Finish returns TRY_AGAIN and changes nothing else: there is nothing to  *)
(* read from the file yet, or more to read, or ESYS has no response yet.   *)
TryAgain ==
  /\ \/ /\ AtPrimary("READ_KEY") \/ AtPrimary("READ_HIERARCHY_FINISH")
        /\ pollevents' \in BOOLEAN
     \/ /\ \/ AtPrimary("HAUTH_SENT") \/ AtPrimary("GET_CAP")
           \/ At("WAIT_FOR_SESSION") /\ context.session_state = "WAIT_FOR_SESSION1"
           \/ At("WAIT_FOR_RANDOM") /\ context.get_random_state = "SENT"
           \/ At("CLEANUP") /\ context.cleanup_state \in {"SESSION1", "SRK"}
        /\ port = "SENT" /\ UNCHANGED pollevents
  /\ Return
  /\ UNCHANGED << context, portVars, timeout, command, stored, blocking, live, historyVars >>

(* The key has been read: a persistent one is looked for in the TPM, for   *)
(* another one its hierarchy is read next.  Anything may fail.             *)
ReadKey ==
  /\ AtPrimary("READ_KEY")
  /\ pollevents' = FALSE
  /\ \/ stored /\ Wait([ context EXCEPT !.srk_persistent = TRUE,
                                        !.primary_state = "VERIFY_PERSISTENT" ])
     \/ ~stored /\ GoOn([ context EXCEPT !.srk_persistent = FALSE,
                                         !.primary_state = "READ_HIERARCHY_FINISH" ])
     \/ Fail(context)
  /\ UNCHANGED << portVars, command, buffers >> /\ SameCall

(* The hierarchy has been read and is authorised, and the key is made. *)
ReadHierarchy ==
  /\ AtPrimary("READ_HIERARCHY_FINISH")
  /\ pollevents' = FALSE
  /\ \/ /\ EsysSends({<< "srk", calls >>}, {})
        /\ GoOn([ context EXCEPT !.primary_state = "HAUTH_SENT" ])
     \/ EsysRefuses /\ Fail(context)
     \/ UNCHANGED << portVars, command >> /\ Fail(context)
  /\ UNCHANGED buffers /\ SameCall

(* The key has been made.  If it is not the key of the key store it is     *)
(* cleaned up.                                                             *)
CreatePrimary ==
  /\ AtPrimary("HAUTH_SENT")
  /\ LET made == [ context EXCEPT !.srk_handle = << "srk", calls >>, !.primary_state = "INIT" ]
     IN  \/ /\ EsysSucceeds
            /\ Fail(made) \/ GoOn([ made EXCEPT !.session_state = "CREATE_SESSION" ])
         \/ EsysFails /\ Fail(context)
  /\ UNCHANGED << pollevents, buffers >> /\ SameCall

(* Does the TPM know the persistent key? *)
AskPersistent ==
  /\ AtPrimary("VERIFY_PERSISTENT")
  /\ \/ EsysSends({}, {}) /\ GoOn([ context EXCEPT !.primary_state = "GET_CAP" ])
     \/ EsysRefuses /\ Fail(context)
  /\ UNCHANGED << pollevents, buffers >> /\ SameCall

VerifyPersistent ==
  /\ AtPrimary("GET_CAP")
  /\ \/ /\ EsysSucceeds
        /\ Fail(context) \/ GoOn([ context EXCEPT !.srk_handle = StoredKey,
                                                  !.session_state = "CREATE_SESSION" ])
     \/ EsysFails /\ Fail(context)
  /\ UNCHANGED << pollevents, buffers >> /\ SameCall

(* ifapi_get_session_async *)
CreateSession ==
  /\ At("WAIT_FOR_SESSION") /\ context.session_state = "CREATE_SESSION"
  /\ \/ /\ EsysSends({<< "session", calls >>}, {})
        /\ GoOn([ context EXCEPT !.session_state = "WAIT_FOR_SESSION1" ])
     \/ EsysRefuses /\ Fail(context)
  /\ UNCHANGED << pollevents, buffers >> /\ SameCall

(* ifapi_get_session_finish; setting the session's attributes may fail. *)
WaitForSession ==
  /\ At("WAIT_FOR_SESSION") /\ context.session_state = "WAIT_FOR_SESSION1"
  /\ LET started == [ context EXCEPT !.session1 = << "session", calls >> ]
     IN  \/ /\ EsysSucceeds
            /\ Fail(started) \/ GoOn([ started EXCEPT !.state = "WAIT_FOR_RANDOM",
                                                      !.get_random_state = "INIT" ])
         \/ EsysFails /\ Fail(context)
  /\ UNCHANGED << pollevents, buffers >> /\ SameCall
-----------------------------------------------------------------------------
(* ifapi_get_random: the buffer, and the first piece is asked for. *)
AskFirst ==
  /\ At("WAIT_FOR_RANDOM") /\ context.get_random_state = "INIT"
  /\ \/ /\ Fail([ context EXCEPT !.data = 0, !.idx = 0 ])
        /\ UNCHANGED << portVars, command, buffers >>
     \/ /\ buffers' = buffers \union {calls}
        /\ LET c == [ context EXCEPT !.data = calls, !.idx = 0 ]
           IN  \/ EsysSends({}, {}) /\ GoOn([ c EXCEPT !.get_random_state = "SENT" ])
               \/ EsysRefuses /\ Fail(c)
  /\ UNCHANGED pollevents /\ SameCall

(* Mutants: one byte too many is let through; pieces overwrite each other; *)
(* the pieces are not counted off.                                         *)
TooManyLate(size) == size > context.numBytes + 1

TooMany(size) == size > context.numBytes

SavedAtStart(size) ==
  [ context EXCEPT !.numBytes = @ - size, !.idx = size, !.get_random_state = "SENT" ]

SavedUncounted(size) == [ context EXCEPT !.get_random_state = "SENT" ]

Saved(size) ==
  [ context EXCEPT !.numBytes = @ - size, !.idx = @ + size, !.get_random_state = "SENT" ]

(* A piece of so many bytes has come; the next one is asked for, which     *)
(* may fail, unless it was the last.                                       *)
Piece(size) ==
  /\ At("WAIT_FOR_RANDOM") /\ context.get_random_state = "SENT"
  /\ LET c == Saved(size)
     IN  \/ TooMany(size) /\ EsysSucceeds /\ Fail(context)
         \/ /\ ~TooMany(size) /\ c.numBytes = 0
            /\ EsysSucceeds
            /\ GoOn([ c EXCEPT !.state = "CLEANUP", !.get_random_state = "INIT" ])
         \/ /\ ~TooMany(size) /\ c.numBytes # 0
            /\ port = "SENT" /\ done /\ UNCHANGED command
            /\ \/ port' = "SENT" /\ done' = FALSE /\ outcome' = "pending" /\ Wait(c)
               \/ /\ port' \in {"INIT", "STUCK"} /\ done' = done /\ outcome' = "failed"
                  /\ Fail(c)
  /\ UNCHANGED << pollevents, buffers >> /\ SameCall

NoPiece ==
  /\ At("WAIT_FOR_RANDOM") /\ context.get_random_state = "SENT"
  /\ EsysFails /\ Fail(context)
  /\ UNCHANGED << pollevents, buffers >> /\ SameCall
-----------------------------------------------------------------------------
(* Mutants: the key is not flushed, or it is although it is persistent. *)
KeyForgotten(c) == None

KeyAnyway(c) == c.srk_handle

(* The root key, if it is to be flushed. *)
OwnKey(c) == IF c.srk_persistent THEN None ELSE c.srk_handle

(* The end of ifapi_cleanup_session without an error, and what follows. *)
Succeed(c) ==
  /\ context' = [ c EXCEPT !.cleanup_state = "INIT" ]
  /\ given' = given \union {c.data} /\ pc' = "clean" /\ UNCHANGED freed

FallThrough(c, state) ==
  GoOn([ c EXCEPT !.cleanup_state = state ]) /\ UNCHANGED given

CleanupFails == Fail([ context EXCEPT !.cleanup_state = "INIT" ]) /\ UNCHANGED given

SameCleanup ==
  UNCHANGED << timeout, pollevents, stored, blocking, live, calls, wanted, buffers, lost >>

(* The flush of the session is sent. *)
FlushSession ==
  /\ At("CLEANUP") /\ context.cleanup_state = "INIT"
  /\ \/ EsysSends({}, {context.session1}) /\ FallThrough(context, "SESSION1")
     \/ EsysRefuses /\ CleanupFails
  /\ SameCleanup

(* The session is gone; the key is flushed if it is not persistent. *)
SessionFlushed ==
  /\ At("CLEANUP") /\ context.cleanup_state = "SESSION1"
  /\ LET c == [ context EXCEPT !.session1 = None ]
     IN  \/ EsysSucceeds /\ OwnKey(c) = None /\ Succeed(c)
         \/ EsysSucceeds /\ OwnKey(c) # None /\ FallThrough(c, "SESSION2")
         \/ EsysFails /\ CleanupFails
  /\ SameCleanup

FlushKey ==
  /\ At("CLEANUP") /\ context.cleanup_state = "SESSION2"
  /\ \/ EsysSends({}, {context.srk_handle}) /\ FallThrough(context, "SRK")
     \/ EsysRefuses /\ CleanupFails
  /\ SameCleanup

KeyFlushed ==
  /\ At("CLEANUP") /\ context.cleanup_state = "SRK"
  /\ \/ EsysSucceeds /\ Succeed([ context EXCEPT !.srk_handle = None ])
     \/ EsysFails /\ CleanupFails
  /\ SameCleanup
-----------------------------------------------------------------------------
(* The object that the next flush is for. *)
Target(c) == IF c.session1 # None THEN c.session1 ELSE OwnKey(c)

(* Its handle is dropped, also where the object may be left in the TPM. *)
Drop(left) ==
  /\ context' = IF context.session1 # None THEN [ context EXCEPT !.session1 = None ]
                ELSE [ context EXCEPT !.srk_handle = None ]
  /\ lost' = lost \union left

(* ifapi_session_clean, one blocking flush after the other, and the end of *)
(* the command, where Fapi_GetRandom sets the timeout back.                *)
Clean ==
  /\ pc = "clean"
  /\ \/ /\ Target(context) = None
        /\ context' = [ context EXCEPT !.state = "INIT", !.srk_persistent = FALSE ]
        /\ pc' = "idle" /\ timeout' = IF blocking THEN 0 ELSE timeout
        /\ UNCHANGED << portVars, command, lost >>
     \/ /\ Target(context) # None /\ UNCHANGED timeout
        /\ \/ /\ EsysSends({}, {Target(context)})
              /\ pc' = "flush" /\ UNCHANGED << context, lost >>
           \/ EsysRefuses /\ Drop({Target(context)}) /\ UNCHANGED pc
  /\ UNCHANGED << pollevents, stored, blocking, live, calls, wanted, buffers, given, freed >>

(* Esys_FlushContext waits for the response. *)
Flush ==
  /\ pc = "flush" /\ pc' = "clean"
  /\ (EsysSucceeds /\ Drop({})) \/ (EsysFails /\ Drop({Target(context)}))
  /\ UNCHANGED << timeout, pollevents, stored, blocking, live, calls, wanted, buffers, given,
                  freed >>

KeyStep == ReadKey \/ ReadHierarchy \/ CreatePrimary \/ AskPersistent \/ VerifyPersistent

SessionStep == CreateSession \/ WaitForSession

RandomStep(least) == AskFirst \/ (\E size \in least .. Chunk : Piece(size)) \/ NoPiece

CleanupStep == FlushSession \/ SessionFlushed \/ FlushKey \/ KeyFlushed \/ Clean \/ Flush

Step == Poll \/ TryAgain \/ KeyStep \/ SessionStep \/ RandomStep(0) \/ CleanupStep

Next == (\E block \in BOOLEAN : Begin(block)) \/ Finish \/ Step \/ Tpm

FapiSpec == Init /\ [][Next]_fapiVars

(* The TPM answers and a call goes on, not only by waiting: a file gets    *)
(* ready, ESYS does not return TRY_AGAIN for ever (SubmissionsCounted of   *)
(* EsysCommand), and the TPM now and then returns a byte.                  *)
Progress == KeyStep \/ SessionStep \/ RandomStep(1) \/ CleanupStep

FairFapiSpec ==
  FapiSpec /\ WF_fapiVars(Tpm) /\ WF_fapiVars(Step) /\ SF_fapiVars(Progress)
-----------------------------------------------------------------------------
Contexts ==
  [ state : {"INIT", "WAIT_FOR_SESSION", "WAIT_FOR_RANDOM", "CLEANUP"},
    session_state : {"INIT", "WAIT_FOR_PRIMARY", "CREATE_SESSION", "WAIT_FOR_SESSION1"},
    primary_state : {"INIT", "READ_KEY", "READ_HIERARCHY_FINISH", "HAUTH_SENT",
                     "VERIFY_PERSISTENT", "GET_CAP"},
    get_random_state : {"INIT", "SENT"},
    cleanup_state : {"INIT", "SESSION1", "SESSION2", "SRK"},
    session1 : Objects \union {None},
    srk_handle : Objects \union {None, StoredKey}, srk_persistent : BOOLEAN,
    data : Nat, numBytes : Nat, idx : Nat ]

FapiTypeOK ==
  /\ context \in Contexts
  /\ port \in {"INIT", "SENT", "STUCK"} /\ done \in BOOLEAN
  /\ outcome \in {"none", "pending", "ok", "failed"} /\ timeout \in {0, -1}
  /\ command \in [ adds : SUBSET Objects, takes : SUBSET Objects ]
  /\ pollevents \in BOOLEAN /\ stored \in BOOLEAN /\ blocking \in BOOLEAN
  /\ pc \in {"idle", "poll", "finish", "clean", "flush"}
  /\ live \subseteq Objects /\ lost \subseteq Objects
  /\ calls \in Nat /\ wanted \in Nat
  /\ buffers \subseteq Nat /\ given \subseteq Nat /\ freed \subseteq Nat

Ready == pc = "idle" /\ context.state = "INIT"

(* fapi_util.c lines 1147-1150 and 1231-1233: after a command, however it  *)
(* ended, the TPM holds no session and no key of any command but those it  *)
(* refused to give back, and every buffer was freed or handed out; unless  *)
(* ESYS itself is not ready any more.                                      *)
NothingLeft ==
  Ready /\ port = "INIT" => live \subseteq lost /\ buffers \subseteq given \union freed

(* Fapi_GetRandom.c lines 172-174 and 257: what the application has been   *)
(* given is not freed, by this command or a later one.                     *)
GivenKept == given \intersect freed = {}

(* fapi_util.c lines 2757-2766: the pieces of a piecewise result never     *)
(* leave the buffer, and what is handed out is as long as was asked for.   *)
Delivered ==
  [][ /\ context'.idx # context.idx => context'.idx <= wanted
      /\ given' # given => context.idx = wanted /\ given' = given \union {calls} ]_fapiVars

(* fapi_util.c lines 1165-1222 and 1252-1288: a flush is only sent for an  *)
(* object that a command made and the TPM still holds, so not a second     *)
(* time and never for the persistent key.                                  *)
FlushesOwn ==
  [][ (pc = "clean" \/ At("CLEANUP")) /\ port # "SENT" /\ port' = "SENT"
        => command'.takes = {Target(context)} /\ Target(context) \in live ]_fapiVars

(* Fapi_GetRandom.c lines 93-103: Fapi_GetRandom returns, and so does each *)
(* call of Finish.                                                         *)
FapiReturns == pc # "idle" ~> pc = "idle"
=============================================================================
