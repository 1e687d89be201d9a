----------------------------- MODULE EsysCommand -----------------------------
(***************************************************************************)
(* The upper layer of tpm2-tss, as every command of src/_include/tss2/     *)
(* tss2-esys/api/ uses it: Esys_GetRandom_Async sends a command,           *)
(* Esys_GetRandom_Finish fetches the response and sends the command again  *)
(* when the TPM asks for it, and Esys_GetRandom does both and waits.       *)
(*                                                                         *)
(* One thread calls; the TPM and its device file move between any two      *)
(* calls into the layers below.  A call that is made in the wrong state    *)
(* returns BAD_SEQUENCE and changes nothing, so it is not an action.       *)
(***************************************************************************)
EXTENDS SysExecute

CONSTANTS
  MaxSubmissions,   \* ESYS_MAX_SUBMISSIONS
  MaxCalls          \* calls an application makes (a bound)

ASSUME SubmissionsAssumption == MaxSubmissions \in Nat \ {0} /\ MaxCalls \in Nat

VARIABLES
  esys,       \* ESYS_CONTEXT: state, submissionCount and timeout
  pc,         \* where the call in progress is, or "idle"
  calls,      \* the calls of Esys_GetRandom_Async so far
  outcome,    \* history: what became of the last of them
  answer,     \* history: the command whose response the last success returned
  sent        \* history: how often this call's command was sent

historyVars == << calls, outcome, answer, sent >>
esysVars == << linkVars, sys, esys, pc, historyVars >>

Init ==
  /\ LinkInit /\ SysInit
  /\ esys = [ state |-> "INIT", submissionCount |-> 0, timeout |-> 0 ]
  /\ pc = "idle" /\ calls = 0 /\ outcome = "none" /\ answer = 0 /\ sent = 0

(* The call leaves the context in state s; where the timeout was set to -1 *)
(* by Esys_GetRandom, it is restored.                                      *)
Return(s) == pc' = "idle" /\ esys' = [ esys EXCEPT !.state = s, !.timeout = 0 ]

(* Esys_GetRandom goes round its loop where others return TRY_AGAIN. *)
TryAgain(s) ==
  IF esys.timeout = -1
  THEN pc' = "loop" /\ esys' = [ esys EXCEPT !.state = s ]
  ELSE Return(s)

(* What iesys_check_sequence_async sets the count to; the mutant is off by *)
(* one.                                                                    *)
NoSubmission == 0

FirstSubmission == 1

(* Esys_GetRandom (timeout -1) or Esys_GetRandom_Async (timeout 0) as far  *)
(* as Tss2_Sys_GetRandom_Prepare: sessions of no use or a context of the   *)
(* layer below that is not ready put the state back.                       *)
Async(timeout) ==
  /\ pc = "idle" /\ calls < MaxCalls
  /\ esys.state \in {"INIT", "RESUBMISSION"}
  /\ calls' = calls + 1 /\ sent' = 0
  /\ \/ /\ Prepare(calls + 1)
        /\ pc' = "send" /\ outcome' = "pending"
        /\ esys' = [ state |-> "INTERNALERROR", submissionCount |-> FirstSubmission,
                     timeout |-> timeout ]
     \/ /\ esys' = [ esys EXCEPT !.state = "INIT", !.submissionCount = FirstSubmission ]
        /\ outcome' = "failed"
        /\ UNCHANGED << sys, pc >>
  /\ UNCHANGED << linkVars, answer >>

(* The rest of Esys_GetRandom_Async: sessions and authorisations, which    *)
(* may fail, and the command goes off.                                     *)
Send ==
  /\ pc = "send"
  /\ \/ Return("INIT") /\ outcome' = "failed" /\ UNCHANGED << linkVars, sys, sent >>
     \/ /\ ExecuteAsync("SUCCESS")
        /\ TryAgain("SENT") /\ sent' = sent + 1 /\ UNCHANGED outcome
     \/ /\ \E rc \in {"IO_ERROR", "BAD_SEQUENCE", "SYS_BAD_SEQUENCE"} : ExecuteAsync(rc)
        /\ Return("INTERNALERROR") /\ outcome' = "failed" /\ UNCHANGED sent
  /\ UNCHANGED << calls, answer >>

(* Esys_GetRandom_Finish, called by the application or by the loop: out of *)
(* memory or in the wrong stage of the layer below it ends here.           *)
Finish ==
  /\ pc \in {"idle", "loop"}
  /\ esys.state \in {"SENT", "RESUBMISSION"}
  /\ \/ Return("INTERNALERROR") /\ outcome' = "failed"
     \/ /\ sys.stage = "SEND_COMMAND"
        /\ pc' = "size" /\ esys' = [ esys EXCEPT !.state = "INTERNALERROR" ]
        /\ UNCHANGED outcome
  /\ UNCHANGED << linkVars, sys, calls, answer, sent >>

(* The first half of Tss2_Sys_ExecuteFinish. *)
Size ==
  /\ pc = "size"
  /\ \E rc \in { "SUCCESS", "TRY_AGAIN", "IO_ERROR", "GENERAL_FAILURE", "BAD_SEQUENCE",
                 "INSUFFICIENT_CONTEXT" } :
       /\ FinishSize(esys.timeout, rc)
       /\ \/ rc = "SUCCESS" /\ pc' = "data" /\ UNCHANGED << esys, outcome >>
          \/ rc = "TRY_AGAIN" /\ TryAgain("SENT") /\ UNCHANGED outcome
          \/ rc \notin {"SUCCESS", "TRY_AGAIN"} /\ Return("INTERNALERROR") /\ outcome' = "failed"
  /\ UNCHANGED << calls, answer, sent >>

(* A response without an error is verified and unmarshalled, which fails   *)
(* where the response's sessions or parameters are not as expected.        *)
Complete ==
  \/ /\ Return("INIT") /\ outcome' = "ok" /\ answer' = file.cmd
  \/ /\ Return("INTERNALERROR") /\ outcome' = "failed" /\ UNCHANGED answer

(* Mutant: an error of a layer below counts as one of the TPM. *)
TpmErrorBelow == {"retry", "error", "initialize", "INSUFFICIENT_RESPONSE"}

TpmError == {"retry", "error", "initialize"}

(* The second half, and what follows from its return code. *)
Data ==
  /\ pc = "data"
  /\ \E rc \in TpmError \union
               { "SUCCESS", "TRY_AGAIN", "IO_ERROR", "GENERAL_FAILURE", "NO_CONNECTION",
                 "BAD_SEQUENCE", "MALFORMED_RESPONSE", "INSUFFICIENT_RESPONSE" } :
       /\ FinishData(esys.timeout, rc)
       /\ \/ rc = "SUCCESS" /\ Complete
          \/ rc = "TRY_AGAIN" /\ TryAgain("SENT") /\ UNCHANGED << outcome, answer >>
          \/ rc = "retry" /\ pc' = "again" /\ UNCHANGED << esys, outcome, answer >>
          \/ /\ rc \in TpmError \ {"retry"}
             /\ Return("INIT") /\ outcome' = "failed" /\ UNCHANGED answer
          \/ /\ rc \notin TpmError \union {"SUCCESS", "TRY_AGAIN"}
             /\ Return("INTERNALERROR") /\ outcome' = "failed" /\ UNCHANGED answer
  /\ UNCHANGED << calls, sent >>

(* Mutant: the count may pass the limit. *)
OutOfSubmissionsLate == esys.submissionCount > MaxSubmissions

OutOfSubmissions == esys.submissionCount >= MaxSubmissions

(* RETRY, TESTING or YIELDED: the command is sent again, up to a number of *)
(* times; where that fails the state stays RESUBMISSION.                   *)
Resubmit ==
  /\ pc = "again"
  /\ \/ /\ OutOfSubmissions
        /\ pc' = "idle" /\ outcome' = "failed"
        /\ esys' = [ state |-> "INIT", submissionCount |-> esys.submissionCount + 1,
                     timeout |-> 0 ]
        /\ UNCHANGED << linkVars, sys, sent >>
     \/ /\ ~OutOfSubmissions
        /\ \E rc \in {"SUCCESS", "IO_ERROR", "BAD_SEQUENCE", "SYS_BAD_SEQUENCE"} :
             /\ ExecuteAsync(rc)
             /\ pc' = IF rc = "SUCCESS" /\ esys.timeout = -1 THEN "loop" ELSE "idle"
             /\ esys' = [ state |-> "RESUBMISSION",
                          submissionCount |-> esys.submissionCount + 1,
                          timeout |-> IF rc = "SUCCESS" THEN esys.timeout ELSE 0 ]
             /\ sent' = IF rc = "SUCCESS" THEN sent + 1 ELSE sent
             /\ outcome' = IF rc = "SUCCESS" THEN outcome ELSE "failed"
  /\ UNCHANGED << calls, answer >>

(* What goes on outside the application's thread. *)
Device == (Answer \/ HangUp) /\ UNCHANGED << sys, esys, pc, historyVars >>

Step == Send \/ (pc = "loop" /\ Finish) \/ Size \/ Data \/ Resubmit

Next == (\E timeout \in {0, -1} : Async(timeout)) \/ (pc = "idle" /\ Finish) \/ Step \/ Device

EsysSpec == Init /\ [][Next]_esysVars

(* A call goes on, and a TPM with a command answers or its file hangs up.  *)
FairEsysSpec ==
  EsysSpec /\ WF_esysVars(Step) /\ WF_esysVars(file.state = "busy" /\ Device)
-----------------------------------------------------------------------------
EsysTypeOK ==
  /\ tcti \in [ state : {"TRANSMIT", "RECEIVE"}, partial : BOOLEAN,
                partial_read_supported : BOOLEAN ]
  /\ file \in [ state : {"idle", "busy", "full", "rest", "hung"}, cmd : Nat \union {Response},
                code : AllCodes, size : {"header", "more"} ]
  /\ executed \in Seq(Nat) /\ torn \in BOOLEAN
  /\ sys \in [ stage : {"INITIALIZE", "PREPARE", "SEND_COMMAND", "RECEIVE_RESPONSE"},
               buffer : Nat \union {Response}, header : Nat \union {Response} ]
  /\ esys \in [ state : {"INIT", "SENT", "RESUBMISSION", "INTERNALERROR"},
                submissionCount : 0 .. MaxSubmissions + 1, timeout : {0, -1} ]
  /\ pc \in {"idle", "send", "loop", "size", "data", "again"}
  /\ calls \in Nat /\ answer \in Nat \union {Response} /\ sent \in Nat
  /\ outcome \in {"none", "pending", "ok", "failed"}

(* A command is at the TPM or its response on the way. *)
Underway(cmd) == file.cmd = cmd /\ file.state \in {"busy", "full", "hung"}

(* The context waits for the response to a command. *)
AwaitsResponse ==
  esys.state = "SENT" \/ (esys.state = "RESUBMISSION" /\ sys.stage = "SEND_COMMAND")

(* esys_int.h lines 150-157: while the context waits for a response, each  *)
(* of the layers waits for it, nothing of it has been read, and it is the  *)
(* response to the command of the last call -- until a response has been   *)
(* taken in part, after which nothing keeps the layers in step.            *)
LayersAgree ==
  ~torn /\ AwaitsResponse =>
    /\ sys.stage = "SEND_COMMAND" /\ sys.buffer = calls
    /\ tcti.state = "RECEIVE" /\ ~tcti.partial
    /\ Underway(calls)

(* esys_int.h lines 185-186, "The current number of submissions of this    *)
(* command to the TPM": while the context waits, the count is the number   *)
(* of times that this call's command has been sent, whatever earlier calls *)
(* came to, and it has not passed ESYS_MAX_SUBMISSIONS.                    *)
SubmissionsCounted ==
  AwaitsResponse => esys.submissionCount = sent /\ sent <= MaxSubmissions

(* Tss2_Sys_Execute.c lines 151-158: what goes to the TPM, a command sent  *)
(* for the first time or again, is always the command of the last call,    *)
(* until a response has been taken in part.                                *)
CommandIntact ==
  [][ file'.state = "busy" /\ file.state # "busy" => torn \/ file'.cmd = calls ]_esysVars

Promise == INSTANCE TpmCall

(* A command is acted on at most once and a success is its own, until a    *)
(* response has been taken in part.                                        *)
ImplementsCall == Promise!CallSpec

(* What the layer above sees of the three state machines. *)
SeenState ==
  CASE pc = "send" -> "INIT"
    [] pc \in {"size", "data", "again"} -> "SENT"
    [] OTHER -> IF esys.state = "INTERNALERROR" \/
                   (esys.state = "INIT" /\ sys.stage = "SEND_COMMAND") THEN "STUCK"
                ELSE IF sys.stage = "SEND_COMMAND" THEN "SENT" ELSE "INIT"

PortState == IF torn THEN "BROKEN" ELSE SeenState

CommandDone == \E i \in DOMAIN executed : executed[i] = calls

(* A command that has not been sent yet counts as refused. *)
CommandOutcome == IF pc = "send" THEN "failed" ELSE outcome

Port == INSTANCE EsysPort
  WITH port <- PortState, done <- CommandDone, outcome <- CommandOutcome

(* Esys_GetRandom.c lines 251-285: where ESYS takes the next command after *)
(* one that failed, the TPM has not acted on that one; where it does not,  *)
(* it never will again.                                                    *)
ImplementsPort == Port!PortSpec

(* Esys_GetRandom.c lines 81-93: a call that has begun returns, although   *)
(* it waits for the TPM without a timeout.                                 *)
CallReturns == pc # "idle" ~> pc = "idle"
=============================================================================
