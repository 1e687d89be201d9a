----------------------------- MODULE EsysProofs -----------------------------
(***************************************************************************)
(* Proofs about the three layers of tpm2-tss: whatever the TPM answers and *)
(* however many calls are made, the layers agree on what they wait for,    *)
(* a command is acted on at most once and a success is its own.            *)
(***************************************************************************)
EXTENDS EsysCommand, Functions, TLAPS

(* How the caller's steps, the state and the count of submissions go       *)
(* together, whatever the layers below do.                                 *)
CountInv ==
  /\ pc \in {"send", "size", "data", "again"} => esys.state = "INTERNALERROR"
  /\ pc = "loop" => esys.state \in {"SENT", "RESUBMISSION"}
  /\ pc = "send" => sent = 0 /\ esys.submissionCount = 1
  /\ pc = "again" => sys.stage = "PREPARE"
  /\ pc \in {"loop", "size", "data", "again"} \/ AwaitsResponse => sent = esys.submissionCount
  /\ esys.state # "INIT" => esys.submissionCount <= MaxSubmissions

CallInv == EsysTypeOK /\ CountInv

(* The command of the last call is at the TPM, or its response on the way. *)
Waiting ==
  \/ pc \in {"loop", "size"}
  \/ /\ pc = "idle"
     /\ esys.state = "SENT" \/ (esys.state = "RESUBMISSION" /\ sys.stage = "SEND_COMMAND")

(* The device and what the TPM has acted on. *)
LinkInv ==
  /\ tcti.state = "TRANSMIT" /\ file.state # "hung" => ~tcti.partial
  /\ ~HeaderOnly <=> file.code \in {"ok", "huge"}
  /\ Range(executed) \subseteq 1 .. calls
  /\ file.cmd \in {Response} \union (1 .. calls)
  /\ file.cmd \in Range(executed) => file.state # "busy" /\ file.code \notin TpmError
  /\ file.state \in {"full", "rest"} /\ file.code \notin TpmError =>
       file.cmd \in Range(executed)

(* The command of the last call waits for its response. *)
WaitingInv ==
  Waiting =>
    /\ sys = [ stage |-> "SEND_COMMAND", buffer |-> calls, header |-> calls ]
    /\ tcti.state = "RECEIVE" /\ ~tcti.partial
    /\ Underway(calls) /\ outcome = "pending"

(* Between the two halves of Tss2_Sys_ExecuteFinish. *)
DataInv ==
  pc = "data" =>
    /\ sys = [ stage |-> "SEND_COMMAND", buffer |-> calls, header |-> calls ]
    /\ tcti.state = "RECEIVE" /\ outcome = "pending" /\ file.cmd = calls
    /\ ~tcti.partial => file.state \in {"busy", "full", "hung"}
    /\ tcti.partial =>
         /\ file.state \in {"idle", "rest", "hung"}
         /\ file.state = "rest" => ~HeaderOnly
         /\ file.state = "idle" => HeaderOnly

(* The command is in the buffer and the TPM has not acted on it. *)
ReadyInv ==
  pc \in {"send", "again"} =>
    /\ sys.stage = "PREPARE" /\ sys.buffer = calls
    /\ calls \in Nat \ {0} /\ calls \notin Range(executed) /\ outcome = "pending"
    /\ file.cmd = calls => file.state # "busy"

OutcomeInv == esys.state = "RESUBMISSION" => outcome \in {"pending", "failed"}

(* What holds besides until a response has been taken in part. *)
WholeInv == LinkInv /\ WaitingInv /\ DataInv /\ ReadyInv /\ OutcomeInv

IInv == CallInv /\ (~torn => WholeInv)
-----------------------------------------------------------------------------
(* What Append does to the set of elements. *)
LEMMA RangeAppend ==
  ASSUME NEW s \in Seq(Nat), NEW e \in Nat
  PROVE  Range(Append(s, e)) = Range(s) \union {e}
<1>. DEFINE t == Append(s, e)
<1>1. /\ t \in Seq(Nat) /\ Len(t) = Len(s) + 1 /\ Len(s) \in Nat
      /\ t[Len(s) + 1] = e /\ \A i \in 1 .. Len(s) : t[i] = s[i]
  OBVIOUS
<1>2. DOMAIN s = 1 .. Len(s) /\ DOMAIN t = 1 .. Len(t)
  BY <1>1
<1>. HIDE DEF t
<1>3. ASSUME NEW x \in Range(t) PROVE x \in Range(s) \union {e}
  <2>1. PICK i \in 1 .. Len(t) : x = t[i]
    BY <1>2 DEF Range
  <2>2. CASE i = Len(s) + 1
    BY <2>1, <2>2, <1>1
  <2>3. CASE i \in 1 .. Len(s)
    <3>1. x = s[i]
      BY <2>1, <2>3, <1>1
    <3>. QED
      BY <3>1, <2>3, <1>2 DEF Range
  <2>. QED
    BY <2>1, <2>2, <2>3, <1>1
<1>4. ASSUME NEW x \in Range(s) PROVE x \in Range(t)
  <2>1. PICK i \in 1 .. Len(s) : x = s[i]
    BY <1>2 DEF Range
  <2>2. x = t[i] /\ i \in DOMAIN t
    BY <2>1, <1>1, <1>2
  <2>. QED
    BY <2>2 DEF Range
<1>5. e \in Range(t)
  <2>1. e = t[Len(s) + 1] /\ Len(s) + 1 \in DOMAIN t
    BY <1>1, <1>2
  <2>. QED
    BY <2>1 DEF Range
<1>. QED
  BY <1>3, <1>4, <1>5 DEF t

(* The initial state satisfies the invariant. *)
LEMMA InitInv == Init => IInv
<1>. SUFFICES ASSUME Init PROVE IInv  OBVIOUS
<1>1. Range(executed) = {}
  BY DEF Init, LinkInit, Range
<1>2. EsysTypeOK
  <2>1. file \in [ state : {"idle", "busy", "full", "rest", "hung"}, cmd : Nat \union {Response},
                   code : AllCodes, size : {"header", "more"} ]
    BY DEF Init, LinkInit, AllCodes
  <2>2. tcti \in [ state : {"TRANSMIT", "RECEIVE"}, partial : BOOLEAN,
                   partial_read_supported : BOOLEAN ]
    BY DEF Init, LinkInit
  <2>3. sys \in [ stage : {"INITIALIZE", "PREPARE", "SEND_COMMAND", "RECEIVE_RESPONSE"},
                  buffer : Nat \union {Response}, header : Nat \union {Response} ]
    BY DEF Init, SysInit
  <2>4. esys \in [ state : {"INIT", "SENT", "RESUBMISSION", "INTERNALERROR"},
                   submissionCount : 0 .. MaxSubmissions + 1, timeout : {0, -1} ]
    BY SubmissionsAssumption DEF Init
  <2>5. executed \in Seq(Nat) /\ torn \in BOOLEAN
    <3>1. executed = << >> /\ torn = FALSE
      BY DEF Init, LinkInit
    <3>2. executed \in Seq(Nat)
      BY <3>1
    <3>. QED
      BY <3>1, <3>2
  <2>. QED
    BY <2>1, <2>2, <2>3, <2>4, <2>5 DEF Init, EsysTypeOK
<1>3. LinkInv
  BY <1>1 DEF Init, LinkInit, LinkInv, HeaderOnly
<1>. QED
  BY <1>2, <1>3, SubmissionsAssumption
  DEF IInv, CallInv, CountInv, AwaitsResponse, WholeInv, Init, SysInit, WaitingInv, Waiting, DataInv, ReadyInv, OutcomeInv

(* Tss2_Sys_ExecuteAsync succeeds, or nothing has changed.                 *)
LEMMA Sent ==
  ASSUME EsysTypeOK, ExecuteAsync("SUCCESS")
  PROVE  /\ sys.stage = "PREPARE" /\ file.state \in {"idle", "rest"}
         /\ tcti.state = "TRANSMIT"
         /\ sys' = [ stage |-> "SEND_COMMAND", buffer |-> sys.buffer, header |-> sys.buffer ]
         /\ tcti' = [ tcti EXCEPT !.state = "RECEIVE" ]
         /\ file' = [ file EXCEPT !.state = "busy", !.cmd = sys.buffer ]
         /\ executed' = executed
<1>1. sys.stage = "PREPARE" /\ Transmit(sys.buffer, "SUCCESS")
  BY DEF ExecuteAsync
<1>2. sys' = [ sys EXCEPT !.stage = "SEND_COMMAND", !.header = sys.buffer ]
  BY <1>1 DEF ExecuteAsync
<1>3. /\ tcti.state = "TRANSMIT" /\ file.state \in {"idle", "rest"}
      /\ tcti' = [ tcti EXCEPT !.state = "RECEIVE" ]
      /\ file' = [ file EXCEPT !.state = "busy", !.cmd = sys.buffer ]
      /\ executed' = executed
  BY <1>1 DEF Transmit, Refused
<1>. QED
  BY <1>1, <1>2, <1>3 DEF EsysTypeOK

LEMMA NotSent ==
  ASSUME NEW rc, rc # "SUCCESS", ExecuteAsync(rc)
  PROVE  UNCHANGED << sys, linkVars >>
  BY DEF ExecuteAsync, Transmit, Refused

(* The types of the layer that talks to the device, of the one above it    *)
(* and of the context.                                                     *)
LinkTypes ==
  /\ tcti \in [ state : {"TRANSMIT", "RECEIVE"}, partial : BOOLEAN,
                partial_read_supported : BOOLEAN ]
  /\ file \in [ state : {"idle", "busy", "full", "rest", "hung"}, cmd : Nat \union {Response},
                code : AllCodes, size : {"header", "more"} ]
  /\ executed \in Seq(Nat)

SysTypes ==
  sys \in [ stage : {"INITIALIZE", "PREPARE", "SEND_COMMAND", "RECEIVE_RESPONSE"},
            buffer : Nat \union {Response}, header : Nat \union {Response} ]

ContextTypes ==
  /\ esys \in [ state : {"INIT", "SENT", "RESUBMISSION", "INTERNALERROR"},
                submissionCount : 0 .. MaxSubmissions + 1, timeout : {0, -1} ]
  /\ pc \in {"idle", "send", "loop", "size", "data", "again"}
  /\ calls \in Nat /\ answer \in Nat \union {Response} /\ sent \in Nat
  /\ outcome \in {"none", "pending", "ok", "failed"}

LEMMA TypeParts ==
  EsysTypeOK <=> LinkTypes /\ SysTypes /\ ContextTypes /\ torn \in BOOLEAN
  BY DEF EsysTypeOK, LinkTypes, SysTypes, ContextTypes

LEMMA SentTypes ==
  ASSUME EsysTypeOK, ExecuteAsync("SUCCESS") PROVE LinkTypes' /\ SysTypes'
<1>1. LinkTypes /\ SysTypes
  BY TypeParts
<1>2. /\ sys' = [ stage |-> "SEND_COMMAND", buffer |-> sys.buffer, header |-> sys.buffer ]
      /\ tcti' = [ tcti EXCEPT !.state = "RECEIVE" ]
      /\ file' = [ file EXCEPT !.state = "busy", !.cmd = sys.buffer ]
      /\ executed' = executed
  BY Sent
<1>3. SysTypes' /\ sys.buffer \in Nat \union {Response}
  BY <1>1, <1>2 DEF SysTypes
<1>. QED
  BY <1>1, <1>2, <1>3 DEF LinkTypes

(* What Tss2_Tcti_Receive leaves alone. *)
LEMMA LinkType ==
  ASSUME LinkTypes, NEW timeout, NEW rc,
         \/ ReceiveSize(timeout, rc) \/ ReceiveData(timeout, rc)
  PROVE  LinkTypes' /\ file'.cmd = file.cmd /\ executed' = executed
<1>1. ASSUME ReadHeader
      PROVE  /\ file' \in [ state : {"idle", "busy", "full", "rest", "hung"},
                             cmd : Nat \union {Response}, code : AllCodes, size : {"header", "more"} ]
             /\ file'.cmd = file.cmd
  <2>1. CASE file.state = "full"
    BY <1>1, <2>1 DEF ReadHeader, LinkTypes
  <2>2. CASE file.state = "rest"
    <3>1. PICK left \in {"idle", "rest"}, code \in AllCodes, size \in {"header", "more"} :
            file' = [ file EXCEPT !.state = left, !.code = code, !.size = size ]
      BY <1>1, <2>2 DEF ReadHeader
    <3>2. file \in [ state : {"idle", "busy", "full", "rest", "hung"},
                     cmd : Nat \union {Response}, code : AllCodes, size : {"header", "more"} ]
      BY DEF LinkTypes
    <3>. QED
      BY <3>1, <3>2
  <2>. QED
    BY <1>1, <2>1, <2>2 DEF ReadHeader
<1>2. CASE ReceiveSize(timeout, rc)
  BY <1>1, <1>2 DEF LinkTypes, ReceiveSize, Refused, TimedOut, linkVars
<1>3. CASE ReceiveData(timeout, rc)
  BY <1>3 DEF LinkTypes, ReceiveData, Refused, TimedOut, AfterRead, linkVars
<1>. QED
  BY <1>2, <1>3

(* What Tss2_Sys_ExecuteFinish leaves alone, and what comes of a TRY_AGAIN *)
(* or of a TPM that asks for the command again.                            *)
LEMMA SizeTypes ==
  ASSUME LinkTypes, SysTypes, NEW timeout, NEW rc, FinishSize(timeout, rc)
  PROVE  /\ LinkTypes' /\ SysTypes' /\ file'.cmd = file.cmd /\ executed' = executed
         /\ rc # "INSUFFICIENT_CONTEXT" => sys' = sys
<1>1. \E r \in {"SUCCESS", "TRY_AGAIN", "IO_ERROR", "GENERAL_FAILURE", "BAD_SEQUENCE"} :
        /\ ReceiveSize(timeout, r)
        /\ \/ rc = "INSUFFICIENT_CONTEXT" /\ sys' = [ sys EXCEPT !.stage = "PREPARE" ]
           \/ UNCHANGED sys
  BY DEF FinishSize
<1>. QED
  BY <1>1, LinkType DEF SysTypes

LEMMA DataTypes ==
  ASSUME LinkTypes, SysTypes, Response \notin Nat, NEW timeout, NEW rc, FinishData(timeout, rc)
  PROVE  /\ LinkTypes' /\ SysTypes' /\ file'.cmd = file.cmd /\ executed' = executed
         /\ rc = "TRY_AGAIN" => sys' = sys
         /\ rc = "retry" => sys'.stage = "PREPARE"
         /\ rc = "SUCCESS" => file.code = "ok"
<1>1. PICK r \in {"SUCCESS", "TRY_AGAIN", "IO_ERROR", "GENERAL_FAILURE", "NO_CONNECTION",
                  "BAD_SEQUENCE"} :
        /\ ReceiveData(timeout, r)
        /\ \/ r = "SUCCESS" /\ sys' = Parsed /\ rc = ParsedRc
           \/ r # "SUCCESS" /\ rc = r /\ UNCHANGED sys
  BY DEF FinishData
<1>. DEFINE read == [ sys EXCEPT !.buffer = Response ]
<1>2. /\ read \in [ stage : {"INITIALIZE", "PREPARE", "SEND_COMMAND", "RECEIVE_RESPONSE"},
                     buffer : Nat \union {Response}, header : Nat \union {Response} ]
      /\ Reissuable \in [ stage : {"PREPARE"}, buffer : Nat \union {Response},
                           header : Nat \union {Response} ]
  BY DEF Reissuable, SysTypes
<1>3. Parsed \in {read, Reissuable, [ read EXCEPT !.stage = "PREPARE" ],
                  [ read EXCEPT !.stage = "RECEIVE_RESPONSE" ]}
  BY DEF Parsed
<1>. HIDE DEF read
<1>4. Parsed \in [ stage : {"INITIALIZE", "PREPARE", "SEND_COMMAND", "RECEIVE_RESPONSE"},
                   buffer : Nat \union {Response}, header : Nat \union {Response} ]
  BY <1>2, <1>3
<1>5. rc = "retry" => sys' = Reissuable
  BY <1>1 DEF ParsedRc, Parsed
<1>6. r = "SUCCESS" => rc # "TRY_AGAIN" /\ (rc = "SUCCESS" => file.code = "ok")
  BY <1>1 DEF ParsedRc, LinkTypes, AllCodes
<1>. QED
  BY <1>1, <1>2, <1>4, <1>5, <1>6, LinkType DEF SysTypes

(* Where a call ends, and where it waits. *)
LEMMA Returned ==
  ASSUME ContextTypes, CountInv, NEW s \in {"INIT", "INTERNALERROR"}, Return(s),
         outcome' \in {"ok", "failed"}, answer' \in Nat \union {Response}, UNCHANGED << calls, sent >>,
         s = "INTERNALERROR" => esys.state # "INIT"
  PROVE  ContextTypes' /\ CountInv' /\ pc' = "idle" /\ esys'.state = s
<1>1. /\ pc' = "idle" /\ esys'.state = s /\ esys'.submissionCount = esys.submissionCount
      /\ esys' \in [ state : {"INIT", "SENT", "RESUBMISSION", "INTERNALERROR"},
                      submissionCount : 0 .. MaxSubmissions + 1, timeout : {0, -1} ]
  BY DEF Return, ContextTypes
<1>. QED
  BY <1>1 DEF ContextTypes, CountInv, AwaitsResponse

LEMMA Waits ==
  ASSUME ContextTypes, CountInv, esys.state # "INIT", TryAgain("SENT"),
         UNCHANGED << calls, outcome, answer >>, sent' \in Nat, sent' = esys.submissionCount
  PROVE  ContextTypes' /\ CountInv' /\ pc' \in {"idle", "loop"} /\ esys'.state = "SENT"
<1>1. /\ pc' \in {"idle", "loop"} /\ esys'.state = "SENT"
      /\ esys'.submissionCount = esys.submissionCount
      /\ esys' \in [ state : {"INIT", "SENT", "RESUBMISSION", "INTERNALERROR"},
                      submissionCount : 0 .. MaxSubmissions + 1, timeout : {0, -1} ]
  BY ZenonT(30) DEF TryAgain, Return, ContextTypes
<1>. QED
  BY <1>1 DEF ContextTypes, CountInv

(* What has been torn stays torn. *)
LEMMA TornStays ==
  ASSUME torn \in BOOLEAN, [Next]_esysVars PROVE torn' \in BOOLEAN /\ (torn => torn')
<1>1. ASSUME NEW timeout, NEW rc, FinishSize(timeout, rc) \/ FinishData(timeout, rc)
      PROVE  torn' \in {torn, TRUE}
  <2>1. PICK r : ReceiveSize(timeout, r) \/ ReceiveData(timeout, r)
    BY <1>1 DEF FinishSize, FinishData
  <2>. QED
    BY <2>1 DEF ReceiveSize, ReceiveData, Refused, TimedOut, linkVars
<1>2. CASE Size \/ Data
  BY <1>1, <1>2 DEF Size, Data
<1>3. ASSUME NEW rc, ExecuteAsync(rc) PROVE torn' = torn
  BY <1>3 DEF ExecuteAsync, Transmit, Refused, linkVars
<1>4. CASE Send \/ Resubmit
  BY <1>3, <1>4 DEF Send, Resubmit, linkVars
<1>5. CASE Device
  BY <1>5 DEF Device, Answer, HangUp
<1>6. CASE Finish \/ (\E timeout \in {0, -1} : Async(timeout)) \/ UNCHANGED esysVars
  BY <1>6 DEF Finish, Async, linkVars, esysVars
<1>. QED
  BY <1>2, <1>4, <1>5, <1>6 DEF Next, Step

(* Every step preserves the types and the count of submissions, whatever   *)
(* the device delivers.                                                    *)
LEMMA CallStep == ASSUME CallInv, [Next]_esysVars PROVE CallInv'
<1>. USE TypeParts DEF CallInv
<1>0. LinkTypes /\ SysTypes /\ ContextTypes /\ CountInv
  OBVIOUS
<1>. DEFINE Goal == LinkTypes' /\ SysTypes' /\ ContextTypes' /\ CountInv'
<1>1. ASSUME Device PROVE Goal
  <2>1. UNCHANGED << tcti, sys, esys, pc, calls, outcome, answer, sent >>
    BY <1>1 DEF Device, Answer, HangUp, historyVars
  <2>2. SysTypes' /\ ContextTypes' /\ CountInv'
    BY <1>0, <2>1 DEF SysTypes, ContextTypes, CountInv, AwaitsResponse
  <2>3. ASSUME HangUp PROVE LinkTypes'
    BY <1>0, <2>1, <2>3 DEF HangUp, LinkTypes
  <2>4. ASSUME Answer PROVE LinkTypes'
    <3>1. PICK code \in AllCodes :
            /\ file.cmd = Response => code = "error"
            /\ file' = [ file EXCEPT !.state = "full", !.code = code,
                                     !.size = IF code \in {"ok", "huge"} THEN "more" ELSE "header" ]
            /\ executed' = IF code \in TpmError THEN executed ELSE Append(executed, file.cmd)
      BY <2>4, CodesAssumption DEF Answer, AllCodes, TpmError
    <3>2. CASE code \in TpmError
      BY <1>0, <2>1, <3>1, <3>2 DEF LinkTypes, TpmError
    <3>3. CASE code \notin TpmError
      <4>1. file.cmd \in Nat
        BY <1>0, <3>1, <3>3 DEF LinkTypes, TpmError
      <4>2. executed' = Append(executed, file.cmd) /\ executed \in Seq(Nat)
        BY <1>0, <3>1, <3>3 DEF LinkTypes
      <4>3. executed' \in Seq(Nat)
        BY <4>1, <4>2
      <4>4. file' \in [ state : {"idle", "busy", "full", "rest", "hung"},
                        cmd : Nat \union {Response}, code : AllCodes, size : {"header", "more"} ]
        BY <1>0, <3>1 DEF LinkTypes
      <4>. QED
        BY <1>0, <2>1, <4>3, <4>4 DEF LinkTypes
    <3>. QED
      BY <3>2, <3>3
  <2>. QED
    BY <1>1, <2>2, <2>3, <2>4 DEF Device
<1>2. ASSUME NEW timeout \in {0, -1}, Async(timeout) PROVE Goal
  <2>1. /\ UNCHANGED << linkVars, answer >> /\ calls' = calls + 1 /\ sent' = 0 /\ pc = "idle"
        /\ calls' \in Nat /\ 1 \in 0 .. MaxSubmissions + 1 /\ 1 <= MaxSubmissions
        /\ FirstSubmission = 1
    BY <1>0, <1>2, SubmissionsAssumption DEF Async, ContextTypes, FirstSubmission
  <2>2. LinkTypes'
    BY <1>0, <2>1 DEF LinkTypes, linkVars
  <2>3. CASE /\ Prepare(calls + 1) /\ pc' = "send" /\ outcome' = "pending"
             /\ esys' = [ state |-> "INTERNALERROR", submissionCount |-> FirstSubmission,
                          timeout |-> timeout ]
    <3>1. SysTypes'
      BY <1>0, <2>1, <2>3 DEF SysTypes, Prepare
    <3>2. ContextTypes' /\ CountInv'
      BY <1>0, <2>1, <2>3 DEF ContextTypes, CountInv, AwaitsResponse
    <3>. QED
      BY <2>2, <3>1, <3>2
  <2>4. CASE /\ esys' = [ esys EXCEPT !.state = "INIT", !.submissionCount = FirstSubmission ]
             /\ outcome' = "failed" /\ UNCHANGED << sys, pc >>
    <3>1. ContextTypes' /\ esys'.state = "INIT"
      BY <1>0, <2>1, <2>4 DEF ContextTypes
    <3>. QED
      BY <1>0, <2>1, <2>2, <2>4, <3>1 DEF SysTypes, CountInv, AwaitsResponse
  <2>. QED
    BY <1>2, <2>3, <2>4 DEF Async
<1>3. ASSUME Send PROVE Goal
  <2>1. /\ pc = "send" /\ UNCHANGED << calls, answer >>
        /\ esys.state = "INTERNALERROR" /\ sent = 0 /\ esys.submissionCount = 1
        /\ answer \in Nat \union {Response}
    BY <1>0, <1>3 DEF Send, CountInv, ContextTypes
  <2>2. CASE Return("INIT") /\ outcome' = "failed" /\ UNCHANGED << linkVars, sys, sent >>
    BY <1>0, <2>1, <2>2, Returned DEF LinkTypes, SysTypes, linkVars
  <2>3. CASE ExecuteAsync("SUCCESS") /\ TryAgain("SENT") /\ sent' = sent + 1 /\ UNCHANGED outcome
    <3>1. LinkTypes' /\ SysTypes'
      BY <2>3, SentTypes
    <3>. QED
      BY <1>0, <2>1, <2>3, <3>1, Waits
  <2>4. CASE /\ \E rc \in {"IO_ERROR", "BAD_SEQUENCE", "SYS_BAD_SEQUENCE"} : ExecuteAsync(rc)
             /\ Return("INTERNALERROR") /\ outcome' = "failed" /\ UNCHANGED sent
    <3>1. UNCHANGED << sys, linkVars >>
      BY <2>4, NotSent
    <3>. QED
      BY <1>0, <2>1, <2>4, <3>1, Returned DEF LinkTypes, SysTypes, linkVars
  <2>. QED
    BY <1>3, <2>2, <2>3, <2>4 DEF Send
<1>4. ASSUME Finish PROVE Goal
  <2>1. /\ pc \in {"idle", "loop"} /\ esys.state \in {"SENT", "RESUBMISSION"}
        /\ UNCHANGED << linkVars, sys, calls, answer, sent >> /\ answer \in Nat \union {Response}
    BY <1>0, <1>4 DEF Finish, ContextTypes
  <2>2. LinkTypes' /\ SysTypes'
    BY <1>0, <2>1 DEF LinkTypes, SysTypes, linkVars
  <2>3. CASE Return("INTERNALERROR") /\ outcome' = "failed"
    BY <1>0, <2>1, <2>2, <2>3, Returned
  <2>4. CASE /\ sys.stage = "SEND_COMMAND"
             /\ pc' = "size" /\ esys' = [ esys EXCEPT !.state = "INTERNALERROR" ]
             /\ UNCHANGED outcome
    BY <1>0, <2>1, <2>2, <2>4 DEF ContextTypes, CountInv, AwaitsResponse
  <2>. QED
    BY <1>4, <2>3, <2>4 DEF Finish
<1>5. ASSUME Size PROVE Goal
  <2>1. /\ pc = "size" /\ UNCHANGED << calls, answer, sent >> /\ esys.state = "INTERNALERROR"
        /\ answer \in Nat \union {Response} /\ sent = esys.submissionCount /\ sent \in Nat
    BY <1>0, <1>5 DEF Size, CountInv, ContextTypes
  <2>2. PICK rc :
          /\ FinishSize(esys.timeout, rc)
          /\ \/ rc = "SUCCESS" /\ pc' = "data" /\ UNCHANGED << esys, outcome >>
             \/ rc = "TRY_AGAIN" /\ TryAgain("SENT") /\ UNCHANGED outcome
             \/ Return("INTERNALERROR") /\ outcome' = "failed"
    BY <1>5 DEF Size
  <2>3. LinkTypes' /\ SysTypes'
    BY <1>0, <2>2, SizeTypes
  <2>4. CASE pc' = "data" /\ UNCHANGED << esys, outcome >>
    BY <1>0, <2>1, <2>3, <2>4 DEF ContextTypes, CountInv, AwaitsResponse
  <2>5. CASE TryAgain("SENT") /\ UNCHANGED outcome
    BY <1>0, <2>1, <2>3, <2>5, Waits
  <2>6. CASE Return("INTERNALERROR") /\ outcome' = "failed"
    BY <1>0, <2>1, <2>3, <2>6, Returned
  <2>. QED
    BY <2>2, <2>4, <2>5, <2>6
<1>6. ASSUME Data PROVE Goal
  <2>1. /\ pc = "data" /\ UNCHANGED << calls, sent >> /\ esys.state = "INTERNALERROR"
        /\ answer \in Nat \union {Response} /\ sent = esys.submissionCount /\ sent \in Nat
    BY <1>0, <1>6 DEF Data, CountInv, ContextTypes
  <2>2. PICK rc :
          /\ FinishData(esys.timeout, rc)
          /\ \/ rc = "SUCCESS" /\ Complete
             \/ rc = "TRY_AGAIN" /\ TryAgain("SENT") /\ UNCHANGED << outcome, answer >>
             \/ rc = "retry" /\ pc' = "again" /\ UNCHANGED << esys, outcome, answer >>
             \/ Return("INIT") /\ outcome' = "failed" /\ UNCHANGED answer
             \/ Return("INTERNALERROR") /\ outcome' = "failed" /\ UNCHANGED answer
    BY <1>6 DEF Data
  <2>3. LinkTypes' /\ SysTypes' /\ (rc = "retry" => sys'.stage = "PREPARE")
    BY <1>0, <2>2, DataTypes, ResponseAssumption
  <2>4. CASE rc = "SUCCESS" /\ Complete
    <3>1. /\ Return("INIT") \/ Return("INTERNALERROR")
          /\ outcome' \in {"ok", "failed"} /\ answer' \in {file.cmd, answer}
      BY <2>4 DEF Complete
    <3>2. answer' \in Nat \union {Response}
      BY <1>0, <2>1, <3>1 DEF LinkTypes
    <3>. QED
      BY <1>0, <2>1, <2>3, <3>1, <3>2, Returned
  <2>5. CASE rc = "TRY_AGAIN" /\ TryAgain("SENT") /\ UNCHANGED << outcome, answer >>
    BY <1>0, <2>1, <2>3, <2>5, Waits
  <2>6. CASE rc = "retry" /\ pc' = "again" /\ UNCHANGED << esys, outcome, answer >>
    BY <1>0, <2>1, <2>3, <2>6 DEF ContextTypes, CountInv, AwaitsResponse
  <2>7. CASE Return("INIT") /\ outcome' = "failed" /\ UNCHANGED answer
    BY <1>0, <2>1, <2>3, <2>7, Returned
  <2>8. CASE Return("INTERNALERROR") /\ outcome' = "failed" /\ UNCHANGED answer
    BY <1>0, <2>1, <2>3, <2>8, Returned
  <2>. QED
    BY <2>2, <2>4, <2>5, <2>6, <2>7, <2>8
<1>7. ASSUME Resubmit PROVE Goal
  <2>1. /\ pc = "again" /\ UNCHANGED << calls, answer >> /\ sys.stage = "PREPARE"
        /\ esys.submissionCount \in 0 .. MaxSubmissions /\ MaxSubmissions \in Nat
        /\ sent = esys.submissionCount /\ sent \in Nat /\ esys.timeout \in {0, -1}
    BY <1>0, <1>7, SubmissionsAssumption DEF Resubmit, CountInv, ContextTypes
  <2>2. CASE /\ pc' = "idle" /\ outcome' = "failed"
             /\ esys' = [ state |-> "INIT", submissionCount |-> esys.submissionCount + 1,
                          timeout |-> 0 ]
             /\ UNCHANGED << linkVars, sys, sent >>
    <3>1. esys.submissionCount + 1 \in 0 .. MaxSubmissions + 1
      BY <2>1
    <3>2. ContextTypes' /\ CountInv'
      BY <1>0, <2>1, <2>2, <3>1 DEF ContextTypes, CountInv, AwaitsResponse
    <3>. QED
      BY <1>0, <2>2, <3>2 DEF LinkTypes, SysTypes, linkVars
  <2>3. ASSUME ~OutOfSubmissions,
               NEW rc \in {"SUCCESS", "IO_ERROR", "BAD_SEQUENCE", "SYS_BAD_SEQUENCE"},
               ExecuteAsync(rc),
               pc' = IF rc = "SUCCESS" /\ esys.timeout = -1 THEN "loop" ELSE "idle",
               esys' = [ state |-> "RESUBMISSION", submissionCount |-> esys.submissionCount + 1,
                         timeout |-> IF rc = "SUCCESS" THEN esys.timeout ELSE 0 ],
               sent' = IF rc = "SUCCESS" THEN sent + 1 ELSE sent,
               outcome' = IF rc = "SUCCESS" THEN outcome ELSE "failed"
        PROVE  Goal
    <3>1. /\ esys.submissionCount + 1 \in 0 .. MaxSubmissions
          /\ esys.submissionCount + 1 \in 0 .. MaxSubmissions + 1 /\ sent' \in Nat
      BY <2>1, <2>3 DEF OutOfSubmissions
    <3>2. ContextTypes'
      BY <1>0, <2>1, <2>3, <3>1 DEF ContextTypes
    <3>3. pc' \in {"idle", "loop"}
      BY <2>3
    <3>4. CASE rc = "SUCCESS"
      <4>1. LinkTypes' /\ SysTypes'
        BY <2>3, <3>4, SentTypes
      <4>. QED
        BY <2>1, <2>3, <3>1, <3>2, <3>3, <3>4, <4>1 DEF CountInv
    <3>5. CASE rc # "SUCCESS"
      <4>1. UNCHANGED << sys, linkVars >>
        BY <2>3, <3>5, NotSent
      <4>2. CountInv'
        BY <2>1, <2>3, <3>1, <3>5, <4>1 DEF CountInv, AwaitsResponse
      <4>. QED
        BY <1>0, <3>2, <4>1, <4>2 DEF LinkTypes, SysTypes, linkVars
    <3>. QED
      BY <3>4, <3>5
  <2>. QED
    BY <1>7, <2>2, <2>3 DEF Resubmit
<1>8. ASSUME UNCHANGED esysVars PROVE Goal
  BY <1>0, <1>8
  DEF esysVars, linkVars, historyVars, LinkTypes, SysTypes, ContextTypes, CountInv, AwaitsResponse
<1>9. Goal => CallInv'
  BY TornStays DEF EsysTypeOK, LinkTypes, SysTypes, ContextTypes
<1>. HIDE DEF Goal
<1>10. CASE Next
  <2>1. CASE Device
    BY <1>1, <2>1, <1>9
  <2>2. CASE \E timeout \in {0, -1} : Async(timeout)
    BY <1>2, <2>2, <1>9
  <2>3. CASE Send \/ Finish \/ Size \/ Data \/ Resubmit
    BY <1>3, <1>4, <1>5, <1>6, <1>7, <1>9, <2>3
  <2>. QED
    BY <1>10, <2>1, <2>2, <2>3 DEF Next, Step
<1>. QED
  BY <1>8, <1>9, <1>10

(* The TPM and the device file, between any two steps of a call. *)
LEMMA DeviceWhole == ASSUME CallInv, WholeInv, Device PROVE WholeInv'
<1>. USE DEF CallInv, WholeInv
<1>1. UNCHANGED << tcti, sys, esys, pc, calls, outcome >>
  BY DEF Device, Answer, HangUp, historyVars
<1>2. CASE HangUp
  <2>1. /\ file' = [ file EXCEPT !.state = "hung" ] /\ executed' = executed
    BY <1>2 DEF HangUp
  <2>2. /\ file'.state = "hung" /\ file'.cmd = file.cmd /\ file'.code = file.code
        /\ file'.size = file.size
    BY <2>1 DEF EsysTypeOK
  <2>3. LinkInv'
    BY <1>1, <2>1, <2>2 DEF LinkInv, HeaderOnly
  <2>4. WaitingInv' /\ DataInv'
    BY <1>1, <2>2 DEF WaitingInv, Waiting, Underway, DataInv
  <2>. QED
    BY <1>1, <2>1, <2>2, <2>3, <2>4 DEF ReadyInv, OutcomeInv
<1>3. CASE Answer
  <2>1. file.state = "busy"
    BY <1>3 DEF Answer
  <2>2. PICK code \in AllCodes :
          /\ file.cmd = Response => code = "error"
          /\ file' = [ file EXCEPT !.state = "full", !.code = code,
                                   !.size = IF code \in {"ok", "huge"} THEN "more" ELSE "header" ]
          /\ executed' = IF code \in TpmError THEN executed ELSE Append(executed, file.cmd)
    BY <1>3, CodesAssumption DEF Answer, AllCodes, TpmError
  <2>3. /\ file'.state = "full" /\ file'.cmd = file.cmd /\ file'.code = code
        /\ file'.size = "header" <=> code \notin {"ok", "huge"}
    BY <2>2 DEF EsysTypeOK
  <2>4. /\ code \in TpmError => Range(executed') = Range(executed)
        /\ code \notin TpmError => Range(executed') = Range(executed) \union {file.cmd}
        /\ code \notin TpmError => file.cmd \in 1 .. calls
    <3>1. CASE code \in TpmError
      BY <3>1, <2>2
    <3>2. CASE code \notin TpmError
      <4>1. file.cmd \in 1 .. calls /\ file.cmd \in Nat
        BY <3>2, <2>2 DEF LinkInv, TpmError, EsysTypeOK
      <4>. QED
        BY <4>1, <3>2, <2>2, RangeAppend DEF EsysTypeOK
    <3>. QED
      BY <3>1, <3>2
  <2>5. file.cmd \notin Range(executed)
    BY <2>1 DEF LinkInv
  <2>6. LinkInv'
    <3>1. tcti.state = "TRANSMIT" /\ file'.state # "hung" => ~tcti.partial
      BY <2>1 DEF LinkInv
    <3>. QED
      BY <3>1, <1>1, <2>3, <2>4, <2>5 DEF LinkInv, HeaderOnly
  <2>7. WaitingInv'
    BY <1>1, <2>3 DEF WaitingInv, Waiting, Underway
  <2>8. DataInv'
    BY <1>1, <2>1, <2>3 DEF DataInv
  <2>9. ReadyInv'
    BY <1>1, <2>1, <2>3, <2>4 DEF ReadyInv
  <2>. QED
    BY <1>1, <2>6, <2>7, <2>8, <2>9 DEF OutcomeInv
<1>. QED
  BY <1>2, <1>3 DEF Device

(* Esys_GetRandom_Async as far as the command is prepared. *)
LEMMA AsyncWhole ==
  ASSUME CallInv, WholeInv, NEW timeout \in {0, -1}, Async(timeout) PROVE WholeInv'
<1>. USE DEF CallInv, WholeInv
<1>1. /\ UNCHANGED linkVars /\ calls' = calls + 1
      /\ esys.state \in {"INIT", "RESUBMISSION"} /\ pc = "idle" /\ calls \in Nat
  BY DEF Async, EsysTypeOK
<1>2. LinkInv'
  BY <1>1 DEF LinkInv, HeaderOnly, linkVars
<1>3. calls' \in Nat \ {0} /\ calls' \notin Range(executed') /\ file'.cmd # calls'
  BY <1>1, ResponseAssumption DEF LinkInv, linkVars
<1>4. CASE /\ Prepare(calls + 1) /\ pc' = "send" /\ outcome' = "pending"
           /\ esys' = [ state |-> "INTERNALERROR", submissionCount |-> FirstSubmission,
                        timeout |-> timeout ]
  <2>1. sys' = [ sys EXCEPT !.stage = "PREPARE", !.buffer = calls + 1 ]
    BY <1>4 DEF Prepare
  <2>2. WaitingInv' /\ DataInv' /\ OutcomeInv'
    BY <1>4 DEF WaitingInv, Waiting, DataInv, OutcomeInv
  <2>3. ReadyInv'
    BY <1>1, <1>3, <1>4, <2>1 DEF ReadyInv, EsysTypeOK
  <2>. QED
    BY <1>2, <2>2, <2>3
<1>5. CASE /\ esys' = [ esys EXCEPT !.state = "INIT", !.submissionCount = FirstSubmission ]
           /\ outcome' = "failed" /\ UNCHANGED << sys, pc >>
  <2>1. esys'.state = "INIT"
    BY <1>5 DEF EsysTypeOK
  <2>. QED
    BY <1>1, <1>2, <1>5, <2>1 DEF WaitingInv, Waiting, DataInv, ReadyInv, OutcomeInv
<1>. QED
  BY <1>4, <1>5 DEF Async

(* Where a call ends without waiting, nothing but the caller is affected.  *)
LEMMA Ended ==
  ASSUME CallInv, NEW s \in {"INIT", "INTERNALERROR"}, Return(s), LinkInv'
  PROVE  WholeInv'
<1>1. pc' = "idle" /\ esys'.state = s
  BY DEF Return, CallInv, EsysTypeOK
<1>. QED
  BY <1>1 DEF WholeInv, WaitingInv, Waiting, DataInv, ReadyInv, OutcomeInv

(* Where it is to be tried again the invariant holds as for any other wait. *)
LEMMA TriedAgain ==
  ASSUME CallInv, TryAgain("SENT"), UNCHANGED << calls, outcome >>, LinkInv',
         sys' = [ stage |-> "SEND_COMMAND", buffer |-> calls, header |-> calls ],
         tcti'.state = "RECEIVE", ~tcti'.partial, Underway(calls)', outcome = "pending"
  PROVE  WholeInv'
<1>1. pc' \in {"idle", "loop"} /\ esys'.state = "SENT"
  BY ZenonT(30) DEF TryAgain, Return, CallInv, EsysTypeOK
<1>. QED
  BY <1>1 DEF WholeInv, WaitingInv, Waiting, DataInv, ReadyInv, OutcomeInv

(* The command goes off, for the first time or again. *)
LEMMA SentFacts ==
  ASSUME CallInv, WholeInv, ExecuteAsync("SUCCESS"), pc \in {"send", "again"}, UNCHANGED calls
  PROVE  /\ LinkInv' /\ Underway(calls)'
         /\ tcti'.state = "RECEIVE" /\ ~tcti'.partial
         /\ sys' = [ stage |-> "SEND_COMMAND", buffer |-> calls, header |-> calls ]
         /\ outcome = "pending"
<1>. USE DEF CallInv, WholeInv
<1>1. sys.buffer = calls /\ calls \in Nat \ {0} /\ calls \notin Range(executed)
      /\ outcome = "pending"
  BY DEF ReadyInv
<1>2. /\ file' = [ file EXCEPT !.state = "busy", !.cmd = calls ]
      /\ tcti' = [ tcti EXCEPT !.state = "RECEIVE" ]
      /\ tcti.state = "TRANSMIT" /\ file.state # "hung" /\ executed' = executed
      /\ sys' = [ stage |-> "SEND_COMMAND", buffer |-> calls, header |-> calls ]
  BY <1>1, Sent
<1>3. /\ file'.state = "busy" /\ file'.cmd = calls /\ file'.code = file.code
      /\ file'.size = file.size
  BY <1>2 DEF EsysTypeOK
<1>4. tcti'.state = "RECEIVE" /\ ~tcti'.partial
  BY <1>2 DEF LinkInv, EsysTypeOK
<1>5. LinkInv'
  BY <1>1, <1>2, <1>3, <1>4 DEF LinkInv, HeaderOnly
<1>. QED
  BY <1>1, <1>2, <1>3, <1>4, <1>5 DEF Underway

(* The rest of Esys_GetRandom_Async. *)
LEMMA SendWhole == ASSUME CallInv, WholeInv, Send PROVE WholeInv'
<1>. USE DEF CallInv, WholeInv
<1>1. pc = "send" /\ UNCHANGED calls
  BY DEF Send
<1>2. ASSUME UNCHANGED linkVars PROVE LinkInv'
  BY <1>1, <1>2 DEF LinkInv, HeaderOnly, linkVars
<1>3. CASE Return("INIT") /\ UNCHANGED linkVars
  BY <1>2, <1>3, Ended
<1>4. CASE ExecuteAsync("SUCCESS") /\ TryAgain("SENT") /\ UNCHANGED outcome
  BY <1>1, <1>4, SentFacts, TriedAgain
<1>5. CASE /\ \E rc \in {"IO_ERROR", "BAD_SEQUENCE", "SYS_BAD_SEQUENCE"} : ExecuteAsync(rc)
           /\ Return("INTERNALERROR")
  BY <1>2, <1>5, NotSent, Ended
<1>. QED
  BY <1>3, <1>4, <1>5 DEF Send

(* Esys_GetRandom_Finish as far as the layer below. *)
LEMMA FinishWhole == ASSUME CallInv, WholeInv, Finish PROVE WholeInv'
<1>. USE DEF CallInv, WholeInv
<1>1. /\ pc \in {"idle", "loop"} /\ esys.state \in {"SENT", "RESUBMISSION"}
      /\ UNCHANGED << linkVars, sys, calls >>
  BY DEF Finish
<1>2. LinkInv'
  BY <1>1 DEF LinkInv, HeaderOnly, linkVars
<1>3. CASE Return("INTERNALERROR")
  BY <1>2, <1>3, Ended
<1>4. CASE /\ sys.stage = "SEND_COMMAND"
           /\ pc' = "size" /\ esys' = [ esys EXCEPT !.state = "INTERNALERROR" ]
           /\ UNCHANGED outcome
  <2>1. Waiting
    BY <1>1, <1>4 DEF Waiting
  <2>2. WaitingInv'
    BY <1>1, <1>4, <2>1 DEF WaitingInv, Underway, linkVars
  <2>3. esys'.state = "INTERNALERROR"
    BY <1>4 DEF EsysTypeOK
  <2>. QED
    BY <1>2, <1>4, <2>2, <2>3 DEF DataInv, ReadyInv, OutcomeInv
<1>. QED
  BY <1>3, <1>4 DEF Finish
(* The first half of Tss2_Sys_ExecuteFinish, of a response of which nothing *)
(* has been read.                                                           *)
LEMMA SizeFacts ==
  ASSUME CallInv, LinkInv, tcti.state = "RECEIVE", ~tcti.partial, Underway(calls), ~torn',
         NEW timeout, NEW rc, FinishSize(timeout, rc), UNCHANGED calls
  PROVE  /\ LinkInv' /\ tcti'.state = "RECEIVE" /\ file'.cmd = file.cmd /\ executed' = executed
         /\ rc = "TRY_AGAIN" => file' = file /\ tcti' = tcti
         /\ rc = "SUCCESS" =>
              \/ file' = file /\ tcti' = tcti
              \/ /\ tcti'.partial
                 /\ HeaderOnly' => file'.state = "idle"
                 /\ ~HeaderOnly' => file'.state = "rest"
<1>. USE DEF CallInv
<1>1. PICK r \in {"SUCCESS", "TRY_AGAIN", "IO_ERROR", "GENERAL_FAILURE", "BAD_SEQUENCE"} :
        ReceiveSize(timeout, r) /\ rc \in {r, "INSUFFICIENT_CONTEXT"}
  BY DEF FinishSize
<1>2. file'.cmd = file.cmd /\ executed' = executed
  BY <1>1, LinkType, TypeParts
<1>3. \/ file' = file /\ tcti' = tcti
      \/ /\ file.state = "full" /\ tcti' = [ tcti EXCEPT !.partial = @ \/ file'.code # "short" ]
         /\ file' = [ file EXCEPT !.state = IF HeaderOnly THEN "idle" ELSE "rest" ]
         /\ r = IF file'.code = "short" THEN "GENERAL_FAILURE" ELSE "SUCCESS"
      \/ /\ file.state = "full" /\ tcti' = tcti /\ r = "IO_ERROR"
         /\ \E left \in {"idle", "rest"} : file' = [ file EXCEPT !.state = left ]
  BY <1>1 DEF ReceiveSize, ReadHeader, Refused, TimedOut, Underway, linkVars
<1>4. CASE file' = file /\ tcti' = tcti
  BY <1>1, <1>2, <1>4 DEF LinkInv, HeaderOnly
<1>5. CASE /\ file.state = "full"
           /\ tcti' = [ tcti EXCEPT !.partial = @ \/ file'.code # "short" ]
           /\ file' = [ file EXCEPT !.state = IF HeaderOnly THEN "idle" ELSE "rest" ]
           /\ r = IF file'.code = "short" THEN "GENERAL_FAILURE" ELSE "SUCCESS"
  <2>1. /\ file'.code = file.code /\ file'.size = file.size
        /\ file'.state = IF HeaderOnly THEN "idle" ELSE "rest"
    BY <1>5 DEF EsysTypeOK
  <2>2. tcti'.state = "RECEIVE" /\ (r = "SUCCESS" => tcti'.partial)
    BY <1>5 DEF EsysTypeOK
  <2>3. LinkInv'
    BY <1>2, <1>5, <2>1, <2>2 DEF LinkInv, HeaderOnly
  <2>. QED
    BY <1>1, <1>2, <1>5, <2>1, <2>2, <2>3 DEF HeaderOnly
<1>6. CASE /\ file.state = "full" /\ tcti' = tcti /\ r = "IO_ERROR"
           /\ \E left \in {"idle", "rest"} : file' = [ file EXCEPT !.state = left ]
  <2>1. /\ file'.code = file.code /\ file'.size = file.size
        /\ file'.state \in {"idle", "rest"}
    BY <1>6 DEF EsysTypeOK
  <2>2. LinkInv'
    BY <1>2, <1>6, <2>1 DEF LinkInv, HeaderOnly
  <2>. QED
    BY <1>1, <1>2, <1>6, <2>2
<1>. QED
  BY <1>3, <1>4, <1>5, <1>6

LEMMA SizeWhole == ASSUME CallInv, WholeInv, ~torn', Size PROVE WholeInv'
<1>. USE DEF CallInv, WholeInv
<1>1. /\ pc = "size" /\ UNCHANGED calls
      /\ sys = [ stage |-> "SEND_COMMAND", buffer |-> calls, header |-> calls ]
      /\ tcti.state = "RECEIVE" /\ ~tcti.partial /\ Underway(calls) /\ outcome = "pending"
      /\ esys.state = "INTERNALERROR"
  BY DEF Size, WaitingInv, Waiting, CountInv
<1>2. PICK rc :
        /\ FinishSize(esys.timeout, rc)
        /\ \/ rc = "SUCCESS" /\ pc' = "data" /\ UNCHANGED << esys, outcome >>
           \/ rc = "TRY_AGAIN" /\ TryAgain("SENT") /\ UNCHANGED outcome
           \/ Return("INTERNALERROR")
  BY DEF Size
<1>3. LinkInv' /\ tcti'.state = "RECEIVE" /\ file'.cmd = file.cmd
  BY <1>1, <1>2, SizeFacts
<1>4. rc # "INSUFFICIENT_CONTEXT" => sys' = sys
  BY <1>2, SizeTypes, TypeParts
<1>5. CASE rc = "SUCCESS" /\ pc' = "data" /\ UNCHANGED << esys, outcome >>
  <2>1. \/ file' = file /\ tcti' = tcti
        \/ /\ tcti'.partial
           /\ HeaderOnly' => file'.state = "idle"
           /\ ~HeaderOnly' => file'.state = "rest"
    BY <1>1, <1>2, <1>5, SizeFacts
  <2>2. DataInv'
    BY <1>1, <1>3, <1>4, <1>5, <2>1 DEF DataInv, Underway
  <2>. QED
    BY <1>1, <1>3, <1>5, <2>2 DEF WaitingInv, Waiting, ReadyInv, OutcomeInv
<1>6. CASE rc = "TRY_AGAIN" /\ TryAgain("SENT") /\ UNCHANGED outcome
  <2>1. file' = file /\ tcti' = tcti
    BY <1>1, <1>2, <1>6, SizeFacts
  <2>2. ~tcti'.partial /\ Underway(calls)'
    BY <1>1, <2>1 DEF Underway
  <2>. QED
    BY <1>1, <1>3, <1>4, <1>6, <2>2, TriedAgain
<1>7. CASE Return("INTERNALERROR")
  BY <1>3, <1>7, Ended
<1>. QED
  BY <1>2, <1>5, <1>6, <1>7
(* What the second half makes of the response. *)
LEMMA ParsedFacts ==
  ASSUME CallInv, WholeInv, pc = "data", ~torn', NEW rc, FinishData(esys.timeout, rc),
         UNCHANGED calls
  PROVE  /\ LinkInv' /\ file'.cmd = calls /\ file.cmd = calls /\ executed' = executed
         /\ rc = "SUCCESS" => calls \in Range(executed)
         /\ rc \in TpmError => calls \notin Range(executed)
         /\ rc \in TpmError \union {"SUCCESS"} =>
              sys'.stage # "SEND_COMMAND" /\ file'.state # "busy"
         /\ rc = "retry" => sys'.stage = "PREPARE" /\ sys'.buffer = calls
         /\ rc = "TRY_AGAIN" =>
              /\ sys' = [ stage |-> "SEND_COMMAND", buffer |-> calls, header |-> calls ]
              /\ tcti'.state = "RECEIVE" /\ ~tcti'.partial /\ Underway(calls)'
<1>. USE DEF CallInv, WholeInv
<1>1. /\ sys = [ stage |-> "SEND_COMMAND", buffer |-> calls, header |-> calls ]
      /\ tcti.state = "RECEIVE" /\ file.cmd = calls /\ calls \in Nat
      /\ ~tcti.partial => file.state \in {"busy", "full", "hung"}
      /\ tcti.partial =>
           /\ file.state \in {"idle", "rest", "hung"}
           /\ file.state = "rest" => ~HeaderOnly
           /\ file.state = "idle" => HeaderOnly
  BY DEF DataInv, EsysTypeOK
<1>2. PICK r \in {"SUCCESS", "TRY_AGAIN", "IO_ERROR", "GENERAL_FAILURE", "NO_CONNECTION",
                 "BAD_SEQUENCE"} :
        /\ ReceiveData(esys.timeout, r)
        /\ \/ r = "SUCCESS" /\ sys' = Parsed /\ rc = ParsedRc
           \/ r # "SUCCESS" /\ rc = r /\ UNCHANGED sys
  BY DEF FinishData
<1>3. file'.cmd = file.cmd /\ executed' = executed
  BY <1>2, LinkType, TypeParts
<1>4. \/ /\ r # "SUCCESS" /\ tcti' = tcti /\ file' = file
         /\ r = "TRY_AGAIN" => file.state = "busy"
      \/ /\ tcti.partial /\ HeaderOnly /\ r = "SUCCESS"
         /\ tcti' = AfterRead(FALSE) /\ file' = file
      \/ r = "NO_CONNECTION" /\ file.state = "hung" /\ tcti' = AfterRead(tcti.partial) /\ file' = file
      \/ /\ file.state \in {"full", "rest"} /\ r \in {"SUCCESS", "GENERAL_FAILURE"}
         /\ tcti' = AfterRead(FALSE) /\ file' = [ file EXCEPT !.state = "idle" ]
  BY <1>1, <1>2 DEF ReceiveData, Refused, TimedOut, linkVars
<1>5. ASSUME NEW partial, tcti' = AfterRead(partial)
      PROVE  tcti'.state = "TRANSMIT" /\ tcti'.partial = partial
  BY <1>5 DEF AfterRead, EsysTypeOK
<1>6. /\ file'.code = file.code /\ file'.size = file.size
      /\ file'.state = file.state \/ file'.state = "idle"
  BY <1>4 DEF EsysTypeOK
<1>7. LinkInv'
  BY <1>1, <1>3, <1>4, <1>5, <1>6 DEF LinkInv, HeaderOnly
<1>8. rc \in TpmError \union {"SUCCESS"} =>
        /\ r = "SUCCESS" /\ file.code = IF rc = "SUCCESS" THEN "ok" ELSE rc
        /\ sys' = Parsed
  BY <1>2 DEF ParsedRc, EsysTypeOK, AllCodes, TpmError
<1>9. rc \in TpmError \union {"SUCCESS"} =>
        sys'.stage # "SEND_COMMAND" /\ file'.state # "busy"
  <2>1. SUFFICES ASSUME rc \in TpmError \union {"SUCCESS"}
                 PROVE  sys'.stage # "SEND_COMMAND" /\ file'.state # "busy"
    OBVIOUS
  <2>2. sys'.stage \in {"PREPARE", "RECEIVE_RESPONSE"}
    BY <1>1, <1>8, <2>1 DEF Parsed, Reissuable, TpmError
  <2>3. file'.state # "busy"
    BY <1>1, <1>4, <1>6, <1>8, <2>1
  <2>. QED
    BY <2>2, <2>3
<1>10. rc = "SUCCESS" => calls \in Range(executed)
  BY <1>1, <1>4, <1>8 DEF LinkInv, TpmError
<1>11. rc \in TpmError => calls \notin Range(executed)
  BY <1>1, <1>8 DEF LinkInv, TpmError
<1>12. rc = "retry" => sys'.stage = "PREPARE" /\ sys'.buffer = calls
  <2>1. SUFFICES ASSUME rc = "retry" PROVE sys'.stage = "PREPARE" /\ sys'.buffer = calls
    OBVIOUS
  <2>2. file.code = "retry" /\ sys' = Reissuable /\ HeaderOnly
    BY <1>8, <2>1 DEF Parsed, TpmError, LinkInv
  <2>. QED
    BY <1>1, <2>2 DEF Reissuable
<1>13. rc = "TRY_AGAIN" => r = "TRY_AGAIN" /\ sys' = sys
  BY <1>2 DEF ParsedRc, EsysTypeOK, AllCodes
<1>14. rc = "TRY_AGAIN" => tcti' = tcti /\ file' = file /\ file.state = "busy"
  BY <1>4, <1>13
<1>15. rc = "TRY_AGAIN" => ~tcti.partial
  BY <1>1, <1>14
<1>. QED
  BY <1>1, <1>3, <1>7, <1>9, <1>10, <1>11, <1>12, <1>13, <1>14, <1>15 DEF Underway

(* What Esys_GetRandom_Finish makes of it. *)
LEMMA DataWhole == ASSUME CallInv, WholeInv, ~torn', Data PROVE WholeInv'
<1>. USE DEF CallInv, WholeInv
<1>1. /\ pc = "data" /\ UNCHANGED calls /\ esys.state = "INTERNALERROR"
      /\ outcome = "pending" /\ calls \in Nat
  BY DEF Data, CountInv, DataInv, EsysTypeOK
<1>2. PICK rc :
        /\ FinishData(esys.timeout, rc)
        /\ \/ rc = "TRY_AGAIN" /\ TryAgain("SENT") /\ UNCHANGED << outcome, answer >>
           \/ rc = "retry" /\ pc' = "again" /\ UNCHANGED << esys, outcome, answer >>
           \/ Return("INIT") \/ Return("INTERNALERROR")
  BY DEF Data, Complete
<1>3. LinkInv' /\ file.cmd = calls
  BY <1>1, <1>2, ParsedFacts
<1>4. CASE rc = "TRY_AGAIN" /\ TryAgain("SENT") /\ UNCHANGED << outcome, answer >>
  <2>1. /\ sys' = [ stage |-> "SEND_COMMAND", buffer |-> calls, header |-> calls ]
        /\ tcti'.state = "RECEIVE" /\ ~tcti'.partial /\ Underway(calls)'
    BY <1>1, <1>2, <1>4, ParsedFacts
  <2>. QED
    BY <1>1, <1>3, <1>4, <2>1, TriedAgain
<1>5. CASE rc = "retry" /\ pc' = "again" /\ UNCHANGED << esys, outcome, answer >>
  <2>1. /\ sys'.stage = "PREPARE" /\ sys'.buffer = calls /\ calls \notin Range(executed)
        /\ file'.state # "busy" /\ executed' = executed
    BY <1>1, <1>2, <1>5, ParsedFacts DEF TpmError
  <2>2. ReadyInv'
    BY <1>1, <1>3, <1>5, <2>1, ResponseAssumption DEF ReadyInv, LinkInv
  <2>. QED
    BY <1>1, <1>3, <1>5, <2>2 DEF WaitingInv, Waiting, DataInv, OutcomeInv
<1>6. CASE Return("INIT") \/ Return("INTERNALERROR")
  BY <1>3, <1>6, Ended
<1>. QED
  BY <1>2, <1>4, <1>5, <1>6

(* The command is sent again, or the call gives up. *)
LEMMA ResubmitWhole == ASSUME CallInv, WholeInv, Resubmit PROVE WholeInv'
<1>. USE DEF CallInv, WholeInv
<1>1. pc = "again" /\ UNCHANGED calls /\ outcome = "pending" /\ sys.stage = "PREPARE"
  BY DEF Resubmit, ReadyInv
<1>2. ASSUME UNCHANGED << linkVars, sys >>, pc' = "idle", esys'.state \in {"INIT", "RESUBMISSION"},
             outcome' = "failed"
      PROVE  WholeInv'
  <2>1. LinkInv'
    BY <1>1, <1>2 DEF LinkInv, HeaderOnly, linkVars
  <2>. QED
    BY <1>1, <1>2, <2>1 DEF WaitingInv, Waiting, DataInv, ReadyInv, OutcomeInv
<1>3. ASSUME ExecuteAsync("SUCCESS"), pc' \in {"idle", "loop"}, outcome' = outcome PROVE WholeInv'
  <2>1. /\ LinkInv' /\ Underway(calls)'
        /\ tcti'.state = "RECEIVE" /\ ~tcti'.partial
        /\ sys' = [ stage |-> "SEND_COMMAND", buffer |-> calls, header |-> calls ]
    BY <1>1, <1>3, SentFacts
  <2>. QED
    BY <1>1, <1>3, <2>1 DEF WaitingInv, DataInv, ReadyInv, OutcomeInv
<1>4. CASE /\ pc' = "idle" /\ outcome' = "failed"
           /\ esys' = [ state |-> "INIT", submissionCount |-> esys.submissionCount + 1,
                        timeout |-> 0 ]
           /\ UNCHANGED << linkVars, sys, sent >>
  BY <1>2, <1>4
<1>5. ASSUME NEW rc \in {"SUCCESS", "IO_ERROR", "BAD_SEQUENCE", "SYS_BAD_SEQUENCE"},
             ExecuteAsync(rc),
             pc' = IF rc = "SUCCESS" /\ esys.timeout = -1 THEN "loop" ELSE "idle",
             esys' = [ state |-> "RESUBMISSION", submissionCount |-> esys.submissionCount + 1,
                       timeout |-> IF rc = "SUCCESS" THEN esys.timeout ELSE 0 ],
             outcome' = IF rc = "SUCCESS" THEN outcome ELSE "failed"
      PROVE  WholeInv'
  <2>1. CASE rc = "SUCCESS"
    BY <1>3, <1>5, <2>1
  <2>2. CASE rc # "SUCCESS"
    <3>1. UNCHANGED << sys, linkVars >>
      BY <1>5, <2>2, NotSent
    <3>2. esys'.state = "RESUBMISSION" /\ pc' = "idle" /\ outcome' = "failed"
      BY <1>5, <2>2
    <3>. QED
      BY <1>2, <3>1, <3>2
  <2>. QED
    BY <2>1, <2>2
<1>. QED
  BY <1>4, <1>5 DEF Resubmit

(* Every step preserves the invariant. *)
LEMMA StepInv == ASSUME IInv, [Next]_esysVars PROVE IInv'
<1>1. CallInv'
  BY CallStep DEF IInv
<1>2. torn => torn'
  BY TornStays DEF IInv, CallInv, EsysTypeOK
<1>3. ASSUME ~torn', CallInv, WholeInv PROVE WholeInv'
  <2>1. CASE Device
    BY <1>3, <2>1, DeviceWhole
  <2>2. CASE \E timeout \in {0, -1} : Async(timeout)
    BY <1>3, <2>2, AsyncWhole
  <2>3. CASE Send \/ Finish \/ Size \/ Data \/ Resubmit
    BY <1>3, <2>3, SendWhole, FinishWhole, SizeWhole, DataWhole, ResubmitWhole
  <2>4. CASE UNCHANGED esysVars
    BY <1>3, <2>4
    DEF esysVars, linkVars, historyVars, WholeInv, LinkInv, HeaderOnly, WaitingInv, Waiting,
        Underway, DataInv, ReadyInv, OutcomeInv
  <2>. QED
    BY <2>1, <2>2, <2>3, <2>4 DEF Next, Step
<1>. QED
  BY <1>1, <1>2, <1>3 DEF IInv

LEMMA Invariance == EsysSpec => []IInv
  BY InitInv, StepInv, PTL DEF EsysSpec
-----------------------------------------------------------------------------
(* The state of the three layers and the device file keeps its types. *)
THEOREM TheoremEsysType == EsysSpec => []EsysTypeOK
<1>1. IInv => EsysTypeOK
  BY DEF IInv, CallInv
<1>. QED
  BY <1>1, Invariance, PTL
(* While the context waits, every layer waits, and for the response to the *)
(* command of the last call, of which nothing has been read -- for as long *)
(* as no response has been taken in part.                                  *)
THEOREM TheoremLayersAgree == EsysSpec => []LayersAgree
<1>1. IInv => LayersAgree
  <2>. SUFFICES ASSUME CallInv, WholeInv, AwaitsResponse
                PROVE  /\ sys.stage = "SEND_COMMAND" /\ sys.buffer = calls
                       /\ tcti.state = "RECEIVE" /\ ~tcti.partial
                       /\ Underway(calls)
    BY DEF LayersAgree, IInv
  <2>1. pc \in {"idle", "loop"}
    BY DEF CallInv, CountInv, EsysTypeOK, AwaitsResponse
  <2>2. Waiting
    BY <2>1 DEF Waiting, AwaitsResponse
  <2>. QED
    BY <2>2 DEF WholeInv, WaitingInv
<1>. QED
  BY <1>1, Invariance, PTL

(* While the context waits, the count is the number of times that the      *)
(* command of the last call has been sent, which is MaxSubmissions at most, *)
(* whatever has become of the responses.                                   *)
THEOREM TheoremSubmissionsCounted == EsysSpec => []SubmissionsCounted
<1>1. IInv => SubmissionsCounted
  BY DEF IInv, CallInv, CountInv, SubmissionsCounted, AwaitsResponse
<1>. QED
  BY <1>1, Invariance, PTL

(* Nothing but the command of the last call is sent, until a response has *)
(* been taken in part.                                                     *)
THEOREM TheoremCommandIntact == EsysSpec => CommandIntact
<1>1. ASSUME CallInv, WholeInv, [Next]_esysVars, file'.state = "busy", file.state # "busy"
      PROVE  file'.cmd = calls
  <2>1. CASE Device
    BY <1>1, <2>1 DEF Device, Answer, HangUp, CallInv, EsysTypeOK
  <2>2. CASE Size \/ Data
    <3>1. file' = file \/ file'.state \in {"idle", "rest"}
      BY <1>1, <2>2 DEF Size, Data, FinishSize, FinishData, ReceiveSize, ReadHeader, ReceiveData,
                        Refused, TimedOut, linkVars, CallInv, EsysTypeOK
    <3>. QED
      BY <1>1, <3>1
  <2>3. CASE Send \/ Resubmit
    <3>1. sys.buffer = calls
      BY <1>1, <2>3 DEF Send, Resubmit, WholeInv, ReadyInv
    <3>2. PICK rc : ExecuteAsync(rc)
      BY <1>1, <2>3 DEF Send, Resubmit, linkVars
    <3>3. rc = "SUCCESS"
      BY <1>1, <3>2, NotSent DEF linkVars
    <3>4. file' = [ file EXCEPT !.state = "busy", !.cmd = sys.buffer ]
      BY <1>1, <3>2, <3>3, Sent DEF CallInv
    <3>. QED
      BY <1>1, <3>1, <3>4 DEF CallInv, EsysTypeOK
  <2>4. CASE Finish \/ (\E timeout \in {0, -1} : Async(timeout)) \/ UNCHANGED esysVars
    BY <1>1, <2>4 DEF Finish, Async, linkVars, esysVars
  <2>. QED
    BY <1>1, <2>1, <2>2, <2>3, <2>4 DEF Next, Step
<1>2. ASSUME IInv, [Next]_esysVars
      PROVE  [ file'.state = "busy" /\ file.state # "busy" => torn \/ file'.cmd = calls ]_esysVars
  BY <1>1, <1>2 DEF IInv
<1>. QED
  BY <1>2, Invariance, PTL DEF EsysSpec, CommandIntact

(* Every step is a step of what TpmCall promises, or none.                 *)
LEMMA StepRefines ==
  ASSUME CallInv, WholeInv, ~torn', [Next]_esysVars
  PROVE  [Promise!CallNext]_Promise!callVars
<1>. USE DEF CallInv, WholeInv, Promise!callVars
<1>0. \A f : Promise!Range(f) = Range(f)
  BY DEF Promise!Range, Range
<1>1. CASE Device
  <2>1. UNCHANGED << calls, outcome, answer >>
    BY <1>1 DEF Device, historyVars
  <2>2. CASE executed' = executed
    BY <2>1, <2>2
  <2>3. CASE executed' # executed
    <3>1. /\ file.state = "busy" /\ file.cmd # Response
          /\ executed' = Append(executed, file.cmd)
      BY <1>1, <2>3 DEF Device, Answer, HangUp
    <3>2. file.cmd \in 1 .. calls \ Range(executed)
      BY <3>1 DEF LinkInv
    <3>. QED
      BY <1>0, <2>1, <3>1, <3>2 DEF Promise!CallNext, Promise!Execute
  <2>. QED
    BY <2>2, <2>3
<1>2. CASE \E timeout \in {0, -1} : Async(timeout)
  BY <1>2 DEF Async, linkVars, Promise!CallNext, Promise!Issue
<1>3. CASE Finish
  <2>1. UNCHANGED << calls, executed, answer >> /\ outcome' \in {"failed", outcome}
    BY <1>3 DEF Finish, linkVars
  <2>2. outcome \in {"pending", "failed"}
    BY <1>3 DEF Finish, WaitingInv, Waiting, OutcomeInv
  <2>. QED
    BY <2>1, <2>2 DEF Promise!CallNext, Promise!Fail
<1>4. CASE Send \/ Resubmit
  <2>1. UNCHANGED << calls, answer >> /\ outcome' \in {"failed", outcome}
    BY <1>4 DEF Send, Resubmit
  <2>2. outcome = "pending"
    BY <1>4 DEF Send, Resubmit, ReadyInv
  <2>3. executed' = executed
    BY <1>4, Sent, NotSent DEF Send, Resubmit, linkVars
  <2>. QED
    BY <2>1, <2>2, <2>3 DEF Promise!CallNext, Promise!Fail
<1>5. CASE Size
  <2>1. UNCHANGED << calls, answer >> /\ outcome' \in {"failed", outcome}
    BY <1>5 DEF Size
  <2>2. outcome = "pending"
    BY <1>5 DEF Size, WaitingInv, Waiting
  <2>3. executed' = executed
    BY <1>5, SizeTypes, TypeParts DEF Size
  <2>. QED
    BY <2>1, <2>2, <2>3 DEF Promise!CallNext, Promise!Fail
<1>6. CASE Data
  <2>1. pc = "data" /\ UNCHANGED calls /\ outcome = "pending"
    BY <1>6 DEF Data, DataInv
  <2>2. PICK rc :
          /\ FinishData(esys.timeout, rc)
          /\ \/ rc = "SUCCESS" /\ outcome' = "ok" /\ answer' = file.cmd
             \/ outcome' \in {"failed", outcome} /\ answer' = answer
    BY <1>6 DEF Data, Complete
  <2>3. executed' = executed /\ file.cmd = calls
    BY <2>1, <2>2, ParsedFacts
  <2>4. CASE rc = "SUCCESS" /\ outcome' = "ok" /\ answer' = file.cmd
    <3>1. calls \in Range(executed)
      BY <2>1, <2>2, <2>4, ParsedFacts
    <3>. QED
      BY <1>0, <2>1, <2>3, <2>4, <3>1 DEF Promise!CallNext, Promise!Succeed
  <2>5. CASE outcome' \in {"failed", outcome} /\ answer' = answer
    BY <2>1, <2>3, <2>5 DEF Promise!CallNext, Promise!Fail
  <2>. QED
    BY <2>2, <2>4, <2>5
<1>7. CASE UNCHANGED esysVars
  BY <1>7 DEF esysVars, linkVars, historyVars
<1>. QED
  BY <1>1, <1>2, <1>3, <1>4, <1>5, <1>6, <1>7 DEF Next, Step

(* The layers implement the promise: a command is acted on at most once,   *)
(* and a call succeeds with the response to its own command only.          *)
THEOREM TheoremImplementsCall == EsysSpec => ImplementsCall
<1>1. Init => Promise!CallInit
  BY DEF Init, LinkInit, Promise!CallInit
<1>2. ASSUME IInv, [Next]_esysVars
      PROVE  [ torn' \/ Promise!CallNext ]_Promise!callVars
  <2>1. torn => torn'
    BY <1>2, TornStays DEF IInv, CallInv, EsysTypeOK
  <2>. QED
    BY <1>2, <2>1, StepRefines DEF IInv
<1>. QED
  BY <1>1, <1>2, Invariance, PTL
  DEF EsysSpec, ImplementsCall, Promise!CallSpec
-----------------------------------------------------------------------------
(* A context that is ready for a command has none at the TPM. *)
PortInv ==
  pc = "idle" /\ esys.state # "INTERNALERROR" /\ sys.stage # "SEND_COMMAND" =>
    ~(file.state = "busy" /\ file.cmd = calls)

PortNext == Port!Sends \/ Port!Refuses \/ Port!Acts \/ Port!Succeeds \/ Port!Fails

LEMMA DoneInRange == CommandDone <=> calls \in Range(executed)
  BY DEF CommandDone, Range

(* What the layer above sees where the call is not in progress.            *)
LEMMA AtRest ==
  ASSUME EsysTypeOK, pc \in {"idle", "loop"}
  PROVE  SeenState = IF esys.state = "INTERNALERROR" \/
                        (esys.state = "INIT" /\ sys.stage = "SEND_COMMAND") THEN "STUCK"
                     ELSE IF sys.stage = "SEND_COMMAND" THEN "SENT" ELSE "INIT"
  BY DEF SeenState

(* What the layer above sees of a step, while no response has been taken   *)
(* in part.                                                                *)
LEMMA PortStep ==
  ASSUME CallInv, CallInv', WholeInv, PortInv, Next,
         ~torn', PortState = SeenState, PortState' = SeenState'
  PROVE  PortInv' /\ [PortNext]_<< PortState, CommandDone, CommandOutcome >>
<1>. USE DoneInRange DEF CallInv, WholeInv
<1>. DEFINE Goal == PortInv' /\ [PortNext]_<< SeenState, CommandDone, CommandOutcome >>
<1>0. EsysTypeOK' /\ (CommandDone' <=> calls' \in Range(executed'))
  <2>1. EsysTypeOK'
    OBVIOUS
  <2>. QED
    BY <2>1 DEF CommandDone, Range
<1>1. ASSUME Device PROVE Goal
  <2>1. UNCHANGED << tcti, sys, esys, pc, calls, outcome >>
    BY <1>1 DEF Device, Answer, HangUp, historyVars
  <2>2. PortState' = PortState /\ CommandOutcome' = CommandOutcome
    BY <2>1 DEF SeenState, CommandOutcome
  <2>3. PortInv' /\ file'.state # "busy"
    BY <1>1, <2>1 DEF PortInv, Device, Answer, HangUp, EsysTypeOK
  <2>4. CASE CommandDone' <=> CommandDone
    <3>1. CommandDone' = CommandDone
      BY <2>4 DEF CommandDone
    <3>. QED
      BY <2>2, <2>3, <3>1
  <2>5. CASE ~(CommandDone' <=> CommandDone)
    <3>0. ~(calls' \in Range(executed') <=> calls \in Range(executed))
      BY <2>5 DEF CommandDone, Range
    <3>1. file.state = "busy" /\ executed' = Append(executed, file.cmd) /\ file.cmd \in Nat
      BY <1>1, <2>1, <3>0 DEF Device, Answer, HangUp, EsysTypeOK, TpmError
    <3>2. file.cmd = calls /\ CommandDone' = TRUE /\ CommandDone = FALSE
      <4>1. file.cmd = calls /\ calls' \in Range(executed') /\ calls \notin Range(executed)
        BY <2>1, <3>0, <3>1, RangeAppend DEF EsysTypeOK
      <4>. QED
        BY <1>0, <4>1 DEF CommandDone
    <3>3. PortState # "INIT"
      BY <3>1, <3>2 DEF SeenState, PortInv, ReadyInv, WaitingInv, Waiting, EsysTypeOK
    <3>. QED
      BY <2>2, <2>3, <3>2, <3>3 DEF PortNext, Port!Acts
  <2>. QED
    BY <2>4, <2>5
<1>2. ASSUME NEW timeout \in {0, -1}, Async(timeout) PROVE Goal
  <2>1. /\ pc = "idle" /\ esys.state \in {"INIT", "RESUBMISSION"} /\ calls' = calls + 1
        /\ UNCHANGED linkVars /\ calls \in Nat
    BY <1>2 DEF Async, EsysTypeOK
  <2>2. calls' \notin Range(executed') /\ file'.cmd # calls'
    BY <2>1, ResponseAssumption DEF LinkInv, linkVars
  <2>3. CommandDone' = FALSE /\ PortInv'
    BY <1>0, <2>2 DEF PortInv, CommandDone
  <2>4. CASE /\ Prepare(calls + 1) /\ pc' = "send" /\ outcome' = "pending"
             /\ esys' = [ state |-> "INTERNALERROR", submissionCount |-> FirstSubmission,
                          timeout |-> timeout ]
    <3>1. PortState = "INIT" /\ PortState' = "INIT" /\ CommandOutcome' = "failed"
      BY <2>1, <2>4, AtRest DEF SeenState, CommandOutcome, Prepare, CanPrepare
    <3>. QED
      BY <2>3, <3>1 DEF PortNext, Port!Refuses
  <2>5. CASE /\ esys' = [ esys EXCEPT !.state = "INIT", !.submissionCount = FirstSubmission ]
             /\ outcome' = "failed" /\ UNCHANGED << sys, pc >>
    <3>1. esys'.state = "INIT" /\ CommandOutcome' = "failed"
      BY <2>1, <2>5 DEF EsysTypeOK, CommandOutcome
    <3>2. PortState' \in {PortState, "STUCK"}
      BY <2>1, <2>5, <3>1 DEF SeenState
    <3>. QED
      BY <2>3, <3>1, <3>2 DEF PortNext, Port!Refuses
  <2>. QED
    BY <1>2, <2>4, <2>5 DEF Async
<1>3. ASSUME PortInv', UNCHANGED << PortState, CommandDone, CommandOutcome >> PROVE Goal
  BY <1>3
<1>4. ASSUME PortInv', PortState' = "STUCK", CommandOutcome' = "failed",
             UNCHANGED CommandDone
      PROVE  Goal
  BY <1>4 DEF PortNext, Port!Refuses
<1>. HIDE DEF Goal
<1>5. ASSUME Finish PROVE Goal
  <2>1. /\ pc \in {"idle", "loop"} /\ esys.state \in {"SENT", "RESUBMISSION"}
        /\ UNCHANGED << linkVars, sys, calls >>
    BY <1>5 DEF Finish
  <2>2. UNCHANGED CommandDone
    BY <2>1 DEF CommandDone, linkVars
  <2>3. CASE Return("INTERNALERROR") /\ outcome' = "failed"
    <3>1. esys'.state = "INTERNALERROR" /\ pc' = "idle"
      BY <2>3 DEF Return, EsysTypeOK
    <3>2. PortInv' /\ PortState' = "STUCK" /\ CommandOutcome' = "failed"
      BY <2>3, <3>1 DEF SeenState, CommandOutcome, PortInv
    <3>. QED
      BY <1>4, <2>2, <3>2
  <2>4. CASE sys.stage = "SEND_COMMAND" /\ pc' = "size" /\ UNCHANGED outcome
    <3>1. PortState = "SENT" /\ PortState' = "SENT"
      BY <2>1, <2>4 DEF SeenState
    <3>2. PortInv' /\ CommandOutcome' = CommandOutcome
      BY <2>1, <2>4 DEF PortInv, CommandOutcome
    <3>. QED
      BY <1>3, <2>2, <3>1, <3>2
  <2>. QED
    BY <1>5, <2>3, <2>4 DEF Finish
<1>6. ASSUME Send PROVE Goal
  <2>1. /\ pc = "send" /\ sys.stage = "PREPARE" /\ outcome = "pending" /\ ~CommandDone
        /\ CommandDone = FALSE
        /\ file.cmd = calls => file.state # "busy"
        /\ UNCHANGED calls /\ PortState = "INIT" /\ CommandOutcome = "failed"
    BY <1>6 DEF Send, ReadyInv, SeenState, CommandOutcome, CommandDone, Range
  <2>2. CASE Return("INIT") /\ outcome' = "failed" /\ UNCHANGED << linkVars, sys >>
    <3>1. esys'.state = "INIT" /\ pc' = "idle"
      BY <2>2 DEF Return, EsysTypeOK
    <3>2. /\ PortInv' /\ PortState' = "INIT" /\ CommandOutcome' = "failed"
          /\ CommandDone' = FALSE
      BY <2>1, <2>2, <3>1 DEF SeenState, CommandOutcome, PortInv, CommandDone, linkVars
    <3>. QED
      BY <1>3, <2>1, <3>2
  <2>3. CASE ExecuteAsync("SUCCESS") /\ TryAgain("SENT") /\ UNCHANGED outcome
    <3>1. sys'.stage = "SEND_COMMAND" /\ executed' = executed
      BY <2>3, Sent
    <3>2. esys'.state = "SENT" /\ pc' \in {"idle", "loop"}
      BY <2>3 DEF TryAgain, Return, EsysTypeOK
    <3>3. /\ PortInv' /\ PortState' = "SENT" /\ CommandOutcome' = "pending"
          /\ CommandDone' = FALSE
      BY <2>1, <2>3, <3>1, <3>2 DEF SeenState, CommandOutcome, PortInv, CommandDone
    <3>. QED
      BY <2>1, <3>3 DEF Goal, PortNext, Port!Sends
  <2>4. CASE /\ \E rc \in {"IO_ERROR", "BAD_SEQUENCE", "SYS_BAD_SEQUENCE"} : ExecuteAsync(rc)
             /\ Return("INTERNALERROR") /\ outcome' = "failed"
    <3>1. UNCHANGED << sys, linkVars >>
      BY <2>4, NotSent
    <3>2. esys'.state = "INTERNALERROR" /\ pc' = "idle"
      BY <2>4 DEF Return, EsysTypeOK
    <3>3. /\ PortInv' /\ PortState' = "STUCK" /\ CommandOutcome' = "failed"
          /\ UNCHANGED CommandDone
      BY <2>1, <2>4, <3>1, <3>2 DEF SeenState, CommandOutcome, PortInv, CommandDone, linkVars
    <3>. QED
      BY <1>4, <3>3
  <2>. QED
    BY <1>6, <2>2, <2>3, <2>4 DEF Send
<1>7. ASSUME pc \in {"size", "data"}, UNCHANGED << calls, executed >>,
             \/ TryAgain("SENT") /\ UNCHANGED outcome /\ sys'.stage = "SEND_COMMAND"
             \/ Return("INTERNALERROR") /\ outcome' = "failed"
             \/ pc' \in {"data", "again"} /\ UNCHANGED outcome
      PROVE  Goal
  <2>1. UNCHANGED CommandDone /\ PortState = "SENT" /\ CommandOutcome = outcome
    BY <1>7 DEF CommandDone, SeenState, CommandOutcome
  <2>2. CASE TryAgain("SENT") /\ UNCHANGED outcome /\ sys'.stage = "SEND_COMMAND"
    <3>1. esys'.state = "SENT" /\ pc' \in {"idle", "loop"}
      BY <2>2 DEF TryAgain, Return, EsysTypeOK
    <3>2. PortInv' /\ PortState' = "SENT" /\ CommandOutcome' = outcome
      BY <2>2, <3>1 DEF SeenState, CommandOutcome, PortInv
    <3>. QED
      BY <1>3, <2>1, <3>2
  <2>3. CASE Return("INTERNALERROR") /\ outcome' = "failed"
    <3>1. esys'.state = "INTERNALERROR" /\ pc' = "idle"
      BY <2>3 DEF Return, EsysTypeOK
    <3>2. PortInv' /\ PortState' = "STUCK" /\ CommandOutcome' = "failed"
      BY <2>3, <3>1 DEF SeenState, CommandOutcome, PortInv
    <3>. QED
      BY <1>4, <2>1, <3>2
  <2>4. CASE pc' \in {"data", "again"} /\ UNCHANGED outcome
    <3>1. PortInv' /\ PortState' = "SENT" /\ CommandOutcome' = outcome
      BY <2>4 DEF SeenState, CommandOutcome, PortInv
    <3>. QED
      BY <1>3, <2>1, <3>1
  <2>. QED
    BY <1>7, <2>2, <2>3, <2>4
<1>8. ASSUME Size PROVE Goal
  <2>1. pc = "size" /\ UNCHANGED calls /\ sys.stage = "SEND_COMMAND"
    BY <1>8 DEF Size, WaitingInv, Waiting
  <2>2. PICK rc \in { "SUCCESS", "TRY_AGAIN", "IO_ERROR", "GENERAL_FAILURE", "BAD_SEQUENCE",
                     "INSUFFICIENT_CONTEXT" } :
          /\ FinishSize(esys.timeout, rc)
          /\ \/ rc = "SUCCESS" /\ pc' = "data" /\ UNCHANGED << esys, outcome >>
             \/ rc = "TRY_AGAIN" /\ TryAgain("SENT") /\ UNCHANGED outcome
             \/ /\ rc \notin {"SUCCESS", "TRY_AGAIN"}
                /\ Return("INTERNALERROR") /\ outcome' = "failed"
    BY <1>8 DEF Size
  <2>3. executed' = executed
    BY <2>2, SizeTypes, TypeParts
  <2>4. rc = "TRY_AGAIN" => sys' = sys
    BY <2>2, SizeTypes, TypeParts
  <2>. QED
    BY <1>7, <2>1, <2>2, <2>3, <2>4
<1>9. ASSUME pc \in {"data", "again"}, UNCHANGED calls, executed' = executed, pc' = "idle",
             esys'.state \in {"INIT", "RESUBMISSION"}, sys'.stage # "SEND_COMMAND",
             file'.state # "busy" \/ file'.cmd # calls,
             (outcome' = "ok" /\ CommandDone) \/ (outcome' = "failed" /\ ~CommandDone)
      PROVE  Goal
  <2>1. /\ UNCHANGED CommandDone /\ PortState = "SENT" /\ CommandOutcome' = outcome'
        /\ PortState' = "INIT" /\ PortInv'
    BY <1>9 DEF CommandDone, SeenState, CommandOutcome, PortInv
  <2>. QED
    BY <1>9, <2>1 DEF Goal, PortNext, Port!Succeeds, Port!Fails
<1>10. ASSUME Data PROVE Goal
  <2>1. pc = "data" /\ UNCHANGED calls
    BY <1>10 DEF Data
  <2>2. PICK rc :
          /\ FinishData(esys.timeout, rc)
          /\ \/ rc = "SUCCESS" /\ Complete
             \/ rc = "TRY_AGAIN" /\ TryAgain("SENT") /\ UNCHANGED outcome
             \/ rc = "retry" /\ pc' = "again" /\ UNCHANGED outcome
             \/ rc \in TpmError /\ Return("INIT") /\ outcome' = "failed"
             \/ Return("INTERNALERROR") /\ outcome' = "failed"
    BY <1>10 DEF Data
  <2>3. executed' = executed /\ (rc = "TRY_AGAIN" => sys'.stage = "SEND_COMMAND")
    BY <2>1, <2>2, ParsedFacts
  <2>4. CASE Return("INIT") /\ \/ rc = "SUCCESS" /\ outcome' = "ok"
                               \/ rc \in TpmError /\ outcome' = "failed"
    <3>1. esys'.state = "INIT" /\ pc' = "idle"
      BY <2>4 DEF Return, EsysTypeOK
    <3>2. sys'.stage # "SEND_COMMAND" /\ file'.state # "busy"
      BY <2>1, <2>2, <2>4, ParsedFacts
    <3>3. rc = "SUCCESS" => CommandDone
      BY <2>1, <2>2, ParsedFacts
    <3>4. rc \in TpmError => ~CommandDone
      BY <2>1, <2>2, ParsedFacts
    <3>. QED
      BY <1>9, <2>1, <2>3, <2>4, <3>1, <3>2, <3>3, <3>4
  <2>. QED
    BY <1>7, <2>1, <2>2, <2>3, <2>4 DEF Complete
<1>11. ASSUME Resubmit PROVE Goal
  <2>1. /\ pc = "again" /\ UNCHANGED calls /\ sys.stage = "PREPARE" /\ ~CommandDone
        /\ file.cmd = calls => file.state # "busy"
        /\ outcome = "pending" /\ CommandOutcome = outcome /\ PortState = "SENT"
    BY <1>11 DEF Resubmit, ReadyInv, CommandOutcome, SeenState
  <2>2. CASE /\ pc' = "idle" /\ outcome' = "failed" /\ UNCHANGED << linkVars, sys >>
             /\ esys'.state \in {"INIT", "RESUBMISSION"}
    BY <1>9, <2>1, <2>2 DEF linkVars
  <2>3. CASE /\ ExecuteAsync("SUCCESS") /\ outcome' = outcome
             /\ pc' \in {"idle", "loop"} /\ esys'.state = "RESUBMISSION"
    <3>1. sys'.stage = "SEND_COMMAND" /\ executed' = executed
      BY <2>3, Sent
    <3>2. /\ PortInv' /\ PortState' = "SENT" /\ CommandOutcome' = outcome
          /\ CommandDone' = CommandDone
      BY <2>1, <2>3, <3>1 DEF SeenState, CommandOutcome, PortInv, CommandDone
    <3>. QED
      BY <1>3, <2>1, <3>2
  <2>4. \A rc \in {"IO_ERROR", "BAD_SEQUENCE", "SYS_BAD_SEQUENCE"} :
          ExecuteAsync(rc) => UNCHANGED << linkVars, sys >>
    BY NotSent
  <2>. QED
    BY <1>11, <2>2, <2>3, <2>4 DEF Resubmit
<1>. QED
  BY <1>1, <1>2, <1>5, <1>6, <1>8, <1>10, <1>11 DEF Next, Step, Goal

(* Where ESYS takes a command after a failure the TPM has not acted on the *)
(* failed one; where it does not, it never will again.                     *)
THEOREM TheoremImplementsPort == EsysSpec => ImplementsPort
<1>1. Init => (~torn => PortInv) /\ Port!PortInit
  <2>. SUFFICES ASSUME Init PROVE PortInv /\ Port!PortInit
    OBVIOUS
  <2>1. PortState = SeenState
    BY DEF Init, LinkInit, PortState
  <2>2. SeenState = "INIT" /\ CommandDone = FALSE /\ CommandOutcome = "none"
    BY DEF Init, LinkInit, SysInit, SeenState, CommandDone, CommandOutcome
  <2>. QED
    BY <2>1, <2>2 DEF Init, LinkInit, PortInv, Port!PortInit
<1>2. IInv /\ (~torn => PortInv) /\ [Next]_esysVars =>
        /\ ~torn' => PortInv'
        /\ [ Port!Sends \/ Port!Refuses \/ Port!Acts \/ Port!Succeeds \/ Port!Fails \/
             Port!Breaks ]_Port!portVars
  <2>. SUFFICES ASSUME IInv, ~torn => PortInv, [Next]_esysVars
                PROVE  /\ ~torn' => PortInv'
                       /\ [ PortNext \/ Port!Breaks ]_Port!portVars
    BY DEF PortNext
  <2>1. torn => torn'
    BY TornStays DEF IInv, CallInv, EsysTypeOK
  <2>2. CASE torn'
    <3>1. PortState' = "BROKEN"
      BY <2>2 DEF PortState
    <3>. QED
      BY <2>2, <3>1 DEF Port!Breaks
  <2>3. CASE ~torn' /\ UNCHANGED esysVars
    BY <2>1, <2>3
    DEF esysVars, linkVars, historyVars, PortInv, PortState, SeenState, CommandDone,
        CommandOutcome, Port!portVars
  <2>4. CASE ~torn' /\ Next
    <3>1. PortState = SeenState /\ PortState' = SeenState'
      BY <2>1, <2>4 DEF PortState
    <3>2. CallInv /\ WholeInv /\ PortInv /\ CallInv'
      BY <2>1, <2>4, CallStep DEF IInv
    <3>3. PortInv' /\ [PortNext]_<< PortState, CommandDone, CommandOutcome >>
      BY <2>4, <3>1, <3>2, PortStep
    <3>. QED
      BY <3>3 DEF Port!portVars
  <2>. QED
    BY <2>2, <2>3, <2>4
<1>. QED
  BY <1>1, <1>2, Invariance, PTL DEF EsysSpec, ImplementsPort, Port!PortSpec
-----------------------------------------------------------------------------
(* How many steps of its own a call can take before it returns: those of   *)
(* the round it is in, and of one round for each submission it has left.   *)
StepsLeft ==
  LET round == [ again |-> 1, data |-> 2, size |-> 3, loop |-> 4, send |-> 5 ]
  IN  IF pc = "idle" THEN 0
      ELSE 5 * (MaxSubmissions - esys.submissionCount) + round[pc]

(* Esys_GetRandom.c lines 61-97 and 256-276: nothing that the TPM answers  *)
(* and no error on the way sends a call round its loop for ever; each step *)
(* leaves it fewer steps to take.                                          *)
CallWindsDown == [][ Step => StepsLeft' \in 0 .. StepsLeft - 1 ]_esysVars

(* Where a call in progress is in its round, and the rounds it has left.   *)
LEMMA RoundLeft ==
  ASSUME CallInv
  PROVE  /\ pc = "idle" => StepsLeft = 0
         /\ pc # "idle" =>
              /\ MaxSubmissions - esys.submissionCount \in Nat
              /\ StepsLeft = 5 * (MaxSubmissions - esys.submissionCount) +
                             (CASE pc = "again" -> 1 [] pc = "data" -> 2 [] pc = "size" -> 3
                                [] pc = "loop" -> 4 [] pc = "send" -> 5)
<1>1. pc = "idle" => StepsLeft = 0
  BY DEF StepsLeft
<1>2. ASSUME pc # "idle"
      PROVE  /\ MaxSubmissions - esys.submissionCount \in Nat
             /\ pc \in {"again", "data", "size", "loop", "send"}
  BY <1>2, SubmissionsAssumption DEF CallInv, CountInv, EsysTypeOK
<1>. QED
  BY <1>1, <1>2 DEF StepsLeft

(* A call that returns has no steps left, and had one before.              *)
LEMMA ReturnShortens ==
  ASSUME CallInv, CallInv', pc # "idle", pc' = "idle"
  PROVE  StepsLeft' \in 0 .. StepsLeft - 1
<1>1. StepsLeft' = 0
  BY DEF StepsLeft
<1>2. StepsLeft \in Nat \ {0}
  <2>1. pc \in {"again", "data", "size", "loop", "send"}
    BY DEF CallInv, EsysTypeOK
  <2>. QED
    BY <2>1, RoundLeft
<1>. QED
  BY <1>1, <1>2

(* So has one that goes on in its round.                                   *)
LEMMA GoingOnShortens ==
  ASSUME CallInv, CallInv', esys'.submissionCount = esys.submissionCount,
         \/ pc = "send" /\ pc' = "loop"
         \/ pc = "loop" /\ pc' = "size"
         \/ pc = "size" /\ pc' = "data"
         \/ pc = "data" /\ pc' = "again"
  PROVE  StepsLeft' \in 0 .. StepsLeft - 1
<1>. DEFINE rounds == MaxSubmissions - esys.submissionCount
<1>1. rounds \in Nat /\ rounds' = rounds
  BY RoundLeft
<1>2. /\ pc' = "loop" => StepsLeft' = 5 * rounds' + 4
      /\ pc' = "size" => StepsLeft' = 5 * rounds' + 3
      /\ pc' = "data" => StepsLeft' = 5 * rounds' + 2
      /\ pc' = "again" => StepsLeft' = 5 * rounds' + 1
  BY DEF StepsLeft
<1>3. /\ pc = "send" => StepsLeft = 5 * rounds + 5
      /\ pc = "loop" => StepsLeft = 5 * rounds + 4
      /\ pc = "size" => StepsLeft = 5 * rounds + 3
      /\ pc = "data" => StepsLeft = 5 * rounds + 2
  BY DEF StepsLeft
<1>. HIDE DEF rounds
<1>. QED
  BY <1>1, <1>2, <1>3

(* And one that sends its command again: it has used up a submission.      *)
LEMMA AgainShortens ==
  ASSUME CallInv, CallInv', pc = "again", pc' = "loop",
         esys'.submissionCount = esys.submissionCount + 1
  PROVE  StepsLeft' \in 0 .. StepsLeft - 1
<1>. DEFINE rounds == MaxSubmissions - esys.submissionCount
<1>1. rounds \in Nat /\ rounds' = rounds - 1 /\ rounds' \in Nat
  <2>1. esys'.submissionCount <= MaxSubmissions
    BY DEF CallInv, CountInv
  <2>2. esys.submissionCount \in Nat /\ MaxSubmissions \in Nat
    BY SubmissionsAssumption DEF CallInv, EsysTypeOK
  <2>. QED
    BY <2>1, <2>2
<1>2. StepsLeft = 5 * rounds + 1 /\ StepsLeft' = 5 * rounds' + 4
  BY DEF StepsLeft
<1>. HIDE DEF rounds
<1>. QED
  BY <1>1, <1>2

(* Without a timeout the layers below never say that it is to be tried     *)
(* again: they wait, or they fail.                                         *)
LEMMA NeverTriedAgain ==
  ASSUME CallInv, NEW timeout, NEW rc, FinishSize(timeout, rc) \/ FinishData(timeout, rc),
         rc = "TRY_AGAIN"
  PROVE  timeout # -1
<1>1. CASE FinishSize(timeout, rc)
  BY <1>1 DEF FinishSize, ReceiveSize, Refused, TimedOut, HungUp
<1>2. CASE FinishData(timeout, rc)
  <2>1. ParsedRc # "TRY_AGAIN"
    BY DEF ParsedRc, CallInv, EsysTypeOK, AllCodes
  <2>. QED
    BY <1>2, <2>1 DEF FinishData, ReceiveData, Refused, TimedOut
<1>. QED
  BY <1>1, <1>2

LEMMA StepShortens ==
  ASSUME CallInv, CallInv', Step
  PROVE  StepsLeft' \in 0 .. StepsLeft - 1
<1>0. ASSUME NEW s, Return(s)
      PROVE  pc' = "idle"
  BY <1>0 DEF Return
<1>1. CASE Send
  <2>1. pc = "send" /\ (pc' = "idle" \/ pc' = "loop")
    BY <1>1 DEF Send, Return, TryAgain
  <2>2. pc' = "loop" => esys'.submissionCount = esys.submissionCount
    BY <1>1, <1>0 DEF Send, TryAgain, CallInv, EsysTypeOK
  <2>. QED
    BY <2>1, <2>2, ReturnShortens, GoingOnShortens
<1>2. CASE pc = "loop" /\ Finish
  <2>1. pc' = "idle" \/ (pc' = "size" /\ esys'.submissionCount = esys.submissionCount)
    BY <1>2 DEF Finish, Return, CallInv, EsysTypeOK
  <2>. QED
    BY <1>2, <2>1, ReturnShortens, GoingOnShortens
<1>3. CASE Size
  <2>1. PICK rc :
          /\ FinishSize(esys.timeout, rc)
          /\ \/ pc' = "data" /\ UNCHANGED esys
             \/ rc = "TRY_AGAIN" /\ TryAgain("SENT")
             \/ Return("INTERNALERROR")
    BY <1>3 DEF Size
  <2>2. pc' = "idle" \/ (pc' = "data" /\ UNCHANGED esys)
    BY <2>1, NeverTriedAgain DEF TryAgain, Return
  <2>3. pc = "size"
    BY <1>3 DEF Size
  <2>. QED
    BY <2>2, <2>3, ReturnShortens, GoingOnShortens
<1>4. CASE Data
  <2>1. PICK rc :
          /\ FinishData(esys.timeout, rc)
          /\ \/ Complete
             \/ rc = "TRY_AGAIN" /\ TryAgain("SENT")
             \/ pc' = "again" /\ UNCHANGED esys
             \/ Return("INIT") \/ Return("INTERNALERROR")
    BY <1>4 DEF Data
  <2>2. pc' = "idle" \/ (pc' = "again" /\ UNCHANGED esys)
    BY <2>1, NeverTriedAgain DEF Complete, TryAgain, Return
  <2>3. pc = "data"
    BY <1>4 DEF Data
  <2>. QED
    BY <2>2, <2>3, ReturnShortens, GoingOnShortens
<1>5. CASE Resubmit
  <2>1. /\ pc = "again" /\ (pc' = "idle" \/ pc' = "loop")
        /\ esys'.submissionCount = esys.submissionCount + 1
    BY <1>5 DEF Resubmit
  <2>. QED
    BY <2>1, ReturnShortens, AgainShortens
<1>. QED
  BY <1>1, <1>2, <1>3, <1>4, <1>5 DEF Step

(* CallWindsDown: whatever the TPM answers and whatever fails, each step   *)
(* of a call in progress leaves it fewer steps to take, of which it never  *)
(* has less than none: a call that keeps being scheduled returns.          *)
THEOREM TheoremCallWindsDown == EsysSpec => CallWindsDown
<1>1. CallInv /\ [Next]_esysVars => [ Step => StepsLeft' \in 0 .. StepsLeft - 1 ]_esysVars
  <2>. SUFFICES ASSUME CallInv, [Next]_esysVars, Step
                PROVE  StepsLeft' \in 0 .. StepsLeft - 1
    OBVIOUS
  <2>. QED
    BY CallStep, StepShortens DEF IInv
<1>. QED
  BY <1>1, InitInv, CallStep, PTL DEF EsysSpec, IInv, CallWindsDown
=============================================================================
