----------------------------- MODULE TctiDevice -----------------------------
(***************************************************************************)
(* The lowest layer of tpm2-tss: src/_include/tss2/tss2-tcti/tcti-device.c *)
(* sends a command to the TPM's device file and reads the response, at     *)
(* once or, where the driver allows it, the header first and then the rest.*)
(*                                                                         *)
(* A command is known by the number of the call it was prepared for;       *)
(* Response stands for bytes of a response where a command should be.      *)
(***************************************************************************)
EXTENDS Integers, Sequences

CONSTANTS
  Response,
  Codes         \* what the TPM may answer, of AllCodes

(* "ok" is a whole response; "retry", "error" and "initialize" are response *)
(* codes in a response that is nothing but a header; the size field of      *)
(* "short" is less than a header and that of "huge" more than a buffer;     *)
(* "badtag" is a header with a tag that is not one of a TPM 2.              *)
AllCodes == { "ok", "retry", "error", "initialize", "short", "huge", "badtag" }

ASSUME CodesAssumption == Codes \subseteq AllCodes /\ "error" \in Codes

ASSUME ResponseAssumption == Response \notin Nat

VARIABLES
  tcti,         \* TSS2_TCTI_COMMON_CONTEXT
  file,         \* the device file, with the TPM behind it
  executed,     \* history: the commands the TPM has acted on, in order
  torn          \* history: has the caller gone on with a part of a response?

linkVars == << tcti, file, executed, torn >>

(* Tss2_Tcti_Device_Init; its probe has found one or the other about       *)
(* reading in parts, and left the device without a command.                *)
LinkInit ==
  /\ \E supported \in BOOLEAN :
       tcti = [ state |-> "TRANSMIT", partial |-> FALSE, partial_read_supported |-> supported ]
  /\ file = [ state |-> "idle", cmd |-> Response, code |-> "error", size |-> "header" ]
  /\ executed = << >> /\ torn = FALSE
-----------------------------------------------------------------------------
(* The TPM answers the command it has been given.  What is not a command   *)
(* it refuses, and with these three codes it has not acted on it.          *)
Answer ==
  /\ file.state = "busy"
  /\ \E code \in IF file.cmd = Response THEN {"error"} ELSE Codes :
       /\ file' = [ file EXCEPT !.state = "full", !.code = code,
                               !.size = IF code \in {"ok", "huge"} THEN "more" ELSE "header" ]
       /\ executed' = IF code \in {"retry", "error", "initialize"} THEN executed
                      ELSE Append(executed, file.cmd)
  /\ UNCHANGED << tcti, torn >>

(* The device file goes away. *)
HangUp ==
  /\ file.state # "hung"
  /\ file' = [ file EXCEPT !.state = "hung" ]
  /\ UNCHANGED << tcti, executed, torn >>
-----------------------------------------------------------------------------
(* A call the context is in the wrong state for, or one whose poll, read   *)
(* or write fails: nothing is left behind.                                 *)
Refused(state, rc) ==
  /\ rc = IF tcti.state = state THEN "IO_ERROR" ELSE "BAD_SEQUENCE"
  /\ UNCHANGED linkVars

(* tcti_device_transmit; the driver forgets what is left of a response.    *)
Transmit(cmd, rc) ==
  \/ Refused("TRANSMIT", rc)
  \/ /\ tcti.state = "TRANSMIT" /\ file.state \in {"idle", "rest"}
     /\ tcti' = [ tcti EXCEPT !.state = "RECEIVE" ]
     /\ file' = [ file EXCEPT !.state = "busy", !.cmd = cmd ]
     /\ rc = "SUCCESS"
     /\ UNCHANGED << executed, torn >>

(* The poll returns 0: no response yet, or nothing more of it, and a       *)
(* timeout to wait for it.  What has been read of it stays read.           *)
TimedOut(timeout, rc) ==
  /\ file.state \in {"idle", "busy", "rest"} /\ timeout # -1
  /\ rc = "TRY_AGAIN"
  /\ torn' = IF file.state = "busy" THEN torn ELSE TRUE
  /\ UNCHANGED << tcti, file, executed >>

(* By the size field of the header that has been read. *)
HeaderOnly == file.size = "header"

(* The next ten bytes of the file are read as a header.  That of the rest  *)
(* of a response may say anything.                                         *)
ReadHeader ==
  \/ /\ file.state = "full"
     /\ file' = [ file EXCEPT !.state = IF HeaderOnly THEN "idle" ELSE "rest" ]
  \/ /\ file.state = "rest"
     /\ \E left \in {"idle", "rest"}, code \in AllCodes, size \in {"header", "more"} :
          file' = [ file EXCEPT !.state = left, !.code = code, !.size = size ]

(* What a size query makes of a device that hung up; the mutant waits. *)
HungUpAgain == "TRY_AGAIN"

HungUp == "GENERAL_FAILURE"

(* tcti_device_receive without a buffer asks for the size of the response. *)
ReceiveSize(timeout, rc) ==
  \/ Refused("RECEIVE", rc)
  \/ /\ tcti.state = "RECEIVE" /\ ~tcti.partial_read_supported
     /\ rc = "SUCCESS"
     /\ UNCHANGED linkVars
  \/ /\ tcti.state = "RECEIVE" /\ tcti.partial_read_supported
     /\ \/ TimedOut(timeout, rc)
        \/ file.state = "hung" /\ rc = HungUp /\ UNCHANGED linkVars
        \/ /\ ReadHeader
           /\ tcti' = [ tcti EXCEPT !.partial = @ \/ file'.code # "short" ]
           /\ rc = IF file'.code = "short" THEN "GENERAL_FAILURE" ELSE "SUCCESS"
           /\ UNCHANGED << executed, torn >>
        \/ /\ file.state \in {"full", "rest"}     \* fewer bytes than a header
           /\ \E left \in {"idle", "rest"} : file' = [ file EXCEPT !.state = left ]
           /\ rc = "IO_ERROR"
           /\ UNCHANGED << tcti, executed, torn >>

(* Mutant: the mark that the header has been read stays. *)
AfterReadMarked(partial) == [ tcti EXCEPT !.state = "TRANSMIT" ]

(* The exit `out' of tcti_device_receive. *)
AfterRead(partial) == [ tcti EXCEPT !.state = "TRANSMIT", !.partial = partial ]

(* tcti_device_receive with a buffer. *)
ReceiveData(timeout, rc) ==
  \/ Refused("RECEIVE", rc)
  \/ /\ tcti.state = "RECEIVE" /\ tcti.partial /\ HeaderOnly
     /\ tcti' = AfterRead(FALSE)
     /\ rc = "SUCCESS"
     /\ UNCHANGED << file, executed, torn >>
  \/ /\ tcti.state = "RECEIVE" /\ ~(tcti.partial /\ HeaderOnly)
     /\ \/ TimedOut(timeout, rc)
        \/ /\ file.state = "hung"
           /\ tcti' = AfterRead(tcti.partial)
           /\ rc = "NO_CONNECTION"
           /\ UNCHANGED << file, executed, torn >>
        \/ /\ file.state \in {"full", "rest"}
           /\ file' = [ file EXCEPT !.state = "idle" ]
           /\ tcti' = AfterRead(FALSE)
           /\ rc = IF file.code = "huge" THEN "GENERAL_FAILURE" ELSE "SUCCESS"
           /\ UNCHANGED << executed, torn >>
        \/ /\ file.state \in {"full", "rest"}     \* not all of it: only a warning
           /\ \E left \in {"idle", "rest"} : file' = [ file EXCEPT !.state = left ]
           /\ tcti' = AfterRead(FALSE)
           /\ \/ ~HeaderOnly /\ file.code # "huge" /\ rc = "SUCCESS"
              \/ (~tcti.partial \/ file.code = "huge") /\ rc = "GENERAL_FAILURE"
           /\ torn' = TRUE
           /\ UNCHANGED executed
=============================================================================
