----------------------------- MODULE SysExecute -----------------------------
(***************************************************************************)
(* The middle layer of tpm2-tss, src/_include/tss2/tss2-sys: one command   *)
(* buffer that holds the command on the way down and the response on the   *)
(* way up, and a stage that says which call may come next.                 *)
(***************************************************************************)
EXTENDS TctiDevice

VARIABLE sys    \* stage, the buffer and the copy of the command's header

SysInit == sys = [ stage |-> "INITIALIZE", buffer |-> Response, header |-> Response ]

CanPrepare == sys.stage # "SEND_COMMAND"

(* Tss2_Sys_GetRandom_Prepare, which CommonPreparePrologue refuses between *)
(* a command and its response.                                             *)
Prepare(cmd) ==
  CanPrepare /\ sys' = [ sys EXCEPT !.stage = "PREPARE", !.buffer = cmd ]

(* Tss2_Sys_ExecuteAsync *)
ExecuteAsync(rc) ==
  \/ /\ sys.stage # "PREPARE" /\ rc = "SYS_BAD_SEQUENCE"
     /\ UNCHANGED << sys, linkVars >>
  \/ /\ sys.stage = "PREPARE"
     /\ Transmit(sys.buffer, rc)
     /\ sys' = IF rc = "SUCCESS"
               THEN [ sys EXCEPT !.stage = "SEND_COMMAND", !.header = sys.buffer ]
               ELSE sys

(* The first half of Tss2_Sys_ExecuteFinish: how long is the response?  A  *)
(* response of more than a buffer is given up here.                        *)
FinishSize(timeout, rc) ==
  LET huge == tcti.partial_read_supported /\ file'.code = "huge"
  IN  \E r \in {"SUCCESS", "TRY_AGAIN", "IO_ERROR", "GENERAL_FAILURE", "BAD_SEQUENCE"} :
        /\ ReceiveSize(timeout, r)
        /\ \/ /\ r = "SUCCESS" /\ huge
              /\ sys' = [ sys EXCEPT !.stage = "PREPARE" ]
              /\ rc = "INSUFFICIENT_CONTEXT"
           \/ ~(r = "SUCCESS" /\ huge) /\ rc = r /\ UNCHANGED sys

(* Mutant: the header is not put back. *)
ReissuableNot == [ sys EXCEPT !.stage = "PREPARE", !.buffer = Response ]

(* After a TPM error the command can be issued again: its header is put    *)
(* back, over one that has nothing behind it.                              *)
Reissuable ==
  [ sys EXCEPT !.stage = "PREPARE", !.buffer = IF HeaderOnly THEN sys.header ELSE Response ]

(* What the response in the buffer makes of the context, by its code.  The *)
(* rest of the command is still there after a header has been read over    *)
(* the command's own.                                                      *)
Parsed ==
  LET read == [ sys EXCEPT !.buffer = Response ]
  IN  CASE file.code = "badtag" -> read
        [] file.code = "short" -> [ read EXCEPT !.stage = "PREPARE" ]
        [] file.code \in {"retry", "error"} -> Reissuable
        [] OTHER -> [ read EXCEPT !.stage = "RECEIVE_RESPONSE" ]

(* Mutant: the code that leaves the stage alone is taken for none. *)
ParsedRcSwallowed ==
  CASE file.code = "badtag" -> "MALFORMED_RESPONSE"
    [] file.code = "short" -> "INSUFFICIENT_RESPONSE"
    [] file.code \in {"ok", "initialize"} -> "SUCCESS"
    [] OTHER -> file.code

(* The return code that goes with it. *)
ParsedRc ==
  CASE file.code = "badtag" -> "MALFORMED_RESPONSE"
    [] file.code = "short" -> "INSUFFICIENT_RESPONSE"
    [] file.code = "ok" -> "SUCCESS"
    [] OTHER -> file.code

(* The second half: the response itself. *)
FinishData(timeout, rc) ==
  \E r \in {"SUCCESS", "TRY_AGAIN", "IO_ERROR", "GENERAL_FAILURE", "NO_CONNECTION",
            "BAD_SEQUENCE"} :
    /\ ReceiveData(timeout, r)
    /\ \/ r = "SUCCESS" /\ sys' = Parsed /\ rc = ParsedRc
       \/ r # "SUCCESS" /\ rc = r /\ UNCHANGED sys
=============================================================================
