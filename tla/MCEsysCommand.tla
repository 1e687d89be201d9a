---------------------------- MODULE MCEsysCommand ----------------------------
(***************************************************************************)
(* Three calls, each sent up to MaxSubmissions times, to a TPM that may    *)
(* give any kind of answer.                                                *)
(***************************************************************************)
EXTENDS EsysCommand

(* esys_int.h line 151, "The initial state after creation or after         *)
(* finishing a command": no command is underway in the state INIT.         *)
InitMeansFinished ==
  pc = "idle" /\ esys.state = "INIT" => file.state \notin {"busy", "full"}
=============================================================================
