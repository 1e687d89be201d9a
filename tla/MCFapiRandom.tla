---------------------------- MODULE MCFapiRandom ----------------------------
(***************************************************************************)
(* Two commands for up to three bytes, of which the TPM returns up to two  *)
(* at once.                                                                *)
(***************************************************************************)
EXTENDS FapiRandom

(* fapi_int.h lines 837-839, "The initial state after creation or after    *)
(* finishing a command. A new command can only be issued in this state.":  *)
(* in the state INIT no command's response is still to be read.            *)
InitMeansIdle == Ready => port # "SENT"
=============================================================================
