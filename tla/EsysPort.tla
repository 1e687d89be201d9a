------------------------------ MODULE EsysPort ------------------------------
(***************************************************************************)
(* ESYS as the layer above it sees it, between two calls: ready for a      *)
(* command, waiting for a response, or stuck for good.  EsysCommand        *)
(* implements it and FapiRandom is built on its actions.  A response that  *)
(* is taken in part ends what is promised.                                 *)
(***************************************************************************)

VARIABLES
  port,         \* "INIT", "SENT", "STUCK" or "BROKEN"
  done,         \* has the TPM acted on the last command?
  outcome       \* "none", "pending", "ok" or "failed": what became of it

portVars == << port, done, outcome >>

PortInit == port = "INIT" /\ done = FALSE /\ outcome = "none"

Sends == port = "INIT" /\ port' = "SENT" /\ done' = FALSE /\ outcome' = "pending"

(* A new command fails before it is sent. *)
Refuses == port' \in {port, "STUCK"} /\ done' \in {done, FALSE} /\ outcome' = "failed"

(* The TPM acts on the command, whoever still waits for the response. *)
Acts == port # "INIT" /\ ~done /\ port' = port /\ done' = TRUE /\ outcome' = outcome

Succeeds == port = "SENT" /\ done /\ port' = "INIT" /\ done' = done /\ outcome' = "ok"

(* ESYS is ready after a failure only if the TPM has not acted. *)
Fails ==
  /\ port' \in IF port = "SENT" /\ ~done THEN {"INIT", "STUCK"}
               ELSE IF port = "SENT" THEN {"STUCK"} ELSE {port, "STUCK"}
  /\ done' = done /\ outcome' = "failed"

(* The layers below have lost step. *)
Breaks == port' = "BROKEN"

PortSpec == PortInit /\ [][Sends \/ Refuses \/ Acts \/ Succeeds \/ Fails \/ Breaks]_portVars
=============================================================================
