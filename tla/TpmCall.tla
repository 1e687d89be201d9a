------------------------------- MODULE TpmCall -------------------------------
(***************************************************************************)
(* What the layers between an application and its TPM promise: a command   *)
(* is acted on at most once, however often it has to be sent, and a call   *)
(* succeeds only with the response to its own command.  They promise       *)
(* nothing once the response to a command has been taken in part.          *)
(***************************************************************************)
EXTENDS Naturals, Sequences, Functions

VARIABLES
  calls,        \* how many calls have been made; the last one is `calls'
  executed,     \* the commands the TPM has acted on, in order
  outcome,      \* of the last call: "none", "pending", "ok" or "failed"
  answer,       \* the command whose response the last success returned
  torn          \* has a response been taken in part?

callVars == << calls, executed, outcome, answer >>

CallInit == calls = 0 /\ executed = << >> /\ outcome = "none" /\ answer = 0

(* A new call gives up on one that is still pending. *)
Issue ==
  /\ calls' = calls + 1
  /\ outcome' \in {"pending", "failed"}
  /\ UNCHANGED << executed, answer >>

(* Also after the call has failed: the TPM need not know. *)
Execute ==
  /\ \E c \in 1 .. calls \ Range(executed) : executed' = Append(executed, c)
  /\ UNCHANGED << calls, outcome, answer >>

Succeed ==
  /\ outcome = "pending" /\ calls \in Range(executed)
  /\ outcome' = "ok" /\ answer' = calls
  /\ UNCHANGED << calls, executed >>

Fail ==
  /\ outcome = "pending" /\ outcome' = "failed"
  /\ UNCHANGED << calls, executed, answer >>

CallNext == Issue \/ Execute \/ Succeed \/ Fail

CallSpec == CallInit /\ [][torn' \/ CallNext]_callVars
=============================================================================
