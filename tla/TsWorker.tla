------------------------------- MODULE TsWorker -------------------------------
(***************************************************************************)
(* sdk/typescript/src/worker.ts: how a StepprWorker answers POST /execute, *)
(* given what the handler of the node does with the message.  An outcome   *)
(* is [kind, body]: the handler returns the body, returns nothing, or      *)
(* throws.  One that never settles gives no answer.                        *)
(***************************************************************************)
Respond(code, body) == [code |-> code, body |-> body]

Failure == [status |-> "failure", error |-> "HANDLER_ERROR"]

(* A body of undefined has no JSON text, so sending it throws inside the   *)
(* try and is answered like an exception of the handler's own.             *)
Sendable(outcome) == outcome.kind = "returns"

(* The slip: an exception is answered with its body under status 200.      *)
ThrowsAreAnswers(handlers, id, outcome) ==
  IF id \notin handlers THEN Respond(400, Failure)
  ELSE Respond(200, IF Sendable(outcome) THEN outcome.body
                    ELSE [status |-> "success", output |-> <<>>])
Dispatch(handlers, id, outcome) ==
  IF id \notin handlers THEN Respond(400, Failure)
  ELSE IF Sendable(outcome) THEN Respond(200, outcome.body)
  ELSE Respond(500, Failure)
=============================================================================
