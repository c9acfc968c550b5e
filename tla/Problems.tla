---- MODULE Problems ----
(*****************************************************************************)
(* errors.py (FR-10): the RFC 7807 answer that a request gets when its       *)
(* dependency or its endpoint raises, or when an endpoint renders a failure. *)
(*                                                                           *)
(* install_exception_handlers registers one handler for every exception, so  *)
(* the answer is a function of the exception and the request.  The handler   *)
(* of Exception re-raises once the answer is sent, and the suppressor of     *)
(* app.py swallows that: it changes nothing the client sees.  The texts of   *)
(* title and detail are left out.                                            *)
(*****************************************************************************)
EXTENDS Naturals

\* What can be raised.  The headers of the others are none.
TaskQError(status, headers) == [kind |-> "TaskQError", status |-> status, headers |-> headers]
RequestValidationError == [kind |-> "RequestValidationError", status |-> 0, headers |-> {}]
HTTPException(status) == [kind |-> "HTTPException", status |-> status, headers |-> {}]
Unhandled == [kind |-> "Exception", status |-> 0, headers |-> {}]

problem(status) == TaskQError(status, {})

ResolvedStatus(exc) ==
  CASE exc.kind \in {"TaskQError", "HTTPException"} -> exc.status
    [] exc.kind = "RequestValidationError" -> 422
    [] OTHER -> 500

ResolvedHeaders(exc) == IF exc.kind = "TaskQError" THEN exc.headers ELSE {}

\* The path of the request is not repeated where it may name what the client
\* has no right to know of.
Scrubbed == {403}
Instance(status, path) == IF status \in Scrubbed THEN "" ELSE path

\* The client's X-Correlation-Id, "" where it sent none or a blank one.
CorrelationId(inbound) == IF inbound = "" THEN "fresh" ELSE inbound

\* _envelope_response; render_problem is this operator.
Envelope(status, headers, path, inbound) ==
  [status |-> status, instance |-> Instance(status, path),
   headers |-> headers \cup {"X-Correlation-Id"},
   correlation |-> CorrelationId(inbound)]

\* problem_json_response
ProblemResponse(exc, path, inbound) ==
  Envelope(ResolvedStatus(exc), ResolvedHeaders(exc), path, inbound)

\* An answer that no exception made: a model of what endpoints return.
Success(status) ==
  [status |-> status, instance |-> "", headers |-> {}, correlation |-> ""]
====
