----------------------------- MODULE ErrorResponse -----------------------------
(***************************************************************************)
(* platform-http-error: how an ApiError becomes a response.  A message is  *)
(* one value, "detail": all that matters is whether it leaves the service. *)
(***************************************************************************)
EXTENDS Naturals

REDACTED_INTERNAL_BODY == "internal error"

\* ApiError::status, for every variant.
status ==
    [BadRequest |-> 400, Unauthorized |-> 401, Forbidden |-> 403, NotFound |-> 404,
     Conflict |-> 409, PayloadTooLarge |-> 413, RateLimited |-> 429,
     NotImplemented |-> 501, ServiceUnavailable |-> 503, Internal |-> 500]

ApiError == DOMAIN status

\* ApiError::detail: the message, or the fixed word of a variant without one.
detail(error) ==
    CASE error = "Unauthorized" -> "unauthorized"
      [] error = "Forbidden" -> "forbidden"
      [] OTHER -> "detail"

\* IntoResponse: redaction is by the status.
into_response(error) ==
    [status |-> status[error],
     body |-> IF status[error] >= 500 THEN REDACTED_INTERNAL_BODY ELSE detail(error)]
===============================================================================
