----------------------------- MODULE AIExchange -----------------------------
(***************************************************************************)
(* redstone/ai: what one request to a provider comes to, and which errors  *)
(* are worth another attempt.                                              *)
(*                                                                         *)
(* A provider answers with a status and a body of some kind, or not at     *)
(* all.  Left out: messages, usage, credentials but for their echo.        *)
(***************************************************************************)
EXTENDS Naturals

\* The statuses status_to_error_code() tells apart, a redirect and a success.
Success == 200..299
Status == {200, 302, 400, 401, 403, 404, 418, 422, 429, 500, 502, 503, 504}

\* A body that is absent, no JSON object, an object without a usable candidate, a
\* reply, a reply with the API key in it, or one over max_response_bytes.
Body == {"empty", "garbage", "no_candidate", "reply", "echo", "huge"}

Silence == {"timeout", "network_error"}

Refused == {"invalid_request", "request_too_large", "not_configured"}
ErrorCode == Silence \cup Refused \cup
    {"authentication_failed", "forbidden", "rate_limited", "provider_error", "invalid_model",
     "malformed_response", "provider_unavailable", "response_too_large"}

\* _RETRYABLE.
Retryable ==
    {"rate_limited", "timeout", "network_error", "provider_unavailable", "provider_error"}

StatusToErrorCode(status) ==
    CASE status = 401 -> "authentication_failed"
      [] status = 403 -> "forbidden"
      [] status \in {400, 422} -> "invalid_request"
      [] status = 404 -> "invalid_model"
      [] status = 429 -> "rate_limited"
      [] status \in {500, 502, 503, 504} -> "provider_unavailable"
      [] OTHER -> "provider_error"

\* post_json(), the adapters' _parse() and the check for an echoed key: an error,
\* or "ok".  The size of a body is checked before its status.
Outcome(status, body) ==
    IF body = "huge" THEN "response_too_large"
    ELSE IF status \notin Success THEN StatusToErrorCode(status)
    ELSE IF body = "echo" THEN "provider_error"
    ELSE IF body = "reply" THEN "ok"
    ELSE "malformed_response"

\* What an attempt that is not a reply may raise.
Failures ==
    Silence \cup ({Outcome(status, body) : status \in Status, body \in Body} \ {"ok"})
=============================================================================
