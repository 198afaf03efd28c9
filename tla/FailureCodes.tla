---------------------------- MODULE FailureCodes ----------------------------
(***************************************************************************)
(* error_codes.py and the predicates of hon_client.py: how an exception is *)
(* told apart by what its message and its class name contain.              *)
(*                                                                         *)
(* A failure is [code, timeout, text, name]: the code it carries, if any,  *)
(* whether it is a TimeoutError, and the marks found in its message and in *)
(* its class name. A mark stands for the substrings the code looks for     *)
(* together: "5xx" for 500, 502, 503, 504 and their wordings, "auth" for   *)
(* 401, 403, token, credential and auth, and so on.                        *)
(***************************************************************************)
EXTENDS Naturals, Sequences

NoCode == "none"

\* The catalog: what sends the user back to the password, and what the form
\* has no words for.
RequireReauth ==
  {"invalid_credentials", "auth_introduce", "auth_login", "auth_get_token", "auth_api_auth",
   "auth_refresh", "mfa_required", "mfa_code_invalid", "mfa_token_after_verify_failed"}
Hidden ==
  {"auth_refresh", "appliance_list_empty", "appliance_load_failed", "appliance_data_malformed",
   "aws_token_failed", "mqtt_connect_timeout", "mqtt_subscribe_timeout"}

\* The code of a step that stalled.
PhaseTimeoutCode(phase) ==
  CASE phase = "mqtt_subscribe" -> "mqtt_subscribe_timeout"
    [] phase \in {"mqtt_connect", "aws_token"} -> "mqtt_connect_timeout"
    [] phase \in {"load_appliances", "load_appliance", "connect"} -> "network_timeout"
    [] OTHER -> "loop_timeout"

-----------------------------------------------------------------------------
Hay(f) == f.text \cup f.name

\* What classify looks for, most specific first: the state of the service, then
\* the step of the login, then anything about authentication.
ServiceMarks ==
  << <<"429", "rate_limited">>, <<"5xx", "server_error">>, <<"gateway", "server_error">>,
     <<"timeout", "phase">>, <<"certificate", "tls_failure">>, <<"dns", "dns_failure">>,
     <<"refused", "connection_refused">>, <<"decode", "decode_error">> >>
StepMarks ==
  << <<"api_auth", "auth_api_auth">>, <<"get_token", "auth_get_token">>,
     <<"introduce", "auth_introduce">>, <<"login", "auth_login">>,
     <<"empty", "appliance_list_empty">> >>

\* Mutant: the step that failed is looked at before what the server answered.
Mutant_Marks == StepMarks \o ServiceMarks \o << <<"auth", "invalid_credentials">> >>

Marks == ServiceMarks \o StepMarks \o << <<"auth", "invalid_credentials">> >>

\* A timeout shows by its type as well, a TLS failure by the name of its class.
Bears(f, mark) ==
  \/ mark \in Hay(f)
  \/ mark = "timeout" /\ f.timeout
  \/ mark = "certificate" /\ "ssl" \in f.name

Classify(f, phase) ==
  LET hits  == {i \in DOMAIN Marks : Bears(f, Marks[i][1])}
      first == CHOOSE i \in hits : \A j \in hits : i <= j
  IN  IF f.code # NoCode THEN f.code
      ELSE IF hits = {} THEN "unknown"
      ELSE IF Marks[first][2] = "phase" THEN PhaseTimeoutCode(phase) ELSE Marks[first][2]

-----------------------------------------------------------------------------
(* The predicates of hon_client.py, which decide between a retry and a new *)
(* password.                                                               *)

IsAuthError(f) == "auth" \in Hay(f)
IsRetryableServerError(f) == f.timeout \/ f.text \cap {"429", "5xx", "timeout"} # {}
IsMissingSessionError(f) == "no_session" \in f.text

RequiresReauth(f) ==
  IF f.code # NoCode THEN f.code \in RequireReauth
  ELSE (IsAuthError(f) \/ IsMissingSessionError(f)) /\ ~IsRetryableServerError(f)
=============================================================================
