------------------------------- MODULE Client -------------------------------
(***************************************************************************)
(* pkg/client: what Client.Schedule makes of an answer.  A body is a list  *)
(* of pieces: a worker or an error as JSON, or text that is not JSON.      *)
(***************************************************************************)
EXTENDS Middleware

WorkerJSON == "worker"
ErrorJSON  == "error"

\* json.Unmarshal into a ScheduleResponse: one JSON document and nothing else.
Decodes(body) == body \in {<<WorkerJSON>>, <<ErrorJSON>>}

\* A client that takes every answer but 200 for a failed scheduling.
ScheduleByStatus(status, body) ==
    IF status # StatusOK THEN "schedulingFailed"
    ELSE IF ~Decodes(body) THEN "decodeError"
    ELSE "worker"

\* Schedule, from the answer on.
Schedule(status, body) ==
    IF body = <<ErrorJSON>> THEN "schedulingFailed"
    ELSE IF status # StatusOK THEN "invalidResponse"
    ELSE IF ~Decodes(body) THEN "decodeError"
    ELSE "worker"
=============================================================================
