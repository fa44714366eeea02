------------------------------ MODULE Metrics ------------------------------
(***************************************************************************)
(* pkg/observability: the Metrics collector.  The counters are atomics and *)
(* each is a step of its own, in RecordSchedule as in Snapshot; the latency*)
(* fields are updated and read together under latencyMu, and of them only  *)
(* the count is kept.                                                      *)
(***************************************************************************)
EXTENDS Naturals, Sequences

VARIABLE counter    \* scheduleRequests, scheduleSuccesses, scheduleFailures,
                    \* heartbeats and latencyCount

Field == {"requests", "successes", "failures", "heartbeats", "latency"}

NewMetrics == [f \in Field |-> 0]

Add(f) == counter' = [counter EXCEPT ![f] = @ + 1]

AddRequest == Add("requests")

\* Every attempt that returned counts as a success.
AddSuccess(success) == Add("successes")

AddOutcome(success) == Add(IF success THEN "successes" ELSE "failures")

AddLatency == Add("latency")

RecordHeartbeat == Add("heartbeats")

\* An order that looks at the outcomes before the requests.
OutcomesFirst == <<"latency", "successes", "failures", "requests", "heartbeats">>

\* The order in which Snapshot reads: the latency fields, then the counters.
ReadOrder == <<"latency", "requests", "successes", "failures", "heartbeats">>
=============================================================================
