----------------------------- MODULE Endpoints -----------------------------
(***************************************************************************)
(* One request per connection through the middleware to a handler: POST    *)
(* /schedule and /heartbeat, which record metrics, GET /stats or /metrics, *)
(* which read them, and GET /workers or /healthz, which do neither.        *)
(* Handlers run concurrently; any of them may panic.  A client that gives  *)
(* up only makes Schedule fail, and is told nothing.                       *)
(***************************************************************************)
EXTENDS Metrics, Client, FiniteSets

CONSTANT Conn    \* the connections, each with one request

ASSUME ConnAssumption == IsFiniteSet(Conn)

VARIABLES pc,        \* where the handler of each connection is
          endpoint,  \* what the request asks for
          outcome,   \* what came of the call that is recorded
          reply,     \* the status and the piece the handler writes
          writers,   \* the response writers
          line,      \* the lines AccessLog printed
          snap,      \* what Snapshot has read
          next,      \* the position in ReadOrder it reads next
          reserved,  \* history: the requests that took a slot
          before,    \* history: requests answered before a snapshot was asked for
          midway     \* history: requests being recorded when requests was read

vars == <<counter, pc, endpoint, outcome, reply, writers, line, snap, next,
          reserved, before, midway>>

Endpoint == {"schedule", "heartbeat", "workers", "stats"}

\* "record", "outcome" and "latency" are the steps of RecordSchedule.
Recording == {"record", "outcome", "latency"}
PC == {"idle", "handler", "read", "answer", "body", "return", "panicked", "done"}
        \cup Recording

Piece == {WorkerJSON, ErrorJSON, "text", "ok", "internalError"}

Reply(code, piece) == [code |-> code, piece |-> piece]
NoReply == Reply(StatusOK, "ok")

Nothing == "nothing"

TypeOK ==
    /\ counter \in [Field -> Nat]
    /\ pc \in [Conn -> PC]
    /\ endpoint \in [Conn -> Endpoint \cup {Nothing}]
    /\ outcome \in [Conn -> {"named", "failed", "heard", Nothing}]
    /\ reply \in [Conn -> [code : Status, piece : Piece]]
    /\ writers \in [Conn -> [Wire .. AccessLogWriter -> responseWriter(Piece)]]
    /\ DOMAIN line \subseteq Conn
    /\ snap \in [Conn -> [Field -> Nat]]
    /\ next \in [Conn -> 1 .. Len(ReadOrder) + 1]
    /\ reserved \subseteq Conn
    /\ before \in [Conn -> SUBSET Conn]
    /\ midway \in [Conn -> Nat]

Init ==
    /\ counter = NewMetrics
    /\ pc = [c \in Conn |-> "idle"]
    /\ endpoint = [c \in Conn |-> Nothing]
    /\ outcome = [c \in Conn |-> Nothing]
    /\ reply = [c \in Conn |-> NoReply]
    /\ writers = [c \in Conn |-> Chain]
    /\ line = [c \in {} |-> {}]
    /\ snap = [c \in Conn |-> NewMetrics]
    /\ next = [c \in Conn |-> 1]
    /\ reserved = {}
    /\ before = [c \in Conn |-> {}]
    /\ midway = [c \in Conn |-> 0]

readVars   == <<snap, next, before, midway>>
answerVars == <<writers, line>>

Goto(c, place) == pc' = [pc EXCEPT ![c] = place]

-----------------------------------------------------------------------------
\* The middleware chain hands a request to its handler.
Accept(c, e) ==
    /\ pc[c] = "idle"
    /\ Goto(c, "handler")
    /\ endpoint' = [endpoint EXCEPT ![c] = e]
    /\ before' = [before EXCEPT ![c] = {d \in Conn : pc[d] = "done"}]
    /\ UNCHANGED <<counter, outcome, reply, answerVars, snap, next, reserved, midway>>

Answering(c, r) == Goto(c, "answer") /\ reply' = [reply EXCEPT ![c] = r]

\* requireRole, on a node that is not the master.
RejectRole(c) ==
    /\ pc[c] = "handler" /\ endpoint[c] = "schedule"
    /\ Answering(c, Reply(ServiceUnavailable, ErrorJSON))
    /\ UNCHANGED <<counter, endpoint, outcome, answerVars, readVars, reserved>>

\* An error as text: for the wrong method, and for a body that is not decoded,
\* because it is beyond BodyLimit or malformed, or is not a valid heartbeat.
RejectRequest(c, code) ==
    /\ pc[c] = "handler"
    /\ code = BadRequest => endpoint[c] \in {"schedule", "heartbeat"}
    /\ Answering(c, Reply(code, "text"))
    /\ UNCHANGED <<counter, endpoint, outcome, answerVars, readVars, reserved>>

\* The worker that is named may have refused the slot: when AllocateTask fails
\* the attempt only logs it.
Reserving(c, o) == reserved' \in {reserved} \cup (IF o = "named" THEN {reserved \cup {c}} ELSE {})

\* A HandleSchedule that answers a failure without recording it.
ScheduleReturnsUnrecorded(c, o) ==
    /\ pc[c] = "handler" /\ endpoint[c] = "schedule"
    /\ outcome' = [outcome EXCEPT ![c] = o]
    /\ Reserving(c, o)
    /\ IF o = "named"
       THEN Goto(c, "record") /\ reply' = [reply EXCEPT ![c] = Reply(StatusOK, WorkerJSON)]
       ELSE Answering(c, Reply(ServiceUnavailable, ErrorJSON))
    /\ UNCHANGED <<counter, endpoint, answerVars, readVars>>

\* Scheduler.Schedule returns a worker, with a slot or without, or an error.
ScheduleReturns(c, o) ==
    /\ pc[c] = "handler" /\ endpoint[c] = "schedule"
    /\ Goto(c, "record")
    /\ outcome' = [outcome EXCEPT ![c] = o]
    /\ Reserving(c, o)
    /\ reply' = [reply EXCEPT ![c] = IF o = "named" THEN Reply(StatusOK, WorkerJSON)
                                     ELSE Reply(ServiceUnavailable, ErrorJSON)]
    /\ UNCHANGED <<counter, endpoint, answerVars, readVars>>

\* HandleSchedule records the attempt before it writes the answer.
RecordRequest(c) ==
    /\ pc[c] = "record"
    /\ AddRequest
    /\ Goto(c, "outcome")
    /\ UNCHANGED <<endpoint, outcome, reply, answerVars, readVars, reserved>>

RecordOutcome(c) ==
    /\ pc[c] = "outcome"
    /\ AddOutcome(outcome[c] = "named")
    /\ Goto(c, "latency")
    /\ UNCHANGED <<endpoint, outcome, reply, answerVars, readVars, reserved>>

RecordLatency(c) ==
    /\ pc[c] = "latency"
    /\ AddLatency
    /\ Goto(c, "answer")
    /\ UNCHANGED <<endpoint, outcome, reply, answerVars, readVars, reserved>>

\* HandleHeartbeat, which answers once the table is updated.
HandleHeartbeat(c) ==
    /\ pc[c] = "handler" /\ endpoint[c] = "heartbeat"
    /\ RecordHeartbeat
    /\ outcome' = [outcome EXCEPT ![c] = "heard"]
    /\ Answering(c, Reply(StatusOK, "ok"))
    /\ UNCHANGED <<endpoint, answerVars, readVars, reserved>>

\* HandleListWorkers, and HandleHealth, which answer and record nothing.
HandleListWorkers(c) ==
    /\ pc[c] = "handler" /\ endpoint[c] = "workers"
    /\ Answering(c, Reply(StatusOK, "ok"))
    /\ UNCHANGED <<counter, endpoint, outcome, answerVars, readVars, reserved>>

\* HandleStats and HandleMetrics take a Snapshot, one read after the other.
HandleStats(c) ==
    /\ pc[c] = "handler" /\ endpoint[c] = "stats"
    /\ Goto(c, "read")
    /\ UNCHANGED <<counter, endpoint, outcome, reply, answerVars, readVars, reserved>>

Load(c) ==
    /\ pc[c] = "read" /\ next[c] <= Len(ReadOrder)
    /\ LET f == ReadOrder[next[c]]
       IN  /\ snap' = [snap EXCEPT ![c][f] = counter[f]]
           /\ midway' = [midway EXCEPT ![c] = IF f = "requests"
                            THEN Cardinality({d \in Conn : pc[d] = "outcome"}) ELSE @]
    /\ next' = [next EXCEPT ![c] = @ + 1]
    /\ UNCHANGED <<counter, pc, endpoint, outcome, reply, answerVars, before, reserved>>

SnapshotTaken(c) ==
    /\ pc[c] = "read" /\ next[c] > Len(ReadOrder)
    /\ Answering(c, Reply(StatusOK, "ok"))
    /\ UNCHANGED <<counter, endpoint, outcome, answerVars, readVars, reserved>>

-----------------------------------------------------------------------------
\* The handler writes to the innermost writer and returns.
AnswerHeader(c) ==
    /\ pc[c] = "answer"
    /\ Goto(c, "body")
    /\ writers' = [writers EXCEPT ![c] = WriteHeader(@, AccessLogWriter, reply[c].code)]
    /\ UNCHANGED <<counter, endpoint, outcome, reply, line, readVars, reserved>>

AnswerBody(c) ==
    /\ pc[c] = "body"
    /\ Goto(c, "return")
    /\ writers' = [writers EXCEPT ![c] = Write(@, AccessLogWriter, reply[c].piece)]
    /\ UNCHANGED <<counter, endpoint, outcome, reply, line, readVars, reserved>>

Logged(c) == line' = [d \in DOMAIN line \cup {c} |->
                         IF d = c THEN Line(writers[c]) ELSE line[d]]

Return(c) ==
    /\ pc[c] = "return"
    /\ Goto(c, "done")
    /\ Logged(c)
    /\ UNCHANGED <<counter, endpoint, outcome, reply, writers, readVars, reserved>>

\* A handler panics, in Schedule before or after it took a slot, or as it writes.
Panic(c) ==
    /\ pc[c] \in {"handler", "answer", "body"}
    /\ Goto(c, "panicked")
    /\ reserved' \in IF pc[c] = "handler" /\ endpoint[c] = "schedule"
                     THEN {reserved, reserved \cup {c}} ELSE {reserved}
    /\ UNCHANGED <<counter, endpoint, outcome, reply, answerVars, readVars>>

\* An AccessLog that prints its line in a deferred call.
UnwindLogged(c) ==
    /\ pc[c] = "panicked"
    /\ Goto(c, "done")
    /\ Logged(c)
    /\ writers' = [writers EXCEPT ![c] = Recover(@, "internalError")]
    /\ UNCHANGED <<counter, endpoint, outcome, reply, readVars, reserved>>

\* The panic passes AccessLog, which prints nothing, and ends in Recover.
Unwind(c) ==
    /\ pc[c] = "panicked"
    /\ Goto(c, "done")
    /\ writers' = [writers EXCEPT ![c] = Recover(@, "internalError")]
    /\ UNCHANGED <<counter, endpoint, outcome, reply, line, readVars, reserved>>

HandlerStep(c) ==
    \/ RejectRole(c)
    \/ \E code \in {BadRequest, MethodNotAllowed} : RejectRequest(c, code)
    \/ \E o \in {"named", "failed"} : ScheduleReturns(c, o)
    \/ RecordRequest(c) \/ RecordOutcome(c) \/ RecordLatency(c)
    \/ HandleHeartbeat(c)
    \/ HandleListWorkers(c)
    \/ HandleStats(c) \/ Load(c) \/ SnapshotTaken(c)
    \/ AnswerHeader(c) \/ AnswerBody(c) \/ Return(c)
    \/ Panic(c) \/ Unwind(c)

Next ==
    \E c \in Conn :
        \/ \E e \in Endpoint : Accept(c, e)
        \/ HandlerStep(c)

Spec == Init /\ [][Next]_vars

-----------------------------------------------------------------------------
\* The requests of D with this outcome.
Returned(D, o) == Cardinality({c \in D : outcome[c] = o})

(***************************************************************************)
(* What the counters count.  Every attempt Schedule returned from is in    *)
(* requests, under its own outcome and in the latency, each exactly once,  *)
(* as far as its RecordSchedule has come, and every heartbeat taken is in  *)
(* heartbeats; refused requests and panics are in none of them.            *)
(***************************************************************************)
CountersTrue ==
    LET Past(ps) == {c \in Conn : pc[c] \notin ps}
        Attempts(D) == Returned(D, "named") + Returned(D, "failed")
    IN  /\ counter["requests"] = Attempts(Past({"record"}))
        /\ counter["successes"] = Returned(Past({"record", "outcome"}), "named")
        /\ counter["failures"] = Returned(Past({"record", "outcome"}), "failed")
        /\ counter["latency"] = Attempts(Past(Recording))
        /\ counter["heartbeats"] = Returned(Conn, "heard")

\* A snapshot that has read everything.
Complete(c) == endpoint[c] = "stats" /\ next[c] > Len(ReadOrder)

(***************************************************************************)
(* Nobody misses what was answered.  A snapshot counts every scheduling    *)
(* request, under its outcome, and every heartbeat that had been answered  *)
(* before the snapshot was asked for: handlers record first and answer     *)
(* then.                                                                   *)
(***************************************************************************)
SnapshotCoversAnswered ==
    \A c \in Conn : Complete(c) =>
        LET named == Returned(before[c], "named")
            failed  == Returned(before[c], "failed")
        IN  /\ snap[c]["successes"] >= named
            /\ snap[c]["failures"] >= failed
            /\ snap[c]["requests"] >= named + failed
            /\ snap[c]["latency"] >= named + failed
            /\ snap[c]["heartbeats"] >= Returned(before[c], "heard")

(***************************************************************************)
(* How far a snapshot can be from a point in time, in both directions.     *)
(* The outcomes in it lag behind its requests by no more than the attempts *)
(* that were being recorded when the requests were read.  They run ahead   *)
(* by no more than the attempts counted since, as there are never more     *)
(* outcomes in a snapshot than requests have been counted by its end.  Its *)
(* latency covers no attempt that is not among its requests.               *)
(***************************************************************************)
SnapshotLags ==
    \A c \in Conn : Complete(c) =>
        LET outcomes == snap[c]["successes"] + snap[c]["failures"]
        IN  /\ snap[c]["requests"] <= outcomes + midway[c]
            /\ outcomes <= counter["requests"]
            /\ snap[c]["latency"] <= snap[c]["requests"]

(***************************************************************************)
(* The answer on the wire is the handler's or Recover's, never a mixture.  *)
(* If the handler wrote its header before it panicked the client gets what *)
(* it wrote and nothing more; if it did not, a 500.                        *)
(***************************************************************************)
AnswerIsOne ==
    \A c \in Conn : pc[c] = "done" =>
        LET w == writers[c][Wire]
        IN  \/ w.status = reply[c].code /\ w.written \in {<<reply[c].piece>>, << >>}
            \/ w.status = InternalServerError /\ w.written = <<"internalError">>

(***************************************************************************)
(* The access log tells the truth: a line is printed only for an answer    *)
(* that went out with that status and those bytes.                         *)
(***************************************************************************)
LogMatchesWire ==
    \A c \in DOMAIN line :
        /\ line[c].status = writers[c][Wire].status
        /\ line[c].written = writers[c][Wire].written

(***************************************************************************)
(* What a client may conclude.  One that is told that scheduling failed    *)
(* holds no slot, whatever panicked after the reservation or truncated the *)
(* answer.  One that is told a worker is told what Schedule returned; the  *)
(* worker may still have refused the slot.  And a slot is lost to its      *)
(* client only by a panic: whoever holds one and got a logged answer was   *)
(* told the worker.                                                        *)
(***************************************************************************)
VerdictTrue ==
    \A c \in Conn : pc[c] = "done" /\ endpoint[c] = "schedule" =>
        LET verdict == Schedule(writers[c][Wire].status, writers[c][Wire].written)
        IN  /\ verdict = "schedulingFailed" => c \notin reserved
            /\ verdict = "worker" => outcome[c] = "named"
            /\ c \in reserved /\ c \in DOMAIN line => verdict = "worker"

-----------------------------------------------------------------------------
(***************************************************************************)
(* What the repository says and the code does not do.                      *)
(***************************************************************************)

\* At any one time no more outcomes than requests have been counted.
PartsFit(values) == values["successes"] + values["failures"] <= values["requests"]

(***************************************************************************)
(* The comments on MetricsSnapshot and Snapshot: it is a consistent point- *)
(* in-time view.  Then it shows what the counters show at any one time.    *)
(***************************************************************************)
SnapshotIsConsistent == \A c \in Conn : Complete(c) => PartsFit(snap[c])
=============================================================================
