----------------------------- MODULE Scheduler -----------------------------
(***************************************************************************)
(* pkg/scheduler/scheduler.go on top of StateManager: goroutines that each *)
(* serve one POST /schedule, interleaved with heartbeats, the timeout scan,*)
(* replication and one another.  An attempt (scheduleOnce) reads the pool  *)
(* under mu.RLock, picks from the copies it got, and reserves the slot     *)
(* under mu.Lock later: the two are separate steps.                        *)
(***************************************************************************)
EXTENDS StateManager

CONSTANTS NoWorker,          \* no worker picked yet
          ScheduleRequest,   \* the request bodies clients post
          SpreadPercent,     \* defaultSpreadThreshold, in percent
          MaxScheduleWait,   \* maxScheduleWaitMS; one tick is one millisecond
          Millisecond,       \* time.Millisecond, in the unit of time.Duration
          DurationHalfRange  \* 2^63: durations are in -2^63 .. 2^63 - 1

ASSUME RequestAssumption ==
    /\ NoWorker \notin Worker
    /\ ScheduleRequest \subseteq
         [validTask : BOOLEAN, requiredTags : Seq(Tag),
          maxWaitMS : -DurationHalfRange .. DurationHalfRange - 1]

ASSUME WaitAssumption ==
    /\ {SpreadPercent, MaxScheduleWait, Millisecond, DurationHalfRange} \subseteq Nat
    /\ MaxScheduleWait > 0 /\ Millisecond > 0
    /\ MaxScheduleWait * Millisecond < DurationHalfRange

VARIABLES pc,        \* where each request's goroutine is
          body,      \* the request it serves
          best,      \* the worker its last attempt picked
          waited,    \* ticks since its deadline timer was made
          canceled,  \* the requests whose context is canceled
          resp,      \* what it answered
          reported,  \* history: free slots a worker last reported
          granted    \* history: tasks answered with that worker since then

reqVars == <<pc, body, best, waited, canceled, resp>>
histVars == <<reported, granted>>
vars == <<smVars, reqVars, histVars>>

\* "attempt" and "retry" are about to call scheduleOnce, for the first time and
\* inside the wait loop; "allocate" has picked a worker; "arm" is at the top of
\* the loop; "select" is parked.
Waiting == {"arm", "retry", "select"}
Active  == Waiting \cup {"attempt", "allocate"}
PC      == Active \cup {"idle", "done"}
Answer  == {"pending", "ok", "invalid", "noWorker", "timedOut", "canceled"}

TypeOK ==
    /\ SMTypeOK
    /\ pc \in [Request -> PC]
    /\ DOMAIN body = Request
    /\ \A r \in Request : pc[r] # "idle" => body[r] \in ScheduleRequest
    /\ best \in [Request -> Worker \cup {NoWorker}]
    /\ \A r \in Request : pc[r] = "allocate" \/ resp[r] = "ok" => best[r] \in Worker
    /\ waited \in [Request -> 0 .. MaxScheduleWait]
    /\ canceled \in SUBSET Request
    /\ resp \in [Request -> Answer]
    /\ \A r \in Request : pc[r] = "done" <=> resp[r] # "pending"
    /\ reported \in [Worker -> Int]
    /\ granted \in [Worker -> Nat]

NoBody == [validTask |-> FALSE, requiredTags |-> << >>, maxWaitMS |-> 0]

Init ==
    /\ SMInit
    /\ pc = [r \in Request |-> "idle"]
    /\ body = [r \in Request |-> NoBody]
    /\ best = [r \in Request |-> NoWorker]
    /\ waited = [r \in Request |-> 0]
    /\ canceled = {}
    /\ resp = [r \in Request |-> "pending"]
    /\ reported = [w \in Worker |-> 0]
    /\ granted = [w \in Worker |-> 0]

-----------------------------------------------------------------------------
\* Selection.  A worker's load ratio is kept as a fraction.

RatioNum(w) == IF workers[w].maxTasks = 0 THEN 1 ELSE workers[w].currentTasks
RatioDen(w) == IF workers[w].maxTasks = 0 THEN 1 ELSE workers[w].maxTasks

\* LoadRatio(w) - LoadRatio(v) <= spreadThreshold
WithinSpread(w, v) ==
    100 * (RatioNum(w) * RatioDen(v) - RatioNum(v) * RatioDen(w))
        <= SpreadPercent * RatioDen(w) * RatioDen(v)

\* Workers with a free slot, whatever their status.
filterFreeSlot(ws) == {w \in ws : workers[w].available > 0}

filterAvailable(ws) ==
    {w \in ws : workers[w].status = Online /\ workers[w].available > 0}

\* The workers the random pick of selectBestWorker may return.
selectBestWorker(ws) == {w \in ws : \A v \in ws : WithinSpread(w, v)}

Selectable(b) == filterAvailable(CandidatesByTags(b.requiredTags))

-----------------------------------------------------------------------------
\* The deadline of a waiting request.

\* Conversion to a signed integer of the width of a Duration.
Wrapped(n) == ((n + DurationHalfRange) % (2 * DurationHalfRange)) - DurationHalfRange

waitUnclamped(b) == b.maxWaitMS

waitMS(b) == IF b.maxWaitMS > MaxScheduleWait THEN MaxScheduleWait ELSE b.maxWaitMS

\* time.Duration(waitMS) * time.Millisecond
Budget(b) == Wrapped(waitMS(b) * Millisecond)

\* The timer's channel can be received from; a timer that is not positive fires
\* at once.
DeadlineFired(r) == waited[r] * Millisecond >= Budget(body[r])

-----------------------------------------------------------------------------
\* A return that leaves the response empty.
AnsweredEmpty(r, answer) == pc' = [pc EXCEPT ![r] = "done"] /\ UNCHANGED resp

\* Schedule returns and the handler writes the response.
Answered(r, answer) ==
    /\ pc' = [pc EXCEPT ![r] = "done"]
    /\ resp' = [resp EXCEPT ![r] = answer]

\* HandleSchedule decodes a request and Schedule validates it.
Arrive(r, b) ==
    /\ pc[r] = "idle"
    /\ body' = [body EXCEPT ![r] = b]
    /\ IF b.validTask
       THEN pc' = [pc EXCEPT ![r] = "attempt"] /\ UNCHANGED resp
       ELSE Answered(r, "invalid")
    /\ UNCHANGED <<smVars, best, waited, canceled, histVars>>

\* scheduleOnce finds a worker; the wakeup channel is not used any more.
Pick(r, w) ==
    /\ pc[r] \in {"attempt", "retry"}
    /\ mu = "free"
    /\ w \in selectBestWorker(Selectable(body[r]))
    /\ pc' = [pc EXCEPT ![r] = "allocate"]
    /\ best' = [best EXCEPT ![r] = w]
    /\ Forget(r)
    /\ UNCHANGED <<body, waited, canceled, resp, histVars>>

\* The first attempt fails: fail fast, or make the deadline timer and wait.
FailFirst(r) ==
    /\ pc[r] = "attempt"
    /\ mu = "free"
    /\ Selectable(body[r]) = {}
    /\ IF body[r].maxWaitMS <= 0
       THEN Answered(r, "noWorker") /\ UNCHANGED waited
       ELSE /\ pc' = [pc EXCEPT ![r] = "arm"]
            /\ waited' = [waited EXCEPT ![r] = 0]
            /\ UNCHANGED resp
    /\ UNCHANGED <<smVars, body, best, canceled, histVars>>

\* A loop without its retry: the channel is fetched after the attempt it should
\* have covered, and nobody looks again before the request parks.
ArmAfterCheck(r) ==
    /\ pc[r] = "arm"
    /\ CapacityChanged(r)
    /\ pc' = [pc EXCEPT ![r] = "select"]
    /\ UNCHANGED <<body, best, waited, canceled, resp, histVars>>

\* The deadline timer is made anew in every round of the loop.
ArmAndRestartTimer(r) ==
    /\ pc[r] = "arm"
    /\ CapacityChanged(r)
    /\ pc' = [pc EXCEPT ![r] = "retry"]
    /\ waited' = [waited EXCEPT ![r] = 0]
    /\ UNCHANGED <<body, best, canceled, resp, histVars>>

\* The channel is fetched before the retry.
Arm(r) ==
    /\ pc[r] = "arm"
    /\ CapacityChanged(r)
    /\ pc' = [pc EXCEPT ![r] = "retry"]
    /\ UNCHANGED <<body, best, waited, canceled, resp, histVars>>

\* A retry inside the loop fails: the goroutine parks in select.
FailRetry(r) ==
    /\ pc[r] = "retry"
    /\ mu = "free"
    /\ Selectable(body[r]) = {}
    /\ pc' = [pc EXCEPT ![r] = "select"]
    /\ UNCHANGED <<smVars, body, best, waited, canceled, resp, histVars>>

\* The slot is taken on the strength of the copy the attempt looked at.
AllocateFromCopy(r) ==
    /\ pc[r] = "allocate"
    /\ mu = "free"
    /\ workers' = [workers EXCEPT ![best[r]].available = @ - 1]
    /\ Answered(r, "ok")
    /\ granted' = [granted EXCEPT ![best[r]] = @ + 1]
    /\ UNCHANGED <<tags, mu, scanIn, signal, body, best, waited, canceled, reported>>

\* The slot is reserved if the worker still has one; otherwise the failure is
\* logged and the worker returned all the same.
Allocate(r) ==
    /\ pc[r] = "allocate"
    /\ mu = "free"
    /\ IF CanAllocate(best[r]) THEN AllocateTask(best[r]) ELSE UNCHANGED smVars
    /\ Answered(r, "ok")
    /\ granted' = [granted EXCEPT ![best[r]] = @ + 1]
    /\ UNCHANGED <<body, best, waited, canceled, reported>>

\* case <-changed
WakeUp(r) ==
    /\ pc[r] = "select"
    /\ signal[r] = "closed"
    /\ pc' = [pc EXCEPT ![r] = "arm"]
    /\ Forget(r)
    /\ UNCHANGED <<body, best, waited, canceled, resp, histVars>>

\* case <-deadline.C
TimeOut(r) ==
    /\ pc[r] = "select"
    /\ DeadlineFired(r)
    /\ Answered(r, "timedOut")
    /\ Forget(r)
    /\ UNCHANGED <<body, best, waited, canceled, histVars>>

\* case <-ctx.Done()
GiveUp(r) ==
    /\ pc[r] = "select"
    /\ r \in canceled
    /\ Answered(r, "canceled")
    /\ Forget(r)
    /\ UNCHANGED <<body, best, waited, canceled, histVars>>

\* The client disconnects while its request is being served.
Cancel(r) ==
    /\ pc[r] \in Active
    /\ r \notin canceled
    /\ canceled' = canceled \cup {r}
    /\ UNCHANGED <<smVars, pc, body, best, waited, resp, histVars>>

\* The steps of a request that need StateManager.mu.
LockedStep(r) ==
    \/ \E w \in Worker : Pick(r, w)
    \/ FailFirst(r)
    \/ FailRetry(r)
    \/ Allocate(r)

Serve(r) == LockedStep(r) \/ Arm(r) \/ WakeUp(r) \/ TimeOut(r) \/ GiveUp(r)

-----------------------------------------------------------------------------
\* The rest of the process, with the history of what workers reported.

PostHeartbeat(hb) ==
    /\ HandleHeartbeat(hb)
    /\ reported' = [reported EXCEPT ![hb.workerID] = hb.maxTasks - hb.currentTasks]
    /\ granted' = [granted EXCEPT ![hb.workerID] = 0]
    /\ UNCHANGED reqVars

Replicate(ws) ==
    /\ LoadSnapshot(ws)
    /\ reported' = [w \in Worker |-> IF w \in DOMAIN ws THEN ws[w].available ELSE reported[w]]
    /\ granted' = [w \in Worker |-> IF w \in DOMAIN ws THEN 0 ELSE granted[w]]
    /\ UNCHANGED reqVars

FinishBroadcast == Broadcast /\ UNCHANGED <<reqVars, histVars>>

Scan == CheckTimeouts /\ UNCHANGED <<reqVars, histVars>>

\* Deadline timers run while their requests wait.
Clock ==
    /\ Tick
    /\ waited' = [r \in Request |->
                    IF pc[r] \in Waiting /\ waited[r] < MaxScheduleWait
                    THEN waited[r] + 1 ELSE waited[r]]
    /\ UNCHANGED <<pc, body, best, canceled, resp, histVars>>

Next ==
    \/ \E r \in Request, b \in ScheduleRequest : Arrive(r, b)
    \/ \E r \in Request : Serve(r) \/ Cancel(r)
    \/ \E hb \in Heartbeat : PostHeartbeat(hb)
    \/ \E ws \in Snapshot : Replicate(ws)
    \/ FinishBroadcast
    \/ Scan
    \/ Clock

Spec == Init /\ [][Next]_vars

-----------------------------------------------------------------------------
(***************************************************************************)
(* Fairness.  Goroutines that can run do run.  A goroutine that waits for  *)
(* mu gets it although writers keep taking it (sync.RWMutex lets no waiter *)
(* starve), hence SF for the steps that lock.  select picks at random      *)
(* among the channels that are ready, so a branch that is ready again and  *)
(* again is taken: SF for the deadline.                                    *)
(***************************************************************************)
ServeFairness ==
    /\ WF_vars(FinishBroadcast)
    /\ \A r \in Request : SF_vars(LockedStep(r)) /\ WF_vars(Arm(r) \/ WakeUp(r))

TimeFairness ==
    /\ SF_vars(Scan)
    /\ WF_vars(Clock)
    /\ \A r \in Request : SF_vars(TimeOut(r))

\* Timers are left to the property that needs them, so that none rescues a
\* request that has missed its wakeup.
FairSpec == Spec /\ ServeFairness

-----------------------------------------------------------------------------
\* Ground truth, read from the table itself: worker w could serve body b now.
Serves(w, b) ==
    /\ w \in DOMAIN workers
    /\ workers[w].status = Online
    /\ workers[w].available > 0
    /\ Range(b.requiredTags) \subseteq Range(workers[w].resourceTags)

(***************************************************************************)
(* No lost wakeup.  A request parked on a channel that nobody has closed   *)
(* yet misses nothing: unless a writer is just about to broadcast, no      *)
(* worker could serve it.  The loop of Schedule has to fetch the channel   *)
(* before it retries, and every writer that adds capacity has to broadcast *)
(* after it has published it, for this to hold.                            *)
(***************************************************************************)
NoLostWakeup ==
    \A r \in Request :
        pc[r] = "select" /\ signal[r] = "open" /\ mu = "free"
            => \A w \in Worker : ~Serves(w, body[r])

(***************************************************************************)
(* An attempt that picks a worker picks one that the table says is online, *)
(* has a free slot and carries every required tag, and that is no more     *)
(* than the spread threshold busier than any other such worker; an attempt *)
(* that fails had no such worker.  scheduleOnce gets there through the     *)
(* incrementally maintained index, the filter and the sort.                *)
(***************************************************************************)
AttemptDecidesRight ==
    [][\A r \in Request :
        pc[r] \in {"attempt", "retry"} /\ pc'[r] # pc[r]
            => IF pc'[r] = "allocate"
               THEN /\ Serves(best'[r], body[r])
                    /\ \A v \in Worker :
                          Serves(v, body[r]) => WithinSpread(best'[r], v)
               ELSE \A w \in Worker : ~Serves(w, body[r])]_vars

(***************************************************************************)
(* The free slots of a worker are those it last reported minus the tasks   *)
(* the scheduler has answered with it since, never below zero: concurrent  *)
(* reservations are neither lost nor counted twice, and a full worker is   *)
(* not driven further down.  AllocateTask checks again under the lock.     *)
(***************************************************************************)
CapacityAccounted ==
    \A w \in DOMAIN workers :
        /\ workers[w].available = workers[w].maxTasks - workers[w].currentTasks
        /\ workers[w].available =
             IF reported[w] <= 0 THEN reported[w]
             ELSE IF granted[w] >= reported[w] THEN 0
             ELSE reported[w] - granted[w]

(***************************************************************************)
(* A waiting request times out when it has waited for what it asked for,   *)
(* or for the cap if it asked for more, and not a tick before, however     *)
(* large the number in the request is.                                     *)
(***************************************************************************)
BudgetHonoured ==
    \A r \in Request :
        pc[r] \in Waiting =>
            (DeadlineFired(r) <=>
                \/ waited[r] >= body[r].maxWaitMS
                \/ waited[r] >= MaxScheduleWait)

(***************************************************************************)
(* Scheduling uses the worker table only through StateManager's methods.   *)
(***************************************************************************)
ImplementsStateManager == SMSpec

(***************************************************************************)
(* While time goes on every request is answered, although heartbeats that  *)
(* bring it no worker may keep waking it up and other requests compete for *)
(* the slots.                                                              *)
(***************************************************************************)
EveryRequestAnswered ==
    TimeFairness => \A r \in Request : (pc[r] # "idle") ~> (pc[r] = "done")

(***************************************************************************)
(* Capacity reaches the request that waits for it: once a worker could     *)
(* serve a parked request, the request gets a worker or the capacity goes  *)
(* elsewhere, without the help of any timer.                               *)
(***************************************************************************)
CapacityReachesWaiter ==
    \A r \in Request :
        (pc[r] = "select" /\ \E w \in Worker : Serves(w, body[r]))
            ~> (pc[r] \in {"allocate", "done"} \/ \A w \in Worker : ~Serves(w, body[r]))

-----------------------------------------------------------------------------
(***************************************************************************)
(* What the repository says and the code does not do.                      *)
(***************************************************************************)

(***************************************************************************)
(* scheduleOnce's comment: a reservation fails only when the view raced    *)
(* with a heartbeat.  Then a worker that reported free slots is never      *)
(* answered more often than it has slots until it reports again.           *)
(***************************************************************************)
FullOnlyByHeartbeat ==
    \A w \in DOMAIN workers : reported[w] > 0 => granted[w] <= reported[w]
=============================================================================
