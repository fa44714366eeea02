--------------------------- MODULE SchedulerProofs ---------------------------
(***************************************************************************)
(* Theorems about any number of concurrent schedule requests, for any      *)
(* workers, tags, heartbeats, snapshots, thresholds and waits.             *)
(***************************************************************************)
EXTENDS Scheduler, StateManagerProofs

\* Every step of the scheduler touches the worker table through one method of
\* the state manager, or not at all.
LEMMA StepUsesStateManager == TypeOK /\ [Next]_vars => [SMNext]_smVars
<1> SUFFICES ASSUME TypeOK, [Next]_vars PROVE [SMNext]_smVars
    OBVIOUS
<1>1. ASSUME NEW r \in Request, NEW b \in ScheduleRequest, Arrive(r, b)
      PROVE  UNCHANGED smVars
    BY <1>1 DEF Arrive
<1>2. ASSUME NEW r \in Request, Serve(r) PROVE [SMNext]_smVars
    <2>1. ASSUME NEW w \in Worker, Pick(r, w) PROVE SMNext
        BY <2>1 DEF Pick, SMNext
    <2>2. CASE FailFirst(r) \/ FailRetry(r)
        BY <2>2 DEF FailFirst, FailRetry
    <2>3. CASE Arm(r)
        BY <2>3 DEF Arm, SMNext
    <2>4. CASE Allocate(r)
        <3>1. best[r] \in Worker
            BY <2>4 DEF Allocate, TypeOK
        <3> QED
            BY <2>4, <3>1 DEF Allocate, SMNext
    <2>5. CASE WakeUp(r) \/ TimeOut(r) \/ GiveUp(r)
        BY <2>5 DEF WakeUp, TimeOut, GiveUp, SMNext
    <2> QED
        BY <1>2, <2>1, <2>2, <2>3, <2>4, <2>5 DEF Serve, LockedStep
<1>3. ASSUME NEW r \in Request, Cancel(r) PROVE UNCHANGED smVars
    BY <1>3 DEF Cancel
<1>4. ASSUME NEW hb \in Heartbeat, PostHeartbeat(hb) PROVE SMNext
    BY <1>4 DEF PostHeartbeat, SMNext
<1>5. ASSUME NEW ws \in Snapshot, Replicate(ws) PROVE SMNext
    BY <1>5 DEF Replicate, SMNext
<1>6. CASE FinishBroadcast
    BY <1>6 DEF FinishBroadcast, SMNext
<1>7. CASE Scan
    BY <1>7 DEF Scan, SMNext
<1>8. CASE Clock
    BY <1>8 DEF Clock, SMNext
<1>9. CASE UNCHANGED vars
    BY <1>9 DEF vars
<1> QED
    BY <1>1, <1>2, <1>3, <1>4, <1>5, <1>6, <1>7, <1>8, <1>9 DEF Next

\* The type of the requests' part of the state.
RequestTypeOK ==
    /\ pc \in [Request -> PC]
    /\ DOMAIN body = Request
    /\ \A r \in Request : pc[r] # "idle" => body[r] \in ScheduleRequest
    /\ best \in [Request -> Worker \cup {NoWorker}]
    /\ \A r \in Request : pc[r] = "allocate" \/ resp[r] = "ok" => best[r] \in Worker
    /\ waited \in [Request -> 0 .. MaxScheduleWait]
    /\ canceled \in SUBSET Request
    /\ resp \in [Request -> Answer]
    /\ \A r \in Request : pc[r] = "done" <=> resp[r] # "pending"

HistoryTypeOK == reported \in [Worker -> Int] /\ granted \in [Worker -> Nat]

\* The requests' state, the table and the history are well formed in every
\* state of every interleaving.
THEOREM TypeCorrect == Spec => []TypeOK
<1>1. Init => TypeOK
    <2> SUFFICES ASSUME Init PROVE TypeOK
        OBVIOUS
    <2>1. SMTypeOK
        BY ConfigAssumption DEF Init, ValidConfig, SMInit, SMTypeOK, WakeupInit, WakeupTypeOK
    <2> QED
        BY <2>1, WaitAssumption DEF Init, TypeOK, PC, Active, Waiting, Answer
<1>2. TypeOK /\ [Next]_vars => TypeOK'
    <2> SUFFICES ASSUME TypeOK, [Next]_vars PROVE TypeOK'
        OBVIOUS
    <2>1. SMTypeOK'
        BY StepUsesStateManager, SMTypeStep DEF TypeOK
    <2>2. RequestTypeOK /\ HistoryTypeOK
        BY DEF TypeOK, RequestTypeOK, HistoryTypeOK
    <2>3. SUFFICES RequestTypeOK' /\ HistoryTypeOK'
        BY <2>1 DEF TypeOK, RequestTypeOK, HistoryTypeOK
    <2> USE DEF RequestTypeOK, HistoryTypeOK, PC, Active, Waiting, Answer
    <2>4. ASSUME NEW r \in Request, NEW b \in ScheduleRequest, Arrive(r, b)
          PROVE  RequestTypeOK' /\ HistoryTypeOK'
        BY <2>2, <2>4 DEF Arrive, Answered, histVars
    <2>5. ASSUME NEW r \in Request, Serve(r) PROVE RequestTypeOK' /\ HistoryTypeOK'
        <3>1. ASSUME NEW w \in Worker, Pick(r, w) PROVE RequestTypeOK' /\ HistoryTypeOK'
            BY <2>2, <3>1 DEF Pick, histVars
        <3>2. CASE FailFirst(r)
            BY <2>2, <3>2, WaitAssumption DEF FailFirst, Answered, histVars
        <3>3. CASE Arm(r) \/ FailRetry(r) \/ WakeUp(r)
            BY <2>2, <3>3 DEF Arm, FailRetry, WakeUp, histVars
        <3>4. CASE Allocate(r)
            BY <2>2, <3>4 DEF Allocate, Answered
        <3>5. CASE TimeOut(r) \/ GiveUp(r)
            BY <2>2, <3>5 DEF TimeOut, GiveUp, Answered, histVars
        <3> QED
            BY <2>5, <3>1, <3>2, <3>3, <3>4, <3>5 DEF Serve, LockedStep
    <2>6. ASSUME NEW r \in Request, Cancel(r) PROVE RequestTypeOK' /\ HistoryTypeOK'
        BY <2>2, <2>6 DEF Cancel, histVars
    <2>7. ASSUME NEW hb \in Heartbeat, PostHeartbeat(hb) PROVE RequestTypeOK' /\ HistoryTypeOK'
        <3>1. hb.maxTasks - hb.currentTasks \in Int /\ hb.workerID \in Worker
            <4>1. hb.maxTasks \in Int /\ hb.currentTasks \in Int
                BY HeartbeatAssumption
            <4> QED
                BY <2>7, <4>1, HeartbeatAssumption DEF PostHeartbeat, HandleHeartbeat, Validate
        <3>2. HistoryTypeOK'
            BY <2>2, <2>7, <3>1 DEF PostHeartbeat
        <3>3. RequestTypeOK'
            BY <2>2, <2>7 DEF PostHeartbeat, reqVars
        <3> QED
            BY <3>2, <3>3
    <2>8. ASSUME NEW ws \in Snapshot, Replicate(ws) PROVE RequestTypeOK' /\ HistoryTypeOK'
        <3>1. \A w \in DOMAIN ws : ws[w].available \in Int
            BY SnapshotAssumption DEF Listed, WorkerState
        <3>2. HistoryTypeOK'
            BY <2>2, <2>8, <3>1 DEF Replicate
        <3>3. RequestTypeOK'
            BY <2>2, <2>8 DEF Replicate, reqVars
        <3> QED
            BY <3>2, <3>3
    <2>9. CASE FinishBroadcast \/ Scan
        BY <2>2, <2>9 DEF FinishBroadcast, Scan, reqVars, histVars
    <2>10. CASE Clock
        BY <2>2, <2>10, WaitAssumption DEF Clock, histVars
    <2>11. CASE UNCHANGED vars
        BY <2>2, <2>11 DEF vars, reqVars, histVars
    <2> QED
        BY <2>4, <2>5, <2>6, <2>7, <2>8, <2>9, <2>10, <2>11 DEF Next
<1> QED
    BY <1>1, <1>2, PTL DEF Spec

\* Scheduling implements the state manager's specification, so everything
\* proved of the table holds under concurrent requests.
THEOREM SchedulerUsesStateManager == Spec => ImplementsStateManager
<1>1. Init => SMInit
    BY DEF Init
<1> QED
    BY <1>1, StepUsesStateManager, TypeCorrect, PTL DEF Spec, SMSpec, ImplementsStateManager

\* The tag index stays exact while requests are scheduled.
COROLLARY SchedulerIndexExact == Spec => []TagIndexExact
BY SchedulerUsesStateManager, TagIndexAlwaysExact, PTL DEF ImplementsStateManager

\* What holds of the table on its own holds while requests are scheduled: a
\* demoted worker is stale, a stale one is demoted within the bound, and the
\* gauges of GET /stats add up, although every reservation comes from a request.
THEOREM TableSoundUnderRequests ==
    Spec => [](DemotedMeansStale /\ DetectionBound /\ StatsAddUp)
BY SchedulerUsesStateManager, DemotedAlwaysStale, DetectionBounded, StatsAlwaysAddUp, PTL
   DEF ImplementsStateManager

-----------------------------------------------------------------------------
\* The workers an attempt may choose from are those that can serve it.
LEMMA SelectableExact ==
    ASSUME TypeOK, TagIndexExact, NEW b \in ScheduleRequest
    PROVE  Selectable(b) = {w \in Worker : Serves(w, b)}
<1>1. DOMAIN workers \subseteq Worker /\ IsFiniteSet(DOMAIN workers)
    <2>1. DOMAIN workers \in SUBSET Worker
        BY DEF TypeOK, SMTypeOK
    <2> QED
        BY <2>1, WorkerAssumption, FS_Subset
<1>2. b.requiredTags \in Seq(Tag)
    BY RequestAssumption
<1>3. CandidatesByTags(b.requiredTags)
        = {w \in DOMAIN workers : Range(b.requiredTags) \subseteq Range(workers[w].resourceTags)}
    <2>1. CASE b.requiredTags = << >>
        <3>1. Range(b.requiredTags) = {}
            BY <2>1 DEF Range
        <3> QED
            BY <2>1, <3>1 DEF CandidatesByTags
    <2>2. CASE b.requiredTags # << >>
        <3>1. ExactFor(tags, Carried) /\ DOMAIN Carried = DOMAIN workers
            BY ExactIsExactFor DEF Carried
        <3>2. candidates(tags, b.requiredTags)
                = {w \in DOMAIN Carried : Range(b.requiredTags) \subseteq Carried[w]}
            BY <1>1, <1>2, <2>2, <3>1, CandidatesExact
        <3> QED
            BY <2>2, <3>1, <3>2 DEF CandidatesByTags, Carried
    <2> QED
        BY <2>1, <2>2
<1> QED
    BY <1>1, <1>3 DEF Selectable, filterAvailable, Serves

\* Comparing load ratios as fractions: the order is transitive.
LEMMA RatioOrder ==
    ASSUME NEW a \in Int, NEW b \in Int, NEW c \in Int, NEW p \in Int, NEW q \in Int,
           NEW r \in Int, p > 0, q > 0, r > 0, a * q <= b * p, b * r <= c * q
    PROVE  a * r <= c * p
<1>1. (a * q) * r <= (b * p) * r
    <2>1. ((b * p) - (a * q)) * r >= 0
        OBVIOUS
    <2> QED
        BY <2>1
<1>2. (b * r) * p <= (c * q) * p
    <2>1. ((c * q) - (b * r)) * p >= 0
        OBVIOUS
    <2> QED
        BY <2>1
<1>3. (a * r) * q <= (c * p) * q
    <2>1. (a * q) * r = (a * r) * q /\ (b * p) * r = (b * r) * p /\ (c * q) * p = (c * p) * q
        OBVIOUS
    <2> QED
        BY <1>1, <1>2, <2>1
<1> DEFINE m == a * r
           n == c * p
<1>4. m \in Int /\ n \in Int /\ m * q <= n * q
    BY <1>3
<1> HIDE DEF m, n
<1>5. m <= n
    <2> SUFFICES ASSUME m >= n + 1 PROVE FALSE
        BY <1>4
    <2>1. (m - n - 1) * q >= 0
        BY <1>4
    <2>2. m * q >= n * q + q
        BY <1>4, <2>1
    <2> QED
        BY <1>4, <2>2
<1> QED
    BY <1>5 DEF m, n

\* Among any of the table's workers one is the least loaded.
LEMMA LeastLoaded ==
    ASSUME SMTypeOK, FreeSlotsExact, NEW S \in SUBSET DOMAIN workers, S # {}
    PROVE  \E w \in S : \A v \in S : RatioNum(w) * RatioDen(v) <= RatioNum(v) * RatioDen(w)
<1> DEFINE Leq(w, v) == RatioNum(w) * RatioDen(v) <= RatioNum(v) * RatioDen(w)
           T == {n \in Nat : \A U \in SUBSET S :
                    Cardinality(U) = n /\ U # {} => \E w \in U : \A v \in U : Leq(w, v)}
<1>1. IsFiniteSet(S)
    BY WorkerAssumption, FS_Subset DEF SMTypeOK
<1>2. ASSUME NEW w \in S PROVE RatioNum(w) \in Int /\ RatioDen(w) \in Int /\ RatioDen(w) > 0
    BY DEF SMTypeOK, FreeSlotsExact, WorkerState, RatioNum, RatioDen
<1>3. ASSUME NEW u \in S, NEW w \in S, NEW v \in S, Leq(u, w), Leq(w, v) PROVE Leq(u, v)
    BY <1>2, <1>3, RatioOrder
<1>4. ASSUME NEW u \in S, NEW w \in S PROVE Leq(u, w) \/ Leq(w, u)
    <2>1. RatioNum(u) * RatioDen(w) \in Int /\ RatioNum(w) * RatioDen(u) \in Int
        BY <1>2
    <2> QED
        BY <2>1
<1>5. ASSUME NEW u \in S PROVE Leq(u, u)
    BY <1>4
<1> HIDE DEF Leq
<1>6. 0 \in T
    BY <1>1, FS_Subset, FS_EmptySet
<1>7. ASSUME NEW n \in Nat, n \in T PROVE n + 1 \in T
    <2> SUFFICES ASSUME NEW U \in SUBSET S, Cardinality(U) = n + 1, U # {}
                 PROVE  \E w \in U : \A v \in U : Leq(w, v)
        OBVIOUS
    <2>1. PICK x \in U : TRUE
        OBVIOUS
    <2>2. Cardinality(U \ {x}) = n
        <3>1. IsFiniteSet(U)
            BY <1>1, FS_Subset
        <3>2. Cardinality(U \ {x}) = Cardinality(U) - 1
            BY <2>1, <3>1, FS_RemoveElement
        <3> QED
            BY <3>2
    <2>3. CASE U \ {x} = {}
        <3>1. \A v \in U : v = x
            BY <2>3
        <3> QED
            BY <1>5, <2>1, <3>1
    <2>4. CASE U \ {x} # {}
        <3>1. PICK w \in U \ {x} : \A v \in U \ {x} : Leq(w, v)
            BY <1>7, <2>2, <2>4
        <3>2. CASE Leq(w, x)
            BY <3>1, <3>2
        <3>3. CASE ~Leq(w, x)
            <4>1. Leq(x, w)
                BY <1>4, <3>1, <3>3
            <4>2. \A v \in U : Leq(x, v)
                BY <1>3, <1>5, <3>1, <4>1
            <4> QED
                BY <4>2
        <3> QED
            BY <3>2, <3>3
    <2> QED
        BY <2>3, <2>4
<1>8. Cardinality(S) \in T
    <2> HIDE DEF T
    <2>1. Nat \subseteq T
        BY <1>6, <1>7, InductionOnSet
    <2> QED
        BY <1>1, <2>1, FS_CardinalityType
<1> QED
    BY <1>8 DEF Leq

\* No attempt is ever stuck between its two outcomes: when some worker could
\* serve a request, the sort and the spread threshold of selectBestWorker leave
\* one to pick, whatever the loads, so that the attempt picks or fails.
THEOREM AttemptAlwaysDecides ==
    Spec => [](\A r \in Request :
                  pc[r] \in {"attempt", "retry"} =>
                      \/ \E w \in Worker : w \in selectBestWorker(Selectable(body[r]))
                      \/ Selectable(body[r]) = {})
<1>1. TypeOK /\ FreeSlotsExact =>
        (\A r \in Request :
            pc[r] \in {"attempt", "retry"} =>
                \/ \E w \in Worker : w \in selectBestWorker(Selectable(body[r]))
                \/ Selectable(body[r]) = {})
    <2> SUFFICES ASSUME TypeOK, FreeSlotsExact, NEW r \in Request, Selectable(body[r]) # {}
                 PROVE  \E w \in Worker : w \in selectBestWorker(Selectable(body[r]))
        OBVIOUS
    <2> DEFINE S == Selectable(body[r])
    <2>1. S \in SUBSET DOMAIN workers /\ SMTypeOK
        BY DEF Selectable, filterAvailable, CandidatesByTags, TypeOK
    <2> HIDE DEF S
    <2>2. PICK w \in S :
              \A v \in S : RatioNum(w) * RatioDen(v) <= RatioNum(v) * RatioDen(w)
        BY <2>1, LeastLoaded DEF S
    <2>3. ASSUME NEW v \in S PROVE WithinSpread(w, v)
        <3> DEFINE x == RatioNum(w) * RatioDen(v)
                   y == RatioNum(v) * RatioDen(w)
                   d == SpreadPercent * RatioDen(w) * RatioDen(v)
        <3>1. /\ RatioNum(w) \in Int /\ RatioDen(w) \in Int /\ RatioDen(w) > 0
              /\ RatioNum(v) \in Int /\ RatioDen(v) \in Int /\ RatioDen(v) > 0
            BY <2>1 DEF SMTypeOK, FreeSlotsExact, WorkerState, RatioNum, RatioDen
        <3>2. SpreadPercent \in Nat
            BY WaitAssumption
        <3>3. x \in Int /\ y \in Int /\ x <= y
            BY <2>2, <3>1
        <3>4. d \in Nat
            <4>1. SpreadPercent * RatioDen(w) \in Nat
                BY <3>1, <3>2
            <4> QED
                BY <3>1, <4>1
        <3>5. WithinSpread(w, v) <=> 100 * (x - y) <= d
            BY DEF WithinSpread
        <3> HIDE DEF x, y, d
        <3> QED
            BY <3>3, <3>4, <3>5
    <2>4. w \in selectBestWorker(S) /\ w \in Worker
        BY <2>1, <2>3 DEF selectBestWorker, SMTypeOK
    <2> QED
        BY <2>4 DEF S
<1>2. Spec => []FreeSlotsExact
    BY SchedulerUsesStateManager, FreeSlotsAlwaysExact, PTL DEF ImplementsStateManager
<1> QED
    BY <1>1, <1>2, TypeCorrect, PTL

\* An attempt picks a worker that can serve the request and is no more than the
\* threshold busier than any other such worker, and fails only without one.
THEOREM AttemptsDecideRight == Spec => AttemptDecidesRight
<1> DEFINE Right ==
        \A r \in Request :
            pc[r] \in {"attempt", "retry"} /\ pc'[r] # pc[r]
                => IF pc'[r] = "allocate"
                   THEN /\ Serves(best'[r], body[r])
                        /\ \A v \in Worker :
                              Serves(v, body[r]) => WithinSpread(best'[r], v)
                   ELSE \A w \in Worker : ~Serves(w, body[r])
<1>1. TypeOK /\ TagIndexExact /\ [Next]_vars => [Right]_vars
    <2> SUFFICES ASSUME TypeOK, TagIndexExact, [Next]_vars, NEW r \in Request,
                        pc[r] \in {"attempt", "retry"}, pc'[r] # pc[r]
                 PROVE  IF pc'[r] = "allocate"
                        THEN /\ Serves(best'[r], body[r])
                             /\ \A v \in Worker :
                                   Serves(v, body[r]) => WithinSpread(best'[r], v)
                        ELSE \A w \in Worker : ~Serves(w, body[r])
        OBVIOUS
    <2>1. pc \in [Request -> PC] /\ best \in [Request -> Worker \cup {NoWorker}]
        BY DEF TypeOK
    <2>2. body[r] \in ScheduleRequest
        BY DEF TypeOK
    <2>3. Selectable(body[r]) = {w \in Worker : Serves(w, body[r])}
        BY <2>2, SelectableExact
    <2>4. (\E w \in Worker : Pick(r, w)) \/ FailFirst(r) \/ FailRetry(r)
        <3>1. ASSUME NEW q \in Request, Serve(q) \/ Cancel(q),
                     ~((\E w \in Worker : Pick(r, w)) \/ FailFirst(r) \/ FailRetry(r))
              PROVE  FALSE
            BY <2>1, <3>1 DEF Serve, LockedStep, Pick, FailFirst, FailRetry, Arm, Allocate,
                              WakeUp, TimeOut, GiveUp, Cancel, Answered
        <3>2. ASSUME NEW q \in Request, NEW b \in ScheduleRequest, Arrive(q, b) PROVE FALSE
            BY <2>1, <3>2 DEF Arrive, Answered
        <3>3. ASSUME NEW hb \in Heartbeat, PostHeartbeat(hb) PROVE FALSE
            BY <3>3 DEF PostHeartbeat, reqVars
        <3>4. ASSUME NEW ws \in Snapshot, Replicate(ws) PROVE FALSE
            BY <3>4 DEF Replicate, reqVars
        <3>5. CASE FinishBroadcast \/ Scan \/ Clock
            BY <3>5 DEF FinishBroadcast, Scan, Clock, reqVars
        <3>6. CASE UNCHANGED vars
            BY <3>6 DEF vars, reqVars
        <3> QED
            BY <3>1, <3>2, <3>3, <3>4, <3>5, <3>6 DEF Next
    <2>5. ASSUME NEW w \in Worker, Pick(r, w)
          PROVE  /\ pc'[r] = "allocate" /\ Serves(best'[r], body[r])
                 /\ \A v \in Worker : Serves(v, body[r]) => WithinSpread(best'[r], v)
        <3>1. w \in selectBestWorker(Selectable(body[r])) /\ best'[r] = w /\ pc'[r] = "allocate"
            BY <2>1, <2>5 DEF Pick
        <3> QED
            BY <2>3, <3>1 DEF selectBestWorker
    <2>6. ASSUME FailFirst(r) \/ FailRetry(r)
          PROVE  pc'[r] # "allocate" /\ \A w \in Worker : ~Serves(w, body[r])
        BY <2>1, <2>3, <2>6 DEF FailFirst, FailRetry, Answered
    <2> QED
        BY <2>4, <2>5, <2>6
<1> QED
    BY <1>1, TypeCorrect, SchedulerIndexExact, PTL DEF Spec, AttemptDecidesRight

-----------------------------------------------------------------------------
\* A worker's free slots, seen from its last report and the tasks granted since.
AccountOf(w) ==
    /\ workers[w].available = workers[w].maxTasks - workers[w].currentTasks
    /\ workers[w].available =
         IF reported[w] <= 0 THEN reported[w]
         ELSE IF granted[w] >= reported[w] THEN 0
         ELSE reported[w] - granted[w]

\* A step that leaves counters and history alone keeps the account.
LEMMA SameCountersKeepAccount ==
    ASSUME CapacityAccounted, UNCHANGED histVars, DOMAIN workers' = DOMAIN workers,
           \A w \in DOMAIN workers :
               /\ workers'[w].available = workers[w].available
               /\ workers'[w].maxTasks = workers[w].maxTasks
               /\ workers'[w].currentTasks = workers[w].currentTasks
    PROVE  CapacityAccounted'
BY DEF CapacityAccounted, histVars

\* Concurrent reservations neither lose nor invent a slot: what a worker has
\* free is always its last report minus the tasks granted since, at least zero.
THEOREM CapacityAlwaysAccounted == Spec => []CapacityAccounted
<1>1. Init => CapacityAccounted
    BY DEF Init, SMInit, CapacityAccounted
<1>2. TypeOK /\ CapacityAccounted /\ [Next]_vars => CapacityAccounted'
    <2> SUFFICES ASSUME TypeOK, CapacityAccounted, [Next]_vars PROVE CapacityAccounted'
        OBVIOUS
    <2>1. /\ DOMAIN workers \subseteq Worker
          /\ \A w \in DOMAIN workers : workers[w] \in WorkerState
          /\ reported \in [Worker -> Int] /\ granted \in [Worker -> Nat]
        BY DEF TypeOK, SMTypeOK
    <2>2. ASSUME UNCHANGED <<workers, histVars>> PROVE CapacityAccounted'
        BY <2>2, SameCountersKeepAccount
    <2>3. ASSUME NEW r \in Request, Serve(r) PROVE CapacityAccounted'
        <3>1. CASE Allocate(r)
            <4>0. PICK b \in Worker : b = best[r]
                BY <3>1 DEF Allocate, TypeOK
            <4>1. reported' = reported /\ granted' = [granted EXCEPT ![b] = @ + 1]
                BY <3>1, <4>0 DEF Allocate
            <4>2. CASE CanAllocate(b)
                <5>1. /\ DOMAIN workers' = DOMAIN workers
                      /\ \A w \in DOMAIN workers \ {b} : workers'[w] = workers[w]
                      /\ workers'[b].maxTasks = workers[b].maxTasks
                      /\ workers'[b].currentTasks = workers[b].currentTasks + 1
                      /\ workers'[b].available = workers[b].available - 1
                      /\ b \in DOMAIN workers /\ workers[b].available > 0
                    BY <2>1, <3>1, <4>0, <4>2 DEF Allocate, AllocateTask, CanAllocate, WorkerState
                <5>2. workers[b].available \in Int /\ workers[b].maxTasks \in Int
                        /\ workers[b].currentTasks \in Int
                    BY <2>1, <5>1 DEF WorkerState
                <5>3. AccountOf(b)'
                    BY <2>1, <4>1, <5>1, <5>2 DEF CapacityAccounted, AccountOf
                <5>4. \A w \in DOMAIN workers \ {b} : AccountOf(w)'
                    BY <2>1, <4>1, <5>1 DEF CapacityAccounted, AccountOf
                <5> QED
                    BY <5>1, <5>3, <5>4 DEF CapacityAccounted, AccountOf
            <4>3. CASE ~CanAllocate(b)
                <5>1. workers' = workers
                    BY <3>1, <4>0, <4>3 DEF Allocate, smVars
                <5>2. ASSUME b \in DOMAIN workers PROVE AccountOf(b)'
                    <6>1. workers[b].available \in Int /\ ~(workers[b].available > 0)
                        BY <2>1, <4>3, <5>2 DEF CanAllocate, WorkerState
                    <6> QED
                        BY <2>1, <4>1, <5>1, <5>2, <6>1 DEF CapacityAccounted, AccountOf
                <5>3. \A w \in DOMAIN workers \ {b} : AccountOf(w)'
                    BY <2>1, <4>1, <5>1 DEF CapacityAccounted, AccountOf
                <5> QED
                    BY <5>1, <5>2, <5>3 DEF CapacityAccounted, AccountOf
            <4> QED
                BY <4>2, <4>3
        <3>2. CASE FailFirst(r) \/ Arm(r) \/ FailRetry(r) \/ WakeUp(r) \/ TimeOut(r) \/ GiveUp(r)
            BY <2>2, <3>2 DEF FailFirst, Arm, FailRetry, WakeUp, TimeOut, GiveUp, smVars,
                              CapacityChanged, Forget
        <3>3. ASSUME NEW w \in Worker, Pick(r, w) PROVE CapacityAccounted'
            BY <2>2, <3>3 DEF Pick, Forget
        <3> QED
            BY <2>3, <3>1, <3>2, <3>3 DEF Serve, LockedStep
    <2>4. ASSUME NEW r \in Request, NEW b \in ScheduleRequest, Arrive(r, b)
          PROVE  CapacityAccounted'
        BY <2>2, <2>4 DEF Arrive, smVars
    <2>5. ASSUME NEW r \in Request, Cancel(r) PROVE CapacityAccounted'
        BY <2>2, <2>5 DEF Cancel, smVars
    <2>6. ASSUME NEW hb \in Heartbeat, PostHeartbeat(hb) PROVE CapacityAccounted'
        <3> DEFINE w == hb.workerID
        <3>1. w \in Worker /\ hb.maxTasks \in Int /\ hb.currentTasks \in Int
            BY <2>6, HeartbeatAssumption DEF PostHeartbeat, HandleHeartbeat, Validate
        <3>2. /\ DOMAIN workers' = DOMAIN workers \cup {w}
              /\ \A v \in DOMAIN workers' :
                    workers'[v] = IF v = w THEN Refreshed(hb) ELSE workers[v]
            BY <2>6 DEF PostHeartbeat, HandleHeartbeat, UpdateFromHeartbeat
        <3>3. /\ reported' = [reported EXCEPT ![w] = hb.maxTasks - hb.currentTasks]
              /\ granted' = [granted EXCEPT ![w] = 0]
            BY <2>6 DEF PostHeartbeat
        <3>4. AccountOf(w)'
            BY <2>1, <3>1, <3>2, <3>3 DEF AccountOf, Refreshed
        <3>5. \A v \in DOMAIN workers \ {w} : AccountOf(v)'
            BY <2>1, <3>1, <3>2, <3>3 DEF CapacityAccounted, AccountOf
        <3> QED
            BY <3>2, <3>4, <3>5 DEF CapacityAccounted, AccountOf
    <2>7. ASSUME NEW ws \in Snapshot, Replicate(ws) PROVE CapacityAccounted'
        <3>1. \A w \in DOMAIN ws : /\ w \in Worker /\ ws[w].available \in Int
                                   /\ ws[w].available = ws[w].maxTasks - ws[w].currentTasks
            BY SnapshotAssumption DEF Listed, WorkerState
        <3>2. /\ workers' = ws
              /\ \A w \in DOMAIN ws : reported'[w] = ws[w].available /\ granted'[w] = 0
            BY <2>7, <3>1 DEF Replicate, LoadSnapshot
        <3> QED
            BY <3>1, <3>2 DEF CapacityAccounted
    <2>8. CASE FinishBroadcast
        BY <2>2, <2>8 DEF FinishBroadcast, Broadcast
    <2>9. CASE Scan
        <3>1. \A w \in DOMAIN workers :
                 /\ Judged(workers[w]).available = workers[w].available
                 /\ Judged(workers[w]).maxTasks = workers[w].maxTasks
                 /\ Judged(workers[w]).currentTasks = workers[w].currentTasks
            BY <2>1 DEF Judged, WorkerState
        <3> QED
            BY <2>9, <3>1, SameCountersKeepAccount DEF Scan, CheckTimeouts
    <2>10. CASE Clock
        <3>1. \A w \in DOMAIN workers :
                 /\ Aged(workers[w]).available = workers[w].available
                 /\ Aged(workers[w]).maxTasks = workers[w].maxTasks
                 /\ Aged(workers[w]).currentTasks = workers[w].currentTasks
            BY <2>1 DEF Aged, WorkerState
        <3> QED
            BY <2>10, <3>1, SameCountersKeepAccount DEF Clock, Tick
    <2>11. CASE UNCHANGED vars
        BY <2>2, <2>11 DEF vars, smVars
    <2> QED
        BY <2>3, <2>4, <2>5, <2>6, <2>7, <2>8, <2>9, <2>10, <2>11 DEF Next
<1> QED
    BY <1>1, <1>2, TypeCorrect, PTL DEF Spec

-----------------------------------------------------------------------------
\* A request that is parked on an open channel with no writer at work.
Parked(r) == pc[r] = "select" /\ signal[r] = "open" /\ mu = "free"

\* If a step parks nobody and makes no worker able to serve, wakeups stay safe.
LEMMA QuietStepKeepsWakeups ==
    ASSUME NoLostWakeup,
           \A r \in Request : Parked(r)' => Parked(r) /\ body'[r] = body[r],
           \A w \in Worker : \A c : Serves(w, c)' => Serves(w, c)
    PROVE  NoLostWakeup'
<1> SUFFICES ASSUME NEW r \in Request, pc'[r] = "select", signal'[r] = "open", mu' = "free",
                    NEW w \in Worker, Serves(w, body[r])'
             PROVE  FALSE
    BY DEF NoLostWakeup
<1>1. Parked(r) /\ body'[r] = body[r]
    BY DEF Parked
<1>2. PICK c : c = body[r]
    OBVIOUS
<1>3. Serves(w, c)'
    BY <1>1, <1>2 DEF Serves
<1>4. Serves(w, c)
    BY <1>3
<1>5. Serves(w, body[r])
    BY <1>2, <1>4
<1> QED
    BY <1>1, <1>5 DEF NoLostWakeup, Parked

\* No wakeup is lost: because the loop fetches the channel before it retries,
\* and writers publish capacity before they broadcast, a request parked on an
\* open channel has nothing to wake up for.
THEOREM NoWakeupLost == Spec => []NoLostWakeup
<1>1. Init => NoLostWakeup
    BY DEF Init, NoLostWakeup
<1>2. TypeOK /\ TagIndexExact /\ NoLostWakeup /\ [Next]_vars => NoLostWakeup'
    <2> SUFFICES ASSUME TypeOK, TagIndexExact, NoLostWakeup, [Next]_vars
                 PROVE  NoLostWakeup'
        OBVIOUS
    <2>1. /\ DOMAIN workers \subseteq Worker
          /\ \A w \in DOMAIN workers : workers[w] \in WorkerState
          /\ pc \in [Request -> PC] /\ DOMAIN body = Request
          /\ signal \in [Request -> {"none", "open", "closed"}]
        BY DEF TypeOK, SMTypeOK, WakeupTypeOK
    <2>2. ASSUME UNCHANGED workers,
                 \A r \in Request : Parked(r)' => Parked(r) /\ body'[r] = body[r]
          PROVE  NoLostWakeup'
        <3>1. \A w \in Worker : \A c : Serves(w, c)' => Serves(w, c)
            BY <2>2 DEF Serves
        <3> QED
            BY <2>2, <3>1, QuietStepKeepsWakeups
    <2>3. ASSUME NEW r \in Request, NEW b \in ScheduleRequest, Arrive(r, b)
          PROVE  NoLostWakeup'
        BY <2>1, <2>2, <2>3 DEF Arrive, Answered, Parked, smVars
    <2>4. ASSUME NEW r \in Request, Serve(r) PROVE NoLostWakeup'
        <3>1. ASSUME NEW w \in Worker, Pick(r, w) PROVE NoLostWakeup'
            BY <2>1, <2>2, <3>1 DEF Pick, Forget, forget, Parked
        <3>2. CASE FailFirst(r)
            BY <2>1, <2>2, <3>2 DEF FailFirst, Answered, Parked, smVars
        <3>3. CASE Arm(r)
            BY <2>1, <2>2, <3>3 DEF Arm, CapacityChanged, waitChan, Parked
        <3>4. CASE FailRetry(r)
            <4>1. body[r] \in ScheduleRequest
                BY <3>4 DEF FailRetry, TypeOK
            <4>2. \A w \in Worker : ~Serves(w, body[r])
                BY <3>4, <4>1, SelectableExact DEF FailRetry
            <4>3. UNCHANGED <<workers, body, signal, mu>>
                BY <3>4 DEF FailRetry, smVars
            <4>4. \A q \in Request \ {r} : pc'[q] = pc[q]
                BY <2>1, <3>4 DEF FailRetry
            <4> QED
                BY <4>2, <4>3, <4>4 DEF NoLostWakeup, Serves
        <3>5. CASE Allocate(r)
            <4>1. \A q \in Request : Parked(q)' => Parked(q) /\ body'[q] = body[q]
                BY <2>1, <3>5 DEF Allocate, AllocateTask, Answered, smVars, Parked
            <4>2. \A w \in Worker : \A c : Serves(w, c)' => Serves(w, c)
                <5>1. CASE workers' = workers
                    BY <5>1 DEF Serves
                <5>2. CASE AllocateTask(best[r])
                    <6>1. /\ DOMAIN workers' = DOMAIN workers
                          /\ \A w \in DOMAIN workers :
                                /\ workers'[w].status = workers[w].status
                                /\ workers'[w].resourceTags = workers[w].resourceTags
                                /\ workers'[w].available > 0 => workers[w].available > 0
                        BY <2>1, <5>2 DEF AllocateTask, CanAllocate, WorkerState
                    <6> QED
                        BY <6>1 DEF Serves
                <5> QED
                    BY <3>5, <5>1, <5>2 DEF Allocate, smVars
            <4> QED
                BY <4>1, <4>2, QuietStepKeepsWakeups
        <3>6. CASE WakeUp(r) \/ TimeOut(r) \/ GiveUp(r)
            BY <2>1, <2>2, <3>6 DEF WakeUp, TimeOut, GiveUp, Forget, forget, Answered, Parked
        <3> QED
            BY <2>4, <3>1, <3>2, <3>3, <3>4, <3>5, <3>6 DEF Serve, LockedStep
    <2>5. ASSUME NEW r \in Request, Cancel(r) PROVE NoLostWakeup'
        BY <2>2, <2>5 DEF Cancel, smVars, Parked
    <2>6. ASSUME NEW hb \in Heartbeat, PostHeartbeat(hb) PROVE NoLostWakeup'
        <3> DEFINE w == hb.workerID
        <3>1. hb.maxTasks \in Int /\ hb.currentTasks \in Int
            BY HeartbeatAssumption
        <3>2. /\ UNCHANGED <<pc, body, signal>> /\ mu = "free"
              /\ mu' = "free" => ~(hb.maxTasks - hb.currentTasks > 0)
              /\ DOMAIN workers' = DOMAIN workers \cup {w}
              /\ \A v \in DOMAIN workers' :
                    workers'[v] = IF v = w THEN Refreshed(hb) ELSE workers[v]
            BY <2>6 DEF PostHeartbeat, HandleHeartbeat, UpdateFromHeartbeat, muAfterUpdate,
                        reqVars
        <3>3. \A r \in Request : Parked(r)' => Parked(r) /\ body'[r] = body[r]
            BY <3>2 DEF Parked
        <3>4. CASE mu' # "free"
            BY <3>4 DEF NoLostWakeup
        <3>5. CASE mu' = "free"
            <4>1. workers'[w].available <= 0
                BY <3>1, <3>2, <3>5 DEF Refreshed
            <4>2. ASSUME NEW v \in Worker, NEW c, Serves(v, c)' PROVE Serves(v, c)
                <5>1. v # w
                    BY <4>1, <4>2, <3>1, <3>2 DEF Serves, Refreshed
                <5> QED
                    BY <3>2, <4>2, <5>1 DEF Serves
            <4> QED
                BY <3>3, <4>2, QuietStepKeepsWakeups
        <3> QED
            BY <3>4, <3>5
    <2>7. ASSUME NEW ws \in Snapshot, Replicate(ws) PROVE NoLostWakeup'
        BY <2>7 DEF Replicate, LoadSnapshot, NoLostWakeup
    <2>8. CASE FinishBroadcast
        <3>1. \A r \in Request : signal'[r] # "open"
            BY <2>8 DEF FinishBroadcast, Broadcast, broadcast
        <3> QED
            BY <3>1 DEF NoLostWakeup
    <2>9. CASE Scan
        <3>1. \A w \in DOMAIN workers :
                 /\ Judged(workers[w]).status = Online => workers[w].status = Online
                 /\ Judged(workers[w]).available = workers[w].available
                 /\ Judged(workers[w]).resourceTags = workers[w].resourceTags
            BY <2>1 DEF Judged, WorkerState, Online, Suspicious, Offline
        <3>2. \A w \in Worker : \A c : Serves(w, c)' => Serves(w, c)
            BY <2>9, <3>1 DEF Scan, CheckTimeouts, Serves
        <3>3. \A r \in Request : Parked(r)' => Parked(r) /\ body'[r] = body[r]
            BY <2>9 DEF Scan, CheckTimeouts, reqVars, Parked
        <3> QED
            BY <3>2, <3>3, QuietStepKeepsWakeups
    <2>10. CASE Clock
        <3>1. \A w \in DOMAIN workers :
                 /\ Aged(workers[w]).status = workers[w].status
                 /\ Aged(workers[w]).available = workers[w].available
                 /\ Aged(workers[w]).resourceTags = workers[w].resourceTags
            BY <2>1 DEF Aged, WorkerState
        <3>2. \A w \in Worker : \A c : Serves(w, c)' => Serves(w, c)
            BY <2>10, <3>1 DEF Clock, Tick, Serves
        <3>3. \A r \in Request : Parked(r)' => Parked(r) /\ body'[r] = body[r]
            BY <2>10 DEF Clock, Tick, Parked
        <3> QED
            BY <3>2, <3>3, QuietStepKeepsWakeups
    <2>11. CASE UNCHANGED vars
        BY <2>2, <2>11 DEF vars, smVars, reqVars, Parked
    <2> QED
        BY <2>3, <2>4, <2>5, <2>6, <2>7, <2>8, <2>9, <2>10, <2>11 DEF Next
<1> QED
    BY <1>1, <1>2, TypeCorrect, SchedulerIndexExact, PTL DEF Spec

\* Requests wait only if they asked for a positive wait.
PatientWaits == \A r \in Request : pc[r] \in Waiting => body[r].maxWaitMS > 0

LEMMA WaitsArePatient == Spec => []PatientWaits
<1>1. Init => PatientWaits
    BY DEF Init, PatientWaits, Waiting
<1>2. TypeOK /\ PatientWaits /\ [Next]_vars => PatientWaits'
    <2> SUFFICES ASSUME TypeOK, PatientWaits, [Next]_vars,
                        NEW r \in Request, pc'[r] \in Waiting
                 PROVE  body'[r].maxWaitMS > 0
        BY DEF PatientWaits
    <2>0. pc \in [Request -> PC] /\ DOMAIN body = Request
        BY DEF TypeOK
    <2>1. pc[r] \in Waiting => body[r].maxWaitMS > 0
        BY DEF PatientWaits
    <2>2. ASSUME NEW q \in Request, NEW b \in ScheduleRequest, Arrive(q, b)
          PROVE  body'[r].maxWaitMS > 0
        BY <2>0, <2>1, <2>2 DEF Arrive, Answered, Waiting
    <2>3. ASSUME NEW q \in Request, FailFirst(q) PROVE body'[r].maxWaitMS > 0
        <3>1. body' = body /\ (r # q => pc'[r] = pc[r])
            BY <2>0, <2>3 DEF FailFirst, Answered
        <3>2. CASE r = q
            <4>1. ~(body[r].maxWaitMS <= 0)
                BY <2>0, <2>3, <3>2 DEF FailFirst, Answered, Waiting
            <4>2. body[r].maxWaitMS \in Int
                BY <2>3, <3>2, RequestAssumption, WaitAssumption DEF FailFirst, TypeOK
            <4> QED
                BY <3>1, <4>1, <4>2
        <3> QED
            BY <2>1, <3>1, <3>2
    <2>4. ASSUME NEW q \in Request, \/ \E w \in Worker : Pick(q, w)
                                    \/ FailRetry(q) \/ Allocate(q) \/ Arm(q)
                                    \/ WakeUp(q) \/ TimeOut(q) \/ GiveUp(q)
          PROVE  body'[r].maxWaitMS > 0
        <3>1. body' = body /\ (pc'[r] \in Waiting => pc[r] \in Waiting)
            BY <2>0, <2>4 DEF Pick, FailRetry, Allocate, Arm, WakeUp, TimeOut, GiveUp,
                              Answered, Waiting
        <3> QED
            BY <2>1, <3>1
    <2>5. CASE /\ body' = body /\ pc' = pc
        BY <2>1, <2>5
    <2> QED
        BY <2>2, <2>3, <2>4, <2>5
           DEF Next, Serve, LockedStep, Cancel, PostHeartbeat, Replicate, FinishBroadcast,
               Scan, Clock, vars, reqVars
<1> QED
    BY <1>1, <1>2, TypeCorrect, PTL DEF Spec

\* A number in the range of a Duration is left alone by the conversion.
LEMMA WrappedInRange ==
    ASSUME NEW n \in 0 .. DurationHalfRange - 1
    PROVE  Wrapped(n) = n
<1> DEFINE H == DurationHalfRange
<1>1. H \in Nat /\ n \in Nat /\ n < H
    BY WaitAssumption
<1>2. n + H \in 0 .. 2 * H - 1
    BY <1>1
<1>3. (n + H) % (2 * H) = n + H
    BY <1>1, <1>2
<1> QED
    BY <1>1, <1>3 DEF Wrapped

\* Multiplication by a positive factor keeps the order.
LEMMA ScaledOrder ==
    ASSUME NEW a \in Nat, NEW b \in Nat, NEW m \in Nat, m > 0
    PROVE  a * m >= b * m <=> a >= b
OBVIOUS

\* The deadline of a waiting request is the wait it asked for, or the cap,
\* whatever number the request carries: the clamp comes before the conversion
\* to nanoseconds, which therefore never leaves the range of a Duration.
THEOREM BudgetAlwaysHonoured == Spec => []BudgetHonoured
<1>1. TypeOK /\ PatientWaits => BudgetHonoured
    <2> SUFFICES ASSUME TypeOK, PatientWaits, NEW r \in Request, pc[r] \in Waiting
                 PROVE  DeadlineFired(r) <=>
                            \/ waited[r] >= body[r].maxWaitMS
                            \/ waited[r] >= MaxScheduleWait
        BY DEF BudgetHonoured
    <2> DEFINE asked == body[r].maxWaitMS
               wait  == waitMS(body[r])
    <2>1. asked \in Nat \ {0}
        <3>1. body[r] \in ScheduleRequest
            BY DEF TypeOK, Waiting
        <3> QED
            BY <3>1, RequestAssumption, WaitAssumption DEF PatientWaits
    <2>2. waited[r] \in Nat /\ Millisecond \in Nat /\ Millisecond > 0
          /\ MaxScheduleWait \in Nat
        BY WaitAssumption DEF TypeOK
    <2>3. /\ wait \in Nat /\ wait <= MaxScheduleWait
          /\ waited[r] >= wait <=> waited[r] >= asked \/ waited[r] >= MaxScheduleWait
        BY <2>1, <2>2 DEF waitMS
    <2> HIDE DEF asked, wait
    <2>4. wait * Millisecond \in 0 .. DurationHalfRange - 1
        <3>1. wait * Millisecond \in Nat /\ MaxScheduleWait * Millisecond \in Nat
            BY <2>2, <2>3
        <3>2. MaxScheduleWait * Millisecond >= wait * Millisecond
            BY <2>2, <2>3, ScaledOrder
        <3> QED
            BY <3>1, <3>2, WaitAssumption
    <2>5. Budget(body[r]) = wait * Millisecond
        BY <2>4, WrappedInRange DEF Budget, wait
    <2>6. DeadlineFired(r) <=> waited[r] >= wait
        BY <2>2, <2>3, <2>5, ScaledOrder DEF DeadlineFired
    <2> QED
        BY <2>3, <2>6 DEF asked
<1> QED
    BY <1>1, TypeCorrect, WaitsArePatient, PTL
=============================================================================
