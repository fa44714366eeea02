---------------------------- MODULE StateManager ----------------------------
(***************************************************************************)
(* pkg/scheduler/state.go: the worker table and its tag index, behind one  *)
(* RWMutex.  Methods run under StateManager.mu, so each is one step; only  *)
(* the capacity broadcast is a step of its own, because the notifier's     *)
(* channel is read without StateManager.mu.  Until then mu stays held.     *)
(*                                                                         *)
(* Time is discrete.  A worker's LastHeartbeat is kept as its age, the     *)
(* ticks since then, which stops growing at AgeCap.                        *)
(***************************************************************************)
EXTENDS Integers, TagIndex, Wakeup

CONSTANTS Worker,                \* worker IDs
          EmptyID,               \* the empty worker ID
          Tag,                   \* resource tags
          Heartbeat,             \* the heartbeats that may be posted
          Snapshot,              \* the worker lists a replication may carry
          SuspiciousThreshold,
          OfflineThreshold,
          TimeoutCheckInterval,
          SnapshotLag            \* ticks from the scan that judged a replicated list
                                 \* to the moment it is loaded

\* Config.Validate, run by cmd/scheduler before anything is started.
ValidConfig ==
    /\ SuspiciousThreshold > 0
    /\ OfflineThreshold > 0
    /\ TimeoutCheckInterval > 0
    /\ SuspiciousThreshold < OfflineThreshold

ASSUME ConfigAssumption ==
    /\ {SuspiciousThreshold, OfflineThreshold, TimeoutCheckInterval} \subseteq Int
    /\ SnapshotLag \in Nat
    /\ ValidConfig

ASSUME WorkerAssumption == IsFiniteSet(Worker) /\ EmptyID \notin Worker

\* Ages beyond this one are not told apart by any comparison of the code.
AgeCap == OfflineThreshold + SnapshotLag + TimeoutCheckInterval + 1

Online     == "online"
Suspicious == "suspicious"
Offline    == "offline"

WorkerState ==
    [resourceTags : Seq(Tag), maxTasks : Int, currentTasks : Int, available : Int,
     age : 0 .. AgeCap, status : {Online, Suspicious, Offline}]

\* A status that is demoted only when the heartbeat is that old.
StatusFitsAge(state) ==
    /\ state.status = Offline => state.age > OfflineThreshold
    /\ state.status = Suspicious => state.age > SuspiciousThreshold

\* A status that was right at a scan no more than lag ticks ago.
JudgedWithin(state, lag) ==
    /\ state.status = Online => state.age <= SuspiciousThreshold + lag
    /\ state.status # Offline => state.age <= OfflineThreshold + lag

ASSUME HeartbeatAssumption ==
    Heartbeat \subseteq [workerID : Worker \cup {EmptyID}, resourceTags : Seq(Tag),
                         maxTasks : Int, currentTasks : Int]

\* What the ListWorkers of a StateManager returns: one entry per ID, made from
\* valid heartbeats and judged at a scan no more than lag ticks ago.
Listed(ws, lag) ==
    /\ DOMAIN ws \subseteq Worker
    /\ ws \in [DOMAIN ws -> WorkerState]
    /\ \A w \in DOMAIN ws :
          /\ ws[w].maxTasks > 0
          /\ ws[w].available = ws[w].maxTasks - ws[w].currentTasks
          /\ StatusFitsAge(ws[w])
          /\ JudgedWithin(ws[w], lag)

\* A replicated list comes from a StateManager with the same thresholds and the
\* same clock.  On a node that takes no snapshots the lag is zero.
ASSUME SnapshotAssumption == \A ws \in Snapshot : Listed(ws, SnapshotLag)

VARIABLES workers,   \* sm.workers, a function on the registered worker IDs
          tags,      \* sm.tags
          mu,        \* "held" while a writer is between its update and broadcast
          scanIn     \* ticks until the next tick of RunTimeoutChecker

smVars == <<workers, tags, mu, scanIn, signal>>

SMTypeOK ==
    /\ DOMAIN workers \subseteq Worker
    /\ workers \in [DOMAIN workers -> WorkerState]
    /\ mu \in {"free", "held"}
    /\ scanIn \in 0 .. TimeoutCheckInterval
    /\ WakeupTypeOK

SMInit ==
    /\ workers = [w \in {} |-> {}]
    /\ tags = newTagIndex
    /\ mu = "free"
    /\ scanIn = TimeoutCheckInterval
    /\ WakeupInit

-----------------------------------------------------------------------------
\* Heartbeat.Validate without the check of the worker ID.
ValidateCapacityOnly(hb) == hb.maxTasks > 0 /\ hb.currentTasks >= 0

\* Heartbeat.Validate
Validate(hb) ==
    /\ hb.workerID # EmptyID
    /\ hb.maxTasks > 0
    /\ hb.currentTasks >= 0

\* An entry that keeps a demoted status when a heartbeat renews its age.
RefreshedKeepStatus(hb) ==
    [resourceTags |-> hb.resourceTags, maxTasks |-> hb.maxTasks,
     currentTasks |-> hb.currentTasks, available |-> hb.maxTasks - hb.currentTasks,
     age |-> 0, status |-> IF hb.workerID \in DOMAIN workers
                           THEN workers[hb.workerID].status ELSE Online]

\* The worker's entry after a heartbeat: everything but its ID is overwritten.
Refreshed(hb) ==
    [resourceTags |-> hb.resourceTags, maxTasks |-> hb.maxTasks,
     currentTasks |-> hb.currentTasks, available |-> hb.maxTasks - hb.currentTasks,
     age |-> 0, status |-> Online]

\* A heartbeat handler that forgets to wake the waiters.
muAfterSilentUpdate(hb) == "free"

\* mu stays held for the broadcast if the worker has a free slot.
muAfterUpdate(hb) == IF hb.maxTasks - hb.currentTasks > 0 THEN "held" ELSE "free"

\* UpdateFromHeartbeat up to the broadcast.
UpdateFromHeartbeat(hb) ==
    LET w == hb.workerID
    IN  /\ mu = "free"
        /\ tags' = IF w \in DOMAIN workers
                   THEN update(tags, w, workers[w].resourceTags, hb.resourceTags)
                   ELSE add(tags, w, hb.resourceTags)
        /\ workers' = [v \in DOMAIN workers \cup {w} |->
                          IF v = w THEN Refreshed(hb) ELSE workers[v]]
        /\ mu' = muAfterUpdate(hb)
        /\ UNCHANGED <<scanIn, signal>>

\* Handler.HandleHeartbeat: a heartbeat that fails validation changes nothing.
HandleHeartbeat(hb) == Validate(hb) /\ UpdateFromHeartbeat(hb)

\* The index that registers every worker of a snapshot, from an empty one.
IndexOf(ws) ==
    [t \in UNION {Range(ws[w].resourceTags) : w \in DOMAIN ws} |->
        {w \in DOMAIN ws : t \in Range(ws[w].resourceTags)}]

\* The write section of LoadSnapshot, up to the broadcast.
LoadSnapshot(ws) ==
    /\ mu = "free"
    /\ workers' = ws
    /\ tags' = IndexOf(ws)
    /\ mu' = "held"
    /\ UNCHANGED <<scanIn, signal>>

\* capacity.broadcast() and the return that releases StateManager.mu.
Broadcast ==
    /\ mu = "held"
    /\ broadcast
    /\ mu' = "free"
    /\ UNCHANGED <<workers, tags, scanIn>>

\* Statuses judged by the suspicious threshold first.
JudgedSuspiciousFirst(state) ==
    IF state.age > SuspiciousThreshold THEN [state EXCEPT !.status = Suspicious]
    ELSE IF state.age > OfflineThreshold THEN [state EXCEPT !.status = Offline]
    ELSE state

Judged(state) ==
    IF state.age > OfflineThreshold THEN [state EXCEPT !.status = Offline]
    ELSE IF state.age > SuspiciousThreshold THEN [state EXCEPT !.status = Suspicious]
    ELSE state

\* RunTimeoutChecker's ticker fires and CheckTimeouts scans the table.
CheckTimeouts ==
    /\ mu = "free"
    /\ scanIn = 0
    /\ workers' = [w \in DOMAIN workers |-> Judged(workers[w])]
    /\ scanIn' = TimeoutCheckInterval
    /\ UNCHANGED <<tags, mu, signal>>

\* A reservation that does not look for a free slot.
AllocateUnchecked(w) == w \in DOMAIN workers

\* Whether AllocateTask succeeds: the worker is there and has a free slot.
CanAllocate(w) == w \in DOMAIN workers /\ workers[w].available > 0

\* A reservation that counts the task and leaves the free slots as they are.
AllocateCountOnly(w) ==
    /\ mu = "free"
    /\ CanAllocate(w)
    /\ workers' = [workers EXCEPT ![w].currentTasks = @ + 1]
    /\ UNCHANGED <<tags, mu, scanIn, signal>>

\* AllocateTask when it does not return an error.
AllocateTask(w) ==
    /\ mu = "free"
    /\ CanAllocate(w)
    /\ workers' = [workers EXCEPT ![w].currentTasks = @ + 1, ![w].available = @ - 1]
    /\ UNCHANGED <<tags, mu, scanIn, signal>>

\* CapacityChanged only takes the notifier's own mutex.
CapacityChanged(r) == waitChan(r) /\ UNCHANGED <<workers, tags, mu, scanIn>>

Forget(r) == forget(r) /\ UNCHANGED <<workers, tags, mu, scanIn>>

\* The workers CandidatesByTags returns copies of.
CandidatesByTags(required) ==
    IF required = << >> THEN DOMAIN workers
    ELSE candidates(tags, required) \cap DOMAIN workers

Aged(state) == [state EXCEPT !.age = IF @ = AgeCap THEN @ ELSE @ + 1]

\* Time passes; the ticker is served before the next tick.
Tick ==
    /\ scanIn > 0
    /\ scanIn' = scanIn - 1
    /\ workers' = [w \in DOMAIN workers |-> Aged(workers[w])]
    /\ UNCHANGED <<tags, mu, signal>>

SMNext ==
    \/ \E hb \in Heartbeat : HandleHeartbeat(hb)
    \/ \E ws \in Snapshot : LoadSnapshot(ws)
    \/ Broadcast
    \/ CheckTimeouts
    \/ \E w \in Worker : AllocateTask(w)
    \/ \E r \in Request : CapacityChanged(r) \/ Forget(r)
    \/ Tick

SMSpec == SMInit /\ [][SMNext]_smVars

\* mu is fair to a writer that waits for it, its holder goes on to broadcast
\* and return, and time does not stop.
SMFairness ==
    /\ WF_smVars(Broadcast)
    /\ SF_smVars(CheckTimeouts)
    /\ WF_smVars(Tick)

FairSMSpec == SMSpec /\ SMFairness

-----------------------------------------------------------------------------
\* The workers that carry a tag by their own entry in the table.
Carriers(t) == {w \in DOMAIN workers : t \in Range(workers[w].resourceTags)}

(***************************************************************************)
(* The inverted index says of every tag exactly which registered workers   *)
(* carry it, after any mix of registrations, re-ordered, repeated, added   *)
(* and dropped tags and snapshots, and holds no entry for a tag nobody     *)
(* carries.  It is maintained incrementally (tagIndex.update skips the     *)
(* work when sameTags says so) and nothing ever rebuilds it on a master.   *)
(***************************************************************************)
TagIndexExact ==
    /\ DOMAIN tags = UNION {Range(workers[w].resourceTags) : w \in DOMAIN workers}
    /\ \A t \in DOMAIN tags : tags[t] = Carriers(t)

(***************************************************************************)
(* No worker is demoted while its last heartbeat is recent: a heartbeat    *)
(* after a scan takes the demotion back whatever the worker was before.    *)
(***************************************************************************)
DemotedMeansStale == \A w \in DOMAIN workers : StatusFitsAge(workers[w])

(***************************************************************************)
(* The scan lags by at most one interval: a worker still shown online, or  *)
(* suspicious, has been over the threshold for no longer than the time     *)
(* since the last scan, plus the lag of the master's own scan where the    *)
(* entry was replicated: LoadSnapshot takes over the status it is given.   *)
(***************************************************************************)
SinceScan == TimeoutCheckInterval - scanIn

DetectionBound ==
    \A w \in DOMAIN workers : JudgedWithin(workers[w], SinceScan + SnapshotLag)

(***************************************************************************)
(* A worker that falls silent is dropped from the pool: unless it is heard *)
(* from again it ends up offline, though scans and heartbeats of other     *)
(* workers compete for the mutex.  On a standby this is so once its master *)
(* has stopped replicating: until then every list brings the worker back.  *)
(***************************************************************************)
ReplicationEnds == <>[][\A ws \in Snapshot : ~LoadSnapshot(ws)]_smVars

SilentWorkerDropped ==
    ReplicationEnds =>
        \A w \in Worker :
            (w \in DOMAIN workers /\ workers[w].age > 0)
                ~> (w \in DOMAIN workers => workers[w].age = 0 \/ workers[w].status = Offline)
=============================================================================
