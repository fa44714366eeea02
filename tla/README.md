# dtask-scheduler: TLA+ models and proofs

dtask-scheduler hands out tasks: workers report themselves with a heartbeat every
3 s, clients ask for a worker with `POST /api/v1/schedule`, and the scheduler keeps
its view of the workers in memory. This directory models how it decides who gets which
worker, how workers keep it informed, how a standby takes over, and how answers and
metrics come out of concurrent handlers; checks it with TLC and proves what matters
most with TLAPS.

Paths below are those of the repository (`pkg/...`, `cmd/...`).

## 1. Inventory

| Component | State | Operations | Talks to | Hard to get right | What makes it correct |
|---|---|---|---|---|---|
| Capacity notifier, `pkg/scheduler/waitqueue.go` | current channel, mutex | `waitChan`, `broadcast` | called by state manager; waiters hold its channels | close and re-arm are two steps; waiters look without the mutex | no double close (a panic); a broadcast reaches every channel handed out |
| Tag index, `pkg/scheduler/tagindex.go` | tag -> set of workers | `add`, `remove`, `update`, `candidates` | called by state manager under its lock | kept incrementally; `update` skips on `sameTags`; lists may repeat tags | index = what the table says; `candidates` = the workers with all tags |
| State manager, `pkg/scheduler/state.go` | worker table, tag index, RWMutex, config | `UpdateFromHeartbeat`, `LoadSnapshot`, `CheckTimeouts`, `AllocateTask`, `CandidatesByTags`, `CapacityChanged` | handlers, scheduler, ticker, HA | many writers; statuses depend on time | exact index; demotion only of silent workers, and in time; slots accounted |
| Scheduler, `pkg/scheduler/scheduler.go` | per request: position in the loop, picked copy, deadline timer, wakeup channel | `Schedule`, `scheduleOnce`, `filterAvailable`, `selectBestWorker` | state manager, client context | read and reserve are two lock regions; waiting on three channels | right choice; no lost wakeup; deadline honoured; every request answered |
| HTTP handlers, `pkg/scheduler/handlers.go` | - | heartbeat, schedule, list | all of the above, metrics | an attempt is recorded before it is answered, or not at all | a rejected heartbeat changes nothing; counters agree with answers |
| Types, `pkg/types/types.go` | - | `Validate`, `LoadRatio` | everywhere | division by zero, negative counts | |
| Config, `pkg/scheduler/config.go` | thresholds | `Validate`, `withDefaults` | main, state manager | defaults per field can cross | suspicious < offline |
| Heartbeat sender, `pkg/worker/heartbeat.go` | task count, metrics, targets | `Start`, `send`, `UpdateTaskCount`, `AddStandby` | POSTs to one or two schedulers | a send waits for all targets while the ticker goes on; losses, late arrivals, restarts | a live worker is heard of in time; its count is corrected |
| High availability, `pkg/ha/ha.go` and `cmd/scheduler/main.go` | role, failure counter, snapshot in flight | replicate, sync, health check, promote, `requireRole` | two scheduler processes | partitions, stale snapshots, role read before use | at most one promotion; a master's table is not replaced |
| Metrics and endpoints, `pkg/observability` | counters, latency | `RecordSchedule`, `Snapshot`, `HandleStats` | handlers, state manager | counters updated and read one by one | how far a snapshot can be off |
| Middleware, `pkg/middleware` | per request: header written, status | `Recover`, `AccessLog`, `RequestID`, `BodyLimit` | wraps the mux | panics through nested writers | one answer, also after a panic; a true log |
| Client, `pkg/client` | - | `Schedule`, `Heartbeat`, `ListWorkers`, `Health` | the API | 5 s timeout against a wait of up to 60 s; broken answers | its verdict is what `Schedule` returned; a refusal is never told to a holder of a slot |
| Processes, `cmd/scheduler`, `cmd/worker` | - | wiring, shutdown | | | |

Goroutines meet in two places. The state manager's `RWMutex` is taken by every
heartbeat, snapshot, scan and reservation for writing and by every attempt for
reading. The notifier's own mutex is taken inside `broadcast` (with the state
manager's lock held) and by `CapacityChanged` (without it). What is dangerous lies
between the lock regions: between an attempt's read and its reservation, between a
failed attempt and parking in `select`, and between a table update and the broadcast
that announces it. Metrics are atomics of their own, and a response goes through a
chain of writers that belongs to one request. `PROJECT.json` lists the hazards one by one.

## 2. Modules

| Module | Models | State and actions |
|---|---|---|
| `Wakeup` | what a waiter may rely on | `signal[r]`: the waiter has no channel, an open one or a closed one |
| `CapacityNotifier` | `waitqueue.go` in full | channels by number; `broadcast` is `BroadcastClose` then `BroadcastRearm` under `nmu`; shown to implement `Wakeup` |
| `TagIndex` | `tagindex.go` | operators on an index value, used inside state-manager actions |
| `StateManager` | `state.go`, heartbeat validation, `Config.Validate` | `workers`, `tags`, `mu`, `scanIn`; one action per method. Uses `Wakeup` for the notifier |
| `Scheduler` | `scheduler.go` and the handlers around it; `EXTENDS StateManager` | `pc`, `body`, `best`, `waited`, `canceled`, `resp` per request; implements `StateManager` |
| `Stats` | `ListWorkers` and the loops of `HandleStats` and `HandleMetrics`; `EXTENDS StateManager` | operators on the table |
| `HeartbeatSender` | `heartbeat.go` in real time, with the entry one scheduler keeps for the worker | `tickIn`, `ticked` (the ticker and its buffer), `post` per target, `count`, `entry`; the posts, the network, the worker's tasks, stops and restarts |
| `Metrics` | the collector of `observability.go` | `counter` per field; one operator per atomic update; `ReadOrder` of `Snapshot` |
| `Middleware` | `responseWriter`, `Recover`, the line of `AccessLog` | operators on the chain of writers of one request |
| `Client` | how `Client.Schedule` reads an answer | an operator on status and body |
| `Endpoints` | `handlers.go`, `HandleStats`, `requireRole` and `cmd/scheduler`'s middleware chain, composing the last three | per connection `pc`, `reply`, `writers`, `snap`; one action per step of a handler, `Panic` and `Unwind` |
| `Failover` | `ha.go`, `requireRole` and `startHA` of `cmd/scheduler`, the dual send of `heartbeat.go` | per process `up`, `role`, `table`; `posts` (replication requests under way), `flying` (heartbeats under way), `monitor` and `fails` of the standby's `FailoverMonitor`, `linked` |
| `Takeover` | what the second scheduler of a pair promises | `stage` (`follows`, `settling`, `leads`, `down`), `known` workers, `failures` in a row; implemented by `Failover` |
| `MCStateManager`, `MCScheduler`, `MCRequests`, `MCEndpoints` | - | inputs for TLC |
| `CapacityNotifierProofs`, `TagIndexProofs`, `StateManagerProofs`, `SchedulerProofs`, `FailoverProofs`, `HeartbeatSenderProofs`, `EndpointsProofs`, `MetricsProofs` | - | theorems |

There are three refinements. With `CapacityNotifier` => `Wakeup` and `Scheduler` =>
`StateManager`, what is shown of the notifier or of the table alone holds of the whole.
With `Failover` => `Takeover`, two schedulers, their requests and their network come
down to one process seen from outside: it is `down`, it `follows` (a standby), it is
`settling` (promoted, with handlers that were let in before) or it `leads`. The mapping
is `Stage`, the workers in the second process's table, and `failedInRow`.

### How the model relates to the code

*Atomicity.* A region under `StateManager.mu` is one step, with one exception: a
writer that adds capacity updates the table and then broadcasts, and the notifier can
be read without `mu` in between. So the writer's region is two steps,
`UpdateFromHeartbeat` or `LoadSnapshot` and then `Broadcast`, with `mu = "held"`
between them; meanwhile `Arm` (which calls `CapacityChanged`) may run, and no step
that needs `mu` may.

*A request.* `pc[r]` is the place in `Schedule`: `attempt` (first `scheduleOnce`),
`arm` (top of the loop), `retry` (`scheduleOnce` in the loop), `allocate` (between
`CandidatesByTags` and `AllocateTask`), `select`, `done`. A request object stands for
one request; it does not start over.

*Time.* One tick is one millisecond of a waiting request. A worker's `LastHeartbeat`
is its `age` in ticks. `AgeCap` stops an age `SnapshotLag`, one interval and a tick beyond the
offline threshold; no comparison tells larger ages apart. `waited` stops at
`MaxScheduleWait`, where every timer has fired. `scanIn` counts down to the
ticker's next tick; time does not pass a due scan, that is, a scan is served within a
tick.

*Numbers.* `Millisecond` and `DurationHalfRange` are constants, so that the
conversion to a `time.Duration` wraps around in a small instance as it does at 2^63.
Load ratios are fractions. `float64` differs from this only when a difference is
exactly the threshold (0.05 - 0 is within it, 1.0 - 0.95 rounds to just beyond): the
model's set of ties then contains the one of the code.

*Random choice.* `pickIndex` picks any of the workers within the spread of the least
loaded one. Sorting and counting a prefix gives the set of the workers
no more than the threshold busier than every other (`selectBestWorker`).

*Two schedulers.* `Failover` looks at the pair from outside, so a table entry is
reduced to its *lag*: how many heartbeats its worker has sent since the one it was made
from. `SendHeartbeat` raises every lag, in tables and in snapshots under way, and
`TakeHeartbeat` sets one to 0. A replication request is `sent`, then `admitted` by the
role check, then loaded or lost; the replicator may stop waiting for it at any time
(`awaited`), and then sends the next one while the old one is still on its way. The
standby takes requests in any order. A health check is asked (`StartCheck`), perhaps answered
(`AnswerHealth`), and counted as a success only if it was answered; an answered check
may still fail, by its timeout or because the answer is lost. `Crash` takes a process
with its handlers, `Restart` gives it the flags it had and an empty table,
`CutOrHeal` cuts and heals the network between the two; workers reach either one or not,
heartbeat by heartbeat. `failedInRow` is a history variable.

*A worker and its primary.* `HeartbeatSender` has ticks of real time, of which `Interval`,
`Timeout` and `Delay` are counts. Goroutines that can run do so before time advances:
`Clock` waits for a loop that has a tick to take and for a client whose timeout is over.
The ticker fires on its own and buffers one tick. A post is `sent`, then `taken` by the
scheduler or lost, and over when `Post` returns: `answered`, or `failed`; one that takes
longer than `Delay` is `slow`. A heartbeat whose post has failed may still arrive (`late`;
one at a time is kept, any of those that failed), and is taken like any other. `Grant` is
`AllocateTask`; whether its client ever reaches the worker is the choice of
`UpdateTaskCount`. `silent`, `missed` and `quiet` are history variables; `MaxMissed`
bounds the heartbeats the primary misses in a row, `TaskCap` the counts.

*Handlers.* In `Endpoints` each connection carries one request. What a handler does inside
`Schedule` or under the table's lock is one step here, since the other modules have it in
detail; each atomic of `RecordSchedule` and each read of `Snapshot` is a step, and so are
writing the header, writing the body and returning. A body is the list of pieces written,
a status one of those the handlers use. `Panic` may strike in the handler, before or after
the reservation, and around the writes. Recording does not panic. When `Schedule` names a
worker, the worker may have refused the slot: `scheduleOnce` only logs that `AllocateTask`
failed (`Reserving`; `Allocate` in `Scheduler` has when that happens). `reserved` is the
history of who took one. `HandleMetrics` takes its snapshot before it lists the workers
and `HandleStats` after; for the counters there is no difference.

*Left out.* `Address`, `Metrics` and `Timestamp` (stored or carried, never read by a
decision); `TaskID` beyond whether it is empty; log texts; `GetWorker` (only tests call
it). `WorkerNotFound` and
`NoCapacity` are one case of `Allocate`, since the caller treats them alike.

*Assumptions.* `ConfigAssumption` is what `cmd/scheduler` checks before it starts.
`SnapshotAssumption` says that a replicated list is one that another state manager with
the same thresholds and a synchronized clock returned from `ListWorkers` (`Listed`): slots
are positive and exact, statuses fit the ages and lag by at most `SnapshotLag`, that is,
the master's scan interval and the time the list is under way. `DemotedMeansStale`,
`DetectionBound` and `StatsAddUp` need it, and `ReplicatedListsQualify` discharges it: a
master that takes no snapshots itself returns such lists. Clock skew is in the hazards.
`TargetAssumption`, `TimeAssumption` and `CountAssumption` say that times are positive and
that a heartbeat in time is not slower than the client's timeout; `ConnAssumption`, that
connections are finitely many, is needed to count them. `HeartbeatAssumption` and
`RequestAssumption` are the types the JSON decoder enforces.

## 3. Runs

| Run | Asks | Instance, and why it is enough |
|---|---|---|
| `notifier` | double close, lost holders, refinement | 2 waiters, 2 broadcasters, 4 channels (`MaxChannels`): two overlapping broadcasts and holders of old, closing and fresh channels. It stops at the bound, so deadlock is not checked. The theorems have no bound on waiters or broadcasters |
| `state_manager` | index exact, demotion justified and in time, gauges add up, silent workers dropped | 2 workers, 2 tags, 8 tag lists with re-orderings and repetitions, incl. two lists of the same set and length with different multiplicity; an invalid heartbeat; thresholds 2 and 4, interval 2: ages below, at and above each threshold; an empty snapshot and one whose workers are over their thresholds by `SnapshotLag` = 2. 47 334 states |
| `requests` | right choice, accounting, lost wakeups, deadlines, refinement | 2 requests. Either 2 workers, where `w2` has 20 slots so that 1/20 is within 5 % of idle and 2/20 is not, `w1` may report more tasks than slots, and one request only `w2` can serve; or 1 worker with 1 slot, waits of -1, 0, 1, beyond the cap, and one whose product with `Millisecond` wraps around, and snapshots that empty the table or add capacity. Cancellation. `scenario` picks one of the two at the start. A worker keeps its tags here: the index under re-tagging is the business of `state_manager`. 1.4 million states |
| `liveness` | capacity reaches a waiter; every request is answered | 2 requests waiting for the cap of 1 tick, one for a tag nobody has; a worker that is sometimes full and whose heartbeats with a free slot wake both. 77 129 states |
| `failover` | promotion for cause, once, and in the end; a promoted table is safe from snapshots; refinement of `Takeover` | 1 worker, threshold 2 (one failure short, a reset in between, the failure that promotes), `MaxPosts` = 2 (one request given up and a later one that overtakes it), `MaxLag` = 2 (fresh, one behind, older). Any number of crashes, restarts and cuts. 69 174 states; the theorems have no bounds |
| `sender` | the primary's silence is explained, its count corrected | 2 targets; interval 3 and timeout 5 as in the code, delay 1: ticks that fall into a hanging send, two of them in one; `MaxMissed` = 2, counts up to 2. 2.9 million states; the theorems have no bounds |
| `endpoints` | counters, snapshots, answers, log and verdict | 3 connections: an attempt being recorded, one already recorded, and a snapshot between them; each handler, rejection, panic and truncated answer. 2.6 million states; a connection takes one request, so it stops and deadlock is not checked |
| `double_booking` | *violated*: a worker is answered at most as often as it has slots | 2 requests, 1 slot |
| `late_sync` | *violated*: a master rejects snapshots | as `failover` |
| `two_masters` | *violated*: an old master that returns demotes itself | as `failover` |
| `slow_standby` | *violated*: a slow standby does not delay the primary | as `sender` |
| `snapshot` | *violated*: a snapshot is a consistent point-in-time view | as `endpoints`, 2 connections |

Requests are interchangeable in the safety runs of `Scheduler`, which use symmetry;
the liveness runs do not; connections are too. Deadlock is checked in all runs but `notifier`,
`endpoints` and `snapshot`:
heartbeats and time never stop.

### What the violated runs show

*Double booking* (`pkg/scheduler/scheduler.go:114-117`). The comment says a failed
reservation only means that the view raced ahead of a heartbeat. Two requests that
read the table before either reserves get the same last slot without any heartbeat;
the second reservation fails, is logged, and the full worker is returned. What does
hold, and is proved, is `CapacityAccounted`: the counters themselves stay right.

*Late snapshot* (`cmd/scheduler/main.go:121`). The API document says that a master
rejects `/api/v1/sync`. The role is read before the body; a request that stalls in
between, while the master becomes unreachable, is loaded after the promotion. What does
hold, and is proved, is `PromotedKeepsTable`: nothing let in later gets through.

*Two masters* (`pkg/ha/ha.go:258`). The design document has the old master demote itself
when it finds a promoted standby. Nothing in the code sets a role to standby: after
a cut that outlasts the threshold, both are masters until the promoted one is restarted.

*Slow standby* (`pkg/worker/heartbeat.go:109-111`). The comment on `send` says that a slow
standby does not delay delivery to the primary. It does not delay this heartbeat, which the
primary takes and answers in the trace, but `send` waits for all posts, so the next one
comes when the standby's post is over: up to 5 s later, not 3 s. A delay by the primary
itself does not count (`~Idle` while its own post is answered: only a standby is out). What
does hold, and is proved, is `SilenceExplained`: no send delays the next one beyond the
client's timeout, as the ticker keeps a tick meanwhile.

*Inconsistent snapshot* (`pkg/observability/observability.go:68` and `:85`). The comments call a
snapshot of the metrics a consistent point-in-time view. It reads the counters one by one
while `RecordSchedule` adds to them one by one: with an attempt recorded between two reads
it shows one success of no request. The counters never do (theorem `CountersFit`), so it
shows what was true at no time. What does hold, and is proved, is how far off it can be in
either direction (`SnapshotLags`), and that it lacks nothing answered before
(`SnapshotCoversAnswered`).

No run is about suspicious workers, because the repository contradicts itself there. The
filter takes online workers only (`pkg/scheduler/scheduler.go:131`, `filterAvailable`). The
design document, `docs/plans/2025-12-14-distributed-scheduler-design.md`, lowers the priority
of a suspicious worker and removes only an offline one (lines 122 and 386-387); its
pseudo-code (line 146) skips any worker that is not online, as the code does, although
its comment names only offline and full ones (line 147).

### Fairness

`ServeFairness`: goroutines that can run do run (WF), and a goroutine waiting for
`mu` gets it although others keep taking it (SF on the steps that lock): Go's
`sync.RWMutex` blocks new readers when a writer waits and lets waiting readers in when
it unlocks. A writer that holds `mu` goes on to broadcast (WF).
`FairSpec` of `Scheduler` has no other fairness, so that no deadline can rescue a missed
wakeup in `CapacityReachesWaiter`. `TimeFairness` is a premise of `EveryRequestAnswered`
only: time passes (WF on `Clock`), the scan gets the lock (SF), and SF on
`TimeOut`, since `select` chooses at random among the channels that are ready, so
a deadline that has fired and is offered again and again is taken. Clients need not
cancel and workers need not send anything: no fairness there. `SMFairness` is the same
for the table alone. `SilentWorkerDropped` has the premise `ReplicationEnds`: snapshots that
keep coming may bring a silent worker back each time, as long as the master has it.
`MonitorFairness`: the standby's ticker fires, and a check ends because its client has
a timeout (WF on each). `ReplicationFairness`: the replicator goes on and a request that
can be handled is; it is there for the violated run, so that the two masters are not
two processes that stand still. Crashes, restarts, cuts and losses are never owed.

## 4. Theorems

All theorems hold for any workers, tags, requests, heartbeats and snapshots that the
named assumptions admit, for any connections, schedulers and times.

| Theorem | Says |
|---|---|
| `NotifierInductive`, `NeverClosesTwice`, `BroadcastWakesAll`, `NotifierImplementsWakeup` | the notifier, for any number of goroutines and channels up to `MaxChannels` |
| `SameTagsSameSet`, `UpdateExact`, `CandidatesExact` | the index operators, over any tag lists |
| `SMTypeCorrect`, `TagIndexAlwaysExact`, `DemotedAlwaysStale`, `DetectionBounded` | the state manager |
| `StatsAlwaysAddUp` | the sums of `/stats` and `/metrics`, over any number of workers |
| `ReplicatedListsQualify` | what a state manager assumes of replicated lists, its own lists satisfy |
| `TypeCorrect`, `SchedulerUsesStateManager` | the scheduler's types; it refines `StateManager` |
| `TableSoundUnderRequests` | by that refinement: demotion, detection and sums, whatever requests reserve |
| `AttemptAlwaysDecides` | an attempt for which a worker could serve has one to pick |
| `AttemptsDecideRight`, `CapacityAlwaysAccounted`, `NoWakeupLost`, `BudgetAlwaysHonoured` | the scheduler's choices, accounting, wakeups and deadlines |
| `MonitorAlwaysGuards`, `PromotionHasCause`, `PromotedNodeKeepsTable` (and `TypeCorrect`) | failover, for any workers, threshold and bounds |
| `PairImplementsTakeover`, `LeaderForgetsNobody` | the pair refines `Takeover`; what that gives clients of a promoted node |
| `SilenceAlwaysExplained`, `AlwaysCorrected` (and `TypeCorrect`) | the heartbeat sender, for any interval, timeout, delay and targets |
| `ThresholdToleratesMisses` | how many missed heartbeats in a row a threshold forgives |
| `WireFollows`, `AnswersAreOne`, `LogAlwaysMatches`, `VerdictsTrue` (and `TypeCorrect`) | answers, for any number of connections |
| `CountersAlwaysTrue`, `CountersFit`, `SnapshotsFollow`, `SnapshotsCoverAnswered`, `SnapshotsLag` | metrics, for any number of concurrent handlers |

*Notifier.* `NeverCloseTwice` is not inductive: `NotifierInv` adds that the mutex is
held exactly while one broadcaster is between its two steps, that its channel is then
closed, that no channel beyond the current one is closed, and that an open channel in
somebody's hands is the current one. The last part gives `BroadcastWakesAll` and the
refinement: `BroadcastClose` is the abstract `broadcast` (it closes every open
signal) and `BroadcastRearm` is a stutter.

*Tag index.* `sameTags` compares multisets by counting. `SameTagsSameSet` needs
that if `b` has the length of `a` and no tag occurs more often in `b` than in `a`, then
`a` has no tag that `b` lacks. The proof maps the positions of `b` injectively into
those of `a`; the map is then onto. `AddExact` and `RemoveExact` give `UpdateExact`,
and with it each action preserves `TagIndexExact`, whose invariant also needs
`SMTypeOK`. `DemotedMeansStale` is inductive with the types: time only raises ages and
a heartbeat resets age and status together. `DetectionBound` relates ages to the time since
the last scan: `Tick` raises both by one, and a scan sets one to zero after it has
judged every worker.

*Sums.* `CapacitySummary` adds up a field over the table with a fold. `SumsExist` shows that
the recursive function behind the fold exists on finite sets, `SumUnfolds` that it takes one
element off, and `SumsAddUp` that sums over one table add up if the entries do. The induction
is over sets of subsets, ordered by their cardinality (`InductionOnSet`), because an induction
theorem that takes a predicate cannot be used. `StatsAddUp` is not inductive: sums can agree
while entries do not. `FreeSlotsExact` strengthens it entry by entry.

*Replicated lists.* A list under way only ages (`DeliveryAges`). With `FreeSlotsExact`,
`DemotedMeansStale` and `DetectionBound` the list satisfies `Listed` when it is taken, with the
lag of one scan interval and what the node's own snapshots lagged, and so on arrival with the
time under way on top. With no snapshots at the master the lag is
`TimeoutCheckInterval + ticks`, to be covered by the `SnapshotLag` of its standby. A node
promoted from a standby has lagged once more; it replicates to nobody.

*Scheduler.* `SchedulerUsesStateManager` gives it every theorem of the state manager,
so `TagIndexExact` holds; `SelectableExact` concludes that the filtered candidates are
exactly the workers that the table says could serve the request. That settles
`AttemptsDecideRight` (the least loaded worker is within its own spread; a pick
is within the spread of all), and in `NoWakeupLost` the one step that parks a
request: it parks holding a channel only after an attempt that saw no worker. Every
other step either makes no worker able to serve a parked request
(`QuietStepKeepsWakeups`), or holds `mu` until the broadcast, which closes every
open channel. `CapacityAlwaysAccounted` is a statement per worker, preserved because
`AllocateTask` looks again under the lock.

`AttemptAlwaysDecides` needs that among finitely many workers with positive slots one is
least loaded (`LeastLoaded`, an induction over the set). Loads are compared as fractions by
cross-multiplication, which is an order only between positive denominators (`RatioOrder`);
that slots are positive is part of `FreeSlotsExact`.

`BudgetAlwaysHonoured` needs that only a request with a positive wait ever waits
(`WaitsArePatient`); then the clamped wait in nanoseconds is in the range of a `Duration`,
where the conversion wraps nothing around, and multiplying keeps the order.

*Failover.* The inductive invariant joins the types, `MonitorGuardsStandby` and
`CountIsTrue` (`fails <= failedInRow`). The second says that a check that fails at all
fails in a standby, so a promotion ends the only monitor there is; the third turns the
counter's comparison with the threshold into the statement about checks that
`PromotedForCause` makes. For `PromotedKeepsTable` only `LoadSync` could break the
table, and it needs an admitted request: a settled node has none, and `requireRole` admits none
while the role is master, which only the process's death ends.

*Takeover.* The initial state maps to the abstract one, and `PairImplementsTakeover` has
one lemma per group of actions. A heartbeat that arrives is `Register`; one that is sent,
and a lost one, are stutters, since lags are abstracted away. `LoadSync` is `Load`, and it
ends `settling` if no other request is admitted. A request that is lost is `Drop`.
`CheckFails` is `HealthFails`: a check only fails while the node follows
(`MonitorGuardsStandby`), and one that promotes it is the last of enough failures
(`CountIsTrue`). The other process is not in the picture: its crash only changes who waits
for a request. `LeaderForgetsNobody` is then read off the abstract actions.

*Heartbeat sender.* The inductive invariant of a running worker has four parts.
`TickIsDue`: while no tick is buffered, the time since the last send and the time to the
next tick make one interval, so a send follows within a gap, the larger of interval and
timeout. `SilenceSoFar`: silence is at most a gap per missed heartbeat, plus one if the last
heartbeat is under way in time, plus the time since it was sent. `ReportsCount`: a heartbeat
sent after the last disturbance carries the worker's count. `OffSince`: an entry that
differs was disturbed after the last send, or that heartbeat is on its way. The two
theorems follow with `sinceSend <= Gap`, for which `Clock` needs all of it.
`ThresholdToleratesMisses` turns silence into a rule for the flags: with gaps of 5 s at worst,
the suspicious threshold of 10 s is sure to forgive a miss only if heartbeats arrive at once,
and the offline threshold of 20 s forgives two that take up to 5 s to arrive.

*Answers.* `WireInv` says what the three writers of a request hold at each place of its
handler: nothing before the header, then three times the same status, then the same
body. So `Recover` finds its own writer fresh exactly if the wire is, which gives
`AnswerIsOne`; a line is printed only after a complete answer, which gives
`LogMatchesWire`. `Honest` says of a scheduling request that is being answered that it
carries the worker `Schedule` named, with a slot or without, or else an error, and no slot
is held. A body is read as a verdict only if it is one complete piece, so this gives
`VerdictTrue`: a refusal means that no slot is held, a worker that `Schedule` named it. It
does not mean that a slot is held: that is the run `double_booking`.

*Metrics.* `Counted` says that each counter is the number of handlers past its update;
a step moves one handler past at most one counter. From it, requests exceed outcomes by
the attempts between two updates (`CountersRelate`). Counters only grow, and a request that
is done stays so, so what a snapshot has read is at least what was done when it was
asked for (`Covers`). For `SnapshotLags`, outcomes read later are at least the
outcomes at the time the requests were read, and latency was read before the requests; in
the other direction, outcomes that were read are at most the outcomes now, and these at most
the requests now (`CountersFit`).

*Only model-checked.* Liveness (`EveryRequestAnswered`, `CapacityReachesWaiter`,
`SilentWorkerDropped`, `TakesOver`) is out of the prover's reach, and so are the fairness
formulas they rest on. Every safety property of a passing run is also a theorem.

## 5. Not modelled

- `Config.withDefaults` replaces values that `Validate` rejects, so it changes nothing in a
  scheduler that has started.
- The client's `Heartbeat`, `ListWorkers` and `Health`, its options and error texts:
  one request and one status each, no state.
- The total and the maximum of the latency, the mean load ratio and the Prometheus text.
- Request IDs: random bytes that are handed on.
- JSON: a body is either decoded or not. `UpdateTaskCount` stores 32 bits; `TaskCap` is
  far below.
- Flags, server timeouts and signals. `main` returns as soon as `Shutdown` has begun, so a
  scheduler's shutdown is a crash to the models; a worker's is `Stop`.
- Clock skew between two schedulers: it needs two clocks. `Failover` has lags instead of
  times, so the gap that a restarted master leaves in its standby's table is in the
  model, but not bounded.
- Rounding of load ratios at the boundary of the spread (see *Numbers*).
- `GetWorker`, which only tests call, and the tests themselves.

## 6. Running it

```
tlc -workers 2 -config MCRequests.cfg MCRequests.tla
tlapm SchedulerProofs.tla
```

`PROJECT.json` names, for each run, its module and configuration, for each property
a change to a mapped definition that breaks it, and for each definition the lines it
models.
