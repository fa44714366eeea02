------------------------------- MODULE Stats -------------------------------
(***************************************************************************)
(* What GET /stats and GET /metrics sum up over the worker table: they     *)
(* list the workers under mu.RLock and add up the copies.                  *)
(***************************************************************************)
EXTENDS StateManager

\* ListWorkers
ListWorkers == workers

\* The headcount of one status.
Headcount(ws, status) == Cardinality({w \in DOMAIN ws : ws[w].status = status})

WorkerCounts(ws) ==
    [online |-> Headcount(ws, Online), suspicious |-> Headcount(ws, Suspicious),
     offline |-> Headcount(ws, Offline), total |-> Cardinality(DOMAIN ws)]

CapacitySummary(ws) ==
    [totalSlots |-> SumFunction([w \in DOMAIN ws |-> ws[w].maxTasks]),
     usedSlots |-> SumFunction([w \in DOMAIN ws |-> ws[w].currentTasks]),
     availableSlots |-> SumFunction([w \in DOMAIN ws |-> ws[w].available])]

\* The gauges of HandleStats, and of HandleMetrics, which repeats the loop.
HandleStats ==
    [workers |-> WorkerCounts(ListWorkers), capacity |-> CapacitySummary(ListWorkers)]

(***************************************************************************)
(* The gauges add up.  Every worker is counted under one status, and used  *)
(* and available slots make up the total although each is kept and summed  *)
(* on its own: heartbeats, reservations and snapshots write them together. *)
(***************************************************************************)
StatsAddUp ==
    LET counts   == HandleStats.workers
        capacity == HandleStats.capacity
    IN  /\ counts.online + counts.suspicious + counts.offline = counts.total
        /\ capacity.usedSlots + capacity.availableSlots = capacity.totalSlots
=============================================================================
