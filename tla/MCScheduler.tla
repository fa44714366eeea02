---------------------------- MODULE MCScheduler ----------------------------
(***************************************************************************)
(* Small instances of Scheduler for TLC.                                   *)
(***************************************************************************)
EXTENDS Scheduler, TLC

CONSTANTS w1, w2, gpu, cpu

Symmetry == Permutations(Request)

Beat(w, ts, max, cur) ==
    [workerID |-> w, resourceTags |-> ts, maxTasks |-> max, currentTasks |-> cur]

Body(ts, wait) == [validTask |-> TRUE, requiredTags |-> ts, maxWaitMS |-> wait]

\* w1 takes one task; w2 takes twenty, so that its ratio is just within the
\* spread of an idle w1 (1/20) or just out of it (2/20); w1 may also report
\* more tasks than it has slots.
SpreadBeats ==
    {Beat(w1, <<gpu>>, 1, 0), Beat(w1, <<gpu>>, 1, 2)} \cup
    {Beat(w2, <<gpu, cpu>>, 20, cur) : cur \in {1, 2}}

\* One request can be served by both workers, the other one by w2 only.
SpreadBodies == {Body(<<gpu>>, 0), Body(<<cpu, gpu>>, 2)}

-----------------------------------------------------------------------------
\* One worker with one slot, and requests that differ in how long they wait:
\* not at all, for less than the cap, for more, and for so long that the wait
\* in nanoseconds overflows a Duration unless it is clamped first.
OneSlotBeats == {Beat(w1, <<gpu>>, 1, cur) : cur \in {0, 1}}

WaitBodies ==
    {Body(<<gpu>>, wait) : wait \in {-1, 1, MaxScheduleWait + 1, MaxScheduleWait + 2}}
        \cup {[validTask |-> FALSE, requiredTags |-> << >>, maxWaitMS |-> 1],
              Body(<< >>, 0)}

\* What a master may have replicated: w1 busy and silent for a while, or the
\* pool before w1 registered.
OneSlotSnapshots ==
    {[w \in {} |-> {}],
     [w \in {w1} |-> [resourceTags |-> <<gpu>>, maxTasks |-> 1, currentTasks |-> 0,
                      available |-> 1, age |-> 1, status |-> Online]]}

\* For liveness: two requests, one of which w1 never can serve though every
\* heartbeat that announces its slot wakes it.
PatientBodies == {Body(<<gpu>>, MaxScheduleWait), Body(<<cpu>>, MaxScheduleWait)}

\* A worker that always reports its slot as free, and requests that fail fast.
FreeSlotBeats == {Beat(w1, <<gpu>>, 1, 0)}
HastyBodies == {Body(<<gpu>>, 0)}
=============================================================================
