--------------------------- MODULE MCStateManager ---------------------------
(***************************************************************************)
(* A small instance of StateManager, with the sums of Stats, for TLC.      *)
(***************************************************************************)
EXTENDS Stats

CONSTANTS w1, w2, gpu, cpu

Beat(w, ts, max, cur) ==
    [workerID |-> w, resourceTags |-> ts, maxTasks |-> max, currentTasks |-> cur]

Held(ts, max, cur, age, status) ==
    [resourceTags |-> ts, maxTasks |-> max, currentTasks |-> cur, available |-> max - cur,
     age |-> age, status |-> status]

\* w1 re-orders, repeats, adds and drops tags: <<gpu, cpu, cpu>> and
\* <<gpu, gpu, cpu>> have the same tags and length.  w2 only drops and adds.
RetaggingBeats ==
    {Beat(w1, ts, 1, 0) :
        ts \in {<<gpu>>, <<gpu, cpu>>, <<cpu, gpu>>, <<gpu, gpu>>,
                <<gpu, cpu, cpu>>, <<gpu, gpu, cpu>>}}
    \cup {Beat(w2, <<gpu>>, 1, 1), Beat(w2, << >>, 1, 0), Beat(EmptyID, <<gpu>>, 1, 0)}

\* An empty pool, and one whose workers were over their thresholds when the
\* list was read, one of them not yet found out by the master's scan.
RetaggingSnapshots ==
    {[w \in {} |-> {}],
     [w \in {w1, w2} |->
        IF w = w1 THEN Held(<<gpu, gpu>>, 2, 1, SuspiciousThreshold + SnapshotLag, Online)
        ELSE Held(<<cpu, gpu>>, 1, 0, OfflineThreshold, Suspicious)]}
=============================================================================
