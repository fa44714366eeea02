----------------------------- MODULE MCRequests -----------------------------
(***************************************************************************)
(* Requests against two instances of the rest of the system, for TLC.      *)
(***************************************************************************)
EXTENDS MCScheduler

AllBeats  == SpreadBeats \cup OneSlotBeats
AllBodies == SpreadBodies \cup WaitBodies

\* Two scenarios in one instance: two workers that compete by their load, or
\* one worker with one slot that requests wait for and snapshots replace.
VARIABLE scenario

Beats     == IF scenario = "spread" THEN SpreadBeats ELSE OneSlotBeats
Bodies    == IF scenario = "spread" THEN SpreadBodies ELSE WaitBodies
Snapshots == IF scenario = "spread" THEN {} ELSE OneSlotSnapshots

MCInit == Init /\ scenario \in {"spread", "waiting"}

\* Next, with the inputs of the scenario.
MCNext ==
    /\ \/ \E r \in Request, b \in Bodies : Arrive(r, b)
       \/ \E r \in Request : Serve(r) \/ Cancel(r)
       \/ \E hb \in Beats : PostHeartbeat(hb)
       \/ \E ws \in Snapshots : Replicate(ws)
       \/ FinishBroadcast
       \/ Scan
       \/ Clock
    /\ UNCHANGED scenario

MCSpec == MCInit /\ [][MCNext]_<<vars, scenario>>
=============================================================================
