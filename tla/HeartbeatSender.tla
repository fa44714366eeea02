--------------------------- MODULE HeartbeatSender ---------------------------
(***************************************************************************)
(* pkg/worker/heartbeat.go: the loop that posts the worker's task count to *)
(* the primary scheduler and every standby, in real time, together with    *)
(* the entry the primary keeps for this worker.  A send waits for all its  *)
(* posts; a post ends with an answer, an error, or the client's timeout,   *)
(* and what the scheduler never took may still arrive later.               *)
(*                                                                         *)
(* Time is discrete, and goroutines that can run do so before it advances. *)
(***************************************************************************)
EXTENDS Integers

CONSTANTS Target,      \* the schedulers a heartbeat is posted to
          Primary,     \* the one at schedulerURL
          Interval,    \* HeartbeatSender.interval
          Timeout,     \* httpClient.Timeout
          Delay,       \* the time a heartbeat takes that is neither lost nor slow
          MaxTasks,    \* maxTasks
          TaskCap,     \* bound: the largest count the worker stores
          MaxMissed,   \* bound: heartbeats the primary may miss in a row
          NoReport     \* no count: no entry for the worker, no late heartbeat

ASSUME TargetAssumption == Primary \in Target

ASSUME TimeAssumption ==
    /\ {Interval, Timeout} \subseteq Nat \ {0}
    /\ Delay \in 0 .. Timeout

ASSUME CountAssumption ==
    /\ {MaxTasks, TaskCap, MaxMissed} \subseteq Nat
    /\ NoReport \notin Nat

VARIABLES running,     \* whether the worker process runs
          tickIn,      \* ticks until the ticker fires
          ticked,      \* ticker.C, which buffers one tick
          post,        \* what became of the last heartbeat, per target
          sinceSend,   \* ticks since it was sent
          reported,    \* the count it carries
          count,       \* currentTasks
          late,        \* the count of a heartbeat to the primary whose post is over
          entry,       \* CurrentTasks of the worker in the primary's table
          silent,      \* history: ticks since the primary heard from this process
          missed,      \* history: heartbeats lost or slow since then
          quiet        \* history: ticks since the last change of count or entry
                       \* that was not a heartbeat in time

senderVars  == <<running, tickIn, ticked, post, sinceSend, reported, count>>
primaryVars == <<late, entry, silent, missed, quiet>>
vars == <<senderVars, primaryVars>>

\* The longest time between two sends: a tick that fires meanwhile is buffered.
Gap == IF Interval >= Timeout THEN Interval ELSE Timeout

\* "slow" has been under way for longer than Delay; "taken" is processed by the
\* scheduler and only waits for the answer.  A post that is over was answered or
\* returned an error.
Over == {"answered", "failed"}
PostState == {"sent", "slow", "taken"} \cup Over

TypeOK ==
    /\ running \in BOOLEAN
    /\ tickIn \in 1 .. Interval
    /\ ticked \in BOOLEAN
    /\ post \in [Target -> PostState]
    /\ sinceSend \in 0 .. Gap
    /\ reported \in Nat /\ count \in Nat
    /\ late \in Nat \cup {NoReport} /\ entry \in Nat \cup {NoReport}
    /\ silent \in Nat /\ missed \in Nat
    /\ quiet \in 0 .. Gap + Delay + 1

\* wg.Wait has returned.
Idle == \A t \in Target : post[t] \in Over

\* Start makes the ticker and sends at once.
Started(n) ==
    /\ running' = TRUE
    /\ tickIn' = Interval
    /\ ticked' = FALSE
    /\ post' = [t \in Target |-> "sent"]
    /\ sinceSend' = 0
    /\ reported' = n
    /\ count' = n

Init ==
    /\ running = TRUE
    /\ tickIn = Interval
    /\ ticked = FALSE
    /\ post = [t \in Target |-> "sent"]
    /\ sinceSend = 0
    /\ reported = 0
    /\ count = 0
    /\ late = NoReport
    /\ entry = NoReport
    /\ silent = 0
    /\ missed = 0
    /\ quiet = 0

-----------------------------------------------------------------------------
\* The loop takes a tick and sends the count of this moment to all targets.
Send ==
    /\ running /\ ticked /\ Idle
    /\ ticked' = FALSE
    /\ post' = [t \in Target |-> "sent"]
    /\ sinceSend' = 0
    /\ reported' = count
    /\ UNCHANGED <<running, tickIn, count, primaryVars>>

\* An update of the entry that keeps the reservations made meanwhile.
HearLargest(n) ==
    /\ entry' = IF entry # NoReport /\ entry > n THEN entry ELSE n
    /\ silent' = 0
    /\ missed' = 0

\* UpdateFromHeartbeat: the count of the heartbeat replaces the entry's.
Hear(n) ==
    /\ entry' = n
    /\ silent' = 0
    /\ missed' = 0

\* A scheduler takes the heartbeat.
Take(t) ==
    /\ running
    /\ post[t] \in {"sent", "slow"}
    /\ post' = [post EXCEPT ![t] = "taken"]
    /\ IF t = Primary THEN Hear(reported) ELSE UNCHANGED <<entry, silent, missed>>
    /\ UNCHANGED <<running, tickIn, ticked, sinceSend, reported, count, late, quiet>>

\* Post returns the scheduler's answer to a heartbeat that was taken.
Answer(t) ==
    /\ running
    /\ post[t] = "taken"
    /\ post' = [post EXCEPT ![t] = "answered"]
    /\ UNCHANGED <<running, tickIn, ticked, sinceSend, reported, count, primaryVars>>

\* Another heartbeat does not reach the primary in time.
Miss ==
    /\ missed < MaxMissed
    /\ missed' = missed + 1
    /\ quiet' = 0

\* Post returns an error, at the latest when the client's timeout expires.  A
\* heartbeat that was on its way may be gone or arrive later; of one that was
\* taken only the answer is lost.
Fail(t) ==
    /\ running
    /\ post[t] \notin Over
    /\ post' = [post EXCEPT ![t] = "failed"]
    /\ IF t = Primary
       THEN /\ late' \in IF post[t] = "taken" THEN {late} ELSE {late, reported}
            /\ IF post[t] = "sent" THEN Miss ELSE UNCHANGED <<missed, quiet>>
       ELSE UNCHANGED <<late, missed, quiet>>
    /\ UNCHANGED <<running, tickIn, ticked, sinceSend, reported, count, entry, silent>>

\* A late heartbeat is taken like any other: its timestamp is not looked at.
LateArrival ==
    /\ late # NoReport
    /\ Hear(late)
    /\ late' = NoReport
    /\ quiet' = 0
    /\ UNCHANGED senderVars

LoseLate ==
    /\ late # NoReport
    /\ late' = NoReport
    /\ UNCHANGED <<senderVars, entry, silent, missed, quiet>>

-----------------------------------------------------------------------------
\* The worker's tasks start and finish.
UpdateTaskCount(n) ==
    /\ running
    /\ count' = n
    /\ quiet' = 0
    /\ UNCHANGED <<running, tickIn, ticked, post, sinceSend, reported, late, entry, silent,
                   missed>>

\* AllocateTask reserves a slot for a client that may reach the worker or not.
Grant ==
    /\ entry # NoReport
    /\ entry < MaxTasks
    /\ entry' = entry + 1
    /\ quiet' = 0
    /\ UNCHANGED <<senderVars, late, silent, missed>>

\* The primary restarts with an empty table.
PrimaryRestarts ==
    /\ entry' = NoReport
    /\ quiet' = 0
    /\ UNCHANGED <<senderVars, late, silent, missed>>

\* The worker process ends: its context is canceled, or it dies in mid send.
Stop ==
    /\ running
    /\ running' = FALSE
    /\ late' \in IF post[Primary] \in {"sent", "slow"} THEN {late, reported} ELSE {late}
    /\ UNCHANGED <<tickIn, ticked, post, sinceSend, reported, count, entry, silent, missed,
                   quiet>>

\* The worker is started again, without tasks.
Restart ==
    /\ ~running
    /\ Started(0)
    /\ silent' = 0
    /\ missed' = 0
    /\ quiet' = 0
    /\ UNCHANGED <<late, entry>>

\* The posts that this tick makes slow.
Slowed == {t \in Target : post[t] = "sent" /\ sinceSend = Delay}

\* A ticker whose tick is lost when the loop is not there to receive it.
TickUnbuffered ==
    /\ tickIn' = IF tickIn = 1 THEN Interval ELSE tickIn - 1
    /\ ticked' = (tickIn = 1 /\ Idle)

\* The ticker fires every Interval and drops the tick if one is buffered.
TickerRuns ==
    /\ tickIn' = IF tickIn = 1 THEN Interval ELSE tickIn - 1
    /\ ticked' = (ticked \/ tickIn = 1)

\* A client without a timeout.
NeverExpires(t) == FALSE

\* The client's timeout for this post is over: it returns before time goes on.
Expired(t) == post[t] \notin Over /\ sinceSend >= Timeout

Clock ==
    /\ running
    /\ ~(ticked /\ Idle)
    /\ \A t \in Target : ~Expired(t)
    /\ TickerRuns
    /\ sinceSend' = sinceSend + 1
    /\ silent' = silent + 1
    /\ post' = [t \in Target |-> IF t \in Slowed THEN "slow" ELSE post[t]]
    /\ IF Primary \in Slowed THEN Miss
       ELSE /\ quiet' = IF quiet <= Gap + Delay THEN quiet + 1 ELSE quiet
            /\ UNCHANGED missed
    /\ UNCHANGED <<running, reported, count, late, entry>>

Next ==
    \/ Send
    \/ \E t \in Target : Take(t) \/ Answer(t) \/ Fail(t)
    \/ LateArrival \/ LoseLate
    \/ \E n \in 0 .. TaskCap : UpdateTaskCount(n)
    \/ Grant
    \/ PrimaryRestarts
    \/ Stop \/ Restart
    \/ Clock

Spec == Init /\ [][Next]_vars

-----------------------------------------------------------------------------
(***************************************************************************)
(* The primary's silence has a reason.  It hears from a running worker in  *)
(* the time of one gap between sends and a delivery, and every heartbeat   *)
(* that is lost or slow adds one gap: ticks that fire during a send that   *)
(* hangs are kept, and the client's timeout lets no send hang for longer.  *)
(* With the defaults (3 s, 5 s) one missed heartbeat can already make a    *)
(* worker suspicious after 10 s if a scheduler hangs.                      *)
(***************************************************************************)
SilenceExplained == running => silent <= (missed + 1) * Gap + Delay

(***************************************************************************)
(* The optimistic count is corrected.  When for one gap and one delivery   *)
(* nothing happened at the worker and no heartbeat was lost or late, the   *)
(* primary's entry is the worker's own count: reservations whose clients   *)
(* never came are given back, a late report that replaced a newer one is   *)
(* replaced again, and a primary that restarted knows the worker.          *)
(***************************************************************************)
Corrected == running /\ quiet > Gap + Delay => entry = count

(***************************************************************************)
(* The comment on send: heartbeats are posted concurrently so a slow       *)
(* standby does not delay delivery to the primary.  Then, once the primary *)
(* has taken a heartbeat and answered it, a send that still waits for a    *)
(* standby does not last beyond the Interval after which the next is due.  *)
(***************************************************************************)
StandbyNeverInTheWay ==
    running /\ post[Primary] = "answered" /\ ~Idle => sinceSend <= Interval
=============================================================================
