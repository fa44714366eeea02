------------------------------ MODULE Failover ------------------------------
(***************************************************************************)
(* pkg/ha/ha.go as cmd/scheduler/main.go wires it: two schedulers, one     *)
(* started with --role=master, which replicates its table to its peer, and *)
(* one started with --role=standby, which health-checks its peer and       *)
(* promotes itself.  Processes crash and are started again with the same   *)
(* flags, and the network between them fails.                              *)
(*                                                                         *)
(* Of a worker's entry only its lag is kept: how many heartbeats the       *)
(* worker has sent since the one the entry was made from, up to MaxLag.    *)
(***************************************************************************)
EXTENDS Integers, FiniteSets

CONSTANTS Worker,          \* worker IDs
          FailThreshold,   \* --failover-threshold
          MaxLag,          \* bound: lags are not told apart beyond this one
          MaxPosts         \* bound on the replication requests in flight

ASSUME FailoverAssumption ==
    /\ FailThreshold \in Int
    /\ MaxLag \in Nat
    /\ MaxPosts \in Nat

Master  == "master"
Standby == "standby"

\* The two processes, named by the --role they are started with.
First  == "first"
Second == "second"
Node   == {First, Second}

StartRole(n) == IF n = First THEN Master ELSE Standby

VARIABLES up,           \* the processes that run
          linked,       \* whether the two can reach each other
          role,         \* each process's RoleHolder
          table,        \* each process's table: worker ID -> lag
          flying,       \* <<w, n>>: w's heartbeat on its way to n
          posts,        \* the replication requests on their way or in a handler
          monitor,      \* what the second process's FailoverMonitor is doing
          fails,        \* its consecutiveFails
          failedInRow   \* history: health checks failed since one succeeded

vars == <<up, linked, role, table, flying, posts, monitor, fails, failedInRow>>

Table == UNION {[W -> 0 .. MaxLag] : W \in SUBSET Worker}

\* A request is "sent" until the handler's role check lets it in, and awaited
\* until the replicator has its answer or gives up.
Post == [snapshot : Table, stage : {"sent", "admitted"}, awaited : BOOLEAN]

TypeOK ==
    /\ up \in SUBSET Node
    /\ linked \in BOOLEAN
    /\ role \in [Node -> {Master, Standby}]
    /\ table \in [Node -> Table]
    /\ flying \in SUBSET (Worker \X Node)
    /\ posts \in SUBSET Post
    /\ monitor \in {"waiting", "checking", "answered", "stopped"}
    /\ fails \in Nat
    /\ monitor # "stopped" => fails = 0 \/ fails < FailThreshold
    /\ failedInRow \in Nat

EmptyTable == [w \in {} |-> 0]

Init ==
    /\ up = Node
    /\ linked = TRUE
    /\ role = [n \in Node |-> StartRole(n)]
    /\ table = [n \in Node |-> EmptyTable]
    /\ flying = {}
    /\ posts = {}
    /\ monitor = "waiting"
    /\ fails = 0
    /\ failedInRow = 0

-----------------------------------------------------------------------------
\* A worker's sender posts each heartbeat to both schedulers at once and
\* waits for both posts to end before the next one.

Missed(t, w) ==
    [v \in DOMAIN t |-> IF v = w /\ t[v] < MaxLag THEN t[v] + 1 ELSE t[v]]

Heard(t, w) == [v \in DOMAIN t \cup {w} |-> IF v = w THEN 0 ELSE t[v]]

\* Entries made from earlier heartbeats fall behind.
SendHeartbeat(w) ==
    /\ \A n \in Node : <<w, n>> \notin flying
    /\ flying' = flying \cup ({w} \X Node)
    /\ table' = [n \in Node |-> Missed(table[n], w)]
    /\ posts' = {[p EXCEPT !.snapshot = Missed(@, w)] : p \in posts}
    /\ UNCHANGED <<up, linked, role, monitor, fails, failedInRow>>

\* HandleHeartbeat needs no role.
TakeHeartbeat(w, n) ==
    /\ <<w, n>> \in flying
    /\ n \in up
    /\ flying' = flying \ {<<w, n>>}
    /\ table' = [table EXCEPT ![n] = Heard(@, w)]
    /\ UNCHANGED <<up, linked, role, posts, monitor, fails, failedInRow>>

LoseHeartbeat(w, n) ==
    /\ <<w, n>> \in flying
    /\ flying' = flying \ {<<w, n>>}
    /\ UNCHANGED <<up, linked, role, table, posts, monitor, fails, failedInRow>>

-----------------------------------------------------------------------------
\* Replication: the first process's Replicator and the second one's /sync.

\* ReplicateOnce up to client.Do; one call at a time.
Replicate ==
    /\ First \in up
    /\ \A p \in posts : ~p.awaited
    /\ Cardinality(posts) < MaxPosts
    /\ posts' = posts \cup {[snapshot |-> table[First], stage |-> "sent", awaited |-> TRUE]}
    /\ UNCHANGED <<up, linked, role, table, flying, monitor, fails, failedInRow>>

\* client.Do fails on the replicator's side; the request may still be handled.
GiveUpPost(p) ==
    /\ p.awaited
    /\ posts' = (posts \ {p}) \cup {[p EXCEPT !.awaited = FALSE]}
    /\ UNCHANGED <<up, linked, role, table, flying, monitor, fails, failedInRow>>

\* The request, or its body, never arrives.
LosePost(p) ==
    /\ posts' = posts \ {p}
    /\ UNCHANGED <<up, linked, role, table, flying, monitor, fails, failedInRow>>

\* A /sync without the role check.
AdmitUnchecked(p) ==
    /\ p.stage = "sent"
    /\ Second \in up /\ linked
    /\ posts' = (posts \ {p}) \cup {[p EXCEPT !.stage = "admitted"]}
    /\ UNCHANGED <<up, linked, role, table, flying, monitor, fails, failedInRow>>

\* requireRole(standby) reads the role and calls the handler, or answers 503.
Admit(p) ==
    /\ p.stage = "sent"
    /\ Second \in up /\ linked
    /\ posts' = (posts \ {p}) \cup
                  (IF role[Second] = Standby THEN {[p EXCEPT !.stage = "admitted"]} ELSE {})
    /\ UNCHANGED <<up, linked, role, table, flying, monitor, fails, failedInRow>>

\* The handler has decoded the body and calls LoadSnapshot.
LoadSync(p) ==
    /\ p.stage = "admitted"
    /\ Second \in up
    /\ table' = [table EXCEPT ![Second] = p.snapshot]
    /\ posts' = posts \ {p}
    /\ UNCHANGED <<up, linked, role, flying, monitor, fails, failedInRow>>

-----------------------------------------------------------------------------
\* The second process's FailoverMonitor.

\* The ticker fires and checkHealth sends its request.
StartCheck ==
    /\ Second \in up
    /\ monitor = "waiting"
    /\ monitor' = "checking"
    /\ UNCHANGED <<up, linked, role, table, flying, posts, fails, failedInRow>>

\* /healthz of the first process answers 200.
AnswerHealth ==
    /\ First \in up /\ linked
    /\ monitor = "checking"
    /\ monitor' = "answered"
    /\ UNCHANGED <<up, linked, role, table, flying, posts, fails, failedInRow>>

\* A success that does not reset the counter.
SucceedsNoReset ==
    /\ Second \in up
    /\ monitor = "answered"
    /\ monitor' = "waiting"
    /\ failedInRow' = 0
    /\ UNCHANGED <<up, linked, role, table, flying, posts, fails>>

CheckSucceeds ==
    /\ Second \in up
    /\ monitor = "answered"
    /\ monitor' = "waiting"
    /\ fails' = 0
    /\ failedInRow' = 0
    /\ UNCHANGED <<up, linked, role, table, flying, posts>>

\* A monitor that goes on after onPromote.
FailsNoReturn ==
    /\ Second \in up
    /\ monitor \in {"checking", "answered"}
    /\ fails' = fails + 1
    /\ failedInRow' = failedInRow + 1
    /\ role' = IF fails + 1 >= FailThreshold THEN [role EXCEPT ![Second] = Master] ELSE role
    /\ monitor' = "waiting"
    /\ UNCHANGED <<up, linked, table, flying, posts>>

\* A monitor that takes a failed request for the end of its work.
FailsStop ==
    /\ Second \in up
    /\ monitor \in {"checking", "answered"}
    /\ monitor' = "stopped"
    /\ UNCHANGED <<up, linked, role, table, flying, posts, fails, failedInRow>>

\* A promotion that starts the new master on an empty table.
FailsForget ==
    /\ Second \in up
    /\ monitor \in {"checking", "answered"}
    /\ fails' = fails + 1
    /\ failedInRow' = failedInRow + 1
    /\ IF fails + 1 >= FailThreshold
       THEN /\ role' = [role EXCEPT ![Second] = Master]
            /\ monitor' = "stopped"
            /\ table' = [table EXCEPT ![Second] = EmptyTable]
       ELSE monitor' = "waiting" /\ UNCHANGED <<role, table>>
    /\ UNCHANGED <<up, linked, flying, posts>>

\* No answer in time, or it is lost; at the threshold, onPromote and return.
CheckFails ==
    /\ Second \in up
    /\ monitor \in {"checking", "answered"}
    /\ fails' = fails + 1
    /\ failedInRow' = failedInRow + 1
    /\ IF fails + 1 >= FailThreshold
       THEN role' = [role EXCEPT ![Second] = Master] /\ monitor' = "stopped"
       ELSE monitor' = "waiting" /\ UNCHANGED role
    /\ UNCHANGED <<up, linked, table, flying, posts>>

-----------------------------------------------------------------------------
\* Failures.

\* A process dies: its handlers and its end of every connection are gone.
Crash(n) ==
    /\ n \in up
    /\ up' = up \ {n}
    /\ posts' = IF n = First THEN {[p EXCEPT !.awaited = FALSE] : p \in posts}
                ELSE {p \in posts : p.stage = "sent"}
    /\ UNCHANGED <<linked, role, table, flying, monitor, fails, failedInRow>>

\* It is started with the flags it had, and with an empty table.
Restart(n) ==
    /\ n \notin up
    /\ up' = up \cup {n}
    /\ role' = [role EXCEPT ![n] = StartRole(n)]
    /\ table' = [table EXCEPT ![n] = EmptyTable]
    /\ IF n = Second
       THEN monitor' = "waiting" /\ fails' = 0 /\ failedInRow' = 0
       ELSE UNCHANGED <<monitor, fails, failedInRow>>
    /\ UNCHANGED <<linked, flying, posts>>

CutOrHeal ==
    /\ linked' = ~linked
    /\ UNCHANGED <<up, role, table, flying, posts, monitor, fails, failedInRow>>

Handle(p) == Admit(p) \/ LoadSync(p)

Next ==
    \/ \E w \in Worker : SendHeartbeat(w)
    \/ \E w \in Worker, n \in Node : TakeHeartbeat(w, n) \/ LoseHeartbeat(w, n)
    \/ Replicate
    \/ \E p \in posts : GiveUpPost(p) \/ LosePost(p) \/ Handle(p)
    \/ StartCheck \/ AnswerHealth \/ CheckSucceeds \/ CheckFails
    \/ \E n \in Node : Crash(n) \/ Restart(n)
    \/ CutOrHeal

Spec == Init /\ [][Next]_vars

\* The monitor's ticker fires, and every check ends within the client timeout;
\* the replicator goes on, and requests that arrive are handled.
MonitorFairness ==
    /\ WF_vars(StartCheck)
    /\ WF_vars(CheckSucceeds \/ CheckFails)

ReplicationFairness ==
    /\ WF_vars(Replicate)
    /\ WF_vars(\E p \in posts : Handle(p))

FairSpec == Spec /\ MonitorFairness /\ ReplicationFairness

-----------------------------------------------------------------------------
\* The second process is a master that no admitted handler can touch any more.
Settled ==
    /\ Second \in up
    /\ role[Second] = Master
    /\ \A p \in posts : p.stage # "admitted"

\* A step that changes the second process's table only as a heartbeat does.
OnlyHeartbeats ==
    \/ table'[Second] = table[Second]
    \/ \E w \in Worker : table'[Second] \in {Heard(table[Second], w), Missed(table[Second], w)}

(***************************************************************************)
(* A promoted node keeps its own view: once the handlers that were let in  *)
(* before the promotion are done, nothing but heartbeats changes its table *)
(* and no worker is forgotten, whatever the old master still sends, until  *)
(* the process dies.  requireRole keeps later snapshots out.               *)
(***************************************************************************)
PromotedKeepsTable ==
    [][Settled /\ Second \in up' => Settled' /\ OnlyHeartbeats]_vars

(***************************************************************************)
(* The standby takes over only after FailThreshold health checks in a row  *)
(* have failed: one success in between starts the count again.             *)
(***************************************************************************)
PromotedForCause ==
    [][role[Second] = Standby /\ role'[Second] = Master
         => failedInRow' >= FailThreshold]_vars

(***************************************************************************)
(* The monitor runs exactly as long as its process is a standby, so that   *)
(* onPromote is called once and no standby is left without a monitor.      *)
(***************************************************************************)
MonitorGuardsStandby == monitor = "stopped" <=> role[Second] = Master

(***************************************************************************)
(* If the first process stays down and the second one stays up, the second *)
(* one becomes the master and stays it.                                    *)
(***************************************************************************)
TakesOver ==
    <>[](First \notin up /\ Second \in up) => <>[](role[Second] = Master)

\* What the second process is doing, as module Takeover sees it.
Stage ==
    IF Second \notin up THEN "down"
    ELSE IF role[Second] = Standby THEN "follows"
    ELSE IF Settled THEN "leads"
    ELSE "settling"

T == INSTANCE Takeover WITH stage <- Stage, known <- DOMAIN table[Second],
                            failures <- failedInRow

(***************************************************************************)
(* The pair keeps the promise of module Takeover whatever crashes, cuts,   *)
(* late requests and restarts do: the second process takes over for cause, *)
(* is done with the old master's lists once it has settled, leads without  *)
(* forgetting a worker, and is a follower again only after a restart.      *)
(***************************************************************************)
ImplementsTakeover == T!TakeoverSpec

\* Strengthening for the proofs: the counter never runs ahead of the checks.
CountIsTrue == fails <= failedInRow

-----------------------------------------------------------------------------
(***************************************************************************)
(* What the repository says and the code does not do.                      *)
(***************************************************************************)

(***************************************************************************)
(* docs/api.md: a master rejects a snapshot.  The role is read before the  *)
(* body is decoded, and not again when the snapshot is loaded.             *)
(***************************************************************************)
MasterRejectsSync ==
    [][role[Second] = Master /\ Second \in up /\ Second \in up' => OnlyHeartbeats]_vars

(***************************************************************************)
(* The design: when the old master comes back and finds that the standby   *)
(* has been promoted, it demotes itself.  Once both run and reach each     *)
(* other for good, one of them is a standby in the end.                    *)
(***************************************************************************)
OldMasterStepsDown ==
    <>[](up = Node /\ linked) => <>[](\E n \in Node : role[n] = Standby)
=============================================================================
