--------------------------- MODULE FailoverProofs ---------------------------
(***************************************************************************)
(* Proofs about Failover: whatever the workers, the threshold, the bounds  *)
(* and the failures, a promotion has its cause, ends the monitor, and      *)
(* leaves the promoted node its own table.                                 *)
(***************************************************************************)
EXTENDS Failover, TLAPS

\* A heartbeat that an entry misses leaves the table a table.
LEMMA MissedType ==
    ASSUME NEW t \in Table, NEW w
    PROVE  Missed(t, w) \in Table
<1>1. PICK W \in SUBSET Worker : t \in [W -> 0 .. MaxLag]
  BY DEF Table
<1>2. Missed(t, w) \in [W -> 0 .. MaxLag]
  BY <1>1, FailoverAssumption DEF Missed
<1> QED
  BY <1>2 DEF Table

\* A heartbeat that is taken leaves the table a table.
LEMMA HeardType ==
    ASSUME NEW t \in Table, NEW w \in Worker
    PROVE  Heard(t, w) \in Table
<1>1. PICK W \in SUBSET Worker : t \in [W -> 0 .. MaxLag]
  BY DEF Table
<1>2. Heard(t, w) \in [W \cup {w} -> 0 .. MaxLag]
  BY <1>1, FailoverAssumption DEF Heard
<1>3. W \cup {w} \in SUBSET Worker
  OBVIOUS
<1> QED
  BY <1>2, <1>3 DEF Table

\* The table a process starts with is a table.
LEMMA EmptyTableType == EmptyTable \in Table
<1>1. EmptyTable \in [{} -> 0 .. MaxLag]
  BY DEF EmptyTable
<1>2. {} \in SUBSET Worker
  OBVIOUS
<1> QED
  BY <1>1, <1>2 DEF Table

-----------------------------------------------------------------------------
\* The inductive invariant: the two state invariants and the relation of the
\* counter to the history that PromotedForCause needs.
IInv == TypeOK /\ MonitorGuardsStandby /\ CountIsTrue

\* Init establishes the inductive invariant.
LEMMA InitIInv == Init => IInv
<1> SUFFICES ASSUME Init PROVE IInv
  OBVIOUS
<1>1. TypeOK
  BY EmptyTableType DEF Init, TypeOK, StartRole, Node, First, Second, Master, Standby
<1>2. MonitorGuardsStandby /\ CountIsTrue
  BY DEF Init, MonitorGuardsStandby, CountIsTrue, StartRole, Node, First, Second, Master, Standby
<1> QED
  BY <1>1, <1>2 DEF IInv

\* The steps of a worker's heartbeat preserve the inductive invariant.
LEMMA HeartbeatIInv ==
    ASSUME IInv, NEW w \in Worker,
           SendHeartbeat(w) \/ \E n \in Node : TakeHeartbeat(w, n) \/ LoseHeartbeat(w, n)
    PROVE  IInv'
<1> USE DEF IInv
<1>1. CASE SendHeartbeat(w)
  <2>1. table' \in [Node -> Table]
    BY <1>1, MissedType DEF SendHeartbeat, TypeOK
  <2>2. posts' \in SUBSET Post
    <3> SUFFICES ASSUME NEW p \in posts
                 PROVE  [p EXCEPT !.snapshot = Missed(@, w)] \in Post
      BY <1>1 DEF SendHeartbeat
    <3>1. p \in Post
      BY DEF TypeOK
    <3>2. Missed(p.snapshot, w) \in Table
      BY <3>1, MissedType DEF Post
    <3> QED
      BY <3>1, <3>2 DEF Post
  <2>3. flying' \in SUBSET (Worker \X Node)
    BY <1>1 DEF SendHeartbeat, TypeOK
  <2> QED
    BY <1>1, <2>1, <2>2, <2>3 DEF SendHeartbeat, TypeOK, MonitorGuardsStandby, CountIsTrue
<1>2. ASSUME NEW n \in Node, TakeHeartbeat(w, n) PROVE IInv'
  <2>1. table' \in [Node -> Table]
    BY <1>2, HeardType DEF TakeHeartbeat, TypeOK
  <2> QED
    BY <1>2, <2>1 DEF TakeHeartbeat, TypeOK, MonitorGuardsStandby, CountIsTrue
<1>3. ASSUME NEW n \in Node, LoseHeartbeat(w, n) PROVE IInv'
  BY <1>3 DEF LoseHeartbeat, TypeOK, MonitorGuardsStandby, CountIsTrue
<1> QED
  BY <1>1, <1>2, <1>3

\* Changing a request's stage or its waiter leaves it a request.
LEMMA PostType ==
    ASSUME NEW p \in Post
    PROVE  /\ p.snapshot \in Table
           /\ [p EXCEPT !.stage = "admitted"] \in Post
           /\ [p EXCEPT !.awaited = FALSE] \in Post
BY DEF Post

\* The steps of replication preserve the inductive invariant.
LEMMA ReplicationIInv ==
    ASSUME IInv,
           Replicate \/ \E p \in posts : GiveUpPost(p) \/ LosePost(p) \/ Handle(p)
    PROVE  IInv'
<1> USE DEF IInv
<1>1. CASE Replicate
  <2>1. table[First] \in Table
    BY DEF TypeOK, Node
  <2>2. [snapshot |-> table[First], stage |-> "sent", awaited |-> TRUE] \in Post
    BY <2>1 DEF Post
  <2> QED
    BY <1>1, <2>2 DEF Replicate, TypeOK, MonitorGuardsStandby, CountIsTrue
<1>2. ASSUME NEW p \in posts, GiveUpPost(p) \/ LosePost(p) \/ Handle(p) PROVE IInv'
  <2>1. p \in Post
    BY DEF TypeOK
  <2>2. CASE GiveUpPost(p)
    BY <2>1, <2>2, PostType DEF GiveUpPost, TypeOK, MonitorGuardsStandby, CountIsTrue
  <2>3. CASE LosePost(p)
    BY <2>3 DEF LosePost, TypeOK, MonitorGuardsStandby, CountIsTrue
  <2>4. CASE Admit(p)
    BY <2>1, <2>4, PostType DEF Admit, TypeOK, MonitorGuardsStandby, CountIsTrue
  <2>5. CASE LoadSync(p)
    <3>1. table' \in [Node -> Table]
      BY <2>1, <2>5, PostType DEF LoadSync, TypeOK
    <3> QED
      BY <2>5, <3>1 DEF LoadSync, TypeOK, MonitorGuardsStandby, CountIsTrue
  <2> QED
    BY <1>2, <2>2, <2>3, <2>4, <2>5 DEF Handle
<1> QED
  BY <1>1, <1>2

\* The monitor's steps preserve the inductive invariant.
LEMMA MonitorIInv ==
    ASSUME IInv, StartCheck \/ AnswerHealth \/ CheckSucceeds \/ CheckFails
    PROVE  IInv'
<1> USE DEF IInv
<1>1. CASE StartCheck
  BY <1>1 DEF StartCheck, TypeOK, MonitorGuardsStandby, CountIsTrue
<1>2. CASE AnswerHealth
  BY <1>2 DEF AnswerHealth, TypeOK, MonitorGuardsStandby, CountIsTrue
<1>3. CASE CheckSucceeds
  BY <1>3 DEF CheckSucceeds, TypeOK, MonitorGuardsStandby, CountIsTrue
<1>4. CASE CheckFails
  <2>1. role[Second] # Master /\ fails' \in Nat /\ failedInRow' \in Nat
    BY <1>4 DEF CheckFails, TypeOK, MonitorGuardsStandby
  <2>2. CountIsTrue'
    BY <1>4 DEF CheckFails, CountIsTrue, TypeOK
  <2>3. CASE fails + 1 >= FailThreshold
    BY <1>4, <2>1, <2>2, <2>3
      DEF CheckFails, TypeOK, MonitorGuardsStandby, Node, First, Second, Master, Standby
  <2>4. CASE ~(fails + 1 >= FailThreshold)
    BY <1>4, <2>1, <2>2, <2>4, FailoverAssumption
      DEF CheckFails, TypeOK, MonitorGuardsStandby
  <2> QED
    BY <2>3, <2>4
<1> QED
  BY <1>1, <1>2, <1>3, <1>4

\* Failures preserve the inductive invariant.
LEMMA FailureIInv ==
    ASSUME IInv, CutOrHeal \/ \E n \in Node : Crash(n) \/ Restart(n)
    PROVE  IInv'
<1> USE DEF IInv
<1>1. CASE CutOrHeal
  BY <1>1 DEF CutOrHeal, TypeOK, MonitorGuardsStandby, CountIsTrue
<1>2. ASSUME NEW n \in Node, Crash(n) PROVE IInv'
  <2>1. posts' \in SUBSET Post
    BY <1>2, PostType DEF Crash, TypeOK
  <2> QED
    BY <1>2, <2>1 DEF Crash, TypeOK, MonitorGuardsStandby, CountIsTrue
<1>3. ASSUME NEW n \in Node, Restart(n) PROVE IInv'
  <2>1. table' \in [Node -> Table]
    BY <1>3, EmptyTableType DEF Restart, TypeOK
  <2>2. role' \in [Node -> {Master, Standby}]
    BY <1>3 DEF Restart, TypeOK, StartRole
  <2>3. CASE n = Second
    BY <1>3, <2>1, <2>2, <2>3
      DEF Restart, TypeOK, MonitorGuardsStandby, CountIsTrue, StartRole,
          Node, First, Second, Master, Standby
  <2>4. CASE n # Second
    BY <1>3, <2>1, <2>2, <2>4
      DEF Restart, TypeOK, MonitorGuardsStandby, CountIsTrue
  <2> QED
    BY <2>3, <2>4
<1> QED
  BY <1>1, <1>2, <1>3

\* Every step, and stuttering, preserves the inductive invariant.
LEMMA NextIInv == IInv /\ [Next]_vars => IInv'
<1> SUFFICES ASSUME IInv, [Next]_vars PROVE IInv'
  OBVIOUS
<1>1. CASE \E w \in Worker : SendHeartbeat(w)
  BY <1>1, HeartbeatIInv
<1>2. CASE \E w \in Worker, n \in Node : TakeHeartbeat(w, n) \/ LoseHeartbeat(w, n)
  BY <1>2, HeartbeatIInv
<1>3. CASE Replicate \/ \E p \in posts : GiveUpPost(p) \/ LosePost(p) \/ Handle(p)
  BY <1>3, ReplicationIInv
<1>4. CASE StartCheck \/ AnswerHealth \/ CheckSucceeds \/ CheckFails
  BY <1>4, MonitorIInv
<1>5. CASE CutOrHeal \/ \E n \in Node : Crash(n) \/ Restart(n)
  BY <1>5, FailureIInv
<1>6. CASE UNCHANGED vars
  BY <1>6 DEF vars, IInv, TypeOK, MonitorGuardsStandby, CountIsTrue
<1> QED
  BY <1>1, <1>2, <1>3, <1>4, <1>5, <1>6 DEF Next

\* The inductive invariant holds in every reachable state.
LEMMA IInvAlways == Spec => []IInv
BY InitIInv, NextIInv, PTL DEF Spec

(***************************************************************************)
(* Every reachable state has the types the module declares.                *)
(***************************************************************************)
THEOREM TypeCorrect == Spec => []TypeOK
<1>1. IInv => TypeOK
  BY DEF IInv
<1> QED
  BY IInvAlways, <1>1, PTL

(***************************************************************************)
(* The monitor runs exactly while its process is a standby: onPromote is   *)
(* called once, and no standby is left unguarded.                          *)
(***************************************************************************)
THEOREM MonitorAlwaysGuards == Spec => []MonitorGuardsStandby
<1>1. IInv => MonitorGuardsStandby
  BY DEF IInv
<1> QED
  BY IInvAlways, <1>1, PTL

-----------------------------------------------------------------------------
\* Only a failed check at the threshold makes the second process a master.
LEMMA PromotionStep ==
    ASSUME IInv, [Next]_vars, role[Second] = Standby, role'[Second] = Master
    PROVE  failedInRow' >= FailThreshold
<1> USE DEF IInv
<1>1. Second \in Node /\ Master # Standby
  BY DEF Node, Master, Standby
<1>2. role' # role
  BY <1>1
<1>3. CASE CheckFails
  <2>1. fails + 1 >= FailThreshold
    BY <1>2, <1>3 DEF CheckFails
  <2>2. failedInRow' = failedInRow + 1 /\ fails <= failedInRow
    BY <1>3 DEF CheckFails, CountIsTrue
  <2> QED
    BY <2>1, <2>2, FailoverAssumption DEF TypeOK
<1>4. ASSUME NEW n \in Node, Restart(n) PROVE FALSE
  <2>1. role' = [role EXCEPT ![n] = StartRole(n)]
    BY <1>4 DEF Restart
  <2>2. CASE n = Second
    BY <1>1, <2>1, <2>2 DEF TypeOK, StartRole, First, Second, Master, Standby
  <2>3. CASE n # Second
    BY <1>1, <2>1, <2>3 DEF TypeOK
  <2> QED
    BY <2>2, <2>3
<1>5. ASSUME UNCHANGED role PROVE FALSE
  BY <1>2, <1>5
<1> QED
  BY <1>3, <1>4, <1>5
    DEF Next, vars, SendHeartbeat, TakeHeartbeat, LoseHeartbeat, Replicate, GiveUpPost,
        LosePost, Handle, Admit, LoadSync, StartCheck, AnswerHealth, CheckSucceeds,
        Crash, CutOrHeal

(***************************************************************************)
(* The standby takes over only after FailThreshold health checks in a row  *)
(* have failed.                                                            *)
(***************************************************************************)
THEOREM PromotionHasCause == Spec => PromotedForCause
<1>1. IInv /\ [Next]_vars =>
        [role[Second] = Standby /\ role'[Second] = Master
           => failedInRow' >= FailThreshold]_vars
  BY PromotionStep
<1> QED
  BY IInvAlways, <1>1, PTL DEF Spec, PromotedForCause

-----------------------------------------------------------------------------
\* One step of a promoted node with no admitted handler, the node surviving it.
LEMMA SettledStep ==
    ASSUME IInv, [Next]_vars, Settled, Second \in up'
    PROVE  Settled' /\ OnlyHeartbeats
<1> USE DEF IInv
<1>1. /\ Second \in up /\ Second \in Node /\ role[Second] = Master
      /\ \A p \in posts : p.stage # "admitted"
      /\ monitor = "stopped"
  BY DEF Settled, MonitorGuardsStandby, Node
<1>2. CASE \E w \in Worker : SendHeartbeat(w)
  <2>1. PICK w \in Worker : SendHeartbeat(w)
    BY <1>2
  <2>2. table'[Second] = Missed(table[Second], w)
    BY <1>1, <2>1 DEF SendHeartbeat
  <2>3. \A p \in posts' : p.stage # "admitted"
    <3> SUFFICES ASSUME NEW p \in posts
                 PROVE  [p EXCEPT !.snapshot = Missed(@, w)].stage # "admitted"
      BY <2>1 DEF SendHeartbeat
    <3>1. p \in Post
      BY DEF TypeOK
    <3> QED
      BY <1>1, <3>1 DEF Post
  <2> QED
    BY <1>1, <2>1, <2>2, <2>3 DEF SendHeartbeat, Settled, OnlyHeartbeats
<1>3. ASSUME NEW w \in Worker, NEW n \in Node, TakeHeartbeat(w, n)
      PROVE  Settled' /\ OnlyHeartbeats
  <2>1. table' = [table EXCEPT ![n] = Heard(@, w)]
    BY <1>3 DEF TakeHeartbeat
  <2>2. table'[Second] \in {table[Second], Heard(table[Second], w)}
    BY <1>1, <2>1 DEF TypeOK
  <2> QED
    BY <1>1, <1>3, <2>2 DEF TakeHeartbeat, Settled, OnlyHeartbeats
<1>4. CASE Replicate
  BY <1>1, <1>4 DEF Replicate, Settled, OnlyHeartbeats
<1>5. ASSUME NEW p \in posts, GiveUpPost(p) PROVE Settled' /\ OnlyHeartbeats
  <2>1. p \in Post
    BY DEF TypeOK
  <2>2. [p EXCEPT !.awaited = FALSE].stage # "admitted"
    BY <1>1, <2>1 DEF Post
  <2> QED
    BY <1>1, <1>5, <2>2 DEF GiveUpPost, Settled, OnlyHeartbeats
<1>6. ASSUME NEW p \in posts, LosePost(p) \/ Admit(p) PROVE Settled' /\ OnlyHeartbeats
  BY <1>1, <1>6 DEF LosePost, Admit, Settled, OnlyHeartbeats, Master, Standby
<1>7. ASSUME NEW p \in posts, LoadSync(p) PROVE FALSE
  BY <1>1, <1>7 DEF LoadSync
<1>8. CASE StartCheck \/ AnswerHealth \/ CheckSucceeds \/ CheckFails
  BY <1>1, <1>8 DEF StartCheck, AnswerHealth, CheckSucceeds, CheckFails
<1>9. ASSUME NEW n \in Node, Crash(n) PROVE Settled' /\ OnlyHeartbeats
  <2>1. \A p \in posts : p \in Post
    BY DEF TypeOK
  <2>2. \A p \in posts : [p EXCEPT !.awaited = FALSE].stage # "admitted"
    BY <1>1, <2>1 DEF Post
  <2>3. \A p \in posts' : p.stage # "admitted"
    BY <1>1, <1>9, <2>2 DEF Crash
  <2> QED
    BY <1>1, <1>9, <2>3 DEF Crash, Settled, OnlyHeartbeats
<1>10. ASSUME NEW n \in Node, Restart(n) PROVE Settled' /\ OnlyHeartbeats
  <2>1. n # Second
    BY <1>1, <1>10 DEF Restart
  <2>2. role'[Second] = role[Second] /\ table'[Second] = table[Second]
    BY <1>1, <1>10, <2>1 DEF Restart, TypeOK
  <2> QED
    BY <1>1, <1>10, <2>2 DEF Restart, Settled, OnlyHeartbeats
<1>11. CASE CutOrHeal
  BY <1>1, <1>11 DEF CutOrHeal, Settled, OnlyHeartbeats
<1>12. ASSUME NEW w \in Worker, NEW n \in Node, LoseHeartbeat(w, n)
       PROVE  Settled' /\ OnlyHeartbeats
  BY <1>1, <1>12 DEF LoseHeartbeat, Settled, OnlyHeartbeats
<1>13. CASE UNCHANGED vars
  BY <1>1, <1>13 DEF vars, Settled, OnlyHeartbeats
<1> QED
  BY <1>2, <1>3, <1>4, <1>5, <1>6, <1>7, <1>8, <1>9, <1>10, <1>11, <1>12, <1>13
    DEF Next, Handle

(***************************************************************************)
(* Once the handlers admitted before the promotion are done, a promoted    *)
(* node's table changes only as heartbeats change it, until it dies.       *)
(***************************************************************************)
THEOREM PromotedNodeKeepsTable == Spec => PromotedKeepsTable
<1>1. IInv /\ [Next]_vars =>
        [Settled /\ Second \in up' => Settled' /\ OnlyHeartbeats]_vars
  BY SettledStep
<1> QED
  BY IInvAlways, <1>1, PTL DEF Spec, PromotedKeepsTable

-----------------------------------------------------------------------------
\* The refinement of Takeover.  A table's workers under a heartbeat.
LEMMA TableDomains ==
    ASSUME NEW t, NEW w
    PROVE  /\ DOMAIN Missed(t, w) = DOMAIN t
           /\ DOMAIN Heard(t, w) = DOMAIN t \cup {w}
           /\ DOMAIN EmptyTable = {}
BY DEF Missed, Heard, EmptyTable

\* Only a node that settles has to look at its handlers: a step that keeps it
\* up and its role, and admits nothing on a master, keeps its stage or ends it.
LEMMA StageKept ==
    ASSUME (Second \in up') <=> (Second \in up), role'[Second] = role[Second],
           (\E p \in posts' : p.stage = "admitted") => (\E p \in posts : p.stage = "admitted")
    PROVE  T!MayFinish
BY DEF Stage, Settled, T!MayFinish, Master, Standby

\* The same while the second process follows.
LEMMA FollowsKept ==
    ASSUME Stage = "follows", Second \in up', role'[Second] = role[Second]
    PROVE  Stage' = Stage
BY DEF Stage, Settled

\* A stage tells the role.
LEMMA StageRole ==
    ASSUME IInv
    PROVE  /\ Stage = "down" <=> Second \notin up
           /\ Stage = "follows" <=> Second \in up /\ role[Second] = Standby
           /\ Stage \in {"settling", "leads"} <=> Second \in up /\ role[Second] = Master
<1>1. role[Second] \in {Master, Standby}
  BY DEF IInv, TypeOK, Node
<1> QED
  BY <1>1 DEF Stage, Settled, Master, Standby

\* The steps of a worker's heartbeat, seen from the second process.
LEMMA HeartbeatTakeover ==
    ASSUME IInv, NEW w \in Worker,
           SendHeartbeat(w) \/ \E n \in Node : TakeHeartbeat(w, n) \/ LoseHeartbeat(w, n)
    PROVE  [T!TakeoverNext]_<<Stage, DOMAIN table[Second], failedInRow>>
<1>0. Second \in Node /\ table \in [Node -> Table] /\ posts \subseteq Post
  BY DEF IInv, TypeOK, Node
<1>1. CASE SendHeartbeat(w)
  <2>1. table'[Second] = Missed(table[Second], w)
    BY <1>0, <1>1 DEF SendHeartbeat
  <2>2. \A p \in posts : [p EXCEPT !.snapshot = Missed(@, w)].stage = p.stage
    BY <1>0 DEF Post
  <2>3. posts' = {[p EXCEPT !.snapshot = Missed(@, w)] : p \in posts}
    BY <1>1 DEF SendHeartbeat
  <2>4. \A p \in posts' : p.stage = "admitted" => \E q \in posts : q.stage = "admitted"
    BY <2>2, <2>3
  <2>5. T!MayFinish
    BY <1>1, <2>4, StageKept DEF SendHeartbeat
  <2>6. T!Drop
    BY <1>1, <2>1, <2>5, TableDomains DEF SendHeartbeat, T!Drop
  <2> QED
    BY <2>6 DEF T!TakeoverNext
<1>2. ASSUME NEW n \in Node, TakeHeartbeat(w, n)
      PROVE  [T!TakeoverNext]_<<Stage, DOMAIN table[Second], failedInRow>>
  <2>1. UNCHANGED <<up, role, posts, failedInRow>>
    BY <1>2 DEF TakeHeartbeat
  <2>2. Stage' = Stage
    BY <2>1 DEF Stage, Settled
  <2>3. CASE n = Second
    <3>1. table'[Second] = Heard(table[Second], w)
      BY <1>0, <1>2, <2>3 DEF TakeHeartbeat
    <3>2. Stage # "down"
      BY <1>2, <2>3, StageRole DEF TakeHeartbeat
    <3>3. T!Register(w)
      BY <2>1, <2>2, <3>1, <3>2, TableDomains DEF T!Register
    <3> QED
      BY <3>3 DEF T!TakeoverNext
  <2>4. CASE n # Second
    <3>1. table'[Second] = table[Second]
      BY <1>0, <1>2, <2>4 DEF TakeHeartbeat
    <3> QED
      BY <2>1, <2>2, <3>1
  <2> QED
    BY <2>3, <2>4
<1>3. ASSUME NEW n \in Node, LoseHeartbeat(w, n)
      PROVE  [T!TakeoverNext]_<<Stage, DOMAIN table[Second], failedInRow>>
  BY <1>3 DEF LoseHeartbeat, Stage, Settled
<1> QED
  BY <1>1, <1>2, <1>3

\* The steps of replication: a request is admitted on a follower only, and what
\* was admitted is loaded, or lost, while the process follows or settles.
LEMMA ReplicationTakeover ==
    ASSUME IInv,
           Replicate \/ \E p \in posts : GiveUpPost(p) \/ LosePost(p) \/ Handle(p)
    PROVE  T!TakeoverNext
<1> DEFINE Admitted == \E p \in posts : p.stage = "admitted"
<1>0. Second \in Node /\ table \in [Node -> Table] /\ posts \subseteq Post
  BY DEF IInv, TypeOK, Node
<1>1. CASE UNCHANGED <<up, role, table, failedInRow>> /\ (Admitted' => Admitted)
  <2>1. T!MayFinish
    BY <1>1, StageKept
  <2>2. T!Drop
    BY <1>1, <2>1 DEF T!Drop
  <2> QED
    BY <2>2 DEF T!TakeoverNext
<1>2. CASE Replicate
  <2>1. Admitted' => Admitted
    BY <1>2 DEF Replicate
  <2> QED
    BY <1>1, <1>2, <2>1 DEF Replicate
<1>3. ASSUME NEW p \in posts, GiveUpPost(p) \/ LosePost(p) PROVE T!TakeoverNext
  <2>1. [p EXCEPT !.awaited = FALSE].stage = p.stage
    BY <1>0 DEF Post
  <2>2. Admitted' => Admitted
    BY <1>3, <2>1 DEF GiveUpPost, LosePost
  <2> QED
    BY <1>1, <1>3, <2>2 DEF GiveUpPost, LosePost
<1>4. ASSUME NEW p \in posts, Admit(p) PROVE T!TakeoverNext
  <2>1. CASE role[Second] = Standby
    <3>1. Stage = "follows" /\ UNCHANGED <<up, role, table, failedInRow>>
      BY <1>4, <2>1, StageRole DEF Admit
    <3>2. Stage' = Stage
      BY <3>1, FollowsKept, StageRole
    <3>3. T!Drop
      BY <3>1, <3>2 DEF T!Drop, T!MayFinish
    <3> QED
      BY <3>3 DEF T!TakeoverNext
  <2>2. CASE role[Second] # Standby
    <3>1. Admitted' => Admitted
      BY <1>4, <2>2 DEF Admit
    <3> QED
      BY <1>1, <1>4, <3>1 DEF Admit
  <2> QED
    BY <2>1, <2>2
<1>5. ASSUME NEW p \in posts, LoadSync(p) PROVE T!TakeoverNext
  <2>1. /\ p.stage = "admitted" /\ Second \in up /\ posts' = posts \ {p}
        /\ UNCHANGED <<up, role, failedInRow>>
    BY <1>5 DEF LoadSync
  <2>2. table'[Second] = p.snapshot /\ DOMAIN p.snapshot \in SUBSET Worker
    BY <1>0, <1>5 DEF LoadSync, Post, Table
  <2>3. Stage \in {"follows", "settling"}
    BY <2>1 DEF Stage, Settled
  <2>4. T!MayFinish
    BY <2>1, StageKept
  <2>5. T!Load(DOMAIN p.snapshot)
    BY <2>1, <2>2, <2>3, <2>4 DEF T!Load
  <2> QED
    BY <2>2, <2>5 DEF T!TakeoverNext
<1> QED
  BY <1>2, <1>3, <1>4, <1>5 DEF Handle

\* The monitor's steps: only a follower has a monitor, and only a failed check at
\* the threshold ends its following.
LEMMA MonitorTakeover ==
    ASSUME IInv, StartCheck \/ AnswerHealth \/ CheckSucceeds \/ CheckFails
    PROVE  [T!TakeoverNext]_<<Stage, DOMAIN table[Second], failedInRow>>
<1>0. role[Second] \in {Master, Standby} /\ Second \in Node /\ role \in [Node -> {Master, Standby}]
  BY DEF IInv, TypeOK, Node
<1>1. CASE StartCheck \/ AnswerHealth
  BY <1>1 DEF StartCheck, AnswerHealth, Stage, Settled
<1>2. CASE CheckSucceeds
  <2>1. Stage = "follows"
    BY <1>0, <1>2, StageRole DEF CheckSucceeds, IInv, MonitorGuardsStandby
  <2>2. Stage' = Stage
    BY <1>2, <2>1, FollowsKept, StageRole DEF CheckSucceeds
  <2>3. T!HealthOK
    BY <1>2, <2>1, <2>2 DEF CheckSucceeds, T!HealthOK
  <2> QED
    BY <2>3 DEF T!TakeoverNext
<1>3. CASE CheckFails
  <2>1. Stage = "follows"
    BY <1>0, <1>3, StageRole DEF CheckFails, IInv, MonitorGuardsStandby
  <2>2. UNCHANGED <<up, table>> /\ failedInRow' = failedInRow + 1
    BY <1>3 DEF CheckFails
  <2>3. CASE fails + 1 >= FailThreshold
    <3>1. role'[Second] = Master
      BY <1>0, <1>3, <2>3 DEF CheckFails
    <3>2. Stage' \in {"settling", "leads"}
      BY <2>1, <2>2, <3>1, StageRole DEF Stage, Settled, Master, Standby
    <3>3. failedInRow' >= FailThreshold
      BY <2>2, <2>3, FailoverAssumption DEF IInv, CountIsTrue, TypeOK
    <3>4. T!HealthFails
      BY <2>1, <2>2, <3>2, <3>3 DEF T!HealthFails
    <3> QED
      BY <3>4 DEF T!TakeoverNext
  <2>4. CASE ~(fails + 1 >= FailThreshold)
    <3>1. role' = role
      BY <1>3, <2>4 DEF CheckFails
    <3>2. Stage' = Stage
      BY <2>1, <2>2, <3>1, FollowsKept, StageRole
    <3>3. T!HealthFails
      BY <2>1, <2>2, <3>2 DEF T!HealthFails
    <3> QED
      BY <3>3 DEF T!TakeoverNext
  <2> QED
    BY <2>3, <2>4
<1> QED
  BY <1>1, <1>2, <1>3

\* Failures: a crash of the second process is the abstract death, its restart
\* the abstract start; what happens to the first one does not show.
LEMMA FailureTakeover ==
    ASSUME IInv, CutOrHeal \/ \E n \in Node : Crash(n) \/ Restart(n)
    PROVE  [T!TakeoverNext]_<<Stage, DOMAIN table[Second], failedInRow>>
<1>0. /\ Second \in Node /\ First # Second /\ posts \subseteq Post
      /\ table \in [Node -> Table] /\ role \in [Node -> {Master, Standby}]
  BY DEF IInv, TypeOK, Node, First, Second
<1>1. CASE CutOrHeal
  BY <1>1 DEF CutOrHeal, Stage, Settled
<1>2. CASE Crash(Second)
  <2>1. Stage # "down" /\ Stage' = "down"
    BY <1>2, StageRole DEF Crash, Stage
  <2>2. T!Die
    BY <1>2, <2>1 DEF Crash, T!Die
  <2> QED
    BY <2>2 DEF T!TakeoverNext
<1>3. CASE Crash(First)
  <2>1. \A p \in posts : [p EXCEPT !.awaited = FALSE].stage = p.stage
    BY <1>0 DEF Post
  <2>2. posts' = {[p EXCEPT !.awaited = FALSE] : p \in posts}
    BY <1>3 DEF Crash
  <2>3. \A p \in posts' : p.stage = "admitted" => \E q \in posts : q.stage = "admitted"
    BY <2>1, <2>2
  <2>4. T!MayFinish
    BY <1>0, <1>3, <2>3, StageKept DEF Crash
  <2>5. T!Drop
    BY <1>3, <2>4 DEF Crash, T!Drop
  <2> QED
    BY <2>5 DEF T!TakeoverNext
<1>4. CASE Restart(Second)
  <2>1. Second \in up' /\ role'[Second] = Standby /\ table'[Second] = EmptyTable
    BY <1>0, <1>4 DEF Restart, StartRole
  <2>2. Stage = "down" /\ Stage' = "follows"
    BY <1>4, <2>1, StageRole DEF Restart, Stage
  <2>3. T!Start
    BY <1>4, <2>1, <2>2, TableDomains DEF Restart, T!Start
  <2> QED
    BY <2>3 DEF T!TakeoverNext
<1>5. CASE Restart(First)
  <2>1. /\ role'[Second] = role[Second] /\ table'[Second] = table[Second]
        /\ (Second \in up') <=> (Second \in up)
        /\ UNCHANGED <<posts, failedInRow>>
    BY <1>0, <1>5 DEF Restart
  <2> QED
    BY <2>1 DEF Stage, Settled
<1> QED
  BY <1>1, <1>2, <1>3, <1>4, <1>5 DEF Node

(***************************************************************************)
(* The pair implements Takeover: the standby takes over only for cause,    *)
(* what it leads with is what it knew and has heard since, no snapshot of  *)
(* the old master gets in once it has settled, and it never steps back     *)
(* without dying.  This holds for any workers and threshold.               *)
(***************************************************************************)
THEOREM PairImplementsTakeover == Spec => ImplementsTakeover
<1>1. Init => T!TakeoverInit
  <2> SUFFICES ASSUME Init PROVE T!TakeoverInit
    OBVIOUS
  <2>1. Second \in up /\ role[Second] = Standby /\ table[Second] = EmptyTable
    BY DEF Init, StartRole, Node, First, Second
  <2> QED
    BY <2>1, TableDomains DEF Init, T!TakeoverInit, Stage
<1>2. IInv /\ [Next]_vars => [T!TakeoverNext]_<<Stage, DOMAIN table[Second], failedInRow>>
  <2> SUFFICES ASSUME IInv, [Next]_vars
               PROVE  [T!TakeoverNext]_<<Stage, DOMAIN table[Second], failedInRow>>
    OBVIOUS
  <2>1. CASE \E w \in Worker : SendHeartbeat(w)
    BY <2>1, HeartbeatTakeover
  <2>2. CASE \E w \in Worker, n \in Node : TakeHeartbeat(w, n) \/ LoseHeartbeat(w, n)
    BY <2>2, HeartbeatTakeover
  <2>3. CASE Replicate \/ \E p \in posts : GiveUpPost(p) \/ LosePost(p) \/ Handle(p)
    BY <2>3, ReplicationTakeover
  <2>4. CASE StartCheck \/ AnswerHealth \/ CheckSucceeds \/ CheckFails
    BY <2>4, MonitorTakeover
  <2>5. CASE CutOrHeal \/ \E n \in Node : Crash(n) \/ Restart(n)
    BY <2>5, FailureTakeover
  <2>6. CASE UNCHANGED vars
    BY <2>6 DEF vars, Stage, Settled
  <2> QED
    BY <2>1, <2>2, <2>3, <2>4, <2>5, <2>6 DEF Next
<1>3. T!takeoverVars = <<Stage, DOMAIN table[Second], failedInRow>>
  BY DEF T!takeoverVars
<1> QED
  BY <1>1, <1>2, <1>3, IInvAlways, PTL
    DEF Spec, ImplementsTakeover, T!TakeoverSpec, T!takeoverVars

\* A node that leads goes on leading, or dies, and forgets no worker it knew.
LeaderKeeps ==
    Stage = "leads" => /\ Stage' \in {"leads", "down"}
                       /\ DOMAIN table[Second] \subseteq DOMAIN table'[Second]

(***************************************************************************)
(* What clients of the new master get out of it: once the second node      *)
(* leads, nothing but its own death makes it stop or forget a worker.  It  *)
(* follows from the abstract specification alone.                          *)
(***************************************************************************)
COROLLARY LeaderForgetsNobody == Spec => [][LeaderKeeps]_vars
<1>1. [T!TakeoverNext]_(T!takeoverVars) => LeaderKeeps
  BY DEF LeaderKeeps, T!TakeoverNext, T!takeoverVars, T!Register, T!MayFinish, T!Load, T!Drop,
         T!HealthOK, T!HealthFails, T!Die, T!Start
<1>2. Spec => [][T!TakeoverNext]_(T!takeoverVars)
  BY PairImplementsTakeover, PTL DEF ImplementsTakeover, T!TakeoverSpec
<1>3. [T!TakeoverNext]_(T!takeoverVars) => [LeaderKeeps]_vars
  BY <1>1
<1> QED
  BY <1>2, <1>3, PTL
=============================================================================
