------------------------- MODULE StateManagerProofs -------------------------
(***************************************************************************)
(* Invariants of the worker table for any workers, tags, heartbeats,       *)
(* snapshots and thresholds that satisfy the named assumptions.            *)
(***************************************************************************)
EXTENDS Stats, TagIndexProofs, WellFoundedInduction

\* Every step keeps the table, the lock, the scan timer and the signals well formed.
LEMMA SMTypeStep == SMTypeOK /\ [SMNext]_smVars => SMTypeOK'
<1> SUFFICES ASSUME SMTypeOK, [SMNext]_smVars PROVE SMTypeOK'
    OBVIOUS
<1> USE ConfigAssumption DEF ValidConfig
<1> USE DEF SMTypeOK, WakeupTypeOK
<1>0. AgeCap \in Nat
    BY DEF AgeCap
<1>1. ASSUME NEW hb \in Heartbeat, HandleHeartbeat(hb) PROVE SMTypeOK'
    <2>1. /\ hb.workerID \in Worker /\ hb.resourceTags \in Seq(Tag)
          /\ hb.maxTasks \in Int /\ hb.currentTasks \in Int
        BY <1>1, HeartbeatAssumption DEF HandleHeartbeat, Validate
    <2>2. Refreshed(hb) \in WorkerState
        BY <2>1, <1>0 DEF Refreshed, WorkerState, Online
    <2>3. DOMAIN workers' \subseteq Worker /\ workers' \in [DOMAIN workers' -> WorkerState]
        BY <1>1, <2>1, <2>2 DEF HandleHeartbeat, UpdateFromHeartbeat
    <2> QED
        BY <1>1, <2>3 DEF HandleHeartbeat, UpdateFromHeartbeat, muAfterUpdate
<1>2. ASSUME NEW ws \in Snapshot, LoadSnapshot(ws) PROVE SMTypeOK'
    BY <1>2, SnapshotAssumption DEF LoadSnapshot, Listed
<1>3. CASE Broadcast
    BY <1>3 DEF Broadcast, broadcast
<1>4. CASE CheckTimeouts
    <2>1. \A w \in DOMAIN workers : Judged(workers[w]) \in WorkerState
        BY <1>0 DEF Judged, WorkerState, Online, Suspicious, Offline
    <2> QED
        BY <1>4, <2>1 DEF CheckTimeouts
<1>5. ASSUME NEW w \in Worker, AllocateTask(w) PROVE SMTypeOK'
    <2> DEFINE s == workers[w]
               taken == [s EXCEPT !.currentTasks = @ + 1, !.available = @ - 1]
    <2>1. s \in WorkerState /\ w \in DOMAIN workers
        BY <1>5 DEF AllocateTask, CanAllocate
    <2>2. taken \in WorkerState
        <3>1. s.currentTasks \in Int /\ s.available \in Int
            BY <2>1 DEF WorkerState
        <3>2. s.currentTasks + 1 \in Int /\ s.available - 1 \in Int
            BY <3>1
        <3> QED
            BY <2>1, <3>2 DEF WorkerState
    <2>3. workers' = [workers EXCEPT ![w] = taken]
        BY <1>5, <2>1 DEF AllocateTask, WorkerState
    <2> HIDE DEF taken
    <2>4. DOMAIN workers' = DOMAIN workers /\ workers' \in [DOMAIN workers -> WorkerState]
        BY <2>2, <2>3
    <2> QED
        BY <1>5, <2>4 DEF AllocateTask
<1>6. ASSUME NEW r \in Request, CapacityChanged(r) \/ Forget(r) PROVE SMTypeOK'
    BY <1>6 DEF CapacityChanged, Forget, waitChan, forget
<1>7. CASE Tick
    <2>1. ASSUME NEW s \in WorkerState PROVE Aged(s) \in WorkerState
        <3>1. s.age \in 0 .. AgeCap
            BY DEF WorkerState
        <3>2. (IF s.age = AgeCap THEN s.age ELSE s.age + 1) \in 0 .. AgeCap
            BY <3>1, <1>0
        <3> QED
            BY <3>2 DEF Aged, WorkerState
    <2> QED
        BY <1>7, <2>1 DEF Tick
<1>8. CASE UNCHANGED smVars
    BY <1>8 DEF smVars
<1> QED
    BY <1>1, <1>2, <1>3, <1>4, <1>5, <1>6, <1>7, <1>8 DEF SMNext

\* The worker table, the lock, the scan timer and the signals are well formed
\* in every state.
THEOREM SMTypeCorrect == SMSpec => []SMTypeOK
<1>1. SMInit => SMTypeOK
    BY ConfigAssumption
       DEF ValidConfig, SMInit, SMTypeOK, WakeupInit, WakeupTypeOK
<1> QED
    BY <1>1, SMTypeStep, PTL DEF SMSpec

\* The tags each registered worker carries by its entry.
Carried == [w \in DOMAIN workers |-> Range(workers[w].resourceTags)]

LEMMA ExactIsExactFor == TagIndexExact <=> ExactFor(tags, Carried)
<1>1. DOMAIN Carried = DOMAIN workers
    BY DEF Carried
<1>2. UNION {Carried[w] : w \in DOMAIN Carried}
        = UNION {Range(workers[w].resourceTags) : w \in DOMAIN workers}
    BY DEF Carried
<1>3. \A t : {w \in DOMAIN Carried : t \in Carried[w]} = Carriers(t)
    BY DEF Carried, Carriers
<1> QED
    BY <1>1, <1>2, <1>3 DEF TagIndexExact, ExactFor

\* A step that leaves every worker's tags and the index alone keeps it exact.
LEMMA SameTagsKeepExact ==
    ASSUME TagIndexExact, tags' = tags, DOMAIN workers' = DOMAIN workers,
           \A w \in DOMAIN workers : workers'[w].resourceTags = workers[w].resourceTags
    PROVE  TagIndexExact'
BY DEF TagIndexExact, Carriers

\* The index says of every tag exactly which workers carry it: tagIndex.add,
\* remove and update maintain it through every heartbeat and snapshot, and
\* nothing else writes a worker's tags.
THEOREM TagIndexAlwaysExact == SMSpec => []TagIndexExact
<1>1. SMInit => TagIndexExact
    BY DEF SMInit, TagIndexExact, newTagIndex
<1>2. SMTypeOK /\ TagIndexExact /\ [SMNext]_smVars => TagIndexExact'
    <2> SUFFICES ASSUME SMTypeOK, TagIndexExact, [SMNext]_smVars PROVE TagIndexExact'
        OBVIOUS
    <2>1. ASSUME NEW hb \in Heartbeat, HandleHeartbeat(hb) PROVE TagIndexExact'
        <3> DEFINE w == hb.workerID
        <3>1. ExactFor(tags, Carried)
            BY ExactIsExactFor
        <3>2. hb.resourceTags \in Seq(Tag)
            BY HeartbeatAssumption
        <3>3. /\ DOMAIN workers' = DOMAIN workers \cup {w}
              /\ \A v \in DOMAIN workers' :
                    workers'[v] = IF v = w THEN Refreshed(hb) ELSE workers[v]
            BY <2>1 DEF HandleHeartbeat, UpdateFromHeartbeat
        <3>4. Retagged(Carried, w, Range(hb.resourceTags), Carried')
            <4>1. DOMAIN Carried' = DOMAIN Carried \cup {w}
                BY <3>3 DEF Carried
            <4>2. ASSUME NEW v \in DOMAIN Carried'
                  PROVE  Carried'[v] = IF v = w THEN Range(hb.resourceTags) ELSE Carried[v]
                BY <3>3, <4>1 DEF Carried, Refreshed
            <4> QED
                BY <4>1, <4>2 DEF Retagged
        <3>5. ExactFor(tags', Carried')
            <4>1. CASE w \in DOMAIN workers
                <5>1. /\ workers[w].resourceTags \in Seq(Tag)
                      /\ Range(workers[w].resourceTags) = Carried[w]
                      /\ w \in DOMAIN Carried
                    BY <4>1 DEF SMTypeOK, WorkerState, Carried
                <5>2. tags' = update(tags, w, workers[w].resourceTags, hb.resourceTags)
                    BY <2>1, <4>1 DEF HandleHeartbeat, UpdateFromHeartbeat
                <5> QED
                    BY <3>1, <3>2, <3>4, <5>1, <5>2, UpdateExact
            <4>2. CASE w \notin DOMAIN workers
                <5>1. NoTags(Carried, w)
                    BY <4>2 DEF NoTags, Carried
                <5>2. tags' = add(tags, w, hb.resourceTags)
                    BY <2>1, <4>2 DEF HandleHeartbeat, UpdateFromHeartbeat
                <5> QED
                    BY <3>1, <3>4, <5>1, <5>2, AddExact
            <4> QED
                BY <4>1, <4>2
        <3>6. (TagIndexExact <=> ExactFor(tags, Carried))'
            BY ExactIsExactFor, PTL
        <3> QED
            BY <3>5, <3>6
    <2>2. ASSUME NEW ws \in Snapshot, LoadSnapshot(ws) PROVE TagIndexExact'
        BY <2>2 DEF LoadSnapshot, IndexOf, TagIndexExact, Carriers
    <2>3. CASE Broadcast
        BY <2>3, SameTagsKeepExact DEF Broadcast
    <2>4. CASE CheckTimeouts
        <3>1. \A w \in DOMAIN workers :
                  Judged(workers[w]).resourceTags = workers[w].resourceTags
            BY DEF Judged, SMTypeOK, WorkerState
        <3> QED
            BY <2>4, <3>1, SameTagsKeepExact DEF CheckTimeouts
    <2>5. ASSUME NEW w \in Worker, AllocateTask(w) PROVE TagIndexExact'
        BY <2>5, SameTagsKeepExact DEF AllocateTask, SMTypeOK, WorkerState
    <2>6. ASSUME NEW r \in Request, CapacityChanged(r) \/ Forget(r) PROVE TagIndexExact'
        BY <2>6, SameTagsKeepExact DEF CapacityChanged, Forget
    <2>7. CASE Tick
        <3>1. \A w \in DOMAIN workers : Aged(workers[w]).resourceTags = workers[w].resourceTags
            BY DEF Aged, SMTypeOK, WorkerState
        <3> QED
            BY <2>7, <3>1, SameTagsKeepExact DEF Tick
    <2>8. CASE UNCHANGED smVars
        BY <2>8, SameTagsKeepExact DEF smVars
    <2> QED
        BY <2>1, <2>2, <2>3, <2>4, <2>5, <2>6, <2>7, <2>8 DEF SMNext
<1> QED
    BY <1>1, <1>2, SMTypeCorrect, PTL DEF SMSpec

\* A worker is demoted only while its last heartbeat is as old as the threshold
\* says, whatever scans, heartbeats and snapshots come in between.
THEOREM DemotedAlwaysStale == SMSpec => []DemotedMeansStale
<1> USE ConfigAssumption DEF ValidConfig, StatusFitsAge, Online, Suspicious, Offline
<1>1. SMInit => DemotedMeansStale
    BY DEF SMInit, DemotedMeansStale
<1>2. SMTypeOK /\ DemotedMeansStale /\ [SMNext]_smVars => DemotedMeansStale'
    <2> SUFFICES ASSUME SMTypeOK, DemotedMeansStale, [SMNext]_smVars
                 PROVE  DemotedMeansStale'
        OBVIOUS
    <2> USE DEF DemotedMeansStale
    <2>0. \A w \in DOMAIN workers : workers[w] \in WorkerState
        BY DEF SMTypeOK
    <2>1. ASSUME NEW hb \in Heartbeat, HandleHeartbeat(hb) PROVE DemotedMeansStale'
        <3>1. \A v \in DOMAIN workers' :
                  \/ workers'[v].status = "online"
                  \/ v \in DOMAIN workers /\ workers'[v] = workers[v]
            BY <2>1 DEF HandleHeartbeat, UpdateFromHeartbeat, Refreshed
        <3> QED
            BY <3>1
    <2>2. ASSUME NEW ws \in Snapshot, LoadSnapshot(ws) PROVE DemotedMeansStale'
        BY <2>2, SnapshotAssumption DEF LoadSnapshot, Listed
    <2>3. CASE Broadcast
        BY <2>3 DEF Broadcast
    <2>4. CASE CheckTimeouts
        <3>1. \A w \in DOMAIN workers : StatusFitsAge(Judged(workers[w]))
            BY <2>0 DEF Judged, WorkerState
        <3> QED
            BY <2>4, <3>1 DEF CheckTimeouts
    <2>5. ASSUME NEW w \in Worker, AllocateTask(w) PROVE DemotedMeansStale'
        <3>1. DOMAIN workers' = DOMAIN workers
            BY <2>5 DEF AllocateTask
        <3>2. \A v \in DOMAIN workers : /\ workers'[v].status = workers[v].status
                                        /\ workers'[v].age = workers[v].age
            BY <2>0, <2>5 DEF AllocateTask, SMTypeOK, WorkerState
        <3> QED
            BY <3>1, <3>2
    <2>6. ASSUME NEW r \in Request, CapacityChanged(r) \/ Forget(r)
          PROVE  DemotedMeansStale'
        BY <2>6 DEF CapacityChanged, Forget
    <2>7. CASE Tick
        <3>1. \A w \in DOMAIN workers : StatusFitsAge(Aged(workers[w]))
            BY <2>0 DEF Aged, WorkerState, AgeCap
        <3> QED
            BY <2>7, <3>1 DEF Tick
    <2>8. CASE UNCHANGED smVars
        BY <2>8 DEF smVars
    <2> QED
        BY <2>1, <2>2, <2>3, <2>4, <2>5, <2>6, <2>7, <2>8 DEF SMNext
<1> QED
    BY <1>1, <1>2, SMTypeCorrect, PTL DEF SMSpec

\* The statuses CheckTimeouts leaves behind lag by at most one scan interval,
\* plus SnapshotLag on a node that takes snapshots: for a master the bound is
\* the threshold and one interval.
THEOREM DetectionBounded == SMSpec => []DetectionBound
<1> USE ConfigAssumption DEF ValidConfig, JudgedWithin, SinceScan, Online, Suspicious, Offline
<1>1. SMInit => DetectionBound
    BY DEF SMInit, DetectionBound
<1>2. SMTypeOK /\ DetectionBound /\ [SMNext]_smVars => DetectionBound'
    <2> SUFFICES ASSUME SMTypeOK, DetectionBound, [SMNext]_smVars
                 PROVE  DetectionBound'
        OBVIOUS
    <2> USE DEF DetectionBound
    <2>0. /\ \A w \in DOMAIN workers : workers[w] \in WorkerState
          /\ scanIn \in 0 .. TimeoutCheckInterval
        BY DEF SMTypeOK
    <2>1. ASSUME NEW hb \in Heartbeat, HandleHeartbeat(hb) PROVE DetectionBound'
        <3>1. /\ scanIn' = scanIn
              /\ \A v \in DOMAIN workers' :
                    \/ workers'[v].age = 0
                    \/ v \in DOMAIN workers /\ workers'[v] = workers[v]
            BY <2>1 DEF HandleHeartbeat, UpdateFromHeartbeat, Refreshed
        <3> QED
            BY <3>1, <2>0
    <2>2. ASSUME NEW ws \in Snapshot, LoadSnapshot(ws) PROVE DetectionBound'
        <3>1. \A w \in DOMAIN ws : ws[w] \in WorkerState /\ JudgedWithin(ws[w], SnapshotLag)
            BY SnapshotAssumption DEF Listed
        <3>2. \A w \in DOMAIN ws : ws[w].age \in Int
            BY <3>1 DEF WorkerState
        <3> QED
            BY <2>2, <3>1, <3>2, <2>0 DEF LoadSnapshot
    <2>3. CASE Broadcast
        BY <2>3 DEF Broadcast
    <2>4. CASE CheckTimeouts
        <3>1. \A w \in DOMAIN workers : JudgedWithin(Judged(workers[w]), SnapshotLag)
            BY <2>0 DEF Judged, WorkerState
        <3>2. SinceScan' = 0
            BY <2>4 DEF CheckTimeouts
        <3> QED
            BY <2>4, <3>1, <3>2 DEF CheckTimeouts
    <2>5. ASSUME NEW w \in Worker, AllocateTask(w) PROVE DetectionBound'
        <3>1. DOMAIN workers' = DOMAIN workers /\ scanIn' = scanIn
            BY <2>5 DEF AllocateTask
        <3>2. \A v \in DOMAIN workers : /\ workers'[v].status = workers[v].status
                                        /\ workers'[v].age = workers[v].age
            BY <2>0, <2>5 DEF AllocateTask, SMTypeOK, WorkerState
        <3> QED
            BY <3>1, <3>2
    <2>6. ASSUME NEW r \in Request, CapacityChanged(r) \/ Forget(r)
          PROVE  DetectionBound'
        BY <2>6 DEF CapacityChanged, Forget
    <2>7. CASE Tick
        <3>1. ASSUME NEW s \in WorkerState
              PROVE  /\ Aged(s).status = s.status
                     /\ s.age \in Int /\ Aged(s).age \in Int /\ Aged(s).age <= s.age + 1
            BY DEF Aged, WorkerState, AgeCap
        <3>2. scanIn' = scanIn - 1
            BY <2>7 DEF Tick
        <3>3. /\ DOMAIN workers' = DOMAIN workers
              /\ \A w \in DOMAIN workers : workers'[w] = Aged(workers[w])
            BY <2>7 DEF Tick
        <3> QED
            BY <3>1, <3>2, <3>3, <2>0
    <2>8. CASE UNCHANGED smVars
        BY <2>8 DEF smVars
    <2> QED
        BY <2>1, <2>2, <2>3, <2>4, <2>5, <2>6, <2>7, <2>8 DEF SMNext
<1> QED
    BY <1>1, <1>2, SMTypeCorrect, PTL DEF SMSpec

-----------------------------------------------------------------------------
(***************************************************************************)
(* Sums over the worker table.  An induction theorem that takes a          *)
(* predicate cannot be used here, one about a set of numbers can.          *)
(***************************************************************************)

\* A set with zero and the successor of each of its numbers holds every number.
LEMMA InductionOnSet ==
    ASSUME NEW T, 0 \in T, \A n \in Nat : n \in T => n + 1 \in T
    PROVE  Nat \subseteq T
<1> DEFINE less == OpToRel(<, Nat)
<1> SUFFICES ASSUME Nat \ T # {} PROVE FALSE
    OBVIOUS
<1>1. IsWellFoundedOn(less, Nat)
    BY NatLessThanWellFounded
<1>2. \A x, y \in Nat : x < y => <<x, y>> \in less
    BY DEF OpToRel
<1> HIDE DEF less
<1>3. PICK x \in Nat \ T : \A y \in Nat \ T : ~(<<y, x>> \in less)
    <2>1. Nat \ T \subseteq Nat
        OBVIOUS
    <2> QED
        BY <1>1, <2>1, WFMin
<1>4. x - 1 \in Nat /\ x - 1 < x /\ x = (x - 1) + 1
    BY <1>3
<1>5. x - 1 \in T
    BY <1>2, <1>3, <1>4
<1>6. x \in T
    BY <1>4, <1>5
<1> QED
    BY <1>3, <1>6

\* The element the library's folds take next.
Taken(s) == CHOOSE x \in s : TRUE

\* g gives every subset of S the sum of f on it, one element at a time.
Unfolds(g, f, S) ==
    g = [s \in SUBSET S |->
            IF s = {} THEN 0 ELSE f[Taken(s)] + g[s \ {Taken(s)}]]

LEMMA SumsExist ==
    ASSUME NEW f, NEW S, IsFiniteSet(S)
    PROVE  \E g : Unfolds(g, f, S)
<1> DEFINE Small(n) == {s \in SUBSET S : Cardinality(s) <= n}
           Solves(g, n) == g = [s \in Small(n) |->
                               IF s = {} THEN 0 ELSE f[Taken(s)] + g[s \ {Taken(s)}]]
           T == {n \in Nat : \E g : Solves(g, n)}
<1>0. ASSUME NEW s \in SUBSET S
      PROVE  /\ IsFiniteSet(s) /\ Cardinality(s) \in Nat
             /\ s # {} => /\ Taken(s) \in s
                          /\ Cardinality(s \ {Taken(s)}) = Cardinality(s) - 1
             /\ Cardinality(s) = 0 => s = {}
    <2>1. IsFiniteSet(s)
        BY FS_Subset
    <2> QED
        BY <2>1, FS_CardinalityType, FS_RemoveElement, FS_EmptySet DEF Taken
<1>1. 0 \in T
    <2>1. ASSUME NEW s \in Small(0) PROVE s = {}
        <3>1. s \in SUBSET S /\ Cardinality(s) <= 0
            OBVIOUS
        <3>2. Cardinality(s) \in Nat
            BY <1>0, <3>1
        <3>3. Cardinality(s) = 0
            BY <3>1, <3>2
        <3> QED
            BY <1>0, <3>1, <3>3
    <2> DEFINE g == [s \in Small(0) |-> 0]
    <2>2. Solves(g, 0)
        BY <2>1
    <2> QED
        BY <2>2
<1>2. ASSUME NEW n \in Nat, n \in T PROVE n + 1 \in T
    <2>1. PICK g : Solves(g, n)
        BY <1>2
    <2> DEFINE h == [s \in Small(n + 1) |->
                        IF s = {} THEN 0 ELSE f[Taken(s)] + g[s \ {Taken(s)}]]
    <2>2. ASSUME NEW s \in Small(n) PROVE s \in Small(n + 1) /\ h[s] = g[s]
        <3>1. s \in SUBSET S /\ Cardinality(s) \in Nat /\ Cardinality(s) <= n
            BY <1>0
        <3>2. Cardinality(s) <= n + 1
            BY <3>1
        <3>3. s \in Small(n + 1)
            BY <3>1, <3>2
        <3> QED
            BY <2>1, <3>3
    <2>3. ASSUME NEW s \in Small(n + 1), s # {} PROVE s \ {Taken(s)} \in Small(n)
        BY <2>3, <1>0
    <2>4. Solves(h, n + 1)
        BY <2>2, <2>3
    <2>5. n + 1 \in Nat
        OBVIOUS
    <2> HIDE DEF h, Solves
    <2> QED
        BY <2>4, <2>5
<1>3. Cardinality(S) \in T
    <2> HIDE DEF T
    <2>1. Nat \subseteq T
        BY <1>1, <1>2, InductionOnSet
    <2> QED
        BY <2>1, FS_CardinalityType
<1>4. PICK g : Solves(g, Cardinality(S))
    BY <1>3
<1>5. Small(Cardinality(S)) = SUBSET S
    BY FS_Subset
<1> QED
    BY <1>4, <1>5 DEF Unfolds

\* The library's sum of a function is one of these.
LEMMA SumUnfolds ==
    ASSUME NEW f, IsFiniteSet(DOMAIN f)
    PROVE  \E g : Unfolds(g, f, DOMAIN f) /\ SumFunction(f) = g[DOMAIN f]
<1> DEFINE g == CHOOSE g : Unfolds(g, f, DOMAIN f)
<1>1. Unfolds(g, f, DOMAIN f)
    BY SumsExist
<1>2. SumFunction(f) = g[DOMAIN f]
    BY DEF SumFunction, SumFunctionOnSet, FoldFunctionOnSet, MapThenFoldSet, Unfolds, Taken
<1> QED
    BY <1>1, <1>2

\* Sums add up when their terms do.
LEMMA SumsAddUp ==
    ASSUME NEW D, IsFiniteSet(D), NEW a \in [D -> Int], NEW b \in [D -> Int],
           NEW c \in [D -> Int], \A x \in D : a[x] + b[x] = c[x]
    PROVE  SumFunction(a) + SumFunction(b) = SumFunction(c)
<1>1. PICK ga : Unfolds(ga, a, D) /\ SumFunction(a) = ga[D]
    BY SumUnfolds
<1>2. PICK gb : Unfolds(gb, b, D) /\ SumFunction(b) = gb[D]
    BY SumUnfolds
<1>3. PICK gc : Unfolds(gc, c, D) /\ SumFunction(c) = gc[D]
    BY SumUnfolds
<1> DEFINE AddUp(s) == ga[s] \in Int /\ gb[s] \in Int /\ ga[s] + gb[s] = gc[s]
           T == {n \in Nat : \A s \in SUBSET D : Cardinality(s) = n => AddUp(s)}
<1>4. 0 \in T
    <2>1. \A s \in SUBSET D : Cardinality(s) = 0 => s = {}
        BY FS_Subset, FS_EmptySet
    <2>2. {} \in SUBSET D
        OBVIOUS
    <2>3. AddUp({})
        BY <1>1, <1>2, <1>3, <2>2 DEF Unfolds
    <2> QED
        BY <2>1, <2>3
<1>5. ASSUME NEW n \in Nat, n \in T PROVE n + 1 \in T
    <2> SUFFICES ASSUME NEW s \in SUBSET D, Cardinality(s) = n + 1 PROVE AddUp(s)
        OBVIOUS
    <2> DEFINE x == Taken(s)
               r == s \ {x}
    <2>1. s # {} /\ x \in s /\ Cardinality(r) = n
        <3>1. IsFiniteSet(s)
            BY FS_Subset
        <3>2. s # {}
            <4>1. n + 1 # 0
                OBVIOUS
            <4> QED
                BY <4>1, FS_EmptySet
        <3>3. x \in s
            BY <3>2 DEF Taken
        <3>4. Cardinality(r) = Cardinality(s) - 1
            BY <3>1, <3>3, FS_RemoveElement
        <3> QED
            BY <3>2, <3>3, <3>4
    <2> HIDE DEF x
    <2>2. r \in SUBSET D /\ x \in D
        BY <2>1
    <2>3. AddUp(r)
        BY <1>5, <2>1, <2>2
    <2>4. ga[s] = a[x] + ga[r] /\ gb[s] = b[x] + gb[r] /\ gc[s] = c[x] + gc[r]
        BY <1>1, <1>2, <1>3, <2>1 DEF Unfolds, x
    <2> HIDE DEF r
    <2>5. a[x] \in Int /\ b[x] \in Int /\ a[x] + b[x] = c[x]
        BY <2>2
    <2> QED
        BY <2>3, <2>4, <2>5
<1>6. Cardinality(D) \in T
    <2> HIDE DEF T
    <2>1. Nat \subseteq T
        BY <1>4, <1>5, InductionOnSet
    <2> QED
        BY <2>1, FS_CardinalityType
<1> QED
    BY <1>1, <1>2, <1>3, <1>6

-----------------------------------------------------------------------------
\* Every entry has slots, and its three slot fields agree: heartbeats are
\* validated, heartbeats and reservations write the fields together, and a
\* snapshot comes from a table of which this holds.
FreeSlotsExact ==
    \A w \in DOMAIN workers :
        /\ workers[w].maxTasks > 0
        /\ workers[w].currentTasks + workers[w].available = workers[w].maxTasks

LEMMA FreeSlotsStep ==
    SMTypeOK /\ FreeSlotsExact /\ [SMNext]_smVars => FreeSlotsExact'
<1> SUFFICES ASSUME SMTypeOK, FreeSlotsExact, [SMNext]_smVars PROVE FreeSlotsExact'
    OBVIOUS
<1> USE DEF FreeSlotsExact
<1>0. \A w \in DOMAIN workers : workers[w] \in WorkerState
    BY DEF SMTypeOK
<1>1. ASSUME NEW hb \in Heartbeat, HandleHeartbeat(hb) PROVE FreeSlotsExact'
    <2>1. hb.maxTasks \in Int /\ hb.currentTasks \in Int /\ hb.maxTasks > 0
        BY <1>1, HeartbeatAssumption DEF HandleHeartbeat, Validate
    <2>2. /\ DOMAIN workers' = DOMAIN workers \cup {hb.workerID}
          /\ \A v \in DOMAIN workers' :
                \/ workers'[v] = Refreshed(hb)
                \/ v \in DOMAIN workers /\ workers'[v] = workers[v]
        BY <1>1 DEF HandleHeartbeat, UpdateFromHeartbeat
    <2> QED
        BY <2>1, <2>2 DEF Refreshed
<1>2. ASSUME NEW ws \in Snapshot, LoadSnapshot(ws) PROVE FreeSlotsExact'
    <2>1. \A w \in DOMAIN ws : /\ ws[w].maxTasks \in Int /\ ws[w].currentTasks \in Int
                               /\ ws[w].maxTasks > 0
                               /\ ws[w].available = ws[w].maxTasks - ws[w].currentTasks
        BY SnapshotAssumption DEF Listed, WorkerState
    <2> QED
        BY <1>2, <2>1 DEF LoadSnapshot
<1>3. CASE Broadcast
    BY <1>3 DEF Broadcast
<1>4. CASE CheckTimeouts
    <2>1. \A w \in DOMAIN workers :
              /\ Judged(workers[w]).maxTasks = workers[w].maxTasks
              /\ Judged(workers[w]).currentTasks = workers[w].currentTasks
              /\ Judged(workers[w]).available = workers[w].available
        BY <1>0 DEF Judged, WorkerState
    <2> QED
        BY <1>4, <2>1 DEF CheckTimeouts
<1>5. ASSUME NEW w \in Worker, AllocateTask(w) PROVE FreeSlotsExact'
    <2>1. w \in DOMAIN workers /\ DOMAIN workers' = DOMAIN workers
        BY <1>5 DEF AllocateTask, CanAllocate
    <2>2. \A v \in DOMAIN workers : v # w => workers'[v] = workers[v]
        BY <1>5 DEF AllocateTask
    <2>3. /\ workers'[w].maxTasks = workers[w].maxTasks
          /\ workers'[w].currentTasks = workers[w].currentTasks + 1
          /\ workers'[w].available = workers[w].available - 1
        BY <1>0, <1>5, <2>1 DEF AllocateTask, WorkerState
    <2>4. workers[w].currentTasks \in Int /\ workers[w].available \in Int
        BY <1>0, <2>1 DEF WorkerState
    <2> QED
        BY <2>1, <2>2, <2>3, <2>4
<1>6. ASSUME NEW r \in Request, CapacityChanged(r) \/ Forget(r) PROVE FreeSlotsExact'
    BY <1>6 DEF CapacityChanged, Forget
<1>7. CASE Tick
    <2>1. \A w \in DOMAIN workers :
              /\ Aged(workers[w]).maxTasks = workers[w].maxTasks
              /\ Aged(workers[w]).currentTasks = workers[w].currentTasks
              /\ Aged(workers[w]).available = workers[w].available
        BY <1>0 DEF Aged, WorkerState
    <2> QED
        BY <1>7, <2>1 DEF Tick
<1>8. CASE UNCHANGED smVars
    BY <1>8 DEF smVars
<1> QED
    BY <1>1, <1>2, <1>3, <1>4, <1>5, <1>6, <1>7, <1>8 DEF SMNext

\* The headcounts of the three statuses make up the headcount of the table.
LEMMA HeadcountsAddUp ==
    ASSUME SMTypeOK
    PROVE  Headcount(workers, Online) + Headcount(workers, Suspicious)
             + Headcount(workers, Offline) = Cardinality(DOMAIN workers)
<1> DEFINE In(status) == {w \in DOMAIN workers : workers[w].status = status}
           Up == In(Online) \cup In(Suspicious)
<1>1. IsFiniteSet(DOMAIN workers)
    BY WorkerAssumption, FS_Subset DEF SMTypeOK
<1>2. \A status : IsFiniteSet(In(status)) /\ Cardinality(In(status)) \in Nat
    BY <1>1, FS_Subset, FS_CardinalityType
<1>3. /\ In(Online) \cap In(Suspicious) = {} /\ Up \cap In(Offline) = {}
      /\ Up \cup In(Offline) = DOMAIN workers
    BY DEF SMTypeOK, WorkerState, Online, Suspicious, Offline
<1> HIDE DEF In
<1>4. IsFiniteSet(Up) /\ Cardinality(Up) = Cardinality(In(Online)) + Cardinality(In(Suspicious))
    BY <1>2, <1>3, FS_EmptySet, FS_Union
<1> HIDE DEF Up
<1>5. IsFiniteSet(In(Offline)) /\ Cardinality(In(Offline)) \in Nat /\ Cardinality(Up) \in Nat
    BY <1>2, <1>4
<1>6. Cardinality(Up \cup In(Offline))
        = Cardinality(Up) + Cardinality(In(Offline)) - Cardinality(Up \cap In(Offline))
    BY <1>4, <1>5, FS_Union
<1>7. Cardinality(DOMAIN workers) = Cardinality(Up) + Cardinality(In(Offline))
    BY <1>3, <1>5, <1>6, FS_EmptySet
<1> QED
    BY <1>2, <1>4, <1>7 DEF Headcount, In

\* The gauges of one table add up when the slots of each of its entries do.
LEMMA ExactSlotsAddUp == ASSUME SMTypeOK, FreeSlotsExact PROVE StatsAddUp
<1>1. IsFiniteSet(DOMAIN workers)
    BY WorkerAssumption, FS_Subset DEF SMTypeOK
<1> DEFINE D == DOMAIN workers
           slots == [w \in D |-> workers[w].maxTasks]
           used  == [w \in D |-> workers[w].currentTasks]
           free  == [w \in D |-> workers[w].available]
<1>2. slots \in [D -> Int] /\ used \in [D -> Int] /\ free \in [D -> Int]
    BY DEF SMTypeOK, WorkerState
<1>3. \A w \in D : used[w] + free[w] = slots[w]
    BY DEF FreeSlotsExact
<1>4. SumFunction(used) + SumFunction(free) = SumFunction(slots)
    <2> HIDE DEF slots, used, free
    <2> QED
        BY <1>1, <1>2, <1>3, SumsAddUp
<1> QED
    BY <1>4, HeadcountsAddUp
       DEF StatsAddUp, HandleStats, ListWorkers, WorkerCounts, CapacitySummary

\* The slots of the table's entries are sound in every state.
LEMMA FreeSlotsAlwaysExact == SMSpec => []FreeSlotsExact
<1>1. SMInit => FreeSlotsExact
    BY DEF SMInit, FreeSlotsExact
<1> QED
    BY <1>1, FreeSlotsStep, SMTypeCorrect, PTL DEF SMSpec

\* GET /stats adds up in every state: each registered worker is counted under
\* one status, and the used and available slots summed by HandleStats make up
\* the total, for any number of workers and any reported load.
THEOREM StatsAlwaysAddUp == SMSpec => []StatsAddUp
BY FreeSlotsAlwaysExact, SMTypeCorrect, ExactSlotsAddUp, PTL

-----------------------------------------------------------------------------
\* A list of workers after so many ticks on its way.
Delivered(ws, ticks) ==
    [w \in DOMAIN ws |->
        [ws[w] EXCEPT !.age = IF @ + ticks <= AgeCap THEN @ + ticks ELSE AgeCap]]

\* A list that travels is as good as its scan was, and that much older.
LEMMA DeliveryAges ==
    ASSUME NEW ws, NEW lag \in Nat, NEW ticks \in Nat, Listed(ws, lag)
    PROVE  Listed(Delivered(ws, ticks), lag + ticks)
<1> USE ConfigAssumption DEF ValidConfig
<1>1. AgeCap \in Nat /\ AgeCap > OfflineThreshold /\ AgeCap > SuspiciousThreshold
    BY DEF AgeCap
<1> DEFINE ds == Delivered(ws, ticks)
<1>2. DOMAIN ds = DOMAIN ws
    BY DEF Delivered
<1>3. ASSUME NEW w \in DOMAIN ws
      PROVE  /\ ds[w] \in WorkerState
             /\ ds[w].maxTasks > 0 /\ ds[w].available = ds[w].maxTasks - ds[w].currentTasks
             /\ StatusFitsAge(ds[w]) /\ JudgedWithin(ds[w], lag + ticks)
    <2> DEFINE later == IF ws[w].age + ticks <= AgeCap THEN ws[w].age + ticks ELSE AgeCap
    <2>1. /\ ws[w] \in WorkerState /\ ws[w].maxTasks > 0
          /\ ws[w].available = ws[w].maxTasks - ws[w].currentTasks
          /\ StatusFitsAge(ws[w]) /\ JudgedWithin(ws[w], lag)
        BY DEF Listed
    <2>2. /\ ws[w].age \in 0 .. AgeCap /\ later \in 0 .. AgeCap
          /\ later <= ws[w].age + ticks
          /\ ws[w].age > OfflineThreshold => later > OfflineThreshold
          /\ ws[w].age > SuspiciousThreshold => later > SuspiciousThreshold
        BY <1>1, <2>1 DEF WorkerState
    <2>3. ds[w] = [ws[w] EXCEPT !.age = later]
        BY DEF Delivered
    <2> HIDE DEF later
    <2>4. ds[w] \in WorkerState
        BY <2>1, <2>2, <2>3 DEF WorkerState
    <2>5. /\ ds[w].age = later /\ ds[w].status = ws[w].status
          /\ ds[w].maxTasks = ws[w].maxTasks /\ ds[w].currentTasks = ws[w].currentTasks
          /\ ds[w].available = ws[w].available
        BY <2>1, <2>3 DEF WorkerState
    <2> HIDE DEF ds
    <2>6. StatusFitsAge(ds[w])
        BY <2>1, <2>2, <2>5 DEF StatusFitsAge
    <2>7. JudgedWithin(ds[w], lag + ticks)
        BY <2>1, <2>2, <2>5 DEF JudgedWithin
    <2> QED
        BY <2>1, <2>4, <2>5, <2>6, <2>7
<1> HIDE DEF ds
<1>4. ds \in [DOMAIN ds -> WorkerState]
    <2>1. ds = [w \in DOMAIN ds |-> ds[w]]
        BY DEF ds, Delivered
    <2> QED
        BY <1>2, <1>3, <2>1
<1>5. DOMAIN ds \subseteq Worker
    BY <1>2 DEF Listed
<1>6. Listed(ds, lag + ticks)
    BY <1>2, <1>3, <1>4, <1>5 DEF Listed
<1> QED
    BY <1>6 DEF ds

\* What is assumed of replicated lists is what a table guarantees of its own:
\* the list that ListWorkers returns at any moment, and that is loaded at
\* another node some ticks later, qualifies there as a snapshot whose lag covers
\* one scan interval and the time under way.
THEOREM ReplicatedListsQualify ==
    ASSUME NEW ticks \in Nat
    PROVE  SMSpec => []Listed(Delivered(ListWorkers, ticks),
                              SnapshotLag + TimeoutCheckInterval + ticks)
<1> USE ConfigAssumption DEF ValidConfig
<1>1. SMTypeOK /\ FreeSlotsExact /\ DemotedMeansStale /\ DetectionBound
        => Listed(workers, SnapshotLag + TimeoutCheckInterval)
    <2> SUFFICES ASSUME SMTypeOK, FreeSlotsExact, DemotedMeansStale, DetectionBound
                 PROVE  Listed(workers, SnapshotLag + TimeoutCheckInterval)
        OBVIOUS
    <2>1. SinceScan \in Nat /\ SinceScan <= TimeoutCheckInterval
        BY DEF SMTypeOK, SinceScan
    <2>2. ASSUME NEW w \in DOMAIN workers
          PROVE  /\ workers[w].available = workers[w].maxTasks - workers[w].currentTasks
                 /\ JudgedWithin(workers[w], SnapshotLag + TimeoutCheckInterval)
        <3>1. /\ workers[w].maxTasks \in Int /\ workers[w].currentTasks \in Int
              /\ workers[w].available \in Int /\ workers[w].age \in Int
            BY DEF SMTypeOK, WorkerState
        <3>2. JudgedWithin(workers[w], SinceScan + SnapshotLag)
            BY DEF DetectionBound
        <3>3. JudgedWithin(workers[w], SnapshotLag + TimeoutCheckInterval)
            BY <2>1, <3>1, <3>2 DEF JudgedWithin
        <3> QED
            BY <3>1, <3>3 DEF FreeSlotsExact
    <2> QED
        BY <2>2 DEF Listed, SMTypeOK, FreeSlotsExact, DemotedMeansStale
<1>2. Listed(workers, SnapshotLag + TimeoutCheckInterval)
        => Listed(Delivered(ListWorkers, ticks), SnapshotLag + TimeoutCheckInterval + ticks)
    <2>1. SnapshotLag + TimeoutCheckInterval \in Nat
        OBVIOUS
    <2> QED
        BY <2>1, DeliveryAges DEF ListWorkers
<1> QED
    BY <1>1, <1>2, SMTypeCorrect, FreeSlotsAlwaysExact, DemotedAlwaysStale, DetectionBounded, PTL
=============================================================================
