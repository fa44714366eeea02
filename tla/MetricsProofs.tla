---------------------------- MODULE MetricsProofs ----------------------------
(***************************************************************************)
(* What the counters of Endpoints count, and how far a snapshot of them    *)
(* may be off, for any number of connections.                              *)
(***************************************************************************)
EXTENDS EndpointsProofs

\* The requests with outcome o whose handler is at none of the places ps.
Group(ps, o) == {c \in {d \in Conn : pc[d] \notin ps} : outcome[c] = o}
Num(ps, o)   == Cardinality(Group(ps, o))

Requested == {"record"}
Settled   == {"record", "outcome"}

\* CountersTrue, by groups.
Counted ==
    /\ counter["requests"] = Num(Requested, "named") + Num(Requested, "failed")
    /\ counter["successes"] = Num(Settled, "named")
    /\ counter["failures"] = Num(Settled, "failed")
    /\ counter["latency"] = Num(Recording, "named") + Num(Recording, "failed")
    /\ counter["heartbeats"] = Num({}, "heard")

\* A request has an outcome once its call has returned.
OutcomeFollows(c) ==
    /\ pc[c] \in {"idle", "handler", "read"} => outcome[c] = Nothing
    /\ pc[c] \in Recording => outcome[c] \in {"named", "failed"}

CountInv == Counted /\ \A c \in Conn : OutcomeFollows(c)

\* The groups are finite: there are finitely many connections.
LEMMA NumIsNat == ASSUME NEW ps, NEW o PROVE IsFiniteSet(Group(ps, o)) /\ Num(ps, o) \in Nat
<1>1. Group(ps, o) \subseteq Conn
    BY DEF Group
<1> QED
    BY <1>1, ConnAssumption, FS_Subset, FS_CardinalityType DEF Num

\* The two ways to say what the counters count agree.
LEMMA CountedIsTrue == Counted <=> CountersTrue
<1>1. /\ Returned({d \in Conn : pc[d] \notin Requested}, "named") = Num(Requested, "named")
      /\ Returned({d \in Conn : pc[d] \notin Requested}, "failed") = Num(Requested, "failed")
      /\ Returned({d \in Conn : pc[d] \notin Settled}, "named") = Num(Settled, "named")
      /\ Returned({d \in Conn : pc[d] \notin Settled}, "failed") = Num(Settled, "failed")
      /\ Returned({d \in Conn : pc[d] \notin Recording}, "named") = Num(Recording, "named")
      /\ Returned({d \in Conn : pc[d] \notin Recording}, "failed") = Num(Recording, "failed")
    BY Zenon DEF Returned, Num, Group
<1>2. Returned(Conn, "heard") = Num({}, "heard")
    <2>1. {d \in Conn : pc[d] \notin {}} = Conn
        OBVIOUS
    <2> QED
        BY <2>1 DEF Returned, Num, Group
<1> QED
    BY <1>1, <1>2, Zenon DEF Counted, CountersTrue, Requested, Settled

\* A group stays when the connection that moves neither joins nor leaves it.
LEMMA GroupStays ==
    ASSUME NEW c \in Conn, \A d \in Conn : d # c => Rests(d),
           NEW CONSTANT ps, NEW CONSTANT o,
           (pc'[c] \notin ps /\ outcome'[c] = o) <=> (pc[c] \notin ps /\ outcome[c] = o)
    PROVE  Group(ps, o)' = Group(ps, o) /\ Num(ps, o)' = Num(ps, o)
<1>1. Group(ps, o)' = Group(ps, o)
    BY DEF Group, Rests
<1> QED
    BY <1>1 DEF Num

\* A group grows by one when that connection joins it.
LEMMA GroupGrows ==
    ASSUME NEW c \in Conn, \A d \in Conn : d # c => Rests(d),
           NEW CONSTANT ps, NEW CONSTANT o,
           ~(pc[c] \notin ps /\ outcome[c] = o), pc'[c] \notin ps /\ outcome'[c] = o
    PROVE  Num(ps, o)' = Num(ps, o) + 1
<1>1. Group(ps, o)' = Group(ps, o) \cup {c} /\ c \notin Group(ps, o)
    BY DEF Group, Rests
<1>2. PICK S : S = Group(ps, o)
    OBVIOUS
<1>3. Cardinality(S \cup {c}) = Cardinality(S) + 1
    BY <1>1, <1>2, NumIsNat, FS_AddElement
<1> QED
    BY <1>1, <1>2, <1>3 DEF Num

\* The groups the counters count.
Counts(ps, o) ==
    \/ ps \in {Requested, Settled, Recording} /\ o \in {"named", "failed"}
    \/ ps = {} /\ o = "heard"

\* If no group changes the counters stay right.
LEMMA CountedStays ==
    ASSUME Counted, counter' = counter,
           \A ps \in {Requested, Settled, Recording, {}} : \A o \in {"named", "failed", "heard"} :
               Counts(ps, o) => Num(ps, o)' = Num(ps, o)
    PROVE  Counted'
<1>1. /\ Num(Requested, "named")' = Num(Requested, "named")
      /\ Num(Requested, "failed")' = Num(Requested, "failed")
      /\ Num(Settled, "named")' = Num(Settled, "named")
      /\ Num(Settled, "failed")' = Num(Settled, "failed")
      /\ Num(Recording, "named")' = Num(Recording, "named")
      /\ Num(Recording, "failed")' = Num(Recording, "failed")
      /\ Num({}, "heard")' = Num({}, "heard")
    BY Zenon DEF Counts
<1> QED
    BY <1>1, Zenon DEF Counted

\* Steps that record nothing.
LEMMA QuietStep ==
    ASSUME Counted, NEW c \in Conn, OutcomeFollows(c), \A d \in Conn : d # c => Rests(d),
           counter' = counter,
           \/ pc[c] \notin Recording /\ pc'[c] \notin Recording /\ outcome'[c] = outcome[c]
           \/ /\ pc[c] = "handler" /\ pc'[c] = "record"
              /\ outcome'[c] \in {"named", "failed"}
    PROVE  Counted'
<1>1. ASSUME NEW CONSTANT ps, NEW CONSTANT o, Counts(ps, o) PROVE Num(ps, o)' = Num(ps, o)
    <2>1. (pc'[c] \notin ps /\ outcome'[c] = o) <=> (pc[c] \notin ps /\ outcome[c] = o)
        BY <1>1 DEF OutcomeFollows, Counts, Requested, Settled, Recording, Nothing
    <2> QED
        BY <2>1, GroupStays
<1> QED
    BY <1>1, CountedStays

\* The steps that record: one group grows, and one counter with it.
LEMMA RecordStep ==
    ASSUME Typed, Counted, NEW c \in Conn, OutcomeFollows(c),
           \A d \in Conn : d # c => Rests(d),
           RecordRequest(c) \/ RecordOutcome(c) \/ RecordLatency(c) \/ HandleHeartbeat(c)
    PROVE  Counted'
<1> DEFINE Grows(ps, o) == pc'[c] \notin ps /\ outcome'[c] = o
                           /\ ~(pc[c] \notin ps /\ outcome[c] = o)
           Stays(ps, o) == (pc'[c] \notin ps /\ outcome'[c] = o)
                              <=> (pc[c] \notin ps /\ outcome[c] = o)
<1>1. ASSUME NEW CONSTANT ps, NEW CONSTANT o
      PROVE  /\ Num(ps, o) \in Nat
             /\ Stays(ps, o) => Num(ps, o)' = Num(ps, o)
             /\ Grows(ps, o) => Num(ps, o)' = Num(ps, o) + 1
    BY GroupStays, GroupGrows, NumIsNat
<1>2. DOMAIN counter = Field /\ \A f \in Field : counter[f] \in Nat
    BY DEF Typed
<1> HIDE DEF Grows, Stays
<1> USE DEF Typed, Goto, Field, Add, Requested, Settled, Recording
<1>3. CASE RecordRequest(c)
    <2>1. pc[c] = "record" /\ pc'[c] = "outcome" /\ outcome'[c] = outcome[c]
        BY <1>3 DEF RecordRequest
    <2>2. counter' = [counter EXCEPT !["requests"] = @ + 1]
        BY <1>3 DEF RecordRequest, AddRequest
    <2>3. /\ Stays(Settled, "named") /\ Stays(Settled, "failed")
          /\ Stays(Recording, "named") /\ Stays(Recording, "failed") /\ Stays({}, "heard")
        BY <2>1 DEF Stays
    <2>4. \/ Grows(Requested, "named") /\ Stays(Requested, "failed")
          \/ Stays(Requested, "named") /\ Grows(Requested, "failed")
        BY <2>1 DEF Stays, Grows, OutcomeFollows
    <2>5. Num(Requested, "named")' + Num(Requested, "failed")'
             = Num(Requested, "named") + Num(Requested, "failed") + 1
        BY <1>1, <2>4
    <2>6. counter'["requests"] = counter["requests"] + 1
          /\ \A f \in Field : f # "requests" => counter'[f] = counter[f]
        BY <1>2, <2>2
    <2> QED
        BY <1>1, <2>3, <2>5, <2>6 DEF Counted
<1>4. CASE RecordOutcome(c)
    <2>1. pc[c] = "outcome" /\ pc'[c] = "latency" /\ outcome'[c] = outcome[c]
        BY <1>4 DEF RecordOutcome
    <2>2. /\ Stays(Requested, "named") /\ Stays(Requested, "failed")
          /\ Stays(Recording, "named") /\ Stays(Recording, "failed") /\ Stays({}, "heard")
        BY <2>1 DEF Stays
    <2>3. CASE outcome[c] = "named"
        <3>1. counter' = [counter EXCEPT !["successes"] = @ + 1]
            BY <1>4, <2>3 DEF RecordOutcome, AddOutcome
        <3>2. Grows(Settled, "named") /\ Stays(Settled, "failed")
            BY <2>1, <2>3 DEF Stays, Grows
        <3> QED
            BY <1>1, <1>2, <2>2, <3>1, <3>2 DEF Counted
    <2>4. CASE outcome[c] = "failed"
        <3>1. counter' = [counter EXCEPT !["failures"] = @ + 1]
            BY <1>4, <2>4 DEF RecordOutcome, AddOutcome
        <3>2. Stays(Settled, "named") /\ Grows(Settled, "failed")
            BY <2>1, <2>4 DEF Stays, Grows
        <3> QED
            BY <1>1, <1>2, <2>2, <3>1, <3>2 DEF Counted
    <2> QED
        BY <2>1, <2>3, <2>4 DEF OutcomeFollows
<1>5. CASE RecordLatency(c)
    <2>1. pc[c] = "latency" /\ pc'[c] = "answer" /\ outcome'[c] = outcome[c]
        BY <1>5 DEF RecordLatency
    <2>2. counter' = [counter EXCEPT !["latency"] = @ + 1]
        BY <1>5 DEF RecordLatency, AddLatency
    <2>3. /\ Stays(Requested, "named") /\ Stays(Requested, "failed")
          /\ Stays(Settled, "named") /\ Stays(Settled, "failed") /\ Stays({}, "heard")
        BY <2>1 DEF Stays
    <2>4. \/ Grows(Recording, "named") /\ Stays(Recording, "failed")
          \/ Stays(Recording, "named") /\ Grows(Recording, "failed")
        BY <2>1 DEF Stays, Grows, OutcomeFollows
    <2>5. Num(Recording, "named")' + Num(Recording, "failed")'
             = Num(Recording, "named") + Num(Recording, "failed") + 1
        BY <1>1, <2>4
    <2>6. counter'["latency"] = counter["latency"] + 1
          /\ \A f \in Field : f # "latency" => counter'[f] = counter[f]
        BY <1>2, <2>2
    <2> QED
        BY <1>1, <2>3, <2>5, <2>6 DEF Counted
<1>6. CASE HandleHeartbeat(c)
    <2>1. pc[c] = "handler" /\ pc'[c] = "answer" /\ outcome'[c] = "heard"
        BY <1>6 DEF HandleHeartbeat, Answering
    <2>2. counter' = [counter EXCEPT !["heartbeats"] = @ + 1]
        BY <1>6 DEF HandleHeartbeat, RecordHeartbeat
    <2>3. outcome[c] = Nothing
        BY <2>1 DEF OutcomeFollows
    <2>4. /\ Stays(Requested, "named") /\ Stays(Requested, "failed")
          /\ Stays(Settled, "named") /\ Stays(Settled, "failed")
          /\ Stays(Recording, "named") /\ Stays(Recording, "failed")
          /\ Grows({}, "heard")
        BY <2>1, <2>3 DEF Stays, Grows, Nothing
    <2> QED
        BY <1>1, <1>2, <2>2, <2>4 DEF Counted
<1> QED
    BY <1>3, <1>4, <1>5, <1>6

\* Every step of the program keeps the counters right.
LEMMA CountStep == Typed /\ CountInv /\ [Next]_vars => CountInv'
<1> SUFFICES ASSUME Typed, CountInv, [Next]_vars PROVE CountInv'
    OBVIOUS
<1>0. Counted /\ \A c \in Conn : OutcomeFollows(c)
    BY DEF CountInv
<1>1. ASSUME NEW c \in Conn, HandlerStep(c) \/ \E e \in Endpoint : Accept(c, e)
      PROVE  CountInv'
    <2>1. \A d \in Conn : d # c => Rests(d)
        BY <1>1, OthersRest
    <2>2. \A d \in Conn : d # c => OutcomeFollows(d)'
        BY <1>0, <2>1 DEF OutcomeFollows, Rests
    <2> USE DEF Typed, Goto
    <2>3. CASE RecordRequest(c) \/ RecordOutcome(c) \/ RecordLatency(c) \/ HandleHeartbeat(c)
        <3>1. Counted'
            BY <1>0, <2>1, <2>3, RecordStep
        <3>2. OutcomeFollows(c)'
            BY <1>0, <2>3 DEF OutcomeFollows, RecordRequest, RecordOutcome, RecordLatency,
                              HandleHeartbeat, Answering, Recording
        <3> QED
            BY <2>2, <3>1, <3>2 DEF CountInv
    <2>4. ASSUME NEW o \in {"named", "failed"}, ScheduleReturns(c, o) PROVE CountInv'
        <3>1. /\ pc[c] = "handler" /\ pc'[c] = "record" /\ outcome'[c] = o
              /\ counter' = counter
            BY <2>4 DEF ScheduleReturns
        <3>2. Counted'
            BY <1>0, <2>1, <3>1, QuietStep
        <3>3. OutcomeFollows(c)'
            BY <3>1 DEF OutcomeFollows
        <3> QED
            BY <2>2, <3>2, <3>3 DEF CountInv
    <2>5. CASE \/ RejectRole(c)
               \/ \E code \in {BadRequest, MethodNotAllowed} : RejectRequest(c, code)
               \/ HandleListWorkers(c) \/ HandleStats(c) \/ Load(c)
               \/ SnapshotTaken(c) \/ AnswerHeader(c) \/ AnswerBody(c) \/ Return(c)
               \/ Panic(c) \/ Unwind(c) \/ \E e \in Endpoint : Accept(c, e)
        <3>1. /\ pc[c] \notin Recording /\ pc'[c] \notin Recording
              /\ pc'[c] \in {"idle", "handler", "read"} => pc[c] \in {"idle", "handler", "read"}
              /\ outcome' = outcome /\ counter' = counter
            BY <2>5 DEF RejectRole, RejectRequest, HandleListWorkers, HandleStats, Load,
                        SnapshotTaken, AnswerHeader, AnswerBody, Return, Panic, Unwind, Accept, Answering,
                        Recording
        <3>2. Counted'
            BY <1>0, <2>1, <3>1, QuietStep
        <3>3. OutcomeFollows(c)'
            BY <1>0, <3>1 DEF OutcomeFollows
        <3> QED
            BY <2>2, <3>2, <3>3 DEF CountInv
    <2> QED
        BY <1>1, <2>3, <2>4, <2>5 DEF HandlerStep
<1>2. CASE UNCHANGED vars
    <2>1. pc' = pc /\ outcome' = outcome /\ counter' = counter
        BY <1>2 DEF vars
    <2>2. ASSUME NEW CONSTANT ps, NEW CONSTANT o PROVE Num(ps, o)' = Num(ps, o)
        BY <2>1, Zenon DEF Num, Group
    <2>3. Counted'
        BY <1>0, <2>1, <2>2, CountedStays
    <2>4. \A c \in Conn : OutcomeFollows(c)'
        BY <1>0, <2>1, Zenon DEF OutcomeFollows
    <2> QED
        BY <2>3, <2>4, Zenon DEF CountInv
<1> QED
    BY <1>1, <1>2 DEF Next

\* At first nothing has been counted.
LEMMA CountInit == Init => CountInv
<1> SUFFICES ASSUME Init PROVE CountInv
    OBVIOUS
<1>1. ASSUME NEW ps, NEW o, o # Nothing PROVE Num(ps, o) = 0
    <2>1. Group(ps, o) = {}
        BY <1>1 DEF Group, Init
    <2> QED
        BY <2>1, FS_EmptySet DEF Num
<1>2. Counted
    <2>1. /\ Num(Requested, "named") = 0 /\ Num(Requested, "failed") = 0
          /\ Num(Settled, "named") = 0 /\ Num(Settled, "failed") = 0
          /\ Num(Recording, "named") = 0 /\ Num(Recording, "failed") = 0
          /\ Num({}, "heard") = 0
        <3>1. "named" # Nothing /\ "failed" # Nothing /\ "heard" # Nothing
            BY DEF Nothing
        <3> QED
            BY <1>1, <3>1, Zenon
    <2>2. \A f \in Field : counter[f] = 0
        BY DEF Init, NewMetrics
    <2> QED
        BY <2>1, <2>2 DEF Counted, Field
<1>3. \A c \in Conn : OutcomeFollows(c)
    BY DEF OutcomeFollows, Init, Recording
<1> QED
    BY <1>2, <1>3 DEF CountInv

(***************************************************************************)
(* Every attempt that returned is counted once, as far as RecordSchedule   *)
(* has come with it, and every heartbeat taken is counted.                 *)
(***************************************************************************)
THEOREM CountersAlwaysTrue == Spec => []CountersTrue
<1>1. CountInv => CountersTrue
    BY CountedIsTrue DEF CountInv
<1> QED
    BY <1>1, InitInv, CountInit, TypedStep, CountStep, PTL DEF Spec

-----------------------------------------------------------------------------
\* The attempts that are being recorded.
Midway == Cardinality({d \in Conn : pc[d] = "outcome"})

\* What a snapshot has read covers what was answered before it was asked for.
Covers(c) ==
    LET named == Returned(before[c], "named")
        failed  == Returned(before[c], "failed")
        heard   == Returned(before[c], "heard")
    IN  /\ \A d \in before[c] : pc[d] = "done"
        /\ pc[c] \in {"idle", "handler"} => next[c] = 1
        /\ next[c] > 1 => snap[c]["latency"] >= named + failed
        /\ next[c] > 2 => snap[c]["requests"] >= named + failed
        /\ next[c] > 3 => snap[c]["successes"] >= named
        /\ next[c] > 4 => snap[c]["failures"] >= failed
        /\ next[c] > 5 => snap[c]["heartbeats"] >= heard

\* How its parts may differ while it is read.
Lags(c) ==
    /\ next[c] > 1 => snap[c]["latency"] <= counter["requests"]
    /\ next[c] > 2 => snap[c]["latency"] <= snap[c]["requests"]
    /\ next[c] > 3 => snap[c]["successes"] <= counter["successes"]
    /\ next[c] > 4 => snap[c]["failures"] <= counter["failures"]
    /\ next[c] = 3 => snap[c]["requests"]
                        <= counter["successes"] + counter["failures"] + midway[c]
    /\ next[c] = 4 => snap[c]["requests"]
                        <= snap[c]["successes"] + counter["failures"] + midway[c]
    /\ next[c] > 4 => snap[c]["requests"]
                        <= snap[c]["successes"] + snap[c]["failures"] + midway[c]

SnapInv == \A c \in Conn : Covers(c) /\ Lags(c)

\* Requests are ahead of outcomes by the attempts being recorded, and latency is
\* behind requests.
LEMMA CountersRelate ==
    ASSUME Typed, CountInv
    PROVE  /\ Midway \in Nat
           /\ counter["requests"] = counter["successes"] + counter["failures"] + Midway
           /\ counter["latency"] <= counter["requests"]
<1> DEFINE Mid(o) == {d \in Conn : pc[d] = "outcome" /\ outcome[d] = o}
<1>1. ASSUME NEW o PROVE /\ IsFiniteSet(Mid(o)) /\ Cardinality(Mid(o)) \in Nat
                         /\ Num(Requested, o) = Num(Settled, o) + Cardinality(Mid(o))
    <2>1. Mid(o) \subseteq Conn
        OBVIOUS
    <2>2. IsFiniteSet(Mid(o)) /\ Cardinality(Mid(o)) \in Nat
        BY <2>1, ConnAssumption, FS_Subset, FS_CardinalityType
    <2>3. Group(Requested, o) = Group(Settled, o) \cup Mid(o)
        BY DEF Group, Requested, Settled
    <2>4. Cardinality(Group(Settled, o) \cap Mid(o)) = 0
        <3>1. Group(Settled, o) \cap Mid(o) = {}
            BY DEF Group, Settled
        <3> QED
            BY <3>1, FS_EmptySet
    <2>5. PICK S, T : S = Group(Settled, o) /\ T = Mid(o)
        OBVIOUS
    <2>6. Cardinality(S \cup T) = Cardinality(S) + Cardinality(T) - Cardinality(S \cap T)
        BY <2>2, <2>5, NumIsNat, FS_Union
    <2> QED
        BY <2>2, <2>3, <2>4, <2>5, <2>6, NumIsNat DEF Num
<1>2. Midway = Cardinality(Mid("named")) + Cardinality(Mid("failed"))
    <2>1. {d \in Conn : pc[d] = "outcome"} = Mid("named") \cup Mid("failed")
        <3>1. \A d \in Conn : pc[d] = "outcome" => outcome[d] \in {"named", "failed"}
            BY DEF CountInv, OutcomeFollows, Recording
        <3> QED
            BY <3>1
    <2>2. Cardinality(Mid("named") \cap Mid("failed")) = 0
        <3>1. \A d : d \notin Mid("named") \cap Mid("failed")
            OBVIOUS
        <3> QED
            BY <3>1, FS_EmptySet
    <2>3. /\ IsFiniteSet(Mid("named")) /\ Cardinality(Mid("named")) \in Nat
          /\ IsFiniteSet(Mid("failed")) /\ Cardinality(Mid("failed")) \in Nat
        BY <1>1, Zenon
    <2> HIDE DEF Mid
    <2>4. Cardinality(Mid("named") \cup Mid("failed"))
             = Cardinality(Mid("named")) + Cardinality(Mid("failed"))
                 - Cardinality(Mid("named") \cap Mid("failed"))
        BY <2>3, FS_Union
    <2>5. Midway = Cardinality(Mid("named") \cup Mid("failed"))
        BY <2>1 DEF Midway
    <2> QED
        BY <2>2, <2>3, <2>4, <2>5
<1>3. ASSUME NEW o PROVE Num(Recording, o) <= Num(Requested, o)
    <2>1. Group(Recording, o) \subseteq Group(Requested, o)
        BY DEF Group, Recording, Requested
    <2> QED
        BY <2>1, NumIsNat, FS_Subset DEF Num
<1> HIDE DEF Mid
<1> QED
    BY <1>1, <1>2, <1>3, NumIsNat DEF CountInv, Counted

(***************************************************************************)
(* The counters themselves never show more outcomes than requests: a       *)
(* snapshot that does shows what was true at no point in time.             *)
(***************************************************************************)
THEOREM CountersFit == Spec => []PartsFit(counter)
<1>1. Typed /\ CountInv => PartsFit(counter)
    <2> SUFFICES ASSUME Typed, CountInv PROVE PartsFit(counter)
        OBVIOUS
    <2>1. counter["successes"] \in Nat /\ counter["failures"] \in Nat
        BY DEF Typed, Field
    <2> QED
        BY <2>1, CountersRelate DEF PartsFit
<1> QED
    BY <1>1, InitInv, CountInit, TypedStep, CountStep, PTL DEF Spec

\* The counters are not below what has been answered.
LEMMA FloorBound ==
    ASSUME Typed, CountInv, NEW c \in Conn, \A d \in before[c] : pc[d] = "done"
    PROVE  LET named == Returned(before[c], "named")
               failed  == Returned(before[c], "failed")
               heard   == Returned(before[c], "heard")
           IN  /\ named \in Nat /\ failed \in Nat /\ heard \in Nat
               /\ counter["requests"] >= named + failed
               /\ counter["successes"] >= named
               /\ counter["failures"] >= failed
               /\ counter["latency"] >= named + failed
               /\ counter["heartbeats"] >= heard
<1>1. before[c] \subseteq Conn
    BY DEF Typed
<1>2. ASSUME NEW ps, NEW o, "done" \notin ps
      PROVE  Returned(before[c], o) \in Nat /\ Returned(before[c], o) <= Num(ps, o)
    <2>1. {d \in before[c] : outcome[d] = o} \subseteq Group(ps, o)
        BY <1>1, <1>2 DEF Group
    <2> QED
        BY <2>1, NumIsNat, FS_Subset, FS_CardinalityType DEF Returned, Num
<1>3. "done" \notin Requested /\ "done" \notin Settled /\ "done" \notin Recording /\ "done" \notin {}
    BY DEF Requested, Settled, Recording
<1>4. ASSUME NEW o
      PROVE  /\ Returned(before[c], o) \in Nat
             /\ Num(Requested, o) \in Nat /\ Returned(before[c], o) <= Num(Requested, o)
             /\ Num(Settled, o) \in Nat /\ Returned(before[c], o) <= Num(Settled, o)
             /\ Num(Recording, o) \in Nat /\ Returned(before[c], o) <= Num(Recording, o)
             /\ Num({}, o) \in Nat /\ Returned(before[c], o) <= Num({}, o)
    BY <1>2, <1>3, NumIsNat
<1> QED
    BY <1>4 DEF CountInv, Counted

\* No step lowers a counter.
LEMMA CountersGrow ==
    ASSUME Typed, NEW c \in Conn, HandlerStep(c) \/ \E e \in Endpoint : Accept(c, e)
    PROVE  \A f \in Field : counter'[f] \in Nat /\ counter'[f] >= counter[f]
<1>1. counter' = counter \/ \E f \in Field : Add(f)
    <2>1. CASE RecordRequest(c) \/ RecordOutcome(c) \/ RecordLatency(c) \/ HandleHeartbeat(c)
        BY <2>1 DEF RecordRequest, RecordOutcome, RecordLatency, HandleHeartbeat, AddRequest,
                    AddOutcome, AddLatency, RecordHeartbeat, Field
    <2>2. CASE \/ RejectRole(c)
               \/ \E code \in {BadRequest, MethodNotAllowed} : RejectRequest(c, code)
               \/ HandleListWorkers(c) \/ HandleStats(c) \/ Load(c)
               \/ SnapshotTaken(c) \/ AnswerHeader(c) \/ AnswerBody(c) \/ Return(c)
               \/ Panic(c) \/ Unwind(c) \/ (\E e \in Endpoint : Accept(c, e))
               \/ (\E o \in {"named", "failed"} : ScheduleReturns(c, o))
        BY <2>2 DEF RejectRole, RejectRequest, HandleListWorkers, HandleStats, Load,
                    SnapshotTaken, AnswerHeader, AnswerBody, Return, Panic, Unwind, Accept, ScheduleReturns
    <2> QED
        BY <2>1, <2>2 DEF HandlerStep
<1> QED
    BY <1>1 DEF Typed, Add

\* A request that is done stays as it is.
LEMMA DoneRests ==
    ASSUME Typed, NEW c \in Conn, HandlerStep(c) \/ \E e \in Endpoint : Accept(c, e),
           NEW d \in Conn, pc[d] = "done"
    PROVE  Rests(d)
<1>1. pc[c] # "done"
    BY DEF HandlerStep, RejectRole, RejectRequest, HandleListWorkers, HandleStats, Load,
           SnapshotTaken, AnswerHeader, AnswerBody, Return, Panic, Unwind, Accept, ScheduleReturns,
           RecordRequest, RecordOutcome, RecordLatency, HandleHeartbeat
<1> QED
    BY <1>1, OthersRest

\* A step that leaves what connection c has read alone.
ReadRests(c) ==
    /\ snap'[c] = snap[c] /\ next'[c] = next[c] /\ midway'[c] = midway[c]
    /\ before'[c] = before[c]
    /\ pc'[c] \in {"idle", "handler"} => pc[c] \in {"idle", "handler"}

\* Only its own loads change what a connection has read.
LEMMA OthersReadRests ==
    ASSUME Typed, NEW c \in Conn, NEW d \in Conn,
           \/ HandlerStep(c) /\ (d # c \/ ~Load(c))
           \/ d # c /\ \E e \in Endpoint : Accept(c, e)
    PROVE  ReadRests(d)
<1> USE DEF Typed, ReadRests, Goto, Answering, readVars
<1>1. CASE \/ RejectRole(c)
           \/ \E code \in {BadRequest, MethodNotAllowed} : RejectRequest(c, code)
    BY <1>1 DEF RejectRole, RejectRequest
<1>2. CASE \E o \in {"named", "failed"} : ScheduleReturns(c, o)
    BY <1>2 DEF ScheduleReturns
<1>3. CASE RecordRequest(c) \/ RecordOutcome(c) \/ RecordLatency(c) \/ HandleHeartbeat(c)
    BY <1>3 DEF RecordRequest, RecordOutcome, RecordLatency, HandleHeartbeat
<1>4. CASE HandleListWorkers(c) \/ HandleStats(c) \/ SnapshotTaken(c)
    BY <1>4 DEF HandleListWorkers, HandleStats, SnapshotTaken
<1>5. CASE d # c /\ Load(c)
    BY <1>5 DEF Load
<1>6. CASE AnswerHeader(c) \/ AnswerBody(c) \/ Return(c) \/ Panic(c) \/ Unwind(c)
    BY <1>6 DEF AnswerHeader, AnswerBody, Return, Panic, Unwind
<1>7. ASSUME d # c, NEW e \in Endpoint, Accept(c, e) PROVE ReadRests(d)
    BY <1>7 DEF Accept
<1> QED
    BY <1>1, <1>2, <1>3, <1>4, <1>5, <1>6, <1>7 DEF HandlerStep

\* What has been read stays good while others move.
LEMMA ReadKeeps ==
    ASSUME Typed, Typed', NEW c \in Conn, Covers(c), Lags(c), ReadRests(c),
           \A d \in Conn : pc[d] = "done" => Rests(d),
           \A f \in Field : counter'[f] \in Nat /\ counter'[f] >= counter[f]
    PROVE  Covers(c)' /\ Lags(c)'
<1>1. \A d \in before[c] : pc'[d] = "done" /\ outcome'[d] = outcome[d]
    BY DEF Covers, Rests, Typed
<1>2. ASSUME NEW CONSTANT o PROVE Returned(before[c], o)' = Returned(before[c], o)
    BY <1>1 DEF Returned, ReadRests
<1>3. Covers(c)'
    BY <1>1, <1>2 DEF Covers, ReadRests
<1>4. Lags(c)'
    <2>1. /\ counter["requests"] \in Nat /\ counter'["requests"] >= counter["requests"]
          /\ counter["successes"] \in Nat /\ counter'["successes"] >= counter["successes"]
          /\ counter["failures"] \in Nat /\ counter'["failures"] >= counter["failures"]
          /\ counter'["requests"] \in Nat /\ counter'["successes"] \in Nat
          /\ counter'["failures"] \in Nat
        BY DEF Typed, Field
    <2>2. /\ snap[c]["latency"] \in Nat /\ snap[c]["requests"] \in Nat
          /\ snap[c]["successes"] \in Nat /\ snap[c]["failures"] \in Nat
        BY DEF Typed, Field
    <2>3. midway[c] \in Nat /\ next[c] \in Nat
        BY DEF Typed
    <2> QED
        BY <2>1, <2>2, <2>3 DEF Lags, ReadRests
<1> QED
    BY <1>3, <1>4

\* The load of one field, in the order of Snapshot.
LEMMA LoadKeeps ==
    ASSUME Typed, CountInv, NEW c \in Conn, Covers(c), Lags(c), Load(c)
    PROVE  Covers(c)' /\ Lags(c)'
<1>1. /\ ReadOrder[1] = "latency" /\ ReadOrder[2] = "requests" /\ ReadOrder[3] = "successes"
      /\ ReadOrder[4] = "failures" /\ ReadOrder[5] = "heartbeats" /\ Len(ReadOrder) = 5
    BY DEF ReadOrder
<1>2. next[c] \in 1 .. 5 /\ next'[c] = next[c] + 1 /\ pc' = pc /\ pc[c] = "read"
      /\ counter' = counter /\ before' = before /\ outcome' = outcome
    BY <1>1 DEF Load, Typed
<1>3. LET f == ReadOrder[next[c]]
      IN  /\ snap'[c][f] = counter[f]
          /\ \A g \in Field : g # f => snap'[c][g] = snap[c][g]
          /\ midway'[c] = IF f = "requests" THEN Midway ELSE midway[c]
    BY <1>1, <1>2 DEF Load, Typed, Midway, Field
<1>4. \A d \in before[c] : pc[d] = "done"
    BY DEF Covers
<1> DEFINE named == Returned(before[c], "named")
           failed  == Returned(before[c], "failed")
           heard   == Returned(before[c], "heard")
<1>5. /\ named \in Nat /\ failed \in Nat /\ heard \in Nat
      /\ counter["requests"] >= named + failed
      /\ counter["successes"] >= named
      /\ counter["failures"] >= failed
      /\ counter["latency"] >= named + failed
      /\ counter["heartbeats"] >= heard
    BY <1>4, FloorBound
<1>6. named' = named /\ failed' = failed /\ heard' = heard
    BY <1>2, Zenon DEF Returned
<1>7. /\ Midway \in Nat
      /\ counter["requests"] = counter["successes"] + counter["failures"] + Midway
      /\ counter["latency"] <= counter["requests"]
    BY CountersRelate
<1>8. /\ \A f \in Field : counter[f] \in Nat /\ snap[c][f] \in Nat
      /\ midway[c] \in Nat
    BY DEF Typed
<1>9. /\ \A d \in before'[c] : pc'[d] = "done"
      /\ pc'[c] \notin {"idle", "handler"}
    BY <1>2, <1>4
<1>10. /\ next[c] > 1 => snap[c]["latency"] >= named + failed
       /\ next[c] > 2 => snap[c]["requests"] >= named + failed
       /\ next[c] > 3 => snap[c]["successes"] >= named
       /\ next[c] > 4 => snap[c]["failures"] >= failed
    BY DEF Covers
<1> HIDE DEF named, failed, heard
<1> USE DEF Field
<1>11. CASE next[c] = 1
    <2>1. Covers(c)'
        BY <1>1, <1>2, <1>3, <1>5, <1>6, <1>8, <1>9, <1>10, <1>11 DEF Covers, named, failed, heard
    <2>2. Lags(c)'
        BY <1>1, <1>2, <1>3, <1>7, <1>8, <1>11 DEF Lags
    <2> QED
        BY <2>1, <2>2
<1>12. CASE next[c] = 2
    <2>1. Covers(c)'
        BY <1>1, <1>2, <1>3, <1>5, <1>6, <1>8, <1>9, <1>10, <1>12 DEF Covers, named, failed, heard
    <2>2. Lags(c)'
        BY <1>1, <1>2, <1>3, <1>7, <1>8, <1>12 DEF Lags
    <2> QED
        BY <2>1, <2>2
<1>13. CASE next[c] = 3
    <2>1. Covers(c)'
        BY <1>1, <1>2, <1>3, <1>5, <1>6, <1>8, <1>9, <1>10, <1>13 DEF Covers, named, failed, heard
    <2>2. Lags(c)'
        BY <1>1, <1>2, <1>3, <1>7, <1>8, <1>13 DEF Lags
    <2> QED
        BY <2>1, <2>2
<1>14. CASE next[c] = 4
    <2>1. Covers(c)'
        BY <1>1, <1>2, <1>3, <1>5, <1>6, <1>8, <1>9, <1>10, <1>14 DEF Covers, named, failed, heard
    <2>2. Lags(c)'
        BY <1>1, <1>2, <1>3, <1>7, <1>8, <1>14 DEF Lags
    <2> QED
        BY <2>1, <2>2
<1>15. CASE next[c] = 5
    <2>1. Covers(c)'
        BY <1>1, <1>2, <1>3, <1>5, <1>6, <1>8, <1>9, <1>10, <1>15 DEF Covers, named, failed, heard
    <2>2. Lags(c)'
        BY <1>1, <1>2, <1>3, <1>7, <1>8, <1>15 DEF Lags
    <2> QED
        BY <2>1, <2>2
<1> QED
    BY <1>2, <1>11, <1>12, <1>13, <1>14, <1>15

\* Every step keeps what snapshots have read good.
LEMMA SnapStep == Typed /\ CountInv /\ SnapInv /\ [Next]_vars => SnapInv'
<1> SUFFICES ASSUME Typed, CountInv, SnapInv, [Next]_vars, NEW d \in Conn
             PROVE  Covers(d)' /\ Lags(d)'
    BY DEF SnapInv
<1>0. Covers(d) /\ Lags(d)
    BY DEF SnapInv
<1>1. Typed'
    BY TypedStep
<1>2. ASSUME NEW c \in Conn, HandlerStep(c) \/ \E e \in Endpoint : Accept(c, e)
      PROVE  Covers(d)' /\ Lags(d)'
    <2>1. /\ \A b \in Conn : pc[b] = "done" => Rests(b)
          /\ \A f \in Field : counter'[f] \in Nat /\ counter'[f] >= counter[f]
        BY <1>2, DoneRests, CountersGrow
    <2>2. CASE ReadRests(d)
        BY <1>0, <1>1, <2>1, <2>2, ReadKeeps
    <2>3. CASE d = c /\ Load(c)
        BY <1>0, <2>3, LoadKeeps
    <2>4. ASSUME d = c, NEW e \in Endpoint, Accept(c, e) PROVE Covers(d)' /\ Lags(d)'
        <3>1. next'[d] = 1 /\ \A b \in before'[d] : pc[b] = "done" /\ b \in Conn
            BY <1>0, <2>4 DEF Accept, Covers, Typed
        <3>2. \A b \in before'[d] : pc'[b] = "done"
            BY <2>1, <3>1 DEF Rests
        <3> QED
            BY <3>1, <3>2 DEF Covers, Lags
    <2> QED
        BY <1>2, <2>2, <2>3, <2>4, OthersReadRests
<1>3. CASE UNCHANGED vars
    <2>1. ReadRests(d) /\ \A b \in Conn : Rests(b)
        BY <1>3 DEF vars, ReadRests, Rests
    <2>2. \A f \in Field : counter'[f] \in Nat /\ counter'[f] >= counter[f]
        BY <1>3 DEF vars, Typed
    <2> QED
        BY <1>0, <1>1, <2>1, <2>2, ReadKeeps
<1> QED
    BY <1>2, <1>3 DEF Next

\* At first nothing has been read.
LEMMA SnapInit == Init => SnapInv
BY DEF Init, SnapInv, Covers, Lags

\* The invariant of a snapshot, from load to load.
THEOREM SnapshotsFollow == Spec => [](Typed /\ CountInv /\ SnapInv)
BY InitInv, CountInit, SnapInit, TypedStep, CountStep, SnapStep, PTL DEF Spec

(***************************************************************************)
(* A snapshot counts everything that was answered before it was asked for. *)
(***************************************************************************)
THEOREM SnapshotsCoverAnswered == Spec => []SnapshotCoversAnswered
<1>1. ASSUME Typed, SnapInv PROVE SnapshotCoversAnswered
    <2>1. Len(ReadOrder) = 5
        BY DEF ReadOrder
    <2>2. \A c \in Conn : next[c] \in Nat
        BY <1>1 DEF Typed
    <2> QED
        BY <1>1, <2>1, <2>2 DEF SnapInv, Covers, SnapshotCoversAnswered, Complete
<1> QED
    BY <1>1, SnapshotsFollow, PTL

(***************************************************************************)
(* Its outcomes lag behind its requests by no more than the attempts being *)
(* recorded when the requests were read, they are never more than the      *)
(* requests counted by its end, and its latency is no further than its     *)
(* requests.                                                               *)
(***************************************************************************)
THEOREM SnapshotsLag == Spec => []SnapshotLags
<1>1. ASSUME Typed, CountInv, SnapInv PROVE SnapshotLags
    <2>1. Len(ReadOrder) = 5
        BY DEF ReadOrder
    <2>2. ASSUME NEW c \in Conn, Complete(c)
          PROVE  LET outcomes == snap[c]["successes"] + snap[c]["failures"]
                 IN  /\ snap[c]["requests"] <= outcomes + midway[c]
                     /\ outcomes <= counter["requests"]
                     /\ snap[c]["latency"] <= snap[c]["requests"]
        <3>1. next[c] > 5
            BY <2>1, <2>2 DEF Complete
        <3>2. /\ snap[c]["successes"] \in Nat /\ snap[c]["failures"] \in Nat
              /\ counter["successes"] \in Nat /\ counter["failures"] \in Nat
              /\ next[c] \in Nat
            BY <1>1 DEF Typed, Field
        <3>3. /\ Midway \in Nat
              /\ counter["requests"] = counter["successes"] + counter["failures"] + Midway
            BY <1>1, CountersRelate
        <3>4. /\ snap[c]["requests"] <= snap[c]["successes"] + snap[c]["failures"] + midway[c]
              /\ snap[c]["successes"] <= counter["successes"]
              /\ snap[c]["failures"] <= counter["failures"]
              /\ snap[c]["latency"] <= snap[c]["requests"]
            BY <1>1, <3>1, <3>2 DEF SnapInv, Lags
        <3> QED
            BY <3>2, <3>3, <3>4
    <2> QED
        BY <2>2 DEF SnapshotLags
<1> QED
    BY <1>1, SnapshotsFollow, PTL
=============================================================================
