----------------------- MODULE HeartbeatSenderProofs -----------------------
(***************************************************************************)
(* The bounds of HeartbeatSender for any number of schedulers, intervals,  *)
(* timeouts, delays, losses and restarts.                                  *)
(***************************************************************************)
EXTENDS HeartbeatSender, TLAPS

\* The ticker is at most one interval behind the last send until it fires.
TickIsDue == ~ticked => sinceSend + tickIn <= Interval

\* The time of so many gaps.
Gaps(m) == m * Gap

\* While the heartbeat is on its way to the primary in time, the silence dates
\* from before it was sent; otherwise it was taken or is counted as missed.
SilenceSoFar ==
    IF post[Primary] = "sent"
    THEN sinceSend <= Delay /\ silent <= Gaps(missed + 1) + sinceSend
    ELSE silent <= Gaps(missed) + sinceSend

\* A heartbeat sent after the last change carries the worker's count.
ReportsCount == quiet > sinceSend => reported = count

\* An entry that is off was changed after the last send, or waits for it.
OffSince ==
    entry # count =>
        \/ quiet <= sinceSend
        \/ post[Primary] = "sent" /\ quiet <= Gap + sinceSend

RunInv == TickIsDue /\ SilenceSoFar /\ ReportsCount /\ OffSince

SenderInv == TypeOK /\ (running => RunInv)

LEMMA GapBounds ==
    /\ Gap \in Nat /\ Interval <= Gap /\ Timeout <= Gap /\ Delay \in Nat
    /\ Interval \in Nat /\ Timeout \in Nat
BY TimeAssumption DEF Gap

LEMMA GapsCount ==
    /\ Gaps(0) = 0
    /\ \A m \in Nat : Gaps(m) \in Nat /\ Gaps(m + 1) = Gaps(m) + Gap
<1>1. Gap \in Nat
    BY GapBounds
<1>2. ASSUME NEW m \in Nat PROVE m * Gap \in Nat /\ (m + 1) * Gap = m * Gap + Gap
    BY <1>1
<1> QED
    BY <1>1, <1>2 DEF Gaps

LEMMA InitInv == Init => SenderInv
<1> USE TimeAssumption, CountAssumption, TargetAssumption, GapBounds, GapsCount
<1> SUFFICES ASSUME Init PROVE SenderInv
    OBVIOUS
<1>1. TypeOK
    <2>1. post \in [Target -> PostState]
        BY DEF Init, PostState, Over
    <2>2. running \in BOOLEAN /\ ticked \in BOOLEAN
        BY DEF Init
    <2> QED
        BY <2>1, <2>2 DEF Init, TypeOK
<1>2. RunInv
    BY <1>1 DEF Init, RunInv, TickIsDue, SilenceSoFar, ReportsCount, OffSince
<1> QED
    BY <1>1, <1>2 DEF SenderInv

\* Every step keeps the types; only Clock needs more than the types for that.
LEMMA TypeStep == SenderInv /\ [Next]_vars => TypeOK'
<1> USE TimeAssumption, CountAssumption, TargetAssumption, GapBounds
<1> SUFFICES ASSUME SenderInv, [Next]_vars PROVE TypeOK'
    OBVIOUS
<1>0. TypeOK
    BY DEF SenderInv
<1> USE <1>0 DEF TypeOK, PostState, Over
<1>1. CASE Send
    <2>1. post' \in [Target -> PostState]
        BY <1>1 DEF Send
    <2>2. running' \in BOOLEAN /\ ticked' \in BOOLEAN
        BY <1>1, Zenon DEF Send
    <2> QED
        BY <1>1, <2>1, <2>2 DEF Send, primaryVars
<1>2. ASSUME NEW t \in Target, Take(t) PROVE TypeOK'
    BY <1>2 DEF Take, Hear
<1>3. ASSUME NEW t \in Target, Answer(t) PROVE TypeOK'
    BY <1>3 DEF Answer, primaryVars
<1>4. ASSUME NEW t \in Target, Fail(t) PROVE TypeOK'
    BY <1>4 DEF Fail, Miss
<1>5. CASE LateArrival \/ LoseLate
    BY <1>5 DEF LateArrival, LoseLate, Hear, senderVars
<1>6. ASSUME NEW n \in 0 .. TaskCap, UpdateTaskCount(n) PROVE TypeOK'
    BY <1>6 DEF UpdateTaskCount
<1>7. CASE Grant \/ PrimaryRestarts
    BY <1>7 DEF Grant, PrimaryRestarts, senderVars
<1>8. CASE Stop
    BY <1>8 DEF Stop
<1>9. CASE Restart
    <2>1. post' \in [Target -> PostState]
        BY <1>9 DEF Restart, Started
    <2>2. running' \in BOOLEAN /\ ticked' \in BOOLEAN
        BY <1>9, Zenon DEF Restart, Started
    <2> QED
        BY <1>9, <2>1, <2>2 DEF Restart, Started
<1>10. CASE Clock
    <2>1. sinceSend' \in 0 .. Gap
        <3>1. sinceSend' = sinceSend + 1
            BY <1>10 DEF Clock
        <3>2. CASE Idle
            BY <1>10, <3>1, <3>2 DEF Clock, SenderInv, RunInv, TickIsDue
        <3>3. CASE ~Idle
            BY <1>10, <3>1, <3>3 DEF Clock, Idle, Expired
        <3> QED
            BY <3>2, <3>3
    <2>2. tickIn' \in 1 .. Interval /\ ticked' \in BOOLEAN
        BY <1>10 DEF Clock, TickerRuns
    <2>3. post' \in [Target -> PostState]
        BY <1>10 DEF Clock
    <2>4. missed' \in Nat /\ quiet' \in 0 .. Gap + Delay + 1
        BY <1>10 DEF Clock, Miss
    <2> QED
        BY <1>10, <2>1, <2>2, <2>3, <2>4 DEF Clock
<1>11. CASE UNCHANGED vars
    BY <1>11 DEF vars, senderVars, primaryVars
<1> QED
    BY <1>1, <1>2, <1>3, <1>4, <1>5, <1>6, <1>7, <1>8, <1>9, <1>10, <1>11 DEF Next

\* Every step keeps the bounds on the silence and on how long the entry is off.
LEMMA RunInvStep == SenderInv /\ TypeOK' /\ [Next]_vars /\ running' => RunInv'
<1> USE TimeAssumption, CountAssumption, TargetAssumption, GapBounds, GapsCount
<1> SUFFICES ASSUME SenderInv, TypeOK', [Next]_vars, running' PROVE RunInv'
    OBVIOUS
<1>0. TypeOK
    BY DEF SenderInv
<1> USE <1>0 DEF TypeOK, PostState, Over, TickIsDue, SilenceSoFar, ReportsCount, OffSince
<1>1. CASE Send
    <2>1. RunInv
        BY <1>1 DEF Send, SenderInv
    <2>2. post[Primary] \in Over /\ post'[Primary] = "sent"
        BY <1>1 DEF Send, Idle
    <2> QED
        BY <1>1, <2>1, <2>2 DEF Send, RunInv, primaryVars
<1>2. ASSUME NEW t \in Target, Take(t) PROVE RunInv'
    <2>1. RunInv
        BY <1>2 DEF Take, SenderInv
    <2>2. UNCHANGED <<ticked, tickIn, sinceSend, reported, count, quiet>>
        BY <1>2 DEF Take
    <2>3. TickIsDue' /\ ReportsCount'
        BY <2>1, <2>2 DEF RunInv
    <2>4. CASE t = Primary
        <3>1. /\ post'[Primary] = "taken" /\ entry' = reported
              /\ silent' = 0 /\ missed' = 0
            BY <1>2, <2>4 DEF Take, Hear
        <3>2. SilenceSoFar'
            BY <2>2, <3>1
        <3>3. OffSince'
            BY <2>1, <2>2, <3>1 DEF RunInv
        <3> QED
            BY <2>3, <3>2, <3>3 DEF RunInv
    <2>5. CASE t # Primary
        <3>1. /\ post'[Primary] = post[Primary]
              /\ UNCHANGED <<entry, silent, missed>>
            BY <1>2, <2>5 DEF Take
        <3> QED
            BY <2>1, <2>2, <2>3, <3>1 DEF RunInv
    <2> QED
        BY <2>4, <2>5
<1>3. ASSUME NEW t \in Target, Answer(t) PROVE RunInv'
    <2>1. RunInv
        BY <1>3 DEF Answer, SenderInv
    <2> QED
        BY <1>3, <2>1 DEF Answer, primaryVars, RunInv
<1>4. ASSUME NEW t \in Target, Fail(t) PROVE RunInv'
    <2>1. RunInv
        BY <1>4 DEF Fail, SenderInv
    <2>2. UNCHANGED <<ticked, tickIn, sinceSend, reported, count, entry, silent>>
        BY <1>4 DEF Fail
    <2>3. CASE t = Primary /\ post[t] = "sent"
        <3>1. post'[Primary] = "failed" /\ missed' = missed + 1 /\ quiet' = 0
            BY <1>4, <2>3 DEF Fail, Miss
        <3> QED
            BY <2>1, <2>2, <2>3, <3>1 DEF RunInv
    <2>4. CASE ~(t = Primary /\ post[t] = "sent")
        <3>1. /\ post'[Primary] = "sent" <=> post[Primary] = "sent"
              /\ UNCHANGED <<missed, quiet>>
            BY <1>4, <2>4 DEF Fail
        <3> QED
            BY <2>1, <2>2, <3>1 DEF RunInv
    <2> QED
        BY <2>3, <2>4
<1>5. CASE LateArrival \/ LoseLate
    <2>1. RunInv /\ UNCHANGED senderVars
        BY <1>5 DEF LateArrival, LoseLate, senderVars, SenderInv
    <2>2. CASE LateArrival
        <3>1. silent' = 0 /\ missed' = 0 /\ quiet' = 0
            BY <2>2 DEF LateArrival, Hear
        <3>2. UNCHANGED <<ticked, tickIn, post, sinceSend, reported, count>>
            BY <2>1 DEF senderVars
        <3>3. Gaps(1) = Gap
            <4>1. Gaps(0 + 1) = Gaps(0) + Gap
                BY GapsCount
            <4> QED
                BY <4>1
        <3>4. SilenceSoFar'
            BY <2>1, <3>1, <3>2, <3>3 DEF RunInv
        <3>5. TickIsDue' /\ ReportsCount' /\ OffSince'
            BY <2>1, <3>1, <3>2 DEF RunInv
        <3> QED
            BY <3>4, <3>5 DEF RunInv
    <2>3. CASE LoseLate
        BY <2>1, <2>3 DEF LoseLate, senderVars, RunInv
    <2> QED
        BY <1>5, <2>2, <2>3
<1>6. ASSUME NEW n \in 0 .. TaskCap, UpdateTaskCount(n) PROVE RunInv'
    BY <1>6 DEF UpdateTaskCount, SenderInv, RunInv
<1>7. CASE Grant \/ PrimaryRestarts
    <2>1. RunInv /\ quiet' = 0 /\ UNCHANGED <<senderVars, silent, missed>>
        BY <1>7 DEF Grant, PrimaryRestarts, senderVars, SenderInv
    <2>2. UNCHANGED <<ticked, tickIn, post, sinceSend, reported, count>>
        BY <2>1 DEF senderVars
    <2> QED
        BY <2>1, <2>2 DEF RunInv
<1>8. CASE Stop
    BY <1>8 DEF Stop
<1>9. CASE Restart
    BY <1>9 DEF Restart, Started, RunInv
<1>10. CASE Clock
    <2>1. RunInv /\ sinceSend' = sinceSend + 1 /\ silent' = silent + 1
        BY <1>10 DEF Clock, SenderInv
    <2>2. TickIsDue'
        <3>1. ~ticked' => ~ticked /\ tickIn # 1
            BY <1>10, Zenon DEF Clock, TickerRuns
        <3>2. tickIn # 1 => tickIn' = tickIn - 1
            BY <1>10 DEF Clock, TickerRuns
        <3> QED
            BY <2>1, <3>1, <3>2 DEF RunInv
    <2>3. CASE Primary \in Slowed
        <3>1. /\ post[Primary] = "sent" /\ post'[Primary] = "slow"
              /\ missed' = missed + 1 /\ quiet' = 0
            BY <1>10, <2>3 DEF Clock, Miss, Slowed
        <3>2. SilenceSoFar'
            BY <2>1, <3>1 DEF RunInv
        <3>3. ReportsCount' /\ OffSince'
            BY <2>1, <3>1 DEF RunInv
        <3> QED
            BY <2>2, <3>2, <3>3 DEF RunInv
    <2>4. CASE Primary \notin Slowed
        <3>1. /\ post'[Primary] = post[Primary] /\ missed' = missed
              /\ quiet' <= quiet + 1
              /\ quiet' # quiet + 1 => quiet' = quiet
              /\ UNCHANGED <<reported, count, entry>>
              /\ post[Primary] = "sent" => sinceSend # Delay
            BY <1>10, <2>4 DEF Clock, Slowed
        <3>2. SilenceSoFar'
            BY <2>1, <3>1 DEF RunInv
        <3>3. ReportsCount' /\ OffSince'
            BY <2>1, <3>1 DEF RunInv
        <3> QED
            BY <2>2, <3>2, <3>3 DEF RunInv
    <2> QED
        BY <2>3, <2>4
<1>11. CASE UNCHANGED vars
    BY <1>11 DEF vars, senderVars, primaryVars, SenderInv, RunInv
<1> QED
    BY <1>1, <1>2, <1>3, <1>4, <1>5, <1>6, <1>7, <1>8, <1>9, <1>10, <1>11 DEF Next

LEMMA SenderInvariant == Spec => []SenderInv
<1>1. SenderInv /\ [Next]_vars => SenderInv'
    BY TypeStep, RunInvStep DEF SenderInv
<1> QED
    BY <1>1, InitInv, PTL DEF Spec

\* The sender's state is well formed; in particular no two sends are further
\* apart than the longer of the interval and the client's timeout.
THEOREM TypeCorrect == Spec => []TypeOK
<1>1. SenderInv => TypeOK
    BY DEF SenderInv
<1> QED
    BY <1>1, SenderInvariant, PTL

\* The primary's silence is bounded by the heartbeats it missed: ticks that
\* fire while a send hangs are buffered, and every post of a send ends by the
\* client's timeout.
THEOREM SilenceAlwaysExplained == Spec => []SilenceExplained
<1>1. SenderInv => SilenceExplained
    <2> SUFFICES ASSUME SenderInv, running PROVE silent <= (missed + 1) * Gap + Delay
        BY DEF SilenceExplained
    <2>1. /\ silent <= Gaps(missed + 1) + Delay
          /\ Gaps(missed + 1) = (missed + 1) * Gap
        BY GapBounds, GapsCount DEF SenderInv, TypeOK, RunInv, SilenceSoFar, Gaps
    <2> QED
        BY <2>1
<1> QED
    BY <1>1, SenderInvariant, PTL

\* The entry is the worker's own count one gap and one delivery after the last
\* change, loss or late report: UpdateFromHeartbeat overwrites what AllocateTask
\* and older heartbeats left there.
THEOREM AlwaysCorrected == Spec => []Corrected
<1>1. SenderInv => Corrected
    BY GapBounds DEF SenderInv, TypeOK, RunInv, SilenceSoFar, OffSince, Corrected
<1> QED
    BY <1>1, SenderInvariant, PTL

\* A threshold of so many gaps and a delivery tolerates so many heartbeats in a
\* row that the primary misses: until one more is missed, a running worker has
\* been silent for no longer than the threshold, so CheckTimeouts, which demotes
\* only what is older, leaves it online.
THEOREM ThresholdToleratesMisses ==
    ASSUME NEW threshold \in Nat, NEW m \in Nat, (m + 1) * Gap + Delay <= threshold
    PROVE  Spec => [](running /\ missed <= m => silent <= threshold)
<1>1. TypeOK /\ SilenceExplained => (running /\ missed <= m => silent <= threshold)
    <2> SUFFICES ASSUME TypeOK, SilenceExplained, running, missed <= m
                 PROVE  silent <= threshold
        OBVIOUS
    <2>1. /\ Gap \in Nat /\ Delay \in Nat /\ missed \in Nat /\ silent \in Nat
          /\ silent <= (missed + 1) * Gap + Delay
        BY GapBounds DEF TypeOK, SilenceExplained
    <2>2. (missed + 1) * Gap <= (m + 1) * Gap
        <3>1. (m + 1) * Gap = (missed + 1) * Gap + (m - missed) * Gap
            BY <2>1
        <3>2. (m - missed) * Gap \in Nat /\ (missed + 1) * Gap \in Nat
            BY <2>1
        <3> QED
            BY <3>1, <3>2
    <2> QED
        BY <2>1, <2>2
<1> QED
    BY <1>1, TypeCorrect, SilenceAlwaysExplained, PTL
=============================================================================
