----------------------- MODULE CapacityNotifierProofs -----------------------
(***************************************************************************)
(* The notifier's invariant for any number of goroutines and channels, and *)
(* the refinement of Wakeup.  A broadcast step of the code that closes the *)
(* channel is the abstract broadcast; the step that re-arms is invisible.  *)
(***************************************************************************)
EXTENDS CapacityNotifier, TLAPS

\* Whatever goroutines wait and broadcast, the notifier's state is well
\* formed: n.mu is held exactly between close(n.ch) and the new channel.
THEOREM NotifierInductive == NotifierSpec => []NotifierInv
<1> USE NotifierAssumption DEF Unlocked, Locked, NoChan
<1>1. newCapacityNotifier => NotifierInv
    BY DEF newCapacityNotifier, NotifierInv, NotifierTypeOK, NeverCloseTwice
<1>2. NotifierInv /\ [NotifierNext]_notifierVars => NotifierInv'
    <2> SUFFICES ASSUME NotifierInv, [NotifierNext]_notifierVars PROVE NotifierInv'
        OBVIOUS
    <2> USE DEF NotifierInv, NotifierTypeOK, NeverCloseTwice
    <2>1. ASSUME NEW r \in Request, WaitChan(r) PROVE NotifierInv'
        BY <2>1 DEF WaitChan
    <2>2. ASSUME NEW r \in Request, Forget(r) PROVE NotifierInv'
        BY <2>2 DEF Forget
    <2>3. ASSUME NEW b \in Broadcaster, BroadcastClose(b) PROVE NotifierInv'
        BY <2>3 DEF BroadcastClose
    <2>4. ASSUME NEW b \in Broadcaster, BroadcastRearm(b) PROVE NotifierInv'
        BY <2>4 DEF BroadcastRearm
    <2>5. CASE UNCHANGED notifierVars
        BY <2>5 DEF notifierVars
    <2>6. QED
        BY <2>1, <2>2, <2>3, <2>4, <2>5 DEF NotifierNext
<1>3. QED
    BY <1>1, <1>2, PTL DEF NotifierSpec

\* No broadcast closes a channel that is already closed.
THEOREM NeverClosesTwice == NotifierSpec => []NeverCloseTwice
<1>1. NotifierInv => NeverCloseTwice
    BY DEF NotifierInv
<1>2. QED
    BY <1>1, NotifierInductive, PTL

\* When a broadcast returns, every channel handed out before it is closed.
THEOREM BroadcastWakesAll == NotifierSpec => BroadcastWakesEveryHolder
<1> DEFINE Wakes == nmu = Locked /\ nmu' = Unlocked
                      => \A r \in Request : held[r] # NoChan => held[r] \in closed'
<1>1. NotifierInv /\ [NotifierNext]_notifierVars => [Wakes]_notifierVars
    BY DEF NotifierInv, NotifierTypeOK, NotifierNext, notifierVars, WaitChan, Forget,
           BroadcastClose, BroadcastRearm, Unlocked, Locked, NoChan
<1>2. QED
    BY <1>1, NotifierInductive, PTL DEF NotifierSpec, BroadcastWakesEveryHolder

\* The mutex, the close and the re-arming implement the abstract wakeup that
\* the scheduler's wait loop is verified against.
THEOREM NotifierImplementsWakeup == NotifierSpec => ImplementsWakeup
<1> USE NotifierAssumption DEF Unlocked, Locked, NoChan, SeenSignal
<1>1. newCapacityNotifier => W!WakeupInit
    BY DEF newCapacityNotifier, W!WakeupInit
<1>2. NotifierInv /\ [NotifierNext]_notifierVars => [W!WakeupNext]_SeenSignal
    <2> SUFFICES ASSUME NotifierInv, [NotifierNext]_notifierVars
                 PROVE W!WakeupNext \/ SeenSignal' = SeenSignal
        BY DEF SeenSignal
    <2> USE DEF NotifierInv, NotifierTypeOK, NeverCloseTwice
    <2>1. ASSUME NEW r \in Request, WaitChan(r) PROVE W!waitChan(r)
        <3>1. held' = [held EXCEPT ![r] = ch] /\ closed' = closed /\ ch \notin closed /\ ch # 0
            BY <2>1 DEF WaitChan
        <3>2. SeenSignal' = [q \in Request |-> IF q = r THEN "open" ELSE SeenSignal[q]]
            BY <3>1
        <3>3. QED
            BY <3>2 DEF W!waitChan
    <2>2. ASSUME NEW r \in Request, Forget(r) PROVE W!forget(r)
        BY <2>2 DEF Forget, W!forget
    <2>3. ASSUME NEW b \in Broadcaster, BroadcastClose(b) PROVE W!broadcast
        <3>1. \A r \in Request : held[r] # 0 => held[r] \in closed'
            BY <2>3 DEF BroadcastClose
        <3>2. held' = held /\ closed \subseteq closed'
            BY <2>3 DEF BroadcastClose
        <3>3. QED
            BY <3>1, <3>2 DEF W!broadcast
    <2>4. ASSUME NEW b \in Broadcaster, BroadcastRearm(b) PROVE SeenSignal' = SeenSignal
        BY <2>4 DEF BroadcastRearm
    <2>5. CASE UNCHANGED notifierVars
        BY <2>5 DEF notifierVars
    <2>6. QED
        BY <2>1, <2>2, <2>3, <2>4, <2>5 DEF NotifierNext, W!WakeupNext
<1>3. QED
    BY <1>1, <1>2, NotifierInductive, PTL
       DEF NotifierSpec, ImplementsWakeup, W!WakeupSpec
=============================================================================
