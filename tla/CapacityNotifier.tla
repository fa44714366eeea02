-------------------------- MODULE CapacityNotifier --------------------------
(***************************************************************************)
(* pkg/scheduler/waitqueue.go in detail.  Channels are numbered in the     *)
(* order in which they are made.  broadcast closes the current channel and *)
(* then replaces it: two steps of the code, between which other goroutines *)
(* run, all under n.mu.  A closed channel is seen by its holders at once,  *)
(* without the mutex.                                                      *)
(***************************************************************************)
EXTENDS Integers

CONSTANTS Request,       \* goroutines that call waitChan
          Broadcaster,   \* goroutines that call broadcast
          MaxChannels    \* bound on the channels ever made

ASSUME NotifierAssumption == MaxChannels \in Nat

Unlocked == "unlocked"
Locked   == "locked"
NoChan   == 0

VARIABLES nmu,       \* n.mu
          rearming,  \* the broadcasters between close(n.ch) and make(chan)
          ch,        \* n.ch, the number of the current channel
          closed,    \* the channels that are closed
          held       \* the channel each waiter's variable changed refers to

notifierVars == <<nmu, rearming, ch, closed, held>>

NotifierTypeOK ==
    /\ nmu \in {Unlocked, Locked}
    /\ rearming \in SUBSET Broadcaster
    /\ ch \in 1 .. MaxChannels + 1
    /\ closed \in SUBSET (1 .. MaxChannels + 1)
    /\ held \in [Request -> 0 .. MaxChannels + 1]

newCapacityNotifier ==
    /\ nmu = Unlocked
    /\ rearming = {}
    /\ ch = 1
    /\ closed = {}
    /\ held = [r \in Request |-> NoChan]

WaitChan(r) ==
    /\ nmu = Unlocked
    /\ held' = [held EXCEPT ![r] = ch]
    /\ UNCHANGED <<nmu, rearming, ch, closed>>

\* A broadcast that releases n.mu before the channel is replaced.
CloseUnlocked(b) ==
    /\ nmu = Unlocked
    /\ ch <= MaxChannels
    /\ closed' = closed \cup {ch}
    /\ rearming' = rearming \cup {b}
    /\ UNCHANGED <<nmu, ch, held>>

\* A broadcast that makes a new channel but leaves the old one open.
BroadcastRearmOnly(b) ==
    /\ nmu = Unlocked
    /\ ch <= MaxChannels
    /\ nmu' = Locked
    /\ rearming' = rearming \cup {b}
    /\ UNCHANGED <<closed, ch, held>>

BroadcastClose(b) ==
    /\ nmu = Unlocked
    /\ ch <= MaxChannels          \* bound
    /\ nmu' = Locked
    /\ closed' = closed \cup {ch}
    /\ rearming' = rearming \cup {b}
    /\ UNCHANGED <<ch, held>>

\* A broadcast that never replaces the channel it closed.
KeepChannel(b) ==
    /\ b \in rearming
    /\ rearming' = rearming \ {b}
    /\ nmu' = Unlocked
    /\ UNCHANGED <<ch, closed, held>>

BroadcastRearm(b) ==
    /\ b \in rearming
    /\ rearming' = rearming \ {b}
    /\ ch' = ch + 1
    /\ nmu' = Unlocked
    /\ UNCHANGED <<closed, held>>

\* The waiter's loop iteration ends and its channel variable is gone.
Forget(r) ==
    /\ held[r] # NoChan
    /\ held' = [held EXCEPT ![r] = NoChan]
    /\ UNCHANGED <<nmu, rearming, ch, closed>>

NotifierNext ==
    \/ \E r \in Request : WaitChan(r) \/ Forget(r)
    \/ \E b \in Broadcaster : BroadcastClose(b) \/ BroadcastRearm(b)

NotifierSpec == newCapacityNotifier /\ [][NotifierNext]_notifierVars

-----------------------------------------------------------------------------
(***************************************************************************)
(* No broadcast closes a channel a second time, which panics in Go and     *)
(* takes the scheduler down: whenever n.mu is free, the channel that the   *)
(* next broadcast will close is still open.                                *)
(***************************************************************************)
NeverCloseTwice == nmu = Unlocked => ch \notin closed

(***************************************************************************)
(* When broadcast returns, every channel handed out before is closed: no   *)
(* waiter is left on a channel that no later broadcast will close.         *)
(***************************************************************************)
BroadcastWakesEveryHolder ==
    [][nmu = Locked /\ nmu' = Unlocked
         => \A r \in Request : held[r] # NoChan => held[r] \in closed']_notifierVars

(***************************************************************************)
(* The goroutine that waits sees exactly the abstract signal: its channel  *)
(* is open until the first broadcast after waitChan, then closed for good. *)
(* The comment on waitChan promises this to its callers.                   *)
(***************************************************************************)
SeenSignal ==
    [r \in Request |-> IF held[r] = NoChan THEN "none"
                       ELSE IF held[r] \in closed THEN "closed" ELSE "open"]

W == INSTANCE Wakeup WITH signal <- SeenSignal

ImplementsWakeup == W!WakeupSpec

\* Strengthening: n.mu is held exactly while one broadcaster is re-arming, and
\* a channel somebody holds open is the one the next broadcast closes.
NotifierInv ==
    /\ NotifierTypeOK
    /\ NeverCloseTwice
    /\ nmu = Unlocked => rearming = {}
    /\ nmu = Locked => ch \in closed /\ ch <= MaxChannels
    /\ \A b, c \in rearming : b = c
    /\ \A c \in closed : c <= ch
    /\ \A r \in Request : held[r] # NoChan /\ held[r] \notin closed => held[r] = ch
=============================================================================
