------------------------------- MODULE Wakeup -------------------------------
(***************************************************************************)
(* What a parked schedule request may rely on: the channel it fetched with *)
(* waitChan is closed by the next broadcast and stays closed.  Every other *)
(* detail of capacityNotifier (which channel object it is, the mutex, the  *)
(* re-arming) is left to module CapacityNotifier, which implements this    *)
(* one.                                                                    *)
(***************************************************************************)
CONSTANT Request    \* the goroutines serving schedule requests

VARIABLE signal     \* what each goroutine sees on the channel it holds

WakeupTypeOK == signal \in [Request -> {"none", "open", "closed"}]

WakeupInit == signal = [r \in Request |-> "none"]

\* The goroutine takes the channel that the next broadcast closes.
waitChan(r) == signal' = [signal EXCEPT ![r] = "open"]

\* Every channel handed out so far is closed; a fresh one is armed.
broadcast ==
    signal' = [r \in Request |-> IF signal[r] = "open" THEN "closed" ELSE signal[r]]

\* The goroutine's local variable goes out of scope.
forget(r) == signal' = [signal EXCEPT ![r] = "none"]

WakeupNext == broadcast \/ \E r \in Request : waitChan(r) \/ forget(r)

WakeupSpec == WakeupInit /\ [][WakeupNext]_signal
=============================================================================
