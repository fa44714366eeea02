SPECIFICATION NotifierSpec
CONSTANTS
  Request = {r1, r2}
  Broadcaster = {b1, b2}
  MaxChannels = 4
INVARIANTS NeverCloseTwice NotifierInv
PROPERTIES BroadcastWakesEveryHolder ImplementsWakeup
CHECK_DEADLOCK FALSE
