CONSTANTS
  Drivers = {d1, d2}
  Requests = {r1, r2, r3}
  Sweepers = {s1, s2}
  NoDriver = NoDriver
  MaxRedispatches = 1
  MaxFaults = 1
SPECIFICATION Spec
SYMMETRY Symmetry
INVARIANTS IInv BroadcastsBounded FlooredRidePaidOnce
PROPERTIES OneDriver SweepSparesAccepted
