CONSTANTS
  Drivers = {d1, d2}
  Requests = {r1, r2}
  Sweepers = {s1, s2}
  NoDriver = NoDriver
  MaxRedispatches = 1
  MaxFaults = 1
SPECIFICATION FairSpec
INVARIANTS FlooredRidePaidOnce
PROPERTIES
  OneDriver
  SweepSparesAccepted
  SearchEnds
