CONSTANTS
  Drivers = {d1}
  Requests = {r1, r2}
  Sweepers = {s1}
  NoDriver = NoDriver
  MaxRedispatches = 1
  MaxFaults = 0
SPECIFICATION Spec
PROPERTY CompletedIsFinal
