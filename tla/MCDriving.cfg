CONSTANTS
  MaxFaults = 1
  Tasks = {t1, t2}
  MaxSockets = 2
  Queuers = {q1, q2}
  Calls = {k1, k2}
  Rides = {r1, r2}
  MaxLaunches = 1
SPECIFICATION Spec
INVARIANTS DutyIsRead
PROPERTIES
  OnlineStaysLocated
  KeepsPlace
  LiveRideIsShown
CHECK_DEADLOCK FALSE
