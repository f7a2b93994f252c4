CONSTANTS
  MaxFaults = 1
  MaxSos = 2
  QueueTake = 1
  MaxAlarms = 2
  Slots = {"k1", "k2"}
  MaxVisits = 1
  Checks = {k1, k2}
  MaxDetours = 1
SPECIFICATION Spec
PROPERTIES
  HelpIsCalled
  AlarmsStaySeen
  OffRouteIsHeard
CHECK_DEADLOCK FALSE
