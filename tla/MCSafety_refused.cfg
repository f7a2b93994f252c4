CONSTANTS
  MaxFaults = 1
  MaxSos = 2
  QueueTake = 50
  MaxAlarms = 1
  Slots = {"k1", "k2"}
  MaxVisits = 1
  Checks = {k1, k2}
  MaxDetours = 1
SPECIFICATION Spec
PROPERTIES SosIsRaised
CHECK_DEADLOCK FALSE
