CONSTANTS
  MaxFaults = 1
  Papers = {p1}
  Admins = {a1}
  Hooks = {h1}
  MaxReports = 2
  MaxEvents = 2
  MaxSignIns = 3
  Requests = {x1, x2}
  MaxPairs = 2
  MaxCodes = 2
  MaxAttempts = 1
  SendLimit = 1
  CardFlows = {c1, c2}
  MaxCards = 2
  ContactLimit = 1
  Elsewhere = {e1, e2}
  MaxContacts = 3
  MaxPlaces = 2
SPECIFICATION Spec
INVARIANTS
  ApprovedWasCleared
  SessionKept
  DefaultIsUsable
  ProfileHolds
PROPERTIES
  CheckIsHeard
  NoSkippingAhead
  NewestCodeCounts
CHECK_DEADLOCK FALSE
