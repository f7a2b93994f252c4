CONSTANTS
  Drivers = {d1, d2}
  RiderRequests = {}
  Sweepers = {s1}
  NoDriver = NoDriver
  StandardFare <- MCStandardFare
  BidFloor <- MCBidFloor
  MaxFaults = 0
SPECIFICATION Spec
PROPERTY DeclineNeverOverridesAccept
