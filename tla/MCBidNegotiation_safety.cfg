CONSTANTS
  Drivers = {d1, d2}
  RiderRequests = {r1, r2}
  Sweepers = {s1}
  NoDriver = NoDriver
  StandardFare <- MCStandardFare
  BidFloor <- MCBidFloor
  MaxFaults = 0
SPECIFICATION Spec
SYMMETRY Symmetry
INVARIANTS HoldCoversDeal NoHoldLeaked
