CONSTANTS
  Drivers = {d1}
  RiderRequests = {r1}
  Sweepers = {s1}
  NoDriver = NoDriver
  StandardFare <- MCStandardFare
  BidFloor <- MCBidFloor
  MaxFaults = 1
SPECIFICATION FairSpec
PROPERTIES KeepsContract BidEventuallyResolved HoldEventuallySettled
