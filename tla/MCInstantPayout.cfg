CONSTANTS
  Calls = {c1, c2}
  Earning = 2
  MinPayout = 2
  DailyCap = 5
  MaxRides = 3
  MaxDay = 2
  MaxFaults = 1
SPECIFICATION Spec
INVARIANTS DailyCapRespected HeldEarningsStay LedgerMatchesTransfers
PROPERTY TransferRecorded
