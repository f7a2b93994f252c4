CONSTANTS
  Calls = {c1, c2}
  Fare = 2
  MaxFaults = 1
SPECIFICATION Spec
INVARIANTS ChargedOnce RowMatchesStripe LedgerBookedOnce
PROPERTY PendingPaymentSettles
