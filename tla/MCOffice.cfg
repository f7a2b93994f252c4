CONSTANTS
  MaxFaults = 1
  Desks = {d1, d2}
  Reviewers = {d1, d2}
  Threshold = 90
  InitialFacts = {"devices", "disputes", "new"}
  MaxAlerts = 2
  MaxRefreshes = 2
  MaxReviews = 2
  Clerks = {"founder", "agent"}
  RefundCap <- MCRefundCap
  FinalFare = 2
  MaxTickets = 1
  MaxTasks = 2
  MaxRefunds = 3
  WalletTrips = {t1}
  WalletReads = {g1, g2}
  BatchRuns = {b1, b2}
  MaxRetries = 3
  MaxAttempts = 2
  MaxInstant = 1
  Pages = {p1}
  MaxAdvice = 2
  MaxJobs = 2
  MaxDays = 2
  Callers = {k1, k2}
  MaxProxies = 2
  RateMax = 1
  pi = pi
  Payments = {pi}
  StripeRefunds = {f1}
  Disputes = {p1}
  RefundOf <- MCRefundOf
  Fare = 2
  BookKeepers = {k1, k2}
  MaxPostings = 2
SPECIFICATION Spec
INVARIANTS
  RefundsWithinFare
  WalletAddsUp
  CachedIsRecorded
PROPERTIES
  OnlyTheClearedRide
  DecisionWins
  VerdictStands
CHECK_DEADLOCK FALSE
