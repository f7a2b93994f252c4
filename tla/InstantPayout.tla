---------------------------- MODULE InstantPayout ----------------------------
(***************************************************************************)
(* A driver's instant payouts in payment-service (payment.service.ts):     *)
(* the balance summed over completed rides, the daily cap in Redis, the    *)
(* Stripe transfer, the payouts row and its ledger pair.                   *)
(*                                                                         *)
(* A call c runs as one step per await with its locals in call[c]; two of  *)
(* them are a double tap or a client retry.  Stripe is external: transfers *)
(* carry one idempotency key per driver and day, so a repeated request is  *)
(* answered with the first transfer and one for another amount is refused. *)
(*                                                                         *)
(* Abstractions.  Every ride earns the same amount.  Amounts are whole     *)
(* dollars before the payout fee, which Stripe and the ledger both deduct. *)
(* driver_wallets is left out: debitPayout never finds a balance, for only *)
(* releaseHold raises it and nothing that runs calls releaseHold.          *)
(***************************************************************************)
EXTENDS Integers

CONSTANTS
  Calls,     \* instantPayout calls in flight
  Earning,   \* driverEarnings of a ride
  MinPayout, \* MIN_PAYOUT_BALANCE
  DailyCap,  \* INSTANT_PAYOUT_DAILY_CAP
  MaxRides,  \* bound: rides the driver completes
  MaxDay,    \* bound: days
  MaxFaults  \* bound: calls that die half-way

ASSUME AmountsAssumption ==
  Earning \in Nat \ {0} /\ MinPayout \in Nat \ {0} /\ DailyCap \in Nat
ASSUME BoundsAssumption == MaxRides \in Nat /\ MaxDay \in Nat \ {0} /\ MaxFaults \in Nat

VARIABLES
  verified, \* payoutBankVerified
  held,     \* rides completed within RECENT_EARNINGS_HOLD_HOURS
  ready,    \* rides completed before that
  today,
  capKey,   \* Redis instant_payout:daily:<driver>:<day>, in cents
  paid,     \* what Stripe transferred under the key of a day
  payouts,  \* the days whose transfer has a payouts row
  booked,   \* what the ledger says was paid under the transfer of a day
  call,     \* the locals of every call
  faults    \* calls that died so far

driverVars == <<verified, held, ready, today>>
vars == <<driverVars, capKey, paid, payouts, booked, call, faults>>

Days == 1..MaxDay
Cents == 100
\* balance: what the rides added up to; day, sent: the day of the cap and of the transfer
Steps == {"idle", "cap", "transfer", "count", "row", "ledger"}
Idle == [at |-> "idle", balance |-> 0, day |-> 1, sent |-> 1]

Init ==
  /\ verified = FALSE /\ held = 0 /\ ready = 0 /\ today = 1
  /\ capKey = [d \in Days |-> 0] /\ paid = [d \in Days |-> 0]
  /\ payouts = {} /\ booked = [d \in Days |-> 0]
  /\ call = [c \in Calls |-> Idle]
  /\ faults = 0

At(c, step) == call[c].at = step
Goes(c, step) == call' = [call EXCEPT ![c].at = step]
Returns(c) == call' = [call EXCEPT ![c] = Idle]

-----------------------------------------------------------------------------
(* The driver links a bank account, which Stripe has to verify (the event   *)
(* account.updated); completes rides; and time passes.                      *)
LinkBank ==
  /\ verified' = FALSE
  /\ UNCHANGED <<held, ready, today, capKey, paid, payouts, booked, call, faults>>

AccountUpdated ==
  /\ verified' = TRUE
  /\ UNCHANGED <<held, ready, today, capKey, paid, payouts, booked, call, faults>>

EndRide ==
  /\ held + ready < MaxRides
  /\ held' = held + 1
  /\ UNCHANGED <<verified, ready, today, capKey, paid, payouts, booked, call, faults>>

HoldPasses ==
  /\ held > 0
  /\ held' = held - 1 /\ ready' = ready + 1
  /\ UNCHANGED <<verified, today, capKey, paid, payouts, booked, call, faults>>

NextDay ==
  /\ today < MaxDay
  /\ today' = today + 1
  /\ UNCHANGED <<verified, held, ready, capKey, paid, payouts, booked, call, faults>>

-----------------------------------------------------------------------------
AllEarnings == (held + ready) * Earning \* mutant: no cutoff on completedAt

(* getDriverWallet: every ride completed before the hold, paid out or not.  *)
AvailableBalance == ready * Earning

(* instantPayout, up to the balance check.                                  *)
PayoutRead(c) ==
  /\ call[c] = Idle
  /\ verified
  /\ AvailableBalance >= MinPayout
  /\ call' = [call EXCEPT ![c].at = "cap", ![c].balance = AvailableBalance]
  /\ UNCHANGED <<driverVars, capKey, paid, payouts, booked, faults>>

(* The total read from Redis is in cents, the balance and the cap are not.  *)
WithinCap(c) == capKey[today] + call[c].balance <= DailyCap

PayoutCap(c) ==
  /\ At(c, "cap")
  /\ \/ /\ WithinCap(c)
        /\ call' = [call EXCEPT ![c].at = "transfer", ![c].day = today]
     \/ ~WithinCap(c) /\ Returns(c)
  /\ UNCHANGED <<driverVars, capKey, paid, payouts, booked, faults>>

NeverUsed == FALSE \* mutant: the transfer carries no idempotency key
KeyUsed == paid[today] > 0

SentAndForgotten(c) == Returns(c) \* mutant: the call returns once Stripe has answered
Sent(c) == call' = [call EXCEPT ![c].at = "count", ![c].sent = today]

(* transfers.create: the key is of the day the transfer is asked for, the   *)
(* cap that is counted afterwards of the day it was read.                   *)
PayoutTransfer(c) ==
  /\ At(c, "transfer")
  /\ \/ /\ ~KeyUsed
        /\ paid' = [paid EXCEPT ![today] = @ + call[c].balance]
        /\ Sent(c)
     \/ KeyUsed /\ paid[today] = call[c].balance /\ UNCHANGED paid /\ Sent(c)
     \/ KeyUsed /\ paid[today] # call[c].balance /\ UNCHANGED paid /\ Returns(c)
  /\ UNCHANGED <<driverVars, capKey, payouts, booked, faults>>

CapCharge(c) == Cents * call[c].balance

(* incrby and expire                                                        *)
PayoutCount(c) ==
  /\ At(c, "count")
  /\ capKey' = [capKey EXCEPT ![call[c].day] = @ + CapCharge(c)]
  /\ Goes(c, "row")
  /\ UNCHANGED <<driverVars, paid, payouts, booked, faults>>

DuplicateRowTaken(c) ==
  UNCHANGED payouts /\ Goes(c, "ledger") \* mutant: stripeTransferId is not unique
DuplicateRow(c) == UNCHANGED payouts /\ Returns(c)

(* payout.create; a second row for a transfer violates its key and throws.  *)
PayoutRow(c) ==
  /\ At(c, "row")
  /\ \/ call[c].sent \notin payouts /\ payouts' = payouts \cup {call[c].sent} /\ Goes(c, "ledger")
     \/ call[c].sent \in payouts /\ DuplicateRow(c)
  /\ UNCHANGED <<driverVars, capKey, paid, booked, faults>>

(* recordPayout in the background, once the response is under way.          *)
PayoutLedger(c) ==
  /\ At(c, "ledger")
  /\ booked' = [booked EXCEPT ![call[c].sent] = @ + call[c].balance]
  /\ Returns(c)
  /\ UNCHANGED <<driverVars, capKey, paid, payouts, faults>>

(* The task dies, or Redis, Stripe or the database fails the call.          *)
CallDies(c) ==
  /\ faults < MaxFaults /\ call[c] # Idle
  /\ faults' = faults + 1
  /\ Returns(c)
  /\ UNCHANGED <<driverVars, capKey, paid, payouts, booked>>

-----------------------------------------------------------------------------
CallRuns(c) ==
  PayoutCap(c) \/ PayoutTransfer(c) \/ PayoutCount(c) \/ PayoutRow(c) \/ PayoutLedger(c)

Next ==
  \/ LinkBank \/ AccountUpdated \/ EndRide \/ HoldPasses \/ NextDay
  \/ \E c \in Calls : PayoutRead(c) \/ CallRuns(c) \/ CallDies(c)

(* A handler that was started is resumed after each of its awaits.          *)
Fairness == \A c \in Calls : WF_vars(CallRuns(c))

Spec == Init /\ [][Next]_vars /\ Fairness

-----------------------------------------------------------------------------
Call == [at : Steps, balance : Nat, day : Days, sent : Days]

TypeOK ==
  /\ verified \in BOOLEAN
  /\ held \in Nat /\ ready \in Nat /\ held + ready <= MaxRides
  /\ today \in Days
  /\ capKey \in [Days -> Nat] /\ paid \in [Days -> Nat] /\ booked \in [Days -> Nat]
  /\ payouts \subseteq Days
  /\ call \in [Calls -> Call]
  /\ faults \in 0..MaxFaults

(* No day moves more than the daily cap, however many calls read the cap    *)
(* before one of them counts against it.                                    *)
DailyCapRespected == \A d \in Days : paid[d] <= DailyCap

(* What Stripe moves on a day was earned by rides past the two-hour hold.   *)
HeldEarningsStay == \A d \in Days : paid[d] <= ready * Earning

(* The ledger books a transfer once, for the amount Stripe moved, and only  *)
(* when the transfer has its payouts row, whichever of two calls that got   *)
(* the same transfer goes on to write it.                                   *)
LedgerMatchesTransfers ==
  \A d \in Days : booked[d] # 0 => booked[d] = paid[d] /\ d \in payouts

(* A transfer reaches the payouts table, unless a call dies.                *)
TransferRecorded ==
  \A d \in Days : paid[d] > 0 ~> (d \in payouts \/ faults > 0)

(* What is paid out leaves the balance: no earnings are paid out twice      *)
(* ("Exclude already paid out", payment.service.ts:228).                    *)
EarningsPaidOnce ==
  \A d, e \in Days : d # e => paid[d] + paid[e] <= ready * Earning

-----------------------------------------------------------------------------
(* Why they hold: a call past the cap has a balance within the cap and made *)
(* of ready rides, a call past Stripe has the amount of its transfer, and   *)
(* the ledger entry of a transfer is due in one call at the most.           *)
CallTrue(k) ==
  /\ k.at # "idle" => k.balance > 0 /\ k.balance <= ready * Earning
  /\ k.at \in {"transfer", "count", "row", "ledger"} => k.balance <= DailyCap
  /\ k.at \in {"count", "row", "ledger"} => paid[k.sent] = k.balance
  /\ k.at = "ledger" => k.sent \in payouts /\ booked[k.sent] = 0

OneLedgerDue ==
  \A c, d \in Calls :
    At(c, "ledger") /\ At(d, "ledger") /\ call[c].sent = call[d].sent => c = d

IInv ==
  /\ TypeOK
  /\ DailyCapRespected /\ HeldEarningsStay /\ LedgerMatchesTransfers
  /\ \A c \in Calls : CallTrue(call[c])
  /\ OneLedgerDue
=============================================================================
