---------------------------- MODULE BidNegotiation ----------------------------
(***************************************************************************)
(* One offer ride of trip-service: the bid row, the trip row it prices,    *)
(* the Redis keys that guard it and the Stripe authorization hold behind   *)
(* it.  A request handler is a sequence of awaits, and other handlers run  *)
(* between any two of them; so a handler is modelled as the steps          *)
(*                                                                         *)
(*   read the bid  ->  claim in Redis  ->  database transaction            *)
(*        ->  look up the payment intent  ->  call payment-service         *)
(*        ->  forget the payment intent                                    *)
(*                                                                         *)
(* with the locals that survive an await kept in job[p].  The transactions *)
(* are atomic, but they write by primary key: what they write was decided  *)
(* by the row the handler read, not by the row they overwrite.             *)
(*                                                                         *)
(* Abstractions.  Fares are integers (cents).  The bid's age is the two    *)
(* facts the sweepers ask about it (tripStale, due).  Notifications, trip  *)
(* events and AI outcome records are left out: no handler reads them back. *)
(* The rider's later cancellation of an agreed ride is kept; the driving   *)
(* part of the trip is in module TripDispatch.                             *)
(***************************************************************************)
EXTENDS Integers

CONSTANTS
  Drivers,        \* approved drivers the bid is broadcast to
  RiderRequests,  \* requests the rider may have in flight (double taps, retries)
  Sweepers,       \* overlapping runs of sweepExpiredBids (replicas, slow sweeps)
  NoDriver,       \* null driverId
  StandardFare,   \* aiFare quoted by pricing-service
  BidFloor,       \* BID_FLOOR_RATE of the standard fare
  MaxFaults       \* bound: failed calls, crashed handlers and lost keys

ASSUME ActorsAssumption ==
  /\ Drivers \cap RiderRequests = {}
  /\ Drivers \cap Sweepers = {}
  /\ RiderRequests \cap Sweepers = {}
  /\ NoDriver \notin Drivers
ASSUME FaresAssumption ==
  /\ StandardFare \in Nat
  /\ BidFloor \in 1 .. StandardFare
ASSUME FaultsAssumption == MaxFaults \in Nat

VARIABLES
  submit,    \* progress of submitBid
  bid,       \* the bids row
  trip,      \* the trips row
  claimed,   \* Redis bid:<id>:claimed
  declined,  \* Redis bid:<id>:declined:<driver>, as the set of drivers
  intent,    \* Redis bid:<id>:pi is present
  hold,      \* the Stripe payment intent
  tripStale, \* the trip is older than DISPATCH_WINDOW_MS
  due,       \* bid.expiresAt has passed
  job,       \* the locals of every handler in flight
  faults     \* faults so far

vars == <<submit, bid, trip, claimed, declined, intent, hold, tripStale, due,
          job, faults>>

Actors == Drivers \cup RiderRequests \cup Sweepers
Fares == 0 .. StandardFare
BidOpen == {"pending", "countered"}
BidTerminal == {"accepted", "declined", "expired", "withdrawn"}
TripTerminal == {"completed", "cancelled", "no_show"}

CaptureOps == {"accept", "acceptCounter"}
VoidOps == {"decline", "declineCounter", "withdraw", "expire"}
ClaimOps == {"accept", "counter"}
Ops == {"none", "cancelTrip", "counter"} \cup CaptureOps \cup VoidOps
Steps == {"idle", "read", "claimed", "settle", "call", "forget"}

Idle == [op |-> "none", step |-> "idle", driver |-> NoDriver, amount |-> 0]

Bids == [status : {"absent"} \cup BidOpen \cup BidTerminal,
         driver : Drivers \cup {NoDriver},
         offer : Fares, counter : Fares, fare : Fares]
Trips == [status : {"absent", "searching", "accepted", "cancelled"},
          driver : Drivers \cup {NoDriver}, bidSet : BOOLEAN, fare : Fares]
Holds == [status : {"none", "authorized", "captured", "cancelled"},
          amount : Fares, captured : Fares]
Jobs == [op : Ops, step : Steps,
         driver : Drivers \cup {NoDriver}, amount : Fares]

TypeOK ==
  /\ submit \in {"none", "held", "stored", "open", "aborted"}
  /\ bid \in Bids
  /\ trip \in Trips
  /\ claimed \in Drivers \cup {NoDriver}
  /\ declined \in SUBSET Drivers
  /\ intent \in BOOLEAN
  /\ hold \in Holds
  /\ tripStale \in BOOLEAN
  /\ due \in BOOLEAN
  /\ job \in [Actors -> Jobs]
  /\ faults \in 0 .. MaxFaults

Init ==
  /\ submit = "none"
  /\ bid = [status |-> "absent", driver |-> NoDriver,
            offer |-> 0, counter |-> 0, fare |-> 0]
  /\ trip = [status |-> "absent", driver |-> NoDriver,
             bidSet |-> FALSE, fare |-> 0]
  /\ claimed = NoDriver
  /\ declined = {}
  /\ intent = FALSE
  /\ hold = [status |-> "none", amount |-> 0, captured |-> 0]
  /\ tripStale = FALSE
  /\ due = FALSE
  /\ job = [p \in Actors |-> Idle]
  /\ faults = 0

-----------------------------------------------------------------------------
(* Submission: authorize the standard fare, store trip and bid in one        *)
(* transaction, remember the payment intent, broadcast.                      *)

HoldOfferOnly(offer) == offer \* mutant: authorize only what the rider bid
HoldAmount(offer) == StandardFare

SubmitHold ==
  /\ submit = "none"
  /\ \E offer \in BidFloor .. StandardFare - 1 :
       /\ bid' = [bid EXCEPT !.offer = offer]
       /\ hold' = [hold EXCEPT !.status = "authorized",
                               !.amount = HoldAmount(offer)]
  /\ submit' = "held"
  /\ UNCHANGED <<trip, claimed, declined, intent, tripStale, due, job, faults>>

SubmitStore ==
  /\ submit = "held"
  /\ bid' = [bid EXCEPT !.status = "pending"]
  /\ trip' = [trip EXCEPT !.status = "searching"]
  /\ submit' = "stored"
  /\ UNCHANGED <<claimed, declined, intent, hold, tripStale, due, job, faults>>

SubmitRemember ==
  /\ submit = "stored"
  /\ intent' = TRUE
  /\ submit' = "open"
  /\ UNCHANGED <<bid, trip, claimed, declined, hold, tripStale, due, job, faults>>

\* The handler dies between the hold and the row, or between the row and the
\* key.  Nothing in the code undoes the hold.
SubmitAborts ==
  /\ submit \in {"held", "stored"}
  /\ faults < MaxFaults
  /\ submit' = "aborted"
  /\ faults' = faults + 1
  /\ UNCHANGED <<bid, trip, claimed, declined, intent, hold, tripStale, due, job>>

-----------------------------------------------------------------------------
(* First await of every handler: read the row, check it, keep the locals.    *)

Begin(p, op, driver, amount) ==
  /\ job[p] = Idle
  /\ job' = [job EXCEPT ![p] = [op |-> op, step |-> "read",
                                driver |-> driver, amount |-> amount]]
  /\ UNCHANGED <<submit, bid, trip, claimed, declined, intent, hold, tripStale,
                 due, faults>>

\* A driver hears of the bid from the broadcast that ends submitBid; the rider
\* from its reply, or from the active-trip lookup when submitBid died.
DriverSeesBid == submit = "open" /\ bid.status = "pending"
RiderSeesBid == submit \in {"open", "aborted"}

AcceptRead(d) ==
  /\ DriverSeesBid
  /\ Begin(d, "accept", d, bid.offer)

DeclineRead(d) ==
  /\ DriverSeesBid
  /\ Begin(d, "decline", d, 0)

CounterRead(d) ==
  /\ DriverSeesBid
  /\ \E amount \in bid.offer + 1 .. StandardFare - 1 :
       Begin(d, "counter", d, amount)

AcceptCounterRead(r) ==
  /\ RiderSeesBid
  /\ bid.status = "countered"
  /\ bid.driver # NoDriver /\ bid.counter # 0
  /\ Begin(r, "acceptCounter", bid.driver, bid.counter)

DeclineCounterRead(r) ==
  /\ RiderSeesBid
  /\ bid.status = "countered"
  /\ Begin(r, "declineCounter", NoDriver, 0)

WithdrawRead(r) ==
  /\ RiderSeesBid
  /\ bid.status = "pending"
  /\ Begin(r, "withdraw", NoDriver, 0)

CancelTripRead(r) ==
  /\ RiderSeesBid
  /\ trip.status \notin TripTerminal \cup {"absent"}
  /\ Begin(r, "cancelTrip", NoDriver, 0)

\* mutants: the sweep looks at pending bids only, or respects the claim
ExpireReadPendingOnly(s) ==
  /\ bid.status = "pending"
  /\ due
  /\ Begin(s, "expire", NoDriver, 0)
ExpireReadUnclaimedOnly(s) ==
  /\ bid.status \in BidOpen
  /\ due
  /\ claimed = NoDriver
  /\ Begin(s, "expire", NoDriver, 0)

ExpireRead(s) ==
  /\ bid.status \in BidOpen
  /\ due
  /\ Begin(s, "expire", NoDriver, 0)

-----------------------------------------------------------------------------
(* The Redis claims.  Accept and counter share one key; decline has a key of *)
(* its own per driver.                                                       *)

At(p, ops, step) == job[p].op \in ops /\ job[p].step = step
Goto(p, step) == job' = [job EXCEPT ![p].step = step]
Return(p) == job' = [job EXCEPT ![p] = Idle]

ClaimKeyFree(d) == claimed = NoDriver

Claim(d) ==
  /\ At(d, ClaimOps, "read")
  /\ IF ClaimKeyFree(d)
       THEN claimed' = d /\ Goto(d, "claimed")
       ELSE UNCHANGED claimed /\ Return(d)
  /\ UNCHANGED <<submit, bid, trip, declined, intent, hold, tripStale, due,
                 faults>>

ClaimDecline(d) ==
  /\ At(d, {"decline"}, "read")
  /\ declined' = declined \cup {d}
  /\ IF d \in declined THEN Return(d) ELSE Goto(d, "claimed")
  /\ UNCHANGED <<submit, bid, trip, claimed, intent, hold, tripStale, due, faults>>

-----------------------------------------------------------------------------
(* The transactions.                                                         *)

AgreedTrip(d, fare) ==
  [trip EXCEPT !.status = "accepted", !.driver = d,
               !.bidSet = TRUE, !.fare = fare]

AcceptCommit(d) ==
  /\ At(d, {"accept"}, "claimed")
  /\ bid' = [bid EXCEPT !.status = "accepted", !.driver = d,
                        !.fare = job[d].amount]
  /\ trip' = AgreedTrip(d, job[d].amount)
  /\ Goto(d, "settle")
  /\ UNCHANGED <<submit, claimed, declined, intent, hold, tripStale, due, faults>>

DeclineCommit(d) ==
  /\ At(d, {"decline"}, "claimed")
  /\ bid' = [bid EXCEPT !.status = "declined", !.driver = d]
  /\ Goto(d, "settle")
  /\ UNCHANGED <<submit, trip, claimed, declined, intent, hold, tripStale, due,
                 faults>>

CounterCommit(d) ==
  /\ At(d, {"counter"}, "claimed")
  /\ bid' = [bid EXCEPT !.status = "countered", !.driver = d,
                        !.counter = job[d].amount]
  /\ due' = FALSE
  /\ Return(d)
  /\ UNCHANGED <<submit, trip, claimed, declined, intent, hold, tripStale, faults>>

AcceptCounterCommit(r) ==
  /\ At(r, {"acceptCounter"}, "read")
  /\ bid' = [bid EXCEPT !.status = "accepted", !.fare = job[r].amount]
  /\ trip' = AgreedTrip(job[r].driver, job[r].amount)
  /\ Goto(r, "settle")
  /\ UNCHANGED <<submit, claimed, declined, intent, hold, tripStale, due, faults>>

DeclineCounterCommit(r) ==
  /\ At(r, {"declineCounter"}, "read")
  /\ bid' = [bid EXCEPT !.status = "declined"]
  /\ Goto(r, "settle")
  /\ UNCHANGED <<submit, trip, claimed, declined, intent, hold, tripStale, due,
                 faults>>

WithdrawCommit(r) ==
  /\ At(r, {"withdraw"}, "read")
  /\ bid' = [bid EXCEPT !.status = "withdrawn"]
  /\ trip' = [trip EXCEPT !.status = "cancelled"]
  /\ Goto(r, "settle")
  /\ UNCHANGED <<submit, claimed, declined, intent, hold, tripStale, due, faults>>

ExpireCommit(s) ==
  /\ At(s, {"expire"}, "read")
  /\ bid' = [bid EXCEPT !.status = "expired"]
  /\ Goto(s, "settle")
  /\ UNCHANGED <<submit, trip, claimed, declined, intent, hold, tripStale, due,
                 faults>>

\* cancelTrip touches neither the bid nor the hold.
CancelTripCommit(r) ==
  /\ At(r, {"cancelTrip"}, "read")
  /\ trip' = [trip EXCEPT !.status = "cancelled"]
  /\ Return(r)
  /\ UNCHANGED <<submit, bid, claimed, declined, intent, hold, tripStale, due,
                 faults>>

\* The dispatch sweep selects every searching trip past the window.  A bid trip
\* has no trip:<id>:dispatch key, so it is failed, by a write that re-checks
\* the status.
DispatchSweepFails ==
  /\ trip.status = "searching"
  /\ tripStale
  /\ trip' = [trip EXCEPT !.status = "cancelled"]
  /\ UNCHANGED <<submit, bid, claimed, declined, intent, hold, tripStale, due,
                 job, faults>>

-----------------------------------------------------------------------------
(* Settling the hold: captureStripeHold and voidStripeHold.                  *)

\* mutant: the key is taken out of Redis when it is read
LookUpIntentTaking(p) ==
  /\ job[p].step = "settle"
  /\ IF intent THEN Goto(p, "call") ELSE Return(p)
  /\ intent' = FALSE
  /\ UNCHANGED <<submit, bid, trip, claimed, declined, hold, tripStale, due, faults>>

LookUpIntent(p) ==
  /\ job[p].step = "settle"
  /\ IF intent THEN Goto(p, "call") ELSE Return(p)
  /\ UNCHANGED <<submit, bid, trip, claimed, declined, intent, hold, tripStale,
                 due, faults>>

\* Stripe captures at most what was authorized, once, and cancels only what is
\* still authorized; every other call is an error the caller only logs.
CaptureFullHold(amount) == \* mutant: no amount_to_capture
  IF hold.status = "authorized"
    THEN hold' = [hold EXCEPT !.status = "captured", !.captured = hold.amount]
    ELSE UNCHANGED hold

Capture(amount) ==
  IF hold.status = "authorized" /\ amount <= hold.amount
    THEN hold' = [hold EXCEPT !.status = "captured", !.captured = amount]
    ELSE UNCHANGED hold

Void ==
  IF hold.status = "authorized"
    THEN hold' = [hold EXCEPT !.status = "cancelled"]
    ELSE UNCHANGED hold

CallPayment(p) ==
  /\ job[p].step = "call"
  /\ IF job[p].op \in CaptureOps THEN Capture(job[p].amount) ELSE Void
  /\ Goto(p, "forget")
  /\ UNCHANGED <<submit, bid, trip, claimed, declined, intent, tripStale, due,
                 faults>>

\* The call fails; the error is caught and the intent is forgotten all the same.
CallPaymentFails(p) ==
  /\ job[p].step = "call"
  /\ faults < MaxFaults
  /\ Goto(p, "forget")
  /\ faults' = faults + 1
  /\ UNCHANGED <<submit, bid, trip, claimed, declined, intent, hold, tripStale,
                 due>>

ForgetIntent(p) ==
  /\ job[p].step = "forget"
  /\ intent' = FALSE
  /\ Return(p)
  /\ UNCHANGED <<submit, bid, trip, claimed, declined, hold, tripStale, due,
                 faults>>

-----------------------------------------------------------------------------
(* Faults and time.                                                          *)

\* An exception or a crash ends a handler between two awaits.
Abort(p) ==
  /\ job[p] # Idle
  /\ faults < MaxFaults
  /\ Return(p)
  /\ faults' = faults + 1
  /\ UNCHANGED <<submit, bid, trip, claimed, declined, intent, hold, tripStale,
                 due>>

\* The key's TTL covers both negotiation windows and the sweep period, so it
\* runs out only when trip-service was down meanwhile.
IntentExpires ==
  /\ intent
  /\ faults < MaxFaults
  /\ intent' = FALSE
  /\ faults' = faults + 1
  /\ UNCHANGED <<submit, bid, trip, claimed, declined, hold, tripStale, due, job>>

TripTurnsStale ==
  /\ submit \in {"open", "aborted"}
  /\ trip.status # "absent"
  /\ ~tripStale
  /\ tripStale' = TRUE
  /\ UNCHANGED <<submit, bid, trip, claimed, declined, intent, hold, due, job,
                 faults>>

\* BID_TTL_SECONDS and COUNTER_TTL_SECONDS both exceed the dispatch window.
BidFallsDue ==
  /\ tripStale
  /\ bid.status \in BidOpen
  /\ ~due
  /\ due' = TRUE
  /\ UNCHANGED <<submit, bid, trip, claimed, declined, intent, hold, tripStale,
                 job, faults>>

\* Timing assumption: no handler takes longer from its read to its transaction
\* than the claim lives (60 s for accept, 120 s for counter, 30 s for decline).
ClaimInUse(p, ops) == job[p].op \in ops /\ job[p].step \in {"read", "claimed"}

ClaimExpires ==
  /\ claimed # NoDriver
  /\ \A d \in Drivers : ~ClaimInUse(d, ClaimOps)
  /\ claimed' = NoDriver
  /\ UNCHANGED <<submit, bid, trip, declined, intent, hold, tripStale, due, job,
                 faults>>

DeclineClaimExpires(d) ==
  /\ d \in declined
  /\ ~ClaimInUse(d, {"decline"})
  /\ declined' = declined \ {d}
  /\ UNCHANGED <<submit, bid, trip, claimed, intent, hold, tripStale, due, job,
                 faults>>

-----------------------------------------------------------------------------
DriverStarts(d) == AcceptRead(d) \/ DeclineRead(d) \/ CounterRead(d)
RiderStarts(r) == AcceptCounterRead(r) \/ DeclineCounterRead(r)
                    \/ WithdrawRead(r) \/ CancelTripRead(r)

DriverWrites(d) == Claim(d) \/ ClaimDecline(d) \/ AcceptCommit(d)
                     \/ DeclineCommit(d) \/ CounterCommit(d)
RiderWrites(r) == AcceptCounterCommit(r) \/ DeclineCounterCommit(r)
                    \/ WithdrawCommit(r) \/ CancelTripCommit(r)
Settles(p) == LookUpIntent(p) \/ CallPayment(p) \/ CallPaymentFails(p)
                \/ ForgetIntent(p)

Submits == SubmitHold \/ SubmitStore \/ SubmitRemember \/ SubmitAborts
Clock == TripTurnsStale \/ BidFallsDue \/ ClaimExpires

\* One negotiation ends: its bid is resolved, or never came to be.
Ended ==
  /\ submit \in {"open", "aborted"}
  /\ bid.status \in BidTerminal \cup {"absent"}
  /\ \A p \in Actors : job[p] = Idle
  /\ UNCHANGED vars

Next ==
  \/ Submits
  \/ \E d \in Drivers : DriverStarts(d) \/ DriverWrites(d) \/ DeclineClaimExpires(d)
  \/ \E r \in RiderRequests : RiderStarts(r) \/ RiderWrites(r)
  \/ \E s \in Sweepers : ExpireRead(s) \/ ExpireCommit(s)
  \/ \E p \in Actors : Settles(p) \/ Abort(p)
  \/ DispatchSweepFails
  \/ IntentExpires
  \/ Clock
  \/ Ended

\* A handler that started runs to its end, the sweeps recur on their timers and
\* time passes; nobody is obliged to answer a bid.
Fairness ==
  /\ WF_vars(SubmitStore \/ SubmitRemember)
  /\ \A d \in Drivers : WF_vars(DriverWrites(d))
  /\ \A r \in RiderRequests : WF_vars(RiderWrites(r))
  /\ \A s \in Sweepers : WF_vars(ExpireRead(s) \/ ExpireCommit(s))
  /\ \A p \in Actors : WF_vars(Settles(p))
  /\ WF_vars(TripTurnsStale)
  /\ WF_vars(BidFallsDue)

Spec == Init /\ [][Next]_vars
FairSpec == Spec /\ Fairness

-----------------------------------------------------------------------------
(* What the negotiation guarantees.                                          *)

\* Once a price is agreed, the trip's driver and fare never change, whatever
\* stale handler commits later (driverAcceptBid, riderAcceptCounter, the
\* sweeps, cancelTrip): the accept/counter claim admits one winner.
DealTermsFixed ==
  [][trip.bidSet => /\ trip'.bidSet
                    /\ trip'.driver = trip.driver
                    /\ trip'.fare = trip.fare]_vars

\* Every agreed fare is a fare the rider could have been asked for, the hold
\* covers it, and money is captured only for an agreed trip and only that
\* amount (submitBid authorizes the full standard fare for this).
HoldCoversDeal ==
  /\ trip.bidSet => /\ BidFloor <= trip.fare
                    /\ trip.fare < StandardFare
                    /\ trip.fare <= hold.amount
  /\ hold.status = "captured" => trip.bidSet /\ hold.captured = trip.fare

\* The payment-intent key is the only way back to the hold.  Without faults it
\* is gone only when the hold has been captured or cancelled, so no hold is
\* leaked by a race between two handlers settling it.
NoHoldLeaked ==
  submit = "open" /\ ~intent /\ faults = 0
    => hold.status \in {"captured", "cancelled"}

\* A bid nobody answers, or whose claim is stuck behind a crashed handler, is
\* resolved by the sweep.
BidEventuallyResolved == bid.status \in BidOpen ~> bid.status \in BidTerminal

\* Money on hold is eventually captured or given back, even when cancelTrip or
\* the dispatch sweep cancelled the trip and left bid and hold behind.  Only a
\* fault can break it: a crashed handler never comes back to its hold.
HoldEventuallySettled ==
  hold.status = "authorized" ~> hold.status \in {"captured", "cancelled"} \/ faults # 0

\* The handlers, claims and sweeps together keep the contract of an offer ride.
Contract == INSTANCE BidContract
  WITH deal <- [made |-> trip.bidSet, driver |-> trip.driver, fare |-> trip.fare],
       money <- [status |-> hold.status, captured |-> hold.captured]
KeepsContract == Contract!Spec

-----------------------------------------------------------------------------
(* Why DealTermsFixed holds: the inductive invariant its proof rests on.     *)

\* A driver can still win the bid: nobody has left "pending", or somebody holds
\* the claim on a pending row, or the claim is free for somebody who read one.
Undecided ==
  \/ bid.status \in {"absent", "pending"}
  \/ \E d \in Drivers : At(d, ClaimOps, "claimed")
  \/ claimed = NoDriver /\ \E d \in Drivers : At(d, ClaimOps, "read")

\* Before submitBid has stored the bid, no handler knows it.
NobodyKnowsYet ==
  /\ submit \in {"none", "held"} => bid.status = "absent"
  /\ bid.status = "absent" => /\ trip.status = "absent"
                              /\ \A p \in Actors : job[p] = Idle

\* Whoever is between claim and transaction owns the claim.
ClaimOwned == \A d \in Drivers : At(d, ClaimOps, "claimed") => claimed = d

\* While a driver can still win, there is neither deal nor counter.
UndecidedIsOpen ==
  Undecided => /\ ~trip.bidSet
               /\ bid.counter = 0
               /\ bid.status # "countered"
               /\ \A r \in RiderRequests : ~At(r, {"acceptCounter"}, "read")

CounteredHasTerms ==
  bid.status = "countered" => /\ ~trip.bidSet
                              /\ bid.driver \in Drivers
                              /\ bid.counter # 0

\* All the rider's acceptances in flight are of the same counter, the one on
\* the table or the one already agreed.
AcceptancesAgree ==
  \A r \in RiderRequests : At(r, {"acceptCounter"}, "read") =>
    /\ job[r].driver \in Drivers
    /\ job[r].amount = bid.counter
    /\ bid.counter # 0
    /\ bid.status = "countered" => job[r].driver = bid.driver
    /\ trip.bidSet => trip.driver = job[r].driver /\ trip.fare = job[r].amount
    /\ \A q \in RiderRequests :
         At(q, {"acceptCounter"}, "read") => job[q].driver = job[r].driver

\* Every amount on its way to a deal or to Stripe is negotiable and agreed.
AmountsNegotiable ==
  /\ submit # "none" => bid.offer \in BidFloor .. StandardFare - 1
  /\ bid.counter = 0 \/ bid.counter \in BidFloor .. StandardFare - 1
  /\ \A d \in Drivers : job[d].op \in ClaimOps /\ job[d].step \in {"read", "claimed"}
       => job[d].amount \in BidFloor .. StandardFare - 1
  /\ trip.bidSet => trip.fare \in BidFloor .. StandardFare - 1 /\ trip.driver \in Drivers
  /\ ~trip.bidSet => trip.driver = NoDriver /\ trip.fare = 0
  /\ \A p \in Actors : job[p].op \in CaptureOps /\ job[p].step \in {"settle", "call", "forget"}
       => trip.bidSet /\ trip.fare = job[p].amount

HoldBacksDeal ==
  /\ submit = "none" <=> hold.status = "none"
  /\ hold.status # "none" => hold.amount = StandardFare
  /\ hold.status # "captured" => hold.captured = 0
  /\ hold.status = "captured" => trip.bidSet /\ hold.captured = trip.fare

IInv ==
  /\ TypeOK
  /\ NobodyKnowsYet
  /\ ClaimOwned
  /\ UndecidedIsOpen
  /\ CounteredHasTerms
  /\ AcceptancesAgree
  /\ AmountsNegotiable
  /\ HoldBacksDeal

-----------------------------------------------------------------------------
(* What the source says and the code does not do: README, section 5.         *)

\* "Atomic claim for decline too - prevents race where another driver is
\* accepting" (bids.service.ts): a decline never overwrites an acceptance.
DeclineNeverOverridesAccept ==
  [][bid.status = "accepted" => bid'.status # "declined"]_vars

\* "Standard-ride redispatch / no-drivers timeout" (trips.service.ts) is for
\* standard rides: while the offer is open only its rider can end its trip
\* (checked with no rider requests).
OpenOfferKeepsTrip ==
  bid.status \in BidOpen => trip.status = "searching"

\* "Bid trips were already settled on Stripe when the authorization hold was
\* captured at the accepted fare" (endTrip): once every handler has returned,
\* the ride that is on has been paid for.
AgreedRideIsCaptured ==
  /\ trip.bidSet /\ trip.status = "accepted"
  /\ faults = 0
  /\ \A p \in Actors : job[p] = Idle
  => hold.status = "captured"
=============================================================================
