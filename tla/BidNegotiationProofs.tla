------------------------- MODULE BidNegotiationProofs -------------------------
(***************************************************************************)
(* Machine-checked facts about BidNegotiation, for every set of drivers,   *)
(* rider requests and sweepers, every fare and every number of faults.     *)
(***************************************************************************)
EXTENDS BidNegotiation, TLAPS

JobsOK == job \in [Actors -> Jobs]
Maybe == Drivers \cup {NoDriver}
Negotiable == BidFloor .. StandardFare - 1

\* The bounds of a negotiable fare are themselves fares.
LEMMA FareRange ==
  /\ 0 \in Fares /\ StandardFare \in Fares
  /\ Negotiable \subseteq Fares
  BY FaresAssumption DEF Fares, Negotiable

\* The locals of a handler that is not running are well typed.
LEMMA IdleType == Idle \in Jobs
  BY FareRange DEF Idle, Jobs, Ops, Steps, CaptureOps, VoidOps

\* The updates of a handler's locals keep them well typed.
LEMMA JobUpdates ==
  ASSUME JobsOK, NEW p \in Actors
  PROVE  /\ Return(p) => JobsOK'
         /\ \A s \in Steps : Goto(p, s) => JobsOK'
         /\ \A op \in Ops, driver \in Maybe, amount \in Fares :
              Begin(p, op, driver, amount) => JobsOK'
  <1>1. Return(p) => JobsOK'
    BY IdleType DEF Return, JobsOK
  <1>2. ASSUME NEW s \in Steps, Goto(p, s) PROVE JobsOK'
    BY <1>2 DEF Goto, JobsOK, Jobs
  <1>3. ASSUME NEW op \in Ops, NEW driver \in Maybe,
               NEW amount \in Fares, Begin(p, op, driver, amount)
        PROVE  JobsOK'
    <2>1. [op |-> op, step |-> "read", driver |-> driver, amount |-> amount] \in Jobs
      BY DEF Jobs, Steps, Maybe
    <2> QED BY <1>3, <2>1 DEF Begin, JobsOK
  <1> QED BY <1>1, <1>2, <1>3

\* Before submitBid runs, every row, key and local is well typed.
LEMMA InitType == Init => TypeOK
  <1> SUFFICES ASSUME Init PROVE TypeOK
    OBVIOUS
  <1> USE FareRange DEF Init
  <1>1. bid \in Bids
    BY DEF Bids, BidOpen
  <1>2. trip \in Trips
    BY DEF Trips
  <1>3. hold \in Holds
    BY DEF Holds
  <1>4. job \in [Actors -> Jobs]
    BY IdleType
  <1>5. faults \in 0 .. MaxFaults
    BY FaultsAssumption
  <1>6. intent \in BOOLEAN /\ tripStale \in BOOLEAN /\ due \in BOOLEAN
    OBVIOUS
  <1>7. /\ submit \in {"none", "held", "stored", "open", "aborted"}
        /\ claimed \in Drivers \cup {NoDriver}
        /\ declined \in SUBSET Drivers
    OBVIOUS
  <1> QED BY <1>1, <1>2, <1>3, <1>4, <1>5, <1>6, <1>7 DEF TypeOK

\* submitBid and its failures keep the types.
LEMMA SubmissionType ==
  ASSUME TypeOK, Submits PROVE TypeOK'
  <1> USE FareRange, FaultsAssumption DEF TypeOK
  <1>1. CASE SubmitHold
    <2>1. bid' \in Bids
      BY <1>1 DEF SubmitHold, Bids, Negotiable
    <2>2. hold' \in Holds
      BY <1>1 DEF SubmitHold, HoldAmount, Holds
    <2> QED BY <1>1, <2>1, <2>2 DEF SubmitHold
  <1>2. CASE SubmitStore
    <2>1. bid' \in Bids
      BY <1>2 DEF SubmitStore, Bids, BidOpen
    <2>2. trip' \in Trips
      BY <1>2 DEF SubmitStore, Trips
    <2> QED BY <1>2, <2>1, <2>2 DEF SubmitStore
  <1>3. CASE SubmitRemember
    BY <1>3 DEF SubmitRemember
  <1>4. CASE SubmitAborts
    BY <1>4 DEF SubmitAborts
  <1> QED BY <1>1, <1>2, <1>3, <1>4 DEF Submits

\* First awaits: only the locals change.
LEMMA ReadsType ==
  ASSUME TypeOK, NEW p \in Actors,
         \/ p \in Drivers /\ DriverStarts(p)
         \/ p \in RiderRequests /\ RiderStarts(p)
         \/ p \in Sweepers /\ ExpireRead(p)
  PROVE  TypeOK'
  <1>1. PICK op \in Ops, driver \in Maybe, amount \in Fares :
          Begin(p, op, driver, amount)
    <2>1. bid.offer \in Fares /\ bid.counter \in Fares /\ bid.driver \in Maybe
      BY DEF TypeOK, Bids, Maybe
    <2>2. \A amount \in bid.offer + 1 .. StandardFare - 1 : amount \in Fares
      BY <2>1, FaresAssumption DEF Fares
    <2>3. \A op \in {"accept", "decline", "counter", "acceptCounter",
                     "declineCounter", "withdraw", "cancelTrip", "expire"} : op \in Ops
      BY DEF Ops, CaptureOps, VoidOps
    <2>4. NoDriver \in Maybe /\ (p \in Drivers => p \in Maybe)
      BY DEF Maybe
    <2> QED
      BY <2>1, <2>2, <2>3, <2>4, FareRange
      DEF DriverStarts, RiderStarts, AcceptRead, DeclineRead, CounterRead,
          AcceptCounterRead, DeclineCounterRead, WithdrawRead, CancelTripRead,
          ExpireRead
  <1>2. JobsOK'
    BY <1>1, JobUpdates DEF JobsOK, TypeOK
  <1> QED BY <1>1, <1>2 DEF Begin, TypeOK, JobsOK

\* Claims and transactions.
LEMMA WritesType ==
  ASSUME TypeOK, NEW p \in Actors,
         \/ p \in Drivers /\ DriverWrites(p)
         \/ p \in RiderRequests /\ RiderWrites(p)
         \/ p \in Sweepers /\ ExpireCommit(p)
  PROVE  TypeOK'
  <1>1. job[p].amount \in Fares /\ job[p].driver \in Maybe
    BY DEF TypeOK, Jobs, Maybe
  <1>2. Return(p) \/ Goto(p, "claimed") \/ Goto(p, "settle")
    BY DEF DriverWrites, RiderWrites, Claim, ClaimDecline, AcceptCommit,
           DeclineCommit, CounterCommit, AcceptCounterCommit,
           DeclineCounterCommit, WithdrawCommit, CancelTripCommit, ExpireCommit
  <1>3. JobsOK'
    BY <1>2, JobUpdates DEF JobsOK, TypeOK, Steps
  <1>4. \A d \in Maybe, f \in Fares : AgreedTrip(d, f) \in Trips
    BY DEF AgreedTrip, TypeOK, Trips, Maybe
  <1>5. CASE p \in Drivers /\ DriverWrites(p)
    <2>1. CASE Claim(p)
      BY <1>3, <1>5, <2>1 DEF Claim, TypeOK, JobsOK
    <2>2. CASE ClaimDecline(p)
      BY <1>3, <1>5, <2>2 DEF ClaimDecline, TypeOK, JobsOK
    <2>3. CASE AcceptCommit(p)
      <3>1. bid' \in Bids
        BY <1>1, <1>5, <2>3 DEF AcceptCommit, TypeOK, Bids, BidTerminal
      <3>2. trip' \in Trips
        BY <1>1, <1>4, <1>5, <2>3 DEF AcceptCommit, Maybe
      <3> QED BY <1>3, <2>3, <3>1, <3>2 DEF AcceptCommit, TypeOK, JobsOK
    <2>4. CASE DeclineCommit(p)
      <3>1. bid' \in Bids
        BY <1>5, <2>4 DEF DeclineCommit, TypeOK, Bids, BidTerminal
      <3> QED BY <1>3, <2>4, <3>1 DEF DeclineCommit, TypeOK, JobsOK
    <2>5. CASE CounterCommit(p)
      <3>1. bid' \in Bids
        BY <1>1, <1>5, <2>5 DEF CounterCommit, TypeOK, Bids, BidOpen
      <3> QED BY <1>3, <2>5, <3>1 DEF CounterCommit, TypeOK, JobsOK
    <2> QED BY <1>5, <2>1, <2>2, <2>3, <2>4, <2>5 DEF DriverWrites
  <1>6. CASE p \in RiderRequests /\ RiderWrites(p)
    <2>1. CASE AcceptCounterCommit(p)
      <3>1. bid' \in Bids
        BY <1>1, <2>1 DEF AcceptCounterCommit, TypeOK, Bids, BidTerminal
      <3>2. trip' \in Trips
        BY <1>1, <1>4, <2>1 DEF AcceptCounterCommit
      <3> QED BY <1>3, <2>1, <3>1, <3>2 DEF AcceptCounterCommit, TypeOK, JobsOK
    <2>2. CASE DeclineCounterCommit(p)
      <3>1. bid' \in Bids
        BY <2>2 DEF DeclineCounterCommit, TypeOK, Bids, BidTerminal
      <3> QED BY <1>3, <2>2, <3>1 DEF DeclineCounterCommit, TypeOK, JobsOK
    <2>3. CASE WithdrawCommit(p)
      <3>1. bid' \in Bids
        BY <2>3 DEF WithdrawCommit, TypeOK, Bids, BidTerminal
      <3>2. trip' \in Trips
        BY <2>3 DEF WithdrawCommit, TypeOK, Trips
      <3> QED BY <1>3, <2>3, <3>1, <3>2 DEF WithdrawCommit, TypeOK, JobsOK
    <2>4. CASE CancelTripCommit(p)
      <3>1. trip' \in Trips
        BY <2>4 DEF CancelTripCommit, TypeOK, Trips
      <3> QED BY <1>3, <2>4, <3>1 DEF CancelTripCommit, TypeOK, JobsOK
    <2> QED BY <1>6, <2>1, <2>2, <2>3, <2>4 DEF RiderWrites
  <1>7. CASE p \in Sweepers /\ ExpireCommit(p)
    <2>1. bid' \in Bids
      BY <1>7 DEF ExpireCommit, TypeOK, Bids, BidTerminal
    <2> QED BY <1>3, <1>7, <2>1 DEF ExpireCommit, TypeOK, JobsOK
  <1> QED BY <1>5, <1>6, <1>7

\* Settlement, faults and time.
LEMMA OthersType ==
  ASSUME TypeOK, NEW p \in Actors, Settles(p) \/ Abort(p)
  PROVE  TypeOK'
  <1>1. Return(p) \/ Goto(p, "call") \/ Goto(p, "forget")
    BY DEF Settles, LookUpIntent, CallPayment, CallPaymentFails, ForgetIntent, Abort
  <1>2. JobsOK'
    BY <1>1, JobUpdates DEF JobsOK, TypeOK, Steps
  <1>3. job[p].amount \in Fares
    BY DEF TypeOK, Jobs
  <1>4. CASE LookUpIntent(p)
    BY <1>2, <1>4 DEF LookUpIntent, TypeOK, JobsOK
  <1>5. CASE CallPayment(p)
    <2>1. hold' \in Holds
      BY <1>3, <1>5 DEF CallPayment, Capture, Void, TypeOK, Holds
    <2> QED BY <1>2, <1>5, <2>1 DEF CallPayment, TypeOK, JobsOK
  <1>6. CASE CallPaymentFails(p)
    BY <1>2, <1>6, FaultsAssumption DEF CallPaymentFails, TypeOK, JobsOK
  <1>7. CASE ForgetIntent(p)
    BY <1>2, <1>7 DEF ForgetIntent, TypeOK, JobsOK
  <1>8. CASE Abort(p)
    BY <1>2, <1>8, FaultsAssumption DEF Abort, TypeOK, JobsOK
  <1> QED BY <1>4, <1>5, <1>6, <1>7, <1>8 DEF Settles

\* Expiring keys, failing calls and the passing of time keep the types.
LEMMA EnvironmentType ==
  ASSUME TypeOK,
         \/ DispatchSweepFails \/ IntentExpires \/ Clock
         \/ \E d \in Drivers : DeclineClaimExpires(d)
  PROVE  TypeOK'
  <1>1. CASE DispatchSweepFails
    <2>1. trip' \in Trips
      BY <1>1 DEF DispatchSweepFails, TypeOK, Trips
    <2> QED BY <1>1, <2>1 DEF DispatchSweepFails, TypeOK
  <1>2. CASE IntentExpires
    <2>1. faults' \in 0 .. MaxFaults
      BY <1>2, FaultsAssumption DEF IntentExpires, TypeOK
    <2>2. intent' \in BOOLEAN
      BY <1>2 DEF IntentExpires
    <2> QED BY <1>2, <2>1, <2>2 DEF IntentExpires, TypeOK
  <1>3. CASE Clock
    BY <1>3 DEF Clock, TripTurnsStale, BidFallsDue, ClaimExpires, TypeOK
  <1>4. CASE \E d \in Drivers : DeclineClaimExpires(d)
    BY <1>4 DEF DeclineClaimExpires, TypeOK
  <1> QED BY <1>1, <1>2, <1>3, <1>4

\* Every variable of the negotiation keeps its type: the rows stay well formed
\* and every fare lies between zero and the standard fare, whatever the
\* handlers and the sweeps interleave.
THEOREM TypeCorrect == Spec => []TypeOK
  <1>1. TypeOK /\ [Next]_vars => TypeOK'
    <2> SUFFICES ASSUME TypeOK, [Next]_vars PROVE TypeOK'
      OBVIOUS
    <2>1. CASE UNCHANGED vars
      BY <2>1 DEF vars, TypeOK
    <2>2. CASE Next
      BY <2>2, <2>1, SubmissionType, ReadsType, WritesType, OthersType, EnvironmentType
      DEF Next, Actors, Ended
    <2> QED BY <2>1, <2>2
  <1> QED BY <1>1, InitType, PTL DEF Spec

-----------------------------------------------------------------------------
(* The invariant behind the contract.                                        *)

\* What an update of one handler's locals does to every handler's.
LEMMA JobEffect ==
  ASSUME JobsOK, NEW p \in Actors
  PROVE  /\ Return(p) => job'[p] = Idle
         /\ \A s \in Steps : Goto(p, s) =>
              /\ job'[p].step = s
              /\ job'[p].op = job[p].op
              /\ job'[p].driver = job[p].driver
              /\ job'[p].amount = job[p].amount
         /\ (Return(p) \/ \E s \in Steps : Goto(p, s)) =>
              \A q \in Actors : q # p => job'[q] = job[q]
  BY DEF JobsOK, Jobs, Return, Goto

\* An idle handler is in none of the steps of a running one.
LEMMA StepNames ==
  /\ Idle.op = "none" /\ Idle.step = "idle"
  /\ \A s \in {"read", "claimed", "settle", "call", "forget"} : s \in Steps /\ s # "idle"
  /\ "none" \notin ClaimOps \cup CaptureOps \cup VoidOps
  BY DEF Idle, Steps, ClaimOps, CaptureOps, VoidOps

\* A handler in flight means the bid is stored.
LEMMA BusyMeansStored ==
  ASSUME IInv, NEW p \in Actors, job[p] # Idle
  PROVE  bid.status # "absent" /\ submit \notin {"none", "held"}
  BY DEF IInv, NobodyKnowsYet

\* The inductive invariant holds before the bid is submitted.
LEMMA InitInv == Init => IInv
  <1> SUFFICES ASSUME Init PROVE IInv
    OBVIOUS
  <1>1. TypeOK
    BY InitType
  <1>2. \A p \in Actors : job[p] = Idle
    BY DEF Init
  <1>3. NobodyKnowsYet
    BY <1>2 DEF Init, NobodyKnowsYet
  <1>4. ClaimOwned /\ AcceptancesAgree
    BY <1>2, StepNames DEF ClaimOwned, AcceptancesAgree, At, Actors
  <1>5. UndecidedIsOpen
    BY <1>2, StepNames DEF Init, UndecidedIsOpen, At, Actors
  <1>6. CounteredHasTerms /\ HoldBacksDeal
    BY DEF Init, CounteredHasTerms, HoldBacksDeal
  <1>7. AmountsNegotiable
    BY <1>2, StepNames DEF Init, AmountsNegotiable, Actors
  <1> QED BY <1>1, <1>3, <1>4, <1>5, <1>6, <1>7 DEF IInv

\* Looking up, calling and forgetting the payment intent, and dying: the rows
\* stay, one handler advances or disappears, and only a capture moves money.
LEMMA SettlesInv ==
  ASSUME IInv, NEW p \in Actors, Settles(p) \/ Abort(p)
  PROVE  IInv'
  <1>1. TypeOK'
    BY OthersType DEF IInv
  <1>2. /\ UNCHANGED <<submit, bid, trip, claimed>>
        /\ job[p] # Idle
        /\ Return(p) \/ (job[p].step \in {"settle", "call"} /\ (Goto(p, "call") \/ Goto(p, "forget")))
    BY StepNames
    DEF Settles, Abort, LookUpIntent, CallPayment, CallPaymentFails, ForgetIntent
  <1>3. JobsOK
    BY DEF IInv, TypeOK, JobsOK
  <1>4. /\ job'[p] = Idle \/ /\ job'[p].step \in {"call", "forget"}
                             /\ job[p].step \in {"settle", "call"}
                             /\ job'[p].op = job[p].op
                             /\ job'[p].amount = job[p].amount
        /\ \A q \in Actors : q # p => job'[q] = job[q]
    BY <1>2, <1>3, JobEffect, StepNames
  <1>5. NobodyKnowsYet'
    BY <1>2, BusyMeansStored DEF NobodyKnowsYet
  <1>6. \A q \in Actors, ops \in SUBSET Ops, s \in {"read", "claimed"} :
          "none" \notin ops /\ At(q, ops, s)' => At(q, ops, s) /\ job'[q] = job[q]
    BY <1>4, StepNames DEF At
  <1>7. ClaimOps \in SUBSET Ops /\ {"acceptCounter"} \in SUBSET Ops
    BY DEF ClaimOps, Ops, CaptureOps
  <1>8. ClaimOwned'
    BY <1>2, <1>6, <1>7, StepNames DEF IInv, ClaimOwned, Actors
  <1>9. UndecidedIsOpen'
    BY <1>2, <1>6, <1>7, StepNames DEF IInv, UndecidedIsOpen, Undecided, Actors
  <1>10. CounteredHasTerms'
    BY <1>2 DEF IInv, CounteredHasTerms
  <1>11. AcceptancesAgree'
    BY <1>2, <1>6, <1>7 DEF IInv, AcceptancesAgree, Actors
  <1>12. AmountsNegotiable'
    BY <1>2, <1>4, StepNames DEF IInv, AmountsNegotiable, Actors
  <1>13. HoldBacksDeal'
    <2>1. CASE UNCHANGED hold
      BY <1>2, <2>1 DEF IInv, HoldBacksDeal
    <2>2. CASE CallPayment(p) /\ ~UNCHANGED hold
      <3>1. hold \in Holds
        BY DEF IInv, TypeOK
      <3>2. hold.status = "authorized" /\ hold.captured = 0 /\ submit # "none"
        BY <2>2 DEF CallPayment, Capture, Void, IInv, HoldBacksDeal
      <3>3. CASE job[p].op \in CaptureOps
        <4>1. hold' = [hold EXCEPT !.status = "captured", !.captured = job[p].amount]
          BY <2>2, <3>3 DEF CallPayment, Capture
        <4>2. trip.bidSet /\ trip.fare = job[p].amount
          BY <2>2, <3>3 DEF CallPayment, IInv, AmountsNegotiable
        <4> QED BY <1>2, <3>1, <3>2, <4>1, <4>2 DEF IInv, HoldBacksDeal, Holds
      <3>4. CASE job[p].op \notin CaptureOps
        <4>1. hold' = [hold EXCEPT !.status = "cancelled"]
          BY <2>2, <3>4 DEF CallPayment, Void
        <4> QED BY <1>2, <3>1, <3>2, <4>1 DEF IInv, HoldBacksDeal, Holds
      <3> QED BY <3>3, <3>4
    <2> QED
      BY <2>1, <2>2 DEF Settles, Abort, LookUpIntent, CallPaymentFails, ForgetIntent
  <1> QED BY <1>1, <1>5, <1>8, <1>9, <1>10, <1>11, <1>12, <1>13 DEF IInv

\* submitBid keeps the invariant: it stores the bid before anybody knows it.
LEMMA SubmissionInv ==
  ASSUME IInv, Submits PROVE IInv'
  <1>1. TypeOK'
    BY SubmissionType DEF IInv
  <1>2. /\ UNCHANGED <<job, claimed>>
        /\ trip'.bidSet = trip.bidSet /\ trip'.driver = trip.driver
        /\ trip'.fare = trip.fare
        /\ bid'.counter = bid.counter /\ bid'.driver = bid.driver
    BY DEF Submits, SubmitHold, SubmitStore, SubmitRemember, SubmitAborts,
           IInv, TypeOK, Bids, Trips
  <1>3. /\ \/ bid'.status = bid.status
           \/ bid.status = "absent" /\ bid'.status = "pending"
        /\ submit' \in {"none", "held"} => bid'.status = "absent"
        /\ bid'.status = "absent" => trip'.status = trip.status
    BY DEF Submits, SubmitHold, SubmitStore, SubmitRemember, SubmitAborts,
           IInv, NobodyKnowsYet, TypeOK, Bids
  <1>4. NobodyKnowsYet'
    BY <1>2, <1>3 DEF IInv, NobodyKnowsYet
  <1>5. ClaimOwned'
    BY <1>2 DEF IInv, ClaimOwned, At
  <1>6. UndecidedIsOpen' /\ CounteredHasTerms'
    BY <1>2, <1>3 DEF IInv, UndecidedIsOpen, Undecided, CounteredHasTerms, At
  <1>7. AcceptancesAgree'
    BY <1>2, <1>3 DEF IInv, AcceptancesAgree, At
  <1>8. submit' # "none" => bid'.offer \in Negotiable
    BY DEF Submits, SubmitHold, SubmitStore, SubmitRemember, SubmitAborts,
           IInv, AmountsNegotiable, TypeOK, Bids, Negotiable
  <1>9. AmountsNegotiable'
    BY <1>2, <1>8 DEF IInv, AmountsNegotiable, Negotiable
  <1>10. HoldBacksDeal'
    <2>1. CASE SubmitHold
      BY <1>2, <2>1 DEF SubmitHold, HoldAmount, IInv, HoldBacksDeal, TypeOK, Holds
    <2>2. CASE ~SubmitHold
      <3>1. UNCHANGED hold /\ submit # "none" /\ submit' # "none"
        BY <2>2 DEF Submits, SubmitStore, SubmitRemember, SubmitAborts
      <3> QED BY <1>2, <3>1 DEF IInv, HoldBacksDeal
    <2> QED BY <2>1, <2>2
  <1> QED BY <1>1, <1>4, <1>5, <1>6, <1>7, <1>9, <1>10 DEF IInv

\* A first await adds one handler, whose locals are those of the row it read.
LEMMA ReadsInv ==
  ASSUME IInv, NEW p \in Actors,
         \/ p \in Drivers /\ DriverStarts(p)
         \/ p \in RiderRequests /\ RiderStarts(p)
         \/ p \in Sweepers /\ ExpireRead(p)
  PROVE  IInv'
  <1>1. TypeOK'
    BY ReadsType DEF IInv
  <1>2. /\ UNCHANGED <<submit, bid, trip, claimed, hold>>
        /\ bid.status # "absent"
        /\ job[p] = Idle
        /\ \A q \in Actors : q # p => job'[q] = job[q]
        /\ job'[p].step = "read"
    BY DEF DriverStarts, RiderStarts, AcceptRead, DeclineRead, CounterRead,
           AcceptCounterRead, DeclineCounterRead, WithdrawRead, CancelTripRead,
           ExpireRead, Begin, DriverSeesBid, BidOpen, IInv, TypeOK, NobodyKnowsYet
  <1>3. job'[p].op \in ClaimOps =>
          /\ p \in Drivers /\ bid.status = "pending"
          /\ job'[p].amount \in Negotiable
    <2>1. bid.status = "pending" => bid.offer \in Negotiable
      BY DEF IInv, AmountsNegotiable, NobodyKnowsYet, Negotiable
    <2>2. \A amount \in bid.offer + 1 .. StandardFare - 1 :
            bid.status = "pending" => amount \in Negotiable
      BY <2>1, FaresAssumption DEF Negotiable
    <2> QED
      BY <2>1, <2>2
      DEF DriverStarts, RiderStarts, AcceptRead, DeclineRead, CounterRead,
          AcceptCounterRead, DeclineCounterRead, WithdrawRead, CancelTripRead,
          ExpireRead, Begin, DriverSeesBid, ClaimOps, IInv, TypeOK
  <1>4. job'[p].op = "acceptCounter" =>
          /\ bid.status = "countered"
          /\ job'[p].driver = bid.driver /\ job'[p].amount = bid.counter
    BY DEF DriverStarts, RiderStarts, AcceptRead, DeclineRead, CounterRead,
           AcceptCounterRead, DeclineCounterRead, WithdrawRead, CancelTripRead,
           ExpireRead, Begin, IInv, TypeOK
  <1>5. NobodyKnowsYet'
    BY <1>2 DEF IInv, NobodyKnowsYet
  <1>6. ClaimOwned'
    BY <1>2 DEF IInv, ClaimOwned, At, Actors
  <1>7. Undecided' => Undecided
    BY <1>2, <1>3 DEF Undecided, At, Actors
  <1>8. UndecidedIsOpen'
    BY <1>2, <1>4, <1>7 DEF IInv, UndecidedIsOpen, At, Actors
  <1>9. CounteredHasTerms'
    BY <1>2 DEF IInv, CounteredHasTerms
  <1>10. AcceptancesAgree'
    BY <1>2, <1>4 DEF IInv, AcceptancesAgree, CounteredHasTerms, At, Actors
  <1>11. AmountsNegotiable'
    BY <1>2, <1>3 DEF IInv, AmountsNegotiable, Negotiable, Actors
  <1>12. HoldBacksDeal'
    BY <1>2 DEF IInv, HoldBacksDeal
  <1> QED BY <1>1, <1>5, <1>6, <1>8, <1>9, <1>10, <1>11, <1>12 DEF IInv

\* The dispatch sweep, the clock and the expiry of keys.
LEMMA EnvironmentInv ==
  ASSUME IInv,
         \/ DispatchSweepFails \/ IntentExpires \/ Clock
         \/ \E d \in Drivers : DeclineClaimExpires(d)
  PROVE  IInv'
  <1>1. TypeOK'
    BY EnvironmentType DEF IInv
  <1>2. /\ UNCHANGED <<submit, bid, hold, job>>
        /\ trip'.bidSet = trip.bidSet /\ trip'.driver = trip.driver
        /\ trip'.fare = trip.fare
        /\ trip'.status = trip.status \/ trip.status = "searching"
    BY DEF DispatchSweepFails, IntentExpires, Clock, TripTurnsStale, BidFallsDue,
           ClaimExpires, DeclineClaimExpires, IInv, TypeOK, Trips
  <1>3. \/ claimed' = claimed
        \/ claimed' = NoDriver /\ \A d \in Drivers : ~ClaimInUse(d, ClaimOps)
    BY DEF DispatchSweepFails, IntentExpires, Clock, TripTurnsStale, BidFallsDue,
           ClaimExpires, DeclineClaimExpires
  <1>4. NobodyKnowsYet'
    BY <1>2 DEF IInv, NobodyKnowsYet
  <1>5. ClaimOwned'
    BY <1>2, <1>3 DEF IInv, ClaimOwned, ClaimInUse, At
  <1>6. Undecided' => Undecided
    BY <1>2, <1>3 DEF Undecided, ClaimInUse, At
  <1>7. UndecidedIsOpen' /\ CounteredHasTerms'
    BY <1>2, <1>6 DEF IInv, UndecidedIsOpen, CounteredHasTerms, At
  <1>8. AcceptancesAgree'
    BY <1>2 DEF IInv, AcceptancesAgree, At
  <1>9. AmountsNegotiable' /\ HoldBacksDeal'
    BY <1>2 DEF IInv, AmountsNegotiable, HoldBacksDeal
  <1> QED BY <1>1, <1>4, <1>5, <1>7, <1>8, <1>9 DEF IInv

\* What p's transaction or claim does to the locals of the handlers.
LEMMA WriteEffect ==
  ASSUME IInv, NEW p \in Actors, job[p].step \in {"read", "claimed"},
         NEW s \in Steps, Goto(p, s) \/ Return(p)
  PROVE  /\ bid.status # "absent" /\ submit \notin {"none", "held"}
         /\ \/ job'[p] = Idle
            \/ /\ job'[p].op = job[p].op /\ job'[p].step = s
               /\ job'[p].driver = job[p].driver /\ job'[p].amount = job[p].amount
         /\ \A q \in Actors : q # p => job'[q] = job[q]
         /\ JobsOK
  <1>1. JobsOK
    BY DEF IInv, TypeOK, JobsOK
  <1>2. job[p] # Idle
    BY StepNames
  <1> QED BY <1>1, <1>2, JobEffect, BusyMeansStored

\* Claiming the bid, for any of a driver's answers, keeps the invariant.
LEMMA ClaimInv ==
  ASSUME IInv, NEW d \in Drivers, Claim(d) \/ ClaimDecline(d)
  PROVE  IInv'
  <1>0. d \in Actors
    BY DEF Actors
  <1>1. TypeOK'
    BY <1>0, WritesType DEF IInv, DriverWrites
  <1>2. /\ UNCHANGED <<submit, bid, trip, hold>>
        /\ job[d].step = "read"
        /\ Goto(d, "claimed") \/ Return(d)
        /\ job[d].op \in ClaimOps \cup {"decline"}
    BY DEF Claim, ClaimDecline, At
  <1>3. /\ bid.status # "absent" /\ submit \notin {"none", "held"}
        /\ \/ job'[d] = Idle
           \/ /\ job'[d].op = job[d].op /\ job'[d].step = "claimed"
              /\ job'[d].driver = job[d].driver /\ job'[d].amount = job[d].amount
        /\ \A q \in Actors : q # d => job'[q] = job[q]
    BY <1>0, <1>2, WriteEffect, StepNames
  <1>4. \/ /\ claimed = NoDriver /\ claimed' = d
           /\ At(d, ClaimOps, "read")
        \/ /\ claimed' = claimed
           /\ job'[d] = Idle \/ job[d].op = "decline"
    <2>1. Return(d) => job'[d] = Idle
      BY <1>0, JobEffect DEF IInv, TypeOK, JobsOK
    <2> QED BY <2>1 DEF Claim, ClaimDecline, ClaimKeyFree, At
  <1>5. NobodyKnowsYet'
    BY <1>2, <1>3 DEF NobodyKnowsYet
  <1>6. "decline" \notin ClaimOps \cup CaptureOps /\ "acceptCounter" \notin ClaimOps
    BY DEF ClaimOps, CaptureOps
  <1>7. ClaimOwned'
    BY <1>3, <1>4, <1>6, ActorsAssumption, StepNames
    DEF IInv, ClaimOwned, At, Actors
  <1>8. Undecided' => Undecided
    BY <1>2, <1>3, <1>4, <1>6, StepNames DEF Undecided, At, Actors
  <1>9. UndecidedIsOpen' /\ CounteredHasTerms'
    BY <1>2, <1>3, <1>8, StepNames
    DEF IInv, UndecidedIsOpen, CounteredHasTerms, At, Actors
  <1>10. AcceptancesAgree'
    BY <1>2, <1>3, StepNames DEF IInv, AcceptancesAgree, At, Actors
  <1>11. AmountsNegotiable' /\ HoldBacksDeal'
    BY <1>2, <1>3, StepNames
    DEF IInv, AmountsNegotiable, HoldBacksDeal, Actors
  <1> QED BY <1>1, <1>5, <1>7, <1>9, <1>10, <1>11 DEF IInv

\* A transaction that closes the bid without a deal, and the cancellation of
\* the trip: neither touches claim, deal, counter or money.
LEMMA ClosingInv ==
  ASSUME IInv, NEW p \in Actors,
         \/ p \in Drivers /\ DeclineCommit(p)
         \/ p \in RiderRequests /\ (DeclineCounterCommit(p) \/ WithdrawCommit(p)
                                      \/ CancelTripCommit(p))
         \/ p \in Sweepers /\ ExpireCommit(p)
  PROVE  IInv'
  <1>1. TypeOK'
    BY WritesType DEF IInv, DriverWrites, RiderWrites
  <1>2. /\ UNCHANGED <<submit, claimed, hold>>
        /\ trip'.bidSet = trip.bidSet /\ trip'.driver = trip.driver
        /\ trip'.fare = trip.fare
        /\ bid'.offer = bid.offer /\ bid'.counter = bid.counter
        /\ \/ bid' = bid
           \/ bid'.status \in {"declined", "expired", "withdrawn"}
    BY DEF DeclineCommit, DeclineCounterCommit, WithdrawCommit, CancelTripCommit,
           ExpireCommit, IInv, TypeOK, Bids, Trips
  <1>3. /\ job[p].step \in {"read", "claimed"}
        /\ Goto(p, "settle") \/ Return(p)
        /\ job[p].op \notin CaptureOps
    BY DEF DeclineCommit, DeclineCounterCommit, WithdrawCommit, CancelTripCommit,
           ExpireCommit, At, CaptureOps
  <1>4. /\ bid.status # "absent" /\ submit \notin {"none", "held"}
        /\ \/ job'[p] = Idle
           \/ job'[p].op = job[p].op /\ job'[p].step = "settle"
        /\ \A q \in Actors : q # p => job'[q] = job[q]
    BY <1>3, WriteEffect, StepNames
  <1>5. NobodyKnowsYet'
    BY <1>2, <1>4 DEF NobodyKnowsYet
  <1>6. ClaimOwned'
    BY <1>2, <1>4, StepNames DEF IInv, ClaimOwned, At, Actors
  <1>7. Undecided' => Undecided
    BY <1>2, <1>4, StepNames DEF Undecided, At, Actors
  <1>8. UndecidedIsOpen' /\ CounteredHasTerms'
    BY <1>2, <1>4, <1>7, StepNames
    DEF IInv, UndecidedIsOpen, CounteredHasTerms, At, Actors
  <1>9. AcceptancesAgree'
    BY <1>2, <1>4, StepNames DEF IInv, AcceptancesAgree, At, Actors
  <1>10. AmountsNegotiable'
    BY <1>2, <1>3, <1>4, StepNames DEF IInv, AmountsNegotiable, Actors
  <1>11. HoldBacksDeal'
    BY <1>2 DEF IInv, HoldBacksDeal
  <1> QED BY <1>1, <1>5, <1>6, <1>8, <1>9, <1>10, <1>11 DEF IInv

\* A driver's counter keeps the invariant.
LEMMA CounterInv ==
  ASSUME IInv, NEW d \in Drivers, CounterCommit(d) PROVE IInv'
  <1>0. d \in Actors
    BY DEF Actors
  <1>1. TypeOK'
    BY <1>0, WritesType DEF IInv, DriverWrites
  <1>2. /\ UNCHANGED <<submit, trip, claimed, hold>>
        /\ job[d].op = "counter" /\ job[d].step = "claimed" /\ Return(d)
        /\ bid'.status = "countered" /\ bid'.driver = d
        /\ bid'.counter = job[d].amount /\ bid'.offer = bid.offer
    BY DEF CounterCommit, At, IInv, TypeOK, Bids
  <1>3. /\ bid.status # "absent" /\ submit \notin {"none", "held"}
        /\ job'[d] = Idle
        /\ \A q \in Actors : q # d => job'[q] = job[q]
    BY <1>0, <1>2, WriteEffect, JobEffect, StepNames
  <1>4. At(d, ClaimOps, "claimed") /\ Undecided
    BY <1>2 DEF At, ClaimOps, Undecided
  <1>5. claimed = d /\ d # NoDriver
    BY <1>4, ActorsAssumption DEF IInv, ClaimOwned
  <1>6. /\ ~trip.bidSet
        /\ \A r \in RiderRequests : ~At(r, {"acceptCounter"}, "read")
    BY <1>4 DEF IInv, UndecidedIsOpen
  <1>7. bid'.counter \in Negotiable /\ bid'.counter # 0
    BY <1>2, FaresAssumption DEF IInv, AmountsNegotiable, ClaimOps, Negotiable
  <1>8. NobodyKnowsYet'
    BY <1>2, <1>3 DEF NobodyKnowsYet
  <1>9. ClaimOwned'
    BY <1>2, <1>3, StepNames DEF IInv, ClaimOwned, At, Actors
  <1>10. ~Undecided'
    BY <1>2, <1>3, <1>5, StepNames DEF IInv, ClaimOwned, Undecided, At, Actors
  <1>11. UndecidedIsOpen' /\ CounteredHasTerms'
    BY <1>2, <1>6, <1>7, <1>10 DEF UndecidedIsOpen, CounteredHasTerms
  <1>12. AcceptancesAgree'
    BY <1>3, <1>6, StepNames DEF AcceptancesAgree, At, Actors
  <1>13. AmountsNegotiable'
    BY <1>2, <1>3, <1>7, StepNames DEF IInv, AmountsNegotiable, Negotiable, Actors
  <1>14. HoldBacksDeal'
    BY <1>2 DEF IInv, HoldBacksDeal
  <1> QED BY <1>1, <1>8, <1>9, <1>11, <1>12, <1>13, <1>14 DEF IInv

\* The two transactions that strike the deal.
LEMMA DealInv ==
  ASSUME IInv, NEW p \in Actors,
         \/ p \in Drivers /\ AcceptCommit(p)
         \/ p \in RiderRequests /\ AcceptCounterCommit(p)
  PROVE  /\ IInv'
         /\ trip'.bidSet
         /\ trip.bidSet => trip'.driver = trip.driver /\ trip'.fare = trip.fare
  <1>1. TypeOK'
    BY WritesType DEF IInv, DriverWrites, RiderWrites
  <1>2. /\ UNCHANGED <<submit, claimed, hold>>
        /\ job[p].step \in {"read", "claimed"} /\ Goto(p, "settle")
        /\ bid'.status = "accepted"
        /\ bid'.offer = bid.offer /\ bid'.counter = bid.counter
        /\ trip'.bidSet /\ trip'.fare = job[p].amount
    BY DEF AcceptCommit, AcceptCounterCommit, AgreedTrip, At, IInv, TypeOK, Bids, Trips
  <1>3. /\ bid.status # "absent" /\ submit \notin {"none", "held"}
        /\ job'[p].op = job[p].op /\ job'[p].step = "settle"
        /\ job'[p].driver = job[p].driver /\ job'[p].amount = job[p].amount
        /\ \A q \in Actors : q # p => job'[q] = job[q]
    <2>1. JobsOK
      BY DEF IInv, TypeOK, JobsOK
    <2> QED BY <1>2, <2>1, WriteEffect, JobEffect, StepNames
  <1>4. /\ ~Undecided'
        /\ trip'.driver \in Drivers /\ trip'.fare \in Negotiable
        /\ trip.bidSet => trip'.driver = trip.driver /\ trip'.fare = trip.fare
        /\ \A r \in RiderRequests : At(r, {"acceptCounter"}, "read") =>
             trip'.driver = job[r].driver /\ trip'.fare = job[r].amount
    <2>1. CASE p \in Drivers /\ AcceptCommit(p)
      <3>1. At(p, ClaimOps, "claimed") /\ Undecided /\ trip'.driver = p
        BY <2>1 DEF AcceptCommit, AgreedTrip, At, ClaimOps, Undecided, IInv, TypeOK, Trips
      <3>2. claimed = p /\ p # NoDriver
        BY <2>1, <3>1, ActorsAssumption DEF IInv, ClaimOwned
      <3>3. /\ ~trip.bidSet
            /\ \A r \in RiderRequests : ~At(r, {"acceptCounter"}, "read")
        BY <3>1 DEF IInv, UndecidedIsOpen
      <3>4. trip'.fare \in Negotiable
        BY <1>2, <2>1, <3>1 DEF IInv, AmountsNegotiable, At, Negotiable
      <3>5. ~Undecided'
        BY <1>2, <1>3, <3>2, StepNames DEF IInv, ClaimOwned, Undecided, At, Actors
      <3> QED BY <2>1, <3>1, <3>3, <3>4, <3>5
    <2>2. CASE p \in RiderRequests /\ AcceptCounterCommit(p)
      <3>1. At(p, {"acceptCounter"}, "read") /\ trip'.driver = job[p].driver
        BY <2>2 DEF AcceptCounterCommit, AgreedTrip, IInv, TypeOK, Trips
      <3>2. ~Undecided
        BY <2>2, <3>1 DEF IInv, UndecidedIsOpen
      <3>3. ~Undecided'
        BY <1>2, <1>3, <3>2, StepNames DEF Undecided, At, Actors
      <3>4. trip'.driver \in Drivers /\ trip'.fare \in Negotiable
        BY <1>2, <2>2, <3>1
        DEF IInv, AcceptancesAgree, AmountsNegotiable, Negotiable
      <3> QED BY <1>2, <2>2, <3>1, <3>3, <3>4 DEF IInv, AcceptancesAgree
    <2> QED BY <2>1, <2>2
  <1>5. NobodyKnowsYet'
    BY <1>2, <1>3 DEF NobodyKnowsYet
  <1>6. ClaimOwned'
    BY <1>2, <1>3, StepNames DEF IInv, ClaimOwned, At, Actors
  <1>7. UndecidedIsOpen' /\ CounteredHasTerms'
    BY <1>2, <1>4 DEF UndecidedIsOpen, CounteredHasTerms
  <1>8. AcceptancesAgree'
    BY <1>2, <1>3, <1>4, StepNames DEF IInv, AcceptancesAgree, At, Actors
  <1>9. AmountsNegotiable'
    BY <1>2, <1>3, <1>4, StepNames DEF IInv, AmountsNegotiable, Negotiable, Actors
  <1>10. HoldBacksDeal'
    BY <1>2, <1>4 DEF IInv, HoldBacksDeal
  <1> QED BY <1>1, <1>2, <1>4, <1>5, <1>6, <1>7, <1>8, <1>9, <1>10 DEF IInv

\* Every step of the system keeps the invariant.
LEMMA Inductive == IInv /\ [Next]_vars => IInv'
  <1> SUFFICES ASSUME IInv, [Next]_vars PROVE IInv'
    OBVIOUS
  <1>1. CASE UNCHANGED vars
    <2> USE <1>1 DEF vars
    <2>1. TypeOK' /\ NobodyKnowsYet' /\ ClaimOwned' /\ CounteredHasTerms'
      BY DEF IInv, TypeOK, NobodyKnowsYet, ClaimOwned, CounteredHasTerms, At
    <2>2. UndecidedIsOpen' /\ AcceptancesAgree'
      BY DEF IInv, UndecidedIsOpen, Undecided, AcceptancesAgree, At
    <2>3. AmountsNegotiable' /\ HoldBacksDeal'
      BY DEF IInv, AmountsNegotiable, HoldBacksDeal
    <2> QED BY <2>1, <2>2, <2>3 DEF IInv
  <1>2. CASE Submits
    BY <1>2, SubmissionInv
  <1>3. CASE \E d \in Drivers : DriverStarts(d) \/ DriverWrites(d) \/ DeclineClaimExpires(d)
    BY <1>3, ReadsInv, ClaimInv, DealInv, ClosingInv, CounterInv, EnvironmentInv
    DEF DriverWrites, Actors
  <1>4. CASE \E r \in RiderRequests : RiderStarts(r) \/ RiderWrites(r)
    BY <1>4, ReadsInv, DealInv, ClosingInv DEF RiderWrites, Actors
  <1>5. CASE \E s \in Sweepers : ExpireRead(s) \/ ExpireCommit(s)
    BY <1>5, ReadsInv, ClosingInv DEF Actors
  <1>6. CASE \E p \in Actors : Settles(p) \/ Abort(p)
    BY <1>6, SettlesInv
  <1>7. CASE DispatchSweepFails \/ IntentExpires \/ Clock
    BY <1>7, EnvironmentInv
  <1>8. CASE Ended
    BY <1>1, <1>8 DEF Ended
  <1> QED BY <1>1, <1>2, <1>3, <1>4, <1>5, <1>6, <1>7, <1>8 DEF Next

\* The invariant holds in every reachable state.
LEMMA Invariant == Spec => []IInv
  BY InitInv, Inductive, PTL DEF Spec

\* Every agreed fare is negotiable and covered by the hold, and money is only
\* captured for an agreed trip, in the agreed amount.
THEOREM DealIsCovered == Spec => []HoldCoversDeal
  <1>1. IInv => HoldCoversDeal
    <2> SUFFICES ASSUME IInv PROVE HoldCoversDeal
      OBVIOUS
    <2>1. trip.bidSet => submit # "none"
      BY DEF IInv, NobodyKnowsYet, UndecidedIsOpen, Undecided
    <2>2. trip.bidSet => /\ BidFloor <= trip.fare /\ trip.fare < StandardFare
                         /\ hold.amount = StandardFare
      BY <2>1, FaresAssumption DEF IInv, AmountsNegotiable, HoldBacksDeal
    <2>3. trip.bidSet => trip.fare <= hold.amount
      BY <2>2, FaresAssumption DEF IInv, TypeOK, Trips, Fares
    <2> QED BY <2>2, <2>3 DEF IInv, HoldBacksDeal, HoldCoversDeal
  <1> QED BY <1>1, Invariant, PTL

\* Only the two deal transactions write the terms of the trip.
Deals(p) == \/ p \in Drivers /\ AcceptCommit(p)
            \/ p \in RiderRequests /\ AcceptCounterCommit(p)

\* No step but one that strikes a deal writes driver or fare.
LEMMA OtherStepsKeepTerms ==
  ASSUME IInv, [Next]_vars, ~ \E p \in Actors : Deals(p)
  PROVE  /\ trip'.bidSet = trip.bidSet
         /\ trip'.driver = trip.driver /\ trip'.fare = trip.fare
  BY DEF Deals, Next, Submits, SubmitHold, SubmitStore, SubmitRemember,
         SubmitAborts, DriverStarts, DriverWrites, RiderStarts, RiderWrites,
         AcceptRead, DeclineRead, CounterRead, AcceptCounterRead,
         DeclineCounterRead, WithdrawRead, CancelTripRead, ExpireRead, Begin,
         Claim, ClaimDecline, DeclineCommit, CounterCommit, DeclineCounterCommit,
         WithdrawCommit, CancelTripCommit, ExpireCommit, Settles, LookUpIntent,
         CallPayment, CallPaymentFails, ForgetIntent, Abort, DispatchSweepFails,
         IntentExpires, Clock, TripTurnsStale, BidFallsDue, ClaimExpires,
         DeclineClaimExpires, Ended, vars, IInv, TypeOK, Trips, Actors

\* No step changes the terms of a deal already struck.
LEMMA TermsStay ==
  ASSUME IInv, [Next]_vars, trip.bidSet
  PROVE  trip'.bidSet /\ trip'.driver = trip.driver /\ trip'.fare = trip.fare
  BY DealInv, OtherStepsKeepTerms DEF Deals

\* Once a price is agreed, the trip's driver and fare never change: for any
\* number of drivers, duplicate rider requests, sweeps and faults.
THEOREM OneDeal == Spec => DealTermsFixed
  <1>1. IInv /\ [Next]_vars =>
          [trip.bidSet => /\ trip'.bidSet
                          /\ trip'.driver = trip.driver
                          /\ trip'.fare = trip.fare]_vars
    BY TermsStay
  <1> QED BY <1>1, Invariant, PTL DEF Spec, DealTermsFixed

-----------------------------------------------------------------------------
(* The negotiation implements its contract.                                  *)

\* Only submitBid and the calls to payment-service touch the hold.
LEMMA OtherStepsKeepHold ==
  ASSUME IInv, [Next]_vars, ~SubmitHold, ~ \E p \in Actors : CallPayment(p)
  PROVE  UNCHANGED hold
  BY DEF Next, Submits, SubmitStore, SubmitRemember, SubmitAborts, DriverStarts,
         DriverWrites, RiderStarts, RiderWrites, AcceptRead, DeclineRead,
         CounterRead, AcceptCounterRead, DeclineCounterRead, WithdrawRead,
         CancelTripRead, ExpireRead, Begin, Claim, ClaimDecline, AcceptCommit,
         DeclineCommit, CounterCommit, AcceptCounterCommit, DeclineCounterCommit,
         WithdrawCommit, CancelTripCommit, ExpireCommit, Settles, LookUpIntent,
         CallPaymentFails, ForgetIntent, Abort, DispatchSweepFails, IntentExpires,
         Clock, TripTurnsStale, BidFallsDue, ClaimExpires, DeclineClaimExpires,
         Ended, vars

\* Every step is a step of the contract or leaves its state alone.
LEMMA ContractStep ==
  ASSUME IInv, [Next]_vars
  PROVE  [Contract!Next]_<<[made |-> trip.bidSet, driver |-> trip.driver, fare |-> trip.fare],
                           [status |-> hold.status, captured |-> hold.captured]>>
  <1> DEFINE deal == [made |-> trip.bidSet, driver |-> trip.driver, fare |-> trip.fare]
             money == [status |-> hold.status, captured |-> hold.captured]
  <1>1. IInv'
    BY Inductive
  <1>2. CASE \E p \in Actors : Deals(p)
    <2>1. UNCHANGED hold /\ trip'.bidSet
      BY <1>2, DealInv DEF Deals, AcceptCommit, AcceptCounterCommit
    <2>2. CASE trip.bidSet
      BY <2>1, <2>2, TermsStay
    <2>3. CASE ~trip.bidSet
      <3>1. /\ trip.driver = NoDriver /\ trip.fare = 0
            /\ trip'.driver \in Drivers
            /\ trip'.fare \in BidFloor .. StandardFare - 1
        BY <1>1, <2>1, <2>3 DEF IInv, AmountsNegotiable
      <3>2. Contract!Strike
        BY <2>1, <2>3, <3>1 DEF Contract!Strike, IInv, TypeOK, Trips
      <3> QED BY <3>2 DEF Contract!Next
    <2> QED BY <2>2, <2>3
  <1>3. CASE ~ \E p \in Actors : Deals(p)
    <2>1. UNCHANGED deal
      BY <1>3, OtherStepsKeepTerms
    <2>2. CASE SubmitHold
      <3>1. hold.status = "none" /\ hold' = [hold EXCEPT !.status = "authorized",
                                                        !.amount = StandardFare]
        BY <2>2 DEF SubmitHold, HoldAmount, IInv, HoldBacksDeal
      <3>2. Contract!Authorize
        BY <2>1, <3>1 DEF Contract!Authorize, IInv, TypeOK, Holds
      <3> QED BY <3>2 DEF Contract!Next
    <2>3. CASE \E p \in Actors : CallPayment(p)
      <3>1. PICK p \in Actors : CallPayment(p)
        BY <2>3
      <3>2. CASE UNCHANGED hold
        BY <2>1, <3>2
      <3>3. CASE ~UNCHANGED hold /\ job[p].op \in CaptureOps
        <4>1. /\ hold.status = "authorized"
              /\ hold' = [hold EXCEPT !.status = "captured", !.captured = job[p].amount]
              /\ trip.bidSet /\ trip.fare = job[p].amount
          BY <3>1, <3>3 DEF CallPayment, Capture, IInv, AmountsNegotiable
        <4>2. Contract!Charge
          BY <2>1, <4>1 DEF Contract!Charge, IInv, TypeOK, Holds
        <4> QED BY <4>2 DEF Contract!Next
      <3>4. CASE ~UNCHANGED hold /\ job[p].op \notin CaptureOps
        <4>1. /\ hold.status = "authorized"
              /\ hold' = [hold EXCEPT !.status = "cancelled"]
          BY <3>1, <3>4 DEF CallPayment, Void
        <4>2. Contract!Release
          BY <2>1, <4>1 DEF Contract!Release, IInv, TypeOK, Holds
        <4> QED BY <4>2 DEF Contract!Next
      <3> QED BY <3>2, <3>3, <3>4
    <2>4. CASE ~SubmitHold /\ ~ \E p \in Actors : CallPayment(p)
      BY <2>1, <2>4, OtherStepsKeepHold
    <2> QED BY <2>2, <2>3, <2>4
  <1> QED BY <1>2, <1>3

\* The handlers, claims, sweeps and faults of an offer ride implement
\* BidContract: one deal, never renegotiated, and the hold used once, for
\* exactly the agreed fare or not at all.
THEOREM ContractKept == Spec => KeepsContract
  <1>1. Init => Contract!Init
    BY DEF Init, Contract!Init
  <1> QED BY <1>1, ContractStep, Invariant, PTL DEF Spec, KeepsContract, Contract!Spec

-----------------------------------------------------------------------------
(* The key to the hold.                                                      *)

Settled == hold.status \in {"captured", "cancelled"}

\* Without faults a handler is about to forget the key only when the hold behind it
\* has been settled.
KeyKept ==
  faults = 0 => /\ submit = "open" /\ ~intent => Settled
                /\ \A p \in Actors : job[p].step = "forget" => Settled

\* The call to payment-service settles the hold, whoever was there before.
LEMMA CallSettles ==
  ASSUME IInv, NEW p \in Actors, CallPayment(p)
  PROVE  Settled'
  <1>1. /\ hold \in Holds /\ submit # "none" /\ hold.status # "none"
        /\ hold.amount = StandardFare
    <2>1. job[p] # Idle
      BY StepNames DEF CallPayment
    <2> QED
      BY <2>1, BusyMeansStored DEF IInv, TypeOK, HoldBacksDeal
  <1>2. CASE job[p].op \in CaptureOps
    <2>1. trip.fare = job[p].amount /\ trip.fare \in BidFloor .. StandardFare - 1
      BY <1>2 DEF CallPayment, IInv, AmountsNegotiable
    <2>2. job[p].amount <= hold.amount
      BY <1>1, <2>1, FaresAssumption
    <2> QED
      BY <1>1, <1>2, <2>2 DEF CallPayment, Capture, Settled, Holds
  <1>3. CASE job[p].op \notin CaptureOps
    BY <1>1, <1>3 DEF CallPayment, Void, Settled, Holds
  <1> QED
    BY <1>2, <1>3

\* Nobody but the call brings a handler to its last step.
LEMMA LastStepComesAfterCall ==
  ASSUME IInv, [Next]_vars, ~ \E p \in Actors : CallPayment(p) \/ CallPaymentFails(p),
         NEW q \in Actors, job'[q].step = "forget"
  PROVE  job[q].step = "forget"
  <1>1. JobsOK
    BY DEF IInv, TypeOK, JobsOK
  <1>2. CASE UNCHANGED job
    BY <1>2
  <1>3. CASE \E p \in Actors : Return(p) \/ Goto(p, "call") \/ Goto(p, "claimed") \/ Goto(p, "settle")
    BY <1>1, <1>3, JobEffect, StepNames
  <1>4. CASE \E p \in Actors : \E op, driver, amount : Begin(p, op, driver, amount)
    BY <1>1, <1>4 DEF Begin, JobsOK
  <1>5. ASSUME NEW p \in Actors, DriverStarts(p) \/ RiderStarts(p) \/ ExpireRead(p)
        PROVE  \E op, driver, amount : Begin(p, op, driver, amount)
    BY <1>5
    DEF DriverStarts, RiderStarts, AcceptRead, DeclineRead, CounterRead, AcceptCounterRead,
        DeclineCounterRead, WithdrawRead, CancelTripRead, ExpireRead
  <1>6. ASSUME NEW p \in Actors, DriverWrites(p) \/ RiderWrites(p) \/ ExpireCommit(p)
        PROVE  Return(p) \/ Goto(p, "claimed") \/ Goto(p, "settle")
    BY <1>6
    DEF DriverWrites, RiderWrites, Claim, ClaimDecline, AcceptCommit, DeclineCommit, CounterCommit,
        AcceptCounterCommit, DeclineCounterCommit, WithdrawCommit, CancelTripCommit, ExpireCommit
  <1>7. ASSUME NEW p \in Actors, LookUpIntent(p) \/ ForgetIntent(p) \/ Abort(p)
        PROVE  Return(p) \/ Goto(p, "call")
    BY <1>7 DEF LookUpIntent, ForgetIntent, Abort
  <1>8. CASE \/ Submits \/ DispatchSweepFails \/ IntentExpires \/ Clock \/ Ended \/ UNCHANGED vars
             \/ \E d \in Drivers : DeclineClaimExpires(d)
    <2>1. UNCHANGED job
      BY <1>8
      DEF Submits, SubmitHold, SubmitStore, SubmitRemember, SubmitAborts, DispatchSweepFails,
          IntentExpires, Clock, TripTurnsStale, BidFallsDue, ClaimExpires, DeclineClaimExpires,
          Ended, vars
    <2> QED
      BY <1>2, <2>1
  <1>9. \/ \E p \in Actors : DriverStarts(p) \/ RiderStarts(p) \/ ExpireRead(p)
        \/ \E p \in Actors : DriverWrites(p) \/ RiderWrites(p) \/ ExpireCommit(p)
        \/ \E p \in Actors : LookUpIntent(p) \/ ForgetIntent(p) \/ Abort(p)
        \/ Submits \/ DispatchSweepFails \/ IntentExpires \/ Clock \/ Ended \/ UNCHANGED vars
        \/ \E d \in Drivers : DeclineClaimExpires(d)
    BY DEF Next, Settles, Actors
  <1> QED
    BY <1>2, <1>3, <1>4, <1>5, <1>6, <1>7, <1>8, <1>9

\* A step that submits nothing, fails nowhere and forgets nothing leaves the key.
LEMMA OtherStepsKeepKey ==
  ASSUME [Next]_vars, ~Submits, ~IntentExpires,
         ~ \E p \in Actors : ForgetIntent(p) \/ CallPaymentFails(p) \/ Abort(p)
  PROVE  UNCHANGED <<submit, intent, faults>>
  BY DEF Next, DriverStarts, DriverWrites, RiderStarts, RiderWrites, AcceptRead, DeclineRead,
         CounterRead, AcceptCounterRead, DeclineCounterRead, WithdrawRead, CancelTripRead,
         ExpireRead, Begin, Claim, ClaimDecline, AcceptCommit, DeclineCommit, CounterCommit,
         AcceptCounterCommit, DeclineCounterCommit, WithdrawCommit, CancelTripCommit,
         ExpireCommit, Settles, LookUpIntent, CallPayment, DispatchSweepFails, Clock,
         TripTurnsStale, BidFallsDue, ClaimExpires, DeclineClaimExpires, Ended, vars

LEMMA KeyKeeps == IInv /\ KeyKept /\ [Next]_vars => KeyKept'
  <1> SUFFICES ASSUME IInv, KeyKept, [Next]_vars, faults' = 0
               PROVE  /\ submit' = "open" /\ ~intent' => Settled'
                      /\ \A p \in Actors : job'[p].step = "forget" => Settled'
    BY DEF KeyKept
  <1>1. CASE \E p \in Actors : CallPayment(p)
    BY <1>1, CallSettles
  <1>2. CASE SubmitHold
    <2>1. submit = "none" /\ submit' = "held" /\ UNCHANGED job
      BY <1>2 DEF SubmitHold
    <2>2. \A p \in Actors : job[p] = Idle
      BY <2>1 DEF IInv, NobodyKnowsYet
    <2> QED
      BY <2>1, <2>2, StepNames
  <1>3. CASE \E p \in Actors : ForgetIntent(p)
    <2>1. PICK p \in Actors : ForgetIntent(p)
      BY <1>3
    <2>2. /\ faults = 0 /\ job[p].step = "forget" /\ UNCHANGED hold
      BY <2>1 DEF ForgetIntent
    <2> QED
      BY <2>2 DEF KeyKept, Settled
  <1>4. CASE /\ ~ \E p \in Actors : CallPayment(p) \/ ForgetIntent(p)
             /\ ~SubmitHold
    <2>1. faults = 0 /\ (submit' = "open" /\ ~intent' => submit = "open" /\ ~intent)
      <3>1. faults \in Nat
        BY FaultsAssumption DEF IInv, TypeOK
      <3>2. CASE Submits
        <4>1. CASE SubmitRemember
          <5>1. intent' = TRUE /\ UNCHANGED faults
            BY <4>1 DEF SubmitRemember
          <5> QED
            BY <5>1
        <4>2. CASE SubmitHold \/ SubmitStore \/ SubmitAborts
          <5>1. submit' \in {"held", "stored", "aborted"}
            BY <4>2 DEF SubmitHold, SubmitStore, SubmitAborts
          <5>2. faults' = faults \/ faults' = faults + 1
            BY <4>2 DEF SubmitHold, SubmitStore, SubmitAborts
          <5> QED
            BY <3>1, <5>1, <5>2
        <4> QED
          BY <3>2, <4>1, <4>2 DEF Submits
      <3>3. CASE IntentExpires
        BY <3>1, <3>3 DEF IntentExpires
      <3>4. CASE \E p \in Actors : CallPaymentFails(p) \/ Abort(p)
        BY <3>1, <3>4 DEF CallPaymentFails, Abort
      <3> QED
        BY <1>4, <3>2, <3>3, <3>4, OtherStepsKeepKey
    <2>2. UNCHANGED hold
      BY <1>4, OtherStepsKeepHold
    <2>3. ~ \E p \in Actors : CallPaymentFails(p)
      BY <2>1 DEF CallPaymentFails
    <2> QED
      BY <1>4, <2>1, <2>2, <2>3, LastStepComesAfterCall DEF KeyKept, Settled
  <1> QED
    BY <1>1, <1>2, <1>3, <1>4

\* The payment-intent key is not given up before the hold behind it is captured or
\* cancelled: for any number of drivers, duplicate requests and sweeps that settle the
\* same hold at once (captureStripeHold, voidStripeHold), as long as nothing fails.
THEOREM NoHoldIsLost == Spec => []NoHoldLeaked
  <1>1. Init => KeyKept
    BY StepNames DEF Init, KeyKept
  <1>2. KeyKept => NoHoldLeaked
    BY DEF KeyKept, Settled, NoHoldLeaked
  <1> QED
    BY <1>1, <1>2, KeyKeeps, Invariant, PTL DEF Spec
=============================================================================
