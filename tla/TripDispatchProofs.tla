-------------------------- MODULE TripDispatchProofs --------------------------
(***************************************************************************)
(* Machine-checked facts about TripDispatch, for every set of drivers,     *)
(* calls and sweeps and every bound: type correctness, and that a ride     *)
(* never changes hands.                                                    *)
(***************************************************************************)
EXTENDS TripDispatch, TLAPS

JobsOK == job \in [Requests -> Jobs]
SweepOK == sweep \in [Sweepers -> Sweeps]

-----------------------------------------------------------------------------
(* What the updates of the locals do.                                        *)

LEMMA IdleType == Idle \in Jobs
  BY DEF Idle, Jobs, Ops, Steps

\* Other slots keep their locals; slot r gets what the call says.
LEMMA JobEffect ==
  ASSUME JobsOK, NEW r \in Requests
  PROVE  /\ Return(r) => /\ JobsOK'
                         /\ job'[r] = Idle
                         /\ \A q \in Requests \ {r} : job'[q] = job[q]
         /\ \A s \in Steps : Goto(r, s) =>
              /\ JobsOK'
              /\ job'[r] = [job[r] EXCEPT !.step = s]
              /\ job'[r].op = job[r].op /\ job'[r].driver = job[r].driver
              /\ job'[r].step = s
              /\ \A q \in Requests \ {r} : job'[q] = job[q]
         /\ \A op \in Ops, d \in Drivers \cup {NoDriver} : Begin(r, op, d) =>
              /\ JobsOK'
              /\ job'[r] = [op |-> op, step |-> "read", driver |-> d]
              /\ \A q \in Requests \ {r} : job'[q] = job[q]
  <1>1. Return(r) => /\ JobsOK'
                     /\ job'[r] = Idle
                     /\ \A q \in Requests \ {r} : job'[q] = job[q]
    BY IdleType DEF Return, JobsOK
  <1>2. ASSUME NEW s \in Steps, Goto(r, s)
        PROVE  /\ JobsOK'
               /\ job'[r] = [job[r] EXCEPT !.step = s]
               /\ job'[r].op = job[r].op /\ job'[r].driver = job[r].driver
               /\ job'[r].step = s
               /\ \A q \in Requests \ {r} : job'[q] = job[q]
    BY <1>2 DEF Goto, JobsOK, Jobs
  <1>3. ASSUME NEW op \in Ops, NEW d \in Drivers \cup {NoDriver}, Begin(r, op, d)
        PROVE  /\ JobsOK'
               /\ job'[r] = [op |-> op, step |-> "read", driver |-> d]
               /\ \A q \in Requests \ {r} : job'[q] = job[q]
    BY <1>3 DEF Begin, JobsOK, Jobs, Steps
  <1> QED BY <1>1, <1>2, <1>3

\* The updates of a sweep's locals keep them well typed.
LEMMA SweepEffect ==
  ASSUME SweepOK, NEW s \in Sweepers
  PROVE  /\ SweepRests(s) => SweepOK'
         /\ \A step \in SweepSteps, n \in 0 .. MaxRedispatches :
              SweepGoto(s, step, n) => SweepOK'
  <1>1. Resting \in Sweeps
    BY BoundsAssumption DEF Resting, Sweeps, SweepSteps
  <1> QED BY <1>1 DEF SweepRests, SweepGoto, SweepOK, Sweeps

-----------------------------------------------------------------------------
(* Type correctness.                                                         *)

LEMMA InitType == Init => TypeOK
  <1> SUFFICES ASSUME Init PROVE TypeOK
    OBVIOUS
  <1>1. trip \in Trips
    BY DEF Init, Trips, TripStatus
  <1>2. job \in [Requests -> Jobs]
    BY IdleType DEF Init
  <1>3. sweep \in [Sweepers -> Sweeps]
    BY BoundsAssumption DEF Init, Resting, Sweeps, SweepSteps
  <1>4. credits \in 0 .. Many /\ faults \in 0 .. MaxFaults /\ broadcasts \in Nat
    BY BoundsAssumption DEF Init, Many
  <1>5. /\ fresh \in BOOLEAN /\ tripStale \in BOOLEAN /\ waited \in BOOLEAN
        /\ belowFloor \in BOOLEAN /\ floorLog \in BOOLEAN
    BY DEF Init
  <1>6. /\ create \in {"none", "stored", "broadcast", "done"}
        /\ claimed \in Drivers \cup {NoDriver}
        /\ attempts \in {NoMeta} \cup 0 .. MaxRedispatches
        /\ noShow \in {"unasked", "not_recorded", "too_early", "taken"}
    BY DEF Init
  <1> QED BY <1>1, <1>2, <1>3, <1>4, <1>5, <1>6 DEF TypeOK

\* createTrip keeps the types.
LEMMA CreatesType == TypeOK /\ Creates => TypeOK'
  <1> SUFFICES ASSUME TypeOK, Creates PROVE TypeOK'
    OBVIOUS
  <1> USE BoundsAssumption DEF TypeOK
  <1>1. CASE CreateStore
    BY <1>1 DEF CreateStore, rideVars, Trips, TripStatus
  <1>2. CASE CreateBroadcast
    BY <1>2 DEF CreateBroadcast, rideVars
  <1>3. CASE CreateRemember
    BY <1>3 DEF CreateRemember, rideVars
  <1>4. CASE CreateAborts
    BY <1>4 DEF CreateAborts, rideVars
  <1> QED BY <1>1, <1>2, <1>3, <1>4 DEF Creates

\* First awaits: only the locals change.
LEMMA ReadsBegin ==
  ASSUME TypeOK, NEW r \in Requests, Reads(r)
  PROVE  \E op \in Ops, d \in Drivers \cup {NoDriver} :
           /\ Begin(r, op, d)
           /\ trip.status # "absent"
           /\ op = "accept" => trip.status = "searching" /\ d \in Drivers
           /\ op = "end" => /\ trip.status = "in_progress"
                            /\ \A q \in Requests : job[q].op # "accept"
  <1>1. trip.driver \in Drivers \cup {NoDriver} /\ trip.status \in TripStatus
    BY DEF TypeOK, Trips
  <1>2. ASSUME NEW d \in Drivers, AcceptRead(r, d)
        PROVE  Begin(r, "accept", d) /\ trip.status = "searching"
    BY <1>1, <1>2 DEF AcceptRead, Follows, AllowedNext, TripStatus
  <1>3. ASSUME EndRead(r)
        PROVE  /\ Begin(r, "end", trip.driver)
               /\ trip.status = "in_progress"
               /\ \A q \in Requests : job[q].op # "accept"
    BY <1>1, <1>3 DEF EndRead, Follows, AllowedNext, TripStatus
  <1>4. {"accept", "arrive", "start", "end", "cancel"} \subseteq Ops
    BY DEF Ops
  <1>5. ASSUME NEW next, Follows(next) PROVE trip.status # "absent"
    BY <1>5 DEF Follows, AllowedNext
  <1>6. CASE \E d \in Drivers : AcceptRead(r, d)
    BY <1>2, <1>4, <1>6
  <1>7. CASE EndRead(r)
    BY <1>1, <1>3, <1>4, <1>7
  <1>8. CASE ArriveRead(r)
    BY <1>1, <1>4, <1>5, <1>8 DEF ArriveRead
  <1>9. CASE StartRead(r)
    BY <1>1, <1>4, <1>5, <1>9 DEF StartRead
  <1>10. CASE CancelRead(r)
    BY <1>4, <1>10 DEF CancelRead
  <1> QED
    BY <1>6, <1>7, <1>8, <1>9, <1>10 DEF Reads

\* The first half of a handler, up to its read, keeps the types.
LEMMA ReadsType == ASSUME TypeOK, NEW r \in Requests, Reads(r) PROVE TypeOK'
  <1>1. JobsOK
    BY DEF TypeOK, JobsOK
  <1>2. PICK op \in Ops, d \in Drivers \cup {NoDriver} : Begin(r, op, d)
    BY ReadsBegin
  <1>3. JobsOK'
    BY <1>1, <1>2, JobEffect
  <1>4. UNCHANGED <<trip, rideVars, dispatchVars, faults>>
    BY <1>2 DEF Begin
  <1> QED BY <1>3, <1>4 DEF TypeOK, JobsOK, rideVars, dispatchVars

\* The writing half of a handler keeps the types.
LEMMA WritesType == ASSUME TypeOK, NEW r \in Requests, Writes(r) PROVE TypeOK'
  <1>1. JobsOK
    BY DEF TypeOK, JobsOK
  <1>2. JobsOK' /\ job[r].driver \in Drivers \cup {NoDriver}
    <2>1. Return(r) \/ Goto(r, "claimed") \/ Goto(r, "floored")
      BY DEF Writes, AcceptClaim, AcceptCommit, ArriveCommit, StartCommit, EndFloor,
             EndCommit, CancelCommit
    <2>2. "claimed" \in Steps /\ "floored" \in Steps
      BY DEF Steps
    <2> QED BY <1>1, <2>1, <2>2, JobEffect DEF JobsOK, Jobs
  <1> USE <1>2 DEF TypeOK, JobsOK, rideVars, dispatchVars
  <1>3. CASE AcceptClaim(r)
    BY <1>3 DEF AcceptClaim
  <1>4. CASE AcceptCommit(r)
    BY <1>4 DEF AcceptCommit, Trips, TripStatus
  <1>5. CASE ArriveCommit(r)
    BY <1>5 DEF ArriveCommit, Trips, TripStatus
  <1>6. CASE StartCommit(r)
    BY <1>6 DEF StartCommit, Trips, TripStatus
  <1>7. CASE EndFloor(r)
    BY <1>7 DEF EndFloor
  <1>8. CASE EndCommit(r)
    BY <1>8 DEF EndCommit, Trips, TripStatus, Many
  <1>9. CASE CancelCommit(r)
    BY <1>9 DEF CancelCommit, Trips, TripStatus
  <1> QED BY <1>3, <1>4, <1>5, <1>6, <1>7, <1>8, <1>9 DEF Writes

\* markNoShow keeps the types.
LEMMA NoShowType == TypeOK /\ MarkNoShow => TypeOK'
  BY DEF TypeOK, MarkNoShow, ArrivalRecorded, dispatchVars

\* The dispatch sweep keeps the types, also when it dies.
LEMMA SweepsType == ASSUME TypeOK, NEW s \in Sweepers, SweepStep(s) \/ SweepAborts(s)
                    PROVE  TypeOK'
  <1> USE BoundsAssumption DEF TypeOK, rideVars
  <1>1. SweepOK /\ sweep[s].attempt \in 0 .. MaxRedispatches
    BY DEF SweepOK, Sweeps
  <1>2. {"listed", "redispatch", "mark", "fail"} \subseteq SweepSteps
    BY DEF SweepSteps
  <1>3. CASE SweepList(s)
    BY <1>1, <1>2, <1>3, SweepEffect DEF SweepList, SweepOK
  <1>4. CASE SweepDecide(s)
    <2>1. \/ SweepRests(s)
          \/ \E n \in 0 .. MaxRedispatches :
               SweepGoto(s, "redispatch", n) \/ SweepGoto(s, "fail", n)
      BY <1>4 DEF SweepDecide
    <2> QED BY <1>1, <1>2, <1>4, <2>1, SweepEffect DEF SweepDecide, SweepOK
  <1>5. CASE SweepRedispatch(s)
    BY <1>1, <1>2, <1>5, SweepEffect DEF SweepRedispatch, SweepOK
  <1>6. CASE SweepMark(s)
    BY <1>1, <1>6, SweepEffect DEF SweepMark, SweepOK
  <1>7. CASE SweepFail(s)
    <2>1. SweepOK'
      BY <1>1, <1>7, SweepEffect DEF SweepFail
    <2>2. trip' \in Trips
      BY <1>7 DEF SweepFail, Trips, TripStatus
    <2>3. attempts' \in {NoMeta} \cup 0 .. MaxRedispatches /\ fresh' \in BOOLEAN
      BY <1>7 DEF SweepFail
    <2> QED BY <1>7, <2>1, <2>2, <2>3 DEF SweepFail, SweepOK
  <1>8. CASE SweepAborts(s)
    BY <1>1, <1>8, SweepEffect DEF SweepAborts, SweepOK
  <1> QED BY <1>3, <1>4, <1>5, <1>6, <1>7, <1>8 DEF SweepStep

\* A handler that dies keeps the types.
LEMMA AbortType == ASSUME TypeOK, NEW r \in Requests, Abort(r) PROVE TypeOK'
  <1>1. JobsOK'
    BY JobEffect DEF TypeOK, JobsOK, Abort
  <1> QED BY <1>1, BoundsAssumption DEF TypeOK, JobsOK, Abort, rideVars, dispatchVars

\* Lost keys and the passing of time keep the types.
LEMMA ClockType == TypeOK /\ (MetaLost \/ Clock) => TypeOK'
  <1> SUFFICES ASSUME TypeOK, MetaLost \/ Clock PROVE TypeOK'
    OBVIOUS
  <1> USE BoundsAssumption DEF TypeOK, rideVars, dispatchVars
  <1>1. CASE MetaLost
    <2>1. faults' \in 0 .. MaxFaults
      BY <1>1 DEF MetaLost
    <2> QED BY <1>1, <2>1 DEF MetaLost
  <1>2. CASE TripTurnsStale \/ DispatchTurnsStale
    BY <1>2 DEF TripTurnsStale, DispatchTurnsStale
  <1>3. CASE ClaimExpires \/ FiveMinutesPass
    BY <1>3 DEF ClaimExpires, FiveMinutesPass
  <1> QED BY <1>1, <1>2, <1>3 DEF Clock

\* Every step keeps the types.
LEMMA StepType == TypeOK /\ [Next]_vars => TypeOK'
  <1> SUFFICES ASSUME TypeOK, [Next]_vars PROVE TypeOK'
    OBVIOUS
  <1>1. CASE UNCHANGED vars
    BY <1>1 DEF TypeOK, vars, rideVars, dispatchVars
  <1>2. CASE Ended
    BY <1>2 DEF Ended, TypeOK, vars, rideVars, dispatchVars
  <1> QED
    BY <1>1, <1>2, CreatesType, ReadsType, WritesType, AbortType, NoShowType, SweepsType,
       ClockType DEF Next

\* Type correctness, for any number of drivers, calls, sweeps and faults.
THEOREM TypeCorrect == Spec => []TypeOK
  BY InitType, StepType, PTL DEF Spec

-----------------------------------------------------------------------------
(* The inductive invariant behind OneDriver, without its typing conjunct.    *)

Held == NobodyKnowsYet /\ ClaimOwned /\ AssignedIsClaimed /\ AssignedHasDriver /\ JobsHaveShape

\* Before the trip exists, nobody holds or claims it.
LEMMA InitHeld == Init => Held
  BY DriversAssumption
  DEF Init, Held, NobodyKnowsYet, ClaimOwned, AssignedIsClaimed, AssignedHasDriver, JobsHaveShape, At,
      Idle

\* Steps that leave the claim and the calls alone, and the status too or move it
\* away from searching.
LEMMA QuietStep ==
  ASSUME TypeOK, Held, UNCHANGED <<claimed, job>>, trip'.driver = trip.driver,
         create' = "none" => create = "none" /\ trip' = trip,
         trip'.status = trip.status \/ trip'.status \notin {"absent", "searching"}
  PROVE  Held'
  BY DEF Held, NobodyKnowsYet, ClaimOwned, AssignedIsClaimed, AssignedHasDriver,
        JobsHaveShape, At

\* Steps that end one call, or none, and change neither claim nor driver.
LEMMA ReturnStep ==
  ASSUME TypeOK, Held, NEW r \in Requests, Return(r), UNCHANGED <<claimed, create>>,
         create = "none" => trip' = trip,
         trip'.driver = trip.driver,
         trip'.status = trip.status \/ trip'.status \notin {"absent", "searching"}
  PROVE  Held'
  <1>1. /\ job'[r] = Idle
        /\ \A q \in Requests \ {r} : job'[q] = job[q]
    BY JobEffect DEF TypeOK, JobsOK
  <1>2. Idle.op = "none"
    BY DEF Idle
  <1> QED
    BY <1>1, <1>2
    DEF Held, NobodyKnowsYet, ClaimOwned, AssignedIsClaimed, AssignedHasDriver,
        JobsHaveShape, At

\* A call in flight means that createTrip has stored the trip.
LEMMA WritesKnow ==
  ASSUME Held, NEW r \in Requests, Writes(r) \/ Abort(r)
  PROVE  create # "none" /\ create' = create
  <1>1. job[r] # Idle
    BY DEF Writes, Abort, AcceptClaim, AcceptCommit, ArriveCommit, StartCommit, EndFloor,
           EndCommit, CancelCommit, At, Idle
  <1>2. create' = create
    BY DEF Writes, Abort, AcceptClaim, AcceptCommit, ArriveCommit, StartCommit, EndFloor,
           EndCommit, CancelCommit, dispatchVars
  <1> QED BY <1>1, <1>2 DEF Held, NobodyKnowsYet

\* A handler that reads the trip keeps the invariant of the claim.
LEMMA ReadsHeld ==
  ASSUME TypeOK, Held, NEW r \in Requests, Reads(r) PROVE Held'
  <1>1. PICK op \in Ops, d \in Drivers \cup {NoDriver} :
          /\ Begin(r, op, d)
          /\ trip.status # "absent"
          /\ op = "accept" => trip.status = "searching" /\ d \in Drivers
          /\ op = "end" => /\ trip.status = "in_progress"
                           /\ \A q \in Requests : job[q].op # "accept"
    BY ReadsBegin
  <1>2. /\ job'[r].op = op /\ job'[r].step = "read" /\ job'[r].driver = d
        /\ \A q \in Requests \ {r} : job'[q] = job[q]
    <2>1. JobsOK
      BY DEF TypeOK, JobsOK
    <2>2. job'[r] = [op |-> op, step |-> "read", driver |-> d]
      BY <1>1, <2>1, JobEffect
    <2> QED BY <1>1, <2>1, <2>2, JobEffect
  <1>3. UNCHANGED <<trip, claimed, create>>
    BY <1>1 DEF Begin, rideVars, dispatchVars
  <1> QED
    BY <1>1, <1>2, <1>3
    DEF Held, NobodyKnowsYet, ClaimOwned, AssignedIsClaimed, AssignedHasDriver,
        JobsHaveShape, At

\* acceptTrip's claim admits one winner and keeps the invariant.
LEMMA ClaimHeld ==
  ASSUME TypeOK, Held, NEW r \in Requests, AcceptClaim(r) PROVE Held'
  <1>1. job[r].driver \in Drivers /\ UNCHANGED trip
    BY DEF Held, JobsHaveShape, AcceptClaim, At
  <1>4. create # "none" /\ create' = create
    BY WritesKnow DEF Writes
  <1>2. CASE claimed = NoDriver
    <2>1. claimed' = job[r].driver /\ Goto(r, "claimed")
      BY <1>2 DEF AcceptClaim, ClaimKeyFree
    <2>2. /\ job'[r].op = "accept" /\ job'[r].driver = job[r].driver
          /\ job'[r].step = "claimed"
          /\ \A q \in Requests \ {r} : job'[q] = job[q]
      BY <2>1, JobEffect DEF TypeOK, JobsOK, Steps, AcceptClaim, At
    <2>3. trip.driver = NoDriver
      BY <1>2 DEF AcceptClaim, Held, AssignedIsClaimed
    <2>4. \A q \in Requests : ~At(q, "accept", "claimed")
      BY <1>2, DriversAssumption DEF Held, NobodyKnowsYet, ClaimOwned
    <2> QED
      BY <1>1, <1>4, <2>1, <2>2, <2>3, <2>4
      DEF Held, NobodyKnowsYet, ClaimOwned, AssignedIsClaimed, AssignedHasDriver, JobsHaveShape, At,
          AcceptClaim
  <1>3. CASE claimed # NoDriver
    BY <1>1, <1>3, <1>4, ReturnStep DEF AcceptClaim, ClaimKeyFree
  <1> QED BY <1>2, <1>3

\* acceptTrip's update gives the ride to the owner of the claim.
LEMMA CommitHeld ==
  ASSUME TypeOK, Held, NEW r \in Requests, AcceptCommit(r) PROVE Held'
  <1>1. /\ trip'.status = "accepted" /\ trip'.driver = job[r].driver
        /\ claimed' = claimed
    BY DEF AcceptCommit, TypeOK, Trips, rideVars
  <1>2. /\ job'[r] = Idle
        /\ \A q \in Requests \ {r} : job'[q] = job[q]
    BY JobEffect DEF TypeOK, JobsOK, AcceptCommit
  <1>3. /\ claimed = job[r].driver /\ claimed \in Drivers
        /\ \A q \in Requests : At(q, "accept", "claimed") => q = r
    BY DEF Held, NobodyKnowsYet, ClaimOwned, AcceptCommit
  <1>4. Idle.op = "none"
    BY DEF Idle
  <1>5. create # "none" /\ create' = create
    BY WritesKnow DEF Writes
  <1> QED
    BY <1>1, <1>2, <1>3, <1>4, <1>5, DriversAssumption
    DEF Held, NobodyKnowsYet, ClaimOwned, AssignedIsClaimed, AssignedHasDriver,
        JobsHaveShape, At

\* endTrip, which deletes the claim, frees it for nobody.
LEMMA EndHeld ==
  ASSUME TypeOK, Held, NEW r \in Requests, EndFloor(r) \/ EndCommit(r) PROVE Held'
  <1>1. /\ \A q \in Requests : job[q].op # "accept"
        /\ trip.status \notin {"absent", "searching"}
        /\ trip'.driver = trip.driver
        /\ trip'.status \notin {"absent", "searching"}
    BY DEF Held, JobsHaveShape, EndFloor, EndCommit, At, TypeOK, Trips
  <1>2. \A q \in Requests : job'[q].op \in {job[q].op, "none"}
    <2>1. JobsOK /\ "floored" \in Steps /\ Idle.op = "none"
      BY DEF TypeOK, JobsOK, Steps, Idle
    <2>2. Return(r) \/ Goto(r, "floored")
      BY DEF EndFloor, EndCommit
    <2> QED BY <2>1, <2>2, JobEffect
  <1>3. create # "none" /\ create' = create
    BY <1>1 DEF Held, NobodyKnowsYet, EndFloor, EndCommit, dispatchVars
  <1> QED
    BY <1>1, <1>2, <1>3
    DEF Held, NobodyKnowsYet, ClaimOwned, AssignedIsClaimed, AssignedHasDriver,
        JobsHaveShape, At

\* Every writing half of a handler keeps the invariant of the claim.
LEMMA WritesHeld ==
  ASSUME TypeOK, Held, NEW r \in Requests, Writes(r) PROVE Held'
  <1>1. CASE ArriveCommit(r) \/ StartCommit(r) \/ CancelCommit(r)
    BY <1>1, ReturnStep, WritesKnow DEF ArriveCommit, StartCommit, CancelCommit, rideVars, TypeOK, Trips
  <1> QED BY <1>1, ClaimHeld, CommitHeld, EndHeld DEF Writes

\* The sweep keeps the invariant of the claim.
LEMMA SweepsHeld ==
  ASSUME TypeOK, Held, NEW s \in Sweepers, SweepStep(s) \/ SweepAborts(s) PROVE Held'
  <1>1. UNCHANGED <<claimed, job, create>> /\ trip'.driver = trip.driver
    BY DEF SweepStep, SweepAborts, SweepList, SweepDecide, SweepRedispatch, SweepMark,
           SweepFail, rideVars, TypeOK, Trips
  <1>2. trip' = trip \/ (trip.status = "searching" /\ trip'.status = "cancelled")
    BY DEF SweepStep, SweepAborts, SweepList, SweepDecide, SweepRedispatch, SweepMark,
           SweepFail, rideVars, TypeOK, Trips
  <1> QED BY <1>1, <1>2, QuietStep DEF Held, NobodyKnowsYet

\* Lost keys, the clock and a no-show report keep the invariant of the claim.
LEMMA OthersHeld ==
  ASSUME TypeOK, Held, MetaLost \/ Clock \/ MarkNoShow PROVE Held'
  <1>1. CASE ClaimExpires
    BY <1>1
    DEF ClaimExpires, dispatchVars, Held, NobodyKnowsYet, ClaimOwned, AssignedIsClaimed, AssignedHasDriver,
        JobsHaveShape, At
  <1>2. CASE MetaLost \/ TripTurnsStale \/ DispatchTurnsStale \/ FiveMinutesPass
    BY <1>2, QuietStep
    DEF MetaLost, TripTurnsStale, DispatchTurnsStale, FiveMinutesPass, rideVars, dispatchVars
  <1>3. CASE MarkNoShow
    BY <1>3, QuietStep DEF MarkNoShow, ArrivalRecorded, dispatchVars
  <1> QED BY <1>1, <1>2, <1>3 DEF Clock

\* createTrip: the trip turns searching only before anybody knows it.
LEMMA CreatesHeld == ASSUME TypeOK, Held, Creates PROVE Held'
  <1>1. CASE CreateStore
    BY <1>1
    DEF CreateStore, rideVars, TypeOK, Trips, Held, NobodyKnowsYet, ClaimOwned,
        AssignedIsClaimed, AssignedHasDriver,
        JobsHaveShape, At
  <1>2. CASE CreateBroadcast \/ CreateRemember \/ CreateAborts
    BY <1>2, QuietStep DEF CreateBroadcast, CreateRemember, CreateAborts, rideVars
  <1> QED BY <1>1, <1>2 DEF Creates

\* Every step keeps the invariant of the claim.
LEMMA StepHeld == TypeOK /\ Held /\ [Next]_vars => Held'
  <1> SUFFICES ASSUME TypeOK, Held, [Next]_vars PROVE Held'
    OBVIOUS
  <1>1. ASSUME NEW r \in Requests, Abort(r) PROVE Held'
    BY <1>1, ReturnStep DEF Abort, rideVars, dispatchVars
  <1>2. CASE UNCHANGED vars \/ Ended
    BY <1>2, QuietStep DEF Ended, vars, rideVars, dispatchVars
  <1> QED
    BY <1>1, <1>2, CreatesHeld, ReadsHeld, WritesHeld, SweepsHeld, OthersHeld DEF Next

-----------------------------------------------------------------------------
(* The theorem.                                                              *)

\* An acceptance that commits is by the owner of the claim, and with the claim
\* held by somebody between claim and update the ride has no driver yet.
LEMMA StepKeepsDriver ==
  TypeOK /\ Held /\ [Next]_vars => (trip.driver # NoDriver => trip'.driver = trip.driver)
  <1> SUFFICES ASSUME TypeOK, Held, [Next]_vars, trip.driver # NoDriver
               PROVE  trip'.driver = trip.driver
    OBVIOUS
  <1> USE DEF TypeOK, Trips
  <1>1. \A r \in Requests : ~AcceptCommit(r)
    BY DEF Held, AssignedIsClaimed, AcceptCommit
  <1>2. ASSUME NEW r \in Requests, Reads(r) PROVE trip'.driver = trip.driver
    BY <1>2, ReadsBegin DEF Begin
  <1>3. ASSUME NEW r \in Requests, Writes(r) \/ Abort(r) PROVE trip'.driver = trip.driver
    BY <1>1, <1>3
    DEF Writes, AcceptClaim, ArriveCommit, StartCommit, EndFloor, EndCommit,
        CancelCommit, Abort
  <1>4. ASSUME NEW s \in Sweepers, SweepStep(s) \/ SweepAborts(s)
        PROVE  trip'.driver = trip.driver
    BY <1>4
    DEF SweepStep, SweepAborts, SweepList, SweepDecide, SweepRedispatch, SweepMark,
        SweepFail
  <1>5. CASE Creates \/ MarkNoShow \/ MetaLost \/ Clock \/ Ended \/ UNCHANGED vars
    BY <1>5
    DEF Creates, CreateStore, CreateBroadcast, CreateRemember, CreateAborts, MarkNoShow,
        MetaLost, Clock, TripTurnsStale, DispatchTurnsStale, ClaimExpires,
        FiveMinutesPass, Ended, vars
  <1> QED BY <1>2, <1>3, <1>4, <1>5 DEF Next

\* A ride never changes hands, for any number of drivers, overlapping calls,
\* sweeps and faults.
THEOREM RideKeepsDriver == Spec => OneDriver
  <1>1. TypeOK /\ Held /\ [Next]_vars =>
          [trip.driver # NoDriver => trip'.driver = trip.driver]_vars
    BY StepKeepsDriver
  <1> QED BY <1>1, InitType, StepType, InitHeld, StepHeld, PTL DEF Spec, OneDriver

-----------------------------------------------------------------------------
(* The earnings floor log as a lock.                                         *)

LEMMA InitTicket == Init => FloorLogIsTicket
  BY DEF Init, FloorLogIsTicket, At, Idle

\* Only enforce writes the log and only endTrip pays; all other steps leave both
\* alone and bring no end call to its last await.
LEMMA OtherStepsKeepTicket ==
  ASSUME TypeOK, FloorLogIsTicket, UNCHANGED <<belowFloor, floorLog, credits>>,
         \A r \in Requests : At(r, "end", "floored")' => At(r, "end", "floored")
  PROVE  FloorLogIsTicket'
  BY DEF FloorLogIsTicket

\* When a call returns, no end call is behind the floor log that was not before.
LEMMA ReturnBringsNone ==
  ASSUME TypeOK, NEW r \in Requests, Return(r)
  PROVE  \A q \in Requests : At(q, "end", "floored")' => q # r /\ At(q, "end", "floored")
  <1>1. JobsOK /\ Idle.op = "none"
    BY DEF TypeOK, JobsOK, Idle
  <1> QED BY <1>1, JobEffect DEF At

\* The floor log is handed to one end call.
LEMMA EndFloorTicket ==
  ASSUME TypeOK, FloorLogIsTicket, NEW r \in Requests, EndFloor(r)
  PROVE  FloorLogIsTicket'
  <1>1. JobsOK /\ "floored" \in Steps
    BY DEF TypeOK, JobsOK, Steps
  <1>2. CASE belowFloor /\ floorLog
    <2>1. Return(r) /\ UNCHANGED <<belowFloor, floorLog, credits>>
      BY <1>2 DEF EndFloor, TypeOK
    <2> QED BY <2>1, ReturnBringsNone, OtherStepsKeepTicket
  <1>3. CASE belowFloor /\ ~floorLog
    <2>1. Goto(r, "floored") /\ floorLog' /\ UNCHANGED <<belowFloor, credits>>
      BY <1>3 DEF EndFloor
    <2>2. credits = 0 /\ \A q \in Requests : ~At(q, "end", "floored")
      BY <1>3 DEF FloorLogIsTicket
    <2>3. \A q \in Requests \ {r} : job'[q] = job[q]
      BY <1>1, <2>1, JobEffect
    <2>4. \A q \in Requests : At(q, "end", "floored")' => q = r
      BY <2>2, <2>3 DEF At
    <2> QED BY <2>1, <2>2, <2>4 DEF FloorLogIsTicket
  <1>4. CASE ~belowFloor
    BY <1>4 DEF EndFloor, FloorLogIsTicket
  <1> QED BY <1>2, <1>3, <1>4

\* Completing the ride spends the floor log.
LEMMA EndCommitTicket ==
  ASSUME TypeOK, FloorLogIsTicket, NEW r \in Requests, EndCommit(r)
  PROVE  FloorLogIsTicket'
  <1>1. CASE belowFloor
    <2>1. /\ credits = 0 /\ floorLog
          /\ \A q \in Requests : At(q, "end", "floored") => q = r
      BY <1>1 DEF FloorLogIsTicket, EndCommit
    <2>2. \A q \in Requests : ~At(q, "end", "floored")'
      BY <2>1, ReturnBringsNone DEF EndCommit
    <2>3. credits' = 1 /\ UNCHANGED <<belowFloor, floorLog>>
      BY <2>1 DEF EndCommit, Many
    <2> QED BY <2>1, <2>2, <2>3 DEF FloorLogIsTicket
  <1>2. CASE ~belowFloor
    BY <1>2 DEF EndCommit, FloorLogIsTicket
  <1> QED BY <1>1, <1>2

\* Every step keeps the floor log a ticket for one completion.
LEMMA StepTicket == TypeOK /\ FloorLogIsTicket /\ [Next]_vars => FloorLogIsTicket'
  <1> SUFFICES ASSUME TypeOK, FloorLogIsTicket, [Next]_vars PROVE FloorLogIsTicket'
    OBVIOUS
  <1>1. ASSUME NEW r \in Requests, Reads(r) PROVE FloorLogIsTicket'
    <2>1. PICK op \in Ops, d \in Drivers \cup {NoDriver} : Begin(r, op, d)
      BY <1>1, ReadsBegin
    <2>2. JobsOK
      BY DEF TypeOK, JobsOK
    <2>3. /\ job'[r] = [op |-> op, step |-> "read", driver |-> d]
          /\ \A q \in Requests \ {r} : job'[q] = job[q]
      BY <2>1, <2>2, JobEffect
    <2> QED BY <2>1, <2>3, OtherStepsKeepTicket DEF Begin, rideVars, At
  <1>2. ASSUME NEW r \in Requests, AcceptClaim(r) PROVE FloorLogIsTicket'
    <2>1. Return(r) \/ Goto(r, "claimed")
      BY <1>2 DEF AcceptClaim
    <2>2. JobsOK /\ "claimed" \in Steps
      BY DEF TypeOK, JobsOK, Steps
    <2>3. \A q \in Requests : At(q, "end", "floored")' => At(q, "end", "floored")
      BY <2>1, <2>2, JobEffect, ReturnBringsNone DEF At
    <2> QED BY <1>2, <2>3, OtherStepsKeepTicket DEF AcceptClaim
  <1>3. ASSUME NEW r \in Requests, \/ AcceptCommit(r) \/ ArriveCommit(r) \/ StartCommit(r)
                                   \/ CancelCommit(r) \/ Abort(r)
        PROVE  FloorLogIsTicket'
    <2>1. Return(r) /\ UNCHANGED <<belowFloor, floorLog, credits>>
      BY <1>3 DEF AcceptCommit, ArriveCommit, StartCommit, CancelCommit, Abort, rideVars
    <2> QED BY <2>1, ReturnBringsNone, OtherStepsKeepTicket
  <1>4. ASSUME NEW r \in Requests, Writes(r) PROVE FloorLogIsTicket'
    BY <1>2, <1>3, <1>4, EndFloorTicket, EndCommitTicket DEF Writes
  <1>5. ASSUME UNCHANGED <<belowFloor, floorLog, credits, job>> PROVE FloorLogIsTicket'
    BY <1>5 DEF FloorLogIsTicket, At
  <1>6. ASSUME NEW s \in Sweepers, SweepStep(s) \/ SweepAborts(s) PROVE FloorLogIsTicket'
    BY <1>5, <1>6
    DEF SweepStep, SweepAborts, SweepList, SweepDecide, SweepRedispatch, SweepMark,
        SweepFail, rideVars
  <1>7. CASE Creates \/ MarkNoShow \/ MetaLost \/ Clock \/ Ended \/ UNCHANGED vars
    BY <1>5, <1>7
    DEF Creates, CreateStore, CreateBroadcast, CreateRemember, CreateAborts, MarkNoShow,
        MetaLost, Clock, TripTurnsStale, DispatchTurnsStale, ClaimExpires,
        FiveMinutesPass, Ended, vars, rideVars
  <1> QED BY <1>1, <1>3, <1>4, <1>6, <1>7 DEF Next

\* A ride below the earnings floor completes and pays its driver at most once,
\* however many end calls overlap and wherever they die.
THEOREM FloorPaysOnce == Spec => []FlooredRidePaidOnce
  <1>1. FloorLogIsTicket => FlooredRidePaidOnce
    BY DEF FloorLogIsTicket, FlooredRidePaidOnce
  <1> QED BY <1>1, InitType, StepType, InitTicket, StepTicket, PTL DEF Spec

\* The invariant the runs check is inductive.
THEOREM InvariantHolds == Spec => []IInv
  <1>1. IInv <=> TypeOK /\ Held /\ FloorLogIsTicket
    BY DEF IInv, Held
  <1> QED
    BY <1>1, InitType, StepType, InitHeld, StepHeld, InitTicket, StepTicket, PTL DEF Spec

-----------------------------------------------------------------------------
(* The sweep and the accepted ride.                                          *)

LEMMA StepSparesAccepted ==
  TypeOK /\ Held /\ [Next]_vars =>
    (trip.status \in AssignedStatus /\ trip'.status = "cancelled"
       => \E r \in Requests : At(r, "cancel", "read") /\ job'[r] = Idle)
  <1> SUFFICES ASSUME TypeOK, Held, [Next]_vars,
                      trip.status \in AssignedStatus, trip'.status = "cancelled"
               PROVE  \E r \in Requests : At(r, "cancel", "read") /\ job'[r] = Idle
    OBVIOUS
  <1>1. trip' # trip
    BY DEF AssignedStatus
  <1>2. \A s \in Sweepers : ~SweepStep(s) /\ ~SweepAborts(s)
    BY <1>1
    DEF SweepStep, SweepAborts, SweepList, SweepDecide, SweepRedispatch, SweepMark,
        SweepFail, AssignedStatus
  <1>3. ~ (Creates \/ MarkNoShow \/ MetaLost \/ Clock \/ Ended \/ UNCHANGED vars)
    BY <1>1
    DEF Creates, CreateStore, CreateBroadcast, CreateRemember, CreateAborts, MarkNoShow,
        ArrivalRecorded, MetaLost, Clock, TripTurnsStale, DispatchTurnsStale, ClaimExpires,
        FiveMinutesPass, Ended, vars, TypeOK, Trips
  <1>4. PICK r \in Requests : Writes(r)
    BY <1>1, <1>2, <1>3, ReadsBegin DEF Next, Begin, Abort
  <1>5. CancelCommit(r)
    BY <1>1, <1>4
    DEF Writes, AcceptClaim, AcceptCommit, ArriveCommit, StartCommit, EndFloor, EndCommit,
        TypeOK, Trips
  <1> QED
    BY <1>5, JobEffect DEF CancelCommit, TypeOK, JobsOK

\* The dispatch sweep, racing any acceptance, never cancels a ride that has its
\* driver.
THEOREM SweepSpares == Spec => SweepSparesAccepted
  <1>1. TypeOK /\ Held /\ [Next]_vars =>
          [trip.status \in AssignedStatus /\ trip'.status = "cancelled"
             => \E r \in Requests : At(r, "cancel", "read") /\ job'[r] = Idle]_vars
    BY StepSparesAccepted
  <1> QED
    BY <1>1, InitType, StepType, InitHeld, StepHeld, PTL DEF Spec, SweepSparesAccepted
=============================================================================
