----------------------------- MODULE TripDispatch -----------------------------
(***************************************************************************)
(* One standard ride of trip-service (trips.service.ts): created, broad-   *)
(* cast to drivers, re-broadcast or failed by the dispatch sweep, accepted *)
(* under a Redis claim, driven, ended or cancelled.                        *)
(*                                                                         *)
(* Every handler reads the trip, awaits, and then updates the row by its   *)
(* id: between the two, other handlers run.  A request in flight is a slot *)
(* r of Requests with its locals in job[r]; any slot can carry any call,   *)
(* so two slots are a double tap, a client retry or two people at once.    *)
(* trip-service runs as two tasks, so two sweeps may overlap.              *)
(*                                                                         *)
(* Abstractions.  Times are the facts the code asks of them: the trip is   *)
(* older than the dispatch window (tripStale), the last broadcast is       *)
(* younger than it (fresh), the driver has waited five minutes (waited).   *)
(* Drivers are approved and not on a fraud hold.  The trip:<id>:state      *)
(* cache is left out: nothing reads it.                                    *)
(***************************************************************************)
EXTENDS Integers, FiniteSets

CONSTANTS
  Drivers,         \* approved drivers who receive the broadcast
  Requests,        \* calls on this trip that may be in flight at once
  Sweepers,        \* overlapping runs of sweepStaleSearchingTrips
  NoDriver,        \* null driverId, or no claim
  MaxRedispatches, \* MAX_REDISPATCHES
  MaxFaults        \* bound: crashed handlers and sweeps, lost Redis keys

ASSUME DriversAssumption == NoDriver \notin Drivers
ASSUME SweepersAssumption == IsFiniteSet(Sweepers)
ASSUME BoundsAssumption == MaxRedispatches \in Nat /\ MaxFaults \in Nat

VARIABLES
  create,     \* progress of createTrip
  trip,       \* the trips row
  claimed,    \* Redis trip:<id>:claimed
  attempts,   \* Redis trip:<id>:dispatch, attempts; NoMeta when absent
  fresh,      \* ... and lastDispatchAt within DISPATCH_WINDOW_MS
  tripStale,  \* createdAt is older than DISPATCH_WINDOW_MS
  broadcasts, \* times the request went out to the drivers
  belowFloor, \* the fare earns the driver less than the earnings floor
  floorLog,   \* the earnings_floor_log row of the trip exists
  credits,    \* credit-wallet calls made for this ride (capped at Many)
  waited,     \* NO_SHOW_WAIT_MINUTES have passed since the arrival
  noShow,     \* the answer to the driver's last no-show report
  job,        \* the locals of every call in flight
  sweep,      \* the locals of every sweep
  faults      \* faults so far

rideVars == <<claimed, belowFloor, floorLog, credits, waited, noShow>>
dispatchVars == <<create, attempts, fresh, tripStale, broadcasts, sweep>>
vars == <<trip, rideVars, dispatchVars, job, faults>>

NoMeta == -1
Many == 2
TripStatus == {"absent", "searching", "accepted", "driver_arrived", "in_progress",
               "completed", "cancelled", "no_show"}
TripTerminal == {"completed", "cancelled", "no_show"}
AssignedStatus == {"accepted", "driver_arrived", "in_progress"}

\* TRANSITIONS of trip-state-machine.ts, but for driver_en_route, which no
\* service ever sets.
AllowedNext ==
  [searching      |-> {"accepted", "cancelled"},
   accepted       |-> {"driver_arrived", "cancelled"},
   driver_arrived |-> {"in_progress", "no_show"},
   in_progress    |-> {"completed", "cancelled"},
   completed      |-> {}, cancelled |-> {}, no_show |-> {}]

Ops == {"none", "accept", "arrive", "start", "end", "cancel"}
Steps == {"idle", "read", "claimed", "floored"}
SweepSteps == {"idle", "listed", "redispatch", "mark", "fail"}

Idle == [op |-> "none", step |-> "idle", driver |-> NoDriver]
Resting == [step |-> "idle", attempt |-> 0]

Trips == [status : TripStatus, driver : Drivers \cup {NoDriver}]
Jobs == [op : Ops, step : Steps, driver : Drivers \cup {NoDriver}]
Sweeps == [step : SweepSteps, attempt : 0 .. MaxRedispatches]

TypeOK ==
  /\ create \in {"none", "stored", "broadcast", "done"}
  /\ trip \in Trips
  /\ claimed \in Drivers \cup {NoDriver}
  /\ attempts \in {NoMeta} \cup 0 .. MaxRedispatches
  /\ fresh \in BOOLEAN /\ tripStale \in BOOLEAN
  /\ broadcasts \in Nat
  /\ belowFloor \in BOOLEAN /\ floorLog \in BOOLEAN
  /\ credits \in 0 .. Many
  /\ waited \in BOOLEAN
  /\ noShow \in {"unasked", "not_recorded", "too_early", "taken"}
  /\ job \in [Requests -> Jobs]
  /\ sweep \in [Sweepers -> Sweeps]
  /\ faults \in 0 .. MaxFaults

Init ==
  /\ create = "none"
  /\ trip = [status |-> "absent", driver |-> NoDriver]
  /\ claimed = NoDriver
  /\ attempts = NoMeta
  /\ fresh = FALSE /\ tripStale = FALSE
  /\ broadcasts = 0
  /\ belowFloor \in BOOLEAN /\ floorLog = FALSE
  /\ credits = 0
  /\ waited = FALSE
  /\ noShow = "unasked"
  /\ job = [r \in Requests |-> Idle]
  /\ sweep = [s \in Sweepers |-> Resting]
  /\ faults = 0

-----------------------------------------------------------------------------
(* createTrip: the row, the broadcast, and the dispatch key, written without *)
(* waiting for it.                                                           *)

CreateStore ==
  /\ create = "none"
  /\ trip' = [trip EXCEPT !.status = "searching"]
  /\ create' = "stored"
  /\ UNCHANGED <<rideVars, attempts, fresh, tripStale, broadcasts, sweep, job, faults>>

CreateBroadcast ==
  /\ create = "stored"
  /\ broadcasts' = broadcasts + 1
  /\ create' = "broadcast"
  /\ UNCHANGED <<trip, rideVars, attempts, fresh, tripStale, sweep, job, faults>>

CreateRemember ==
  /\ create = "broadcast"
  /\ attempts' = 0 /\ fresh' = TRUE
  /\ create' = "done"
  /\ UNCHANGED <<trip, rideVars, tripStale, broadcasts, sweep, job, faults>>

\* The process dies, or Redis refuses the key: the error is swallowed.
CreateAborts ==
  /\ create \in {"stored", "broadcast"}
  /\ faults < MaxFaults
  /\ create' = "done"
  /\ faults' = faults + 1
  /\ UNCHANGED <<trip, rideVars, attempts, fresh, tripStale, broadcasts, sweep, job>>

-----------------------------------------------------------------------------
(* The calls: read the row and check it, keep the locals.                    *)

At(r, op, step) == job[r].op = op /\ job[r].step = step
Goto(r, step) == job' = [job EXCEPT ![r].step = step]
Return(r) == job' = [job EXCEPT ![r] = Idle]

Begin(r, op, d) ==
  /\ job[r] = Idle
  /\ job' = [job EXCEPT ![r] = [op |-> op, step |-> "read", driver |-> d]]
  /\ UNCHANGED <<trip, rideVars, dispatchVars, faults>>

Follows(next) ==
  trip.status \in DOMAIN AllowedNext /\ next \in AllowedNext[trip.status]

AcceptRead(r, d) ==
  /\ broadcasts > 0
  /\ Follows("accepted")
  /\ Begin(r, "accept", d)

\* getDriverTrip: only the trip's own driver gets past it.
ArriveRead(r) ==
  /\ trip.driver # NoDriver
  /\ Follows("driver_arrived")
  /\ Begin(r, "arrive", trip.driver)

StartRead(r) ==
  /\ trip.driver # NoDriver
  /\ Follows("in_progress")
  /\ Begin(r, "start", trip.driver)

\* Timing assumption: driving to within 0.2 mile of the dropoff takes longer
\* than an acceptance in flight (whose claim lives 30 s).
EndRead(r) ==
  /\ trip.driver # NoDriver
  /\ Follows("completed")
  /\ \A q \in Requests : job[q].op # "accept"
  /\ Begin(r, "end", trip.driver)

\* Not checked against TRANSITIONS, only against the terminal states.
CancelRead(r) ==
  /\ trip.status \notin TripTerminal \cup {"absent"}
  /\ Begin(r, "cancel", NoDriver)

-----------------------------------------------------------------------------
(* The calls: what they write.                                               *)

ClaimKeyPerDriver(d) == claimed # d \* mutant: the key carries the driver's id
ClaimKeyFree(d) == claimed = NoDriver

AcceptClaim(r) ==
  /\ At(r, "accept", "read")
  /\ IF ClaimKeyFree(job[r].driver)
       THEN claimed' = job[r].driver /\ Goto(r, "claimed")
       ELSE UNCHANGED claimed /\ Return(r)
  /\ UNCHANGED <<trip, belowFloor, floorLog, credits, waited, noShow, dispatchVars,
                 faults>>

AcceptCommit(r) ==
  /\ At(r, "accept", "claimed")
  /\ trip' = [trip EXCEPT !.status = "accepted", !.driver = job[r].driver]
  /\ Return(r)
  /\ UNCHANGED <<rideVars, dispatchVars, faults>>

ArriveCommit(r) ==
  /\ At(r, "arrive", "read")
  /\ trip' = [trip EXCEPT !.status = "driver_arrived"]
  /\ waited' = FALSE
  /\ Return(r)
  /\ UNCHANGED <<claimed, belowFloor, floorLog, credits, noShow, dispatchVars, faults>>

StartCommit(r) ==
  /\ At(r, "start", "read")
  /\ trip' = [trip EXCEPT !.status = "in_progress"]
  /\ Return(r)
  /\ UNCHANGED <<rideVars, dispatchVars, faults>>

\* EarningsFloorService.enforce: a supplement is logged in a table whose tripId
\* is unique, so a second log of the same trip throws.
EndFloorUnlogged(r) == \* mutant: the log is upserted
  /\ At(r, "end", "read")
  /\ floorLog' = belowFloor
  /\ Goto(r, "floored")
  /\ UNCHANGED <<trip, claimed, belowFloor, credits, waited, noShow, dispatchVars,
                 faults>>

EndFloor(r) ==
  /\ At(r, "end", "read")
  /\ IF belowFloor /\ floorLog THEN Return(r) ELSE Goto(r, "floored")
  /\ floorLog' = (floorLog \/ belowFloor)
  /\ UNCHANGED <<trip, claimed, belowFloor, credits, waited, noShow, dispatchVars,
                 faults>>

\* The update, the claim deleted, the wallet credit sent without waiting.
EndCommit(r) ==
  /\ At(r, "end", "floored")
  /\ trip' = [trip EXCEPT !.status = "completed"]
  /\ claimed' = NoDriver
  /\ credits' = IF credits = Many THEN Many ELSE credits + 1
  /\ Return(r)
  /\ UNCHANGED <<belowFloor, floorLog, waited, noShow, dispatchVars, faults>>

CancelCommit(r) ==
  /\ At(r, "cancel", "read")
  /\ trip' = [trip EXCEPT !.status = "cancelled"]
  /\ Return(r)
  /\ UNCHANGED <<rideVars, dispatchVars, faults>>

\* markNoShow looks for a driver_arrived trip event; markArrived writes none
\* and nothing else does, so the wait is never even compared.
ArrivalRecorded == FALSE

MarkNoShow ==
  /\ trip.status = "driver_arrived" /\ trip.driver # NoDriver
  /\ noShow' = CASE ~ArrivalRecorded -> "not_recorded"
                 [] ArrivalRecorded /\ ~waited -> "too_early"
                 [] OTHER -> "taken"
  /\ trip' = IF noShow' = "taken" THEN [trip EXCEPT !.status = "no_show"] ELSE trip
  /\ UNCHANGED <<claimed, belowFloor, floorLog, credits, waited, dispatchVars, job,
                 faults>>

-----------------------------------------------------------------------------
(* sweepStaleSearchingTrips, for this trip.                                  *)

SweepGoto(s, step, attempt) ==
  sweep' = [sweep EXCEPT ![s] = [step |-> step, attempt |-> attempt]]
SweepRests(s) == sweep' = [sweep EXCEPT ![s] = Resting]

SweepList(s) ==
  /\ sweep[s] = Resting
  /\ trip.status = "searching" /\ tripStale
  /\ SweepGoto(s, "listed", 0)
  /\ UNCHANGED <<trip, rideVars, create, attempts, fresh, tripStale, broadcasts, job,
                 faults>>

\* No key: fail rather than re-broadcast a request of unknown age.
SweepDecideSkipping(s) == \* mutant: a missing key is skipped
  /\ sweep[s].step = "listed"
  /\ CASE attempts = NoMeta \/ fresh -> SweepRests(s)
       [] ~fresh /\ attempts \in 0 .. MaxRedispatches - 1 ->
            SweepGoto(s, "redispatch", attempts + 1)
       [] OTHER -> SweepGoto(s, "fail", 0)
  /\ UNCHANGED <<trip, rideVars, create, attempts, fresh, tripStale, broadcasts, job,
                 faults>>

SweepDecide(s) ==
  /\ sweep[s].step = "listed"
  /\ CASE attempts # NoMeta /\ fresh -> SweepRests(s)
       [] ~fresh /\ attempts \in 0 .. MaxRedispatches - 1 ->
            SweepGoto(s, "redispatch", attempts + 1)
       [] OTHER -> SweepGoto(s, "fail", 0)
  /\ UNCHANGED <<trip, rideVars, create, attempts, fresh, tripStale, broadcasts, job,
                 faults>>

SweepRedispatch(s) ==
  /\ sweep[s].step = "redispatch"
  /\ broadcasts' = broadcasts + 1
  /\ SweepGoto(s, "mark", sweep[s].attempt)
  /\ UNCHANGED <<trip, rideVars, create, attempts, fresh, tripStale, job, faults>>

SweepMark(s) ==
  /\ sweep[s].step = "mark"
  /\ attempts' = sweep[s].attempt /\ fresh' = TRUE
  /\ SweepRests(s)
  /\ UNCHANGED <<trip, rideVars, create, tripStale, broadcasts, job, faults>>

SweepFailUnguarded(s) == \* mutant: the write does not re-check the status
  /\ sweep[s].step = "fail"
  /\ trip' = [trip EXCEPT !.status = "cancelled"]
  /\ attempts' = NoMeta /\ fresh' = FALSE
  /\ SweepRests(s)
  /\ UNCHANGED <<rideVars, create, tripStale, broadcasts, job, faults>>

SweepFail(s) ==
  /\ sweep[s].step = "fail"
  /\ IF trip.status = "searching"
       THEN /\ trip' = [trip EXCEPT !.status = "cancelled"]
            /\ attempts' = NoMeta /\ fresh' = FALSE
       ELSE UNCHANGED <<trip, attempts, fresh>>
  /\ SweepRests(s)
  /\ UNCHANGED <<rideVars, create, tripStale, broadcasts, job, faults>>

-----------------------------------------------------------------------------
(* Faults and time.                                                          *)

Abort(r) ==
  /\ job[r] # Idle
  /\ faults < MaxFaults
  /\ Return(r)
  /\ faults' = faults + 1
  /\ UNCHANGED <<trip, rideVars, dispatchVars>>

SweepAborts(s) ==
  /\ sweep[s] # Resting
  /\ faults < MaxFaults
  /\ SweepRests(s)
  /\ faults' = faults + 1
  /\ UNCHANGED <<trip, rideVars, create, attempts, fresh, tripStale, broadcasts, job>>

\* Redis restarts, or the 3600 s of the key run out while the service is down.
MetaLost ==
  /\ attempts # NoMeta
  /\ faults < MaxFaults
  /\ attempts' = NoMeta /\ fresh' = FALSE
  /\ faults' = faults + 1
  /\ UNCHANGED <<trip, rideVars, create, tripStale, broadcasts, sweep, job>>

TripTurnsStale ==
  /\ create = "done" /\ ~tripStale
  /\ tripStale' = TRUE
  /\ UNCHANGED <<trip, rideVars, create, attempts, fresh, broadcasts, sweep, job,
                 faults>>

\* Timing assumption: a sweep that has decided to re-broadcast does so within
\* the 75 s of a dispatch window.
DispatchTurnsStale ==
  /\ fresh /\ tripStale
  /\ \A s \in Sweepers : sweep[s].step \notin {"redispatch", "mark"}
  /\ fresh' = FALSE
  /\ UNCHANGED <<trip, rideVars, create, attempts, tripStale, broadcasts, sweep, job,
                 faults>>

\* Timing assumption: an acceptance takes less than the 30 s of its claim.
ClaimExpires ==
  /\ claimed # NoDriver
  /\ \A r \in Requests : job[r].op # "accept"
  /\ claimed' = NoDriver
  /\ UNCHANGED <<trip, belowFloor, floorLog, credits, waited, noShow, dispatchVars, job,
                 faults>>

FiveMinutesPass ==
  /\ trip.status = "driver_arrived" /\ ~waited
  /\ waited' = TRUE
  /\ UNCHANGED <<trip, claimed, belowFloor, floorLog, credits, noShow, dispatchVars, job,
                 faults>>

-----------------------------------------------------------------------------
Creates == CreateStore \/ CreateBroadcast \/ CreateRemember \/ CreateAborts
Reads(r) == \/ \E d \in Drivers : AcceptRead(r, d)
            \/ ArriveRead(r) \/ StartRead(r) \/ EndRead(r) \/ CancelRead(r)
Writes(r) == AcceptClaim(r) \/ AcceptCommit(r) \/ ArriveCommit(r) \/ StartCommit(r)
               \/ EndFloor(r) \/ EndCommit(r) \/ CancelCommit(r)
SweepStep(s) == SweepList(s) \/ SweepDecide(s) \/ SweepRedispatch(s) \/ SweepMark(s)
                  \/ SweepFail(s)
Clock == TripTurnsStale \/ DispatchTurnsStale \/ ClaimExpires \/ FiveMinutesPass

\* The ride is over and nobody is at work on it.
Ended ==
  /\ trip.status \in TripTerminal
  /\ \A r \in Requests : job[r] = Idle
  /\ \A s \in Sweepers : sweep[s] = Resting
  /\ UNCHANGED vars

Next ==
  \/ Creates
  \/ \E r \in Requests : Reads(r) \/ Writes(r) \/ Abort(r)
  \/ MarkNoShow
  \/ \E s \in Sweepers : SweepStep(s) \/ SweepAborts(s)
  \/ MetaLost
  \/ Clock
  \/ Ended

\* Handlers that started run to their end, the sweep recurs on its timer, time
\* passes; nobody is obliged to accept, drive or cancel.
Fairness ==
  /\ WF_vars(CreateBroadcast \/ CreateRemember)
  /\ \A r \in Requests : WF_vars(Writes(r))
  /\ \A s \in Sweepers : WF_vars(SweepStep(s))
  /\ WF_vars(TripTurnsStale)
  /\ WF_vars(DispatchTurnsStale)

Spec == Init /\ [][Next]_vars
FairSpec == Spec /\ Fairness

-----------------------------------------------------------------------------
(* What the dispatch guarantees.                                             *)

\* Once a driver holds the ride no other driver ever does: acceptTrip's claim
\* admits one winner, also against acceptances read long before.
OneDriver ==
  [][trip.driver # NoDriver => trip'.driver = trip.driver]_vars

\* A ride that has its driver is cancelled by a cancelTrip call and by nothing
\* else: failTripNoDrivers re-checks the status in its write.
SweepSparesAccepted ==
  [][trip.status \in AssignedStatus /\ trip'.status = "cancelled"
       => \E r \in Requests : At(r, "cancel", "read") /\ job'[r] = Idle]_vars

\* Drivers are not asked again and again: each of the allowed re-broadcasts goes
\* out at most once per overlapping sweep, plus once per fault.
BroadcastsBounded ==
  broadcasts <= 1 + MaxRedispatches * Cardinality(Sweepers) + faults

\* The unique key of earnings_floor_log doubles as a lock: however its handlers
\* overlap, a ride below the floor completes, and pays its driver, once.
FlooredRidePaidOnce == belowFloor => credits <= 1

\* A rider is never left searching: even if every driver ignores the request,
\* the key is lost or createTrip died, the sweep ends the search.
SearchEnds == trip.status = "searching" ~> trip.status # "searching"

-----------------------------------------------------------------------------
(* Why OneDriver holds: the inductive invariant its proof rests on.          *)

\* Whoever is between claim and update owns the claim, and the slot is unique.
ClaimOwned ==
  \A r \in Requests : At(r, "accept", "claimed") =>
    /\ claimed = job[r].driver
    /\ claimed \in Drivers
    /\ \A q \in Requests : At(q, "accept", "claimed") => q = r

\* While acceptances are in flight and the trip has its driver, the claim is
\* taken and nobody stands between claim and update.
AssignedIsClaimed ==
  trip.driver # NoDriver =>
    /\ \A r \in Requests : ~At(r, "accept", "claimed")
    /\ (\E r \in Requests : At(r, "accept", "read")) => claimed # NoDriver

AssignedHasDriver == trip.status \in {"absent", "searching"} => trip.driver = NoDriver

\* An end call runs only after every acceptance has returned, and none starts
\* while the ride is driven; so its deletion of the claim frees nothing.
JobsHaveShape ==
  \A r \in Requests :
    /\ job[r].op = "accept" => job[r].driver \in Drivers
                               /\ job[r].step \in {"read", "claimed"}
    /\ job[r].op = "end" => trip.status \notin {"absent", "searching"}
                            /\ \A q \in Requests : job[q].op # "accept"

\* Before createTrip has stored the trip, nobody can call about it.
NobodyKnowsYet ==
  create = "none" => trip.status = "absent" /\ \A r \in Requests : job[r] = Idle

\* The floor log is the ticket to complete a ride below the floor: there is one,
\* in the hands of one end call or already spent.
FloorLogIsTicket ==
  belowFloor =>
    /\ ~floorLog => credits = 0 /\ \A r \in Requests : ~At(r, "end", "floored")
    /\ \A r \in Requests : At(r, "end", "floored") =>
         credits = 0 /\ \A q \in Requests : At(q, "end", "floored") => q = r
    /\ credits <= 1

IInv ==
  /\ TypeOK
  /\ NobodyKnowsYet
  /\ ClaimOwned
  /\ AssignedIsClaimed
  /\ AssignedHasDriver
  /\ JobsHaveShape
  /\ FloorLogIsTicket

-----------------------------------------------------------------------------
(* What the source says and the code does not do: README, section 5.         *)

\* "blocks completed -> cancelled (terminal state)" (trip-state-machine.spec.ts):
\* a completed ride, charged and paid out, stays completed.
CompletedIsFinal ==
  [][trip.status = "completed" => trip'.status = "completed"]_vars

\* "Must wait 5 minutes after arrival before marking no-show" (markNoShow): the
\* driver who waited gets the report through.
NoShowAfterWait ==
  [][waited /\ noShow' # noShow => trip'.status = "no_show"]_vars
=============================================================================
