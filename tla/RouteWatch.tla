----------------------------- MODULE RouteWatch -----------------------------
(***************************************************************************)
(* The watch over the route of one trip: the positions the gateway passes  *)
(* on, checkRouteAnomaly and handleDeviation of safety-service, and the    *)
(* check-ins of the rider.  Every position starts a check of its own, and  *)
(* the checks interleave at their awaits on one Redis key, the time since  *)
(* when the car is off its route.                                          *)
(*                                                                         *)
(* Distances are kept as what is asked of them: on the route or over       *)
(* SPATIAL_DEVIATION_THRESHOLD_MILES off it.  The age of the key is fresh, *)
(* or long once SPATIAL_DEVIATION_SUSTAINED_MS have passed.                *)
(***************************************************************************)
EXTENDS FaultBudget

CONSTANTS
  Checks,        \* checks under way at a time
  MaxDetours     \* bound: times the car leaves its route

VARIABLES
  watched,    \* the trip: waiting, started, over
  tardy,      \* it takes over a quarter of an hour longer than estimated
  car,        \* on or off the route
  detours,    \* times it left it
  storing,    \* POST /internal/routes: the step it is at
  route,      \* trip_routes has a polyline
  risk,       \* trip_safety_scores: none, or the level
  since,      \* trip:<id>:off_route_since
  check,      \* what each check is doing, and the position it is about
  told,       \* this detour was acted on
  checkIn     \* safe_check_ins: none, pending, or the rider's answer

rwVars == <<watched, tardy, car, detours, storing, route, risk, since, check, told, checkIn>>
Unchecked == [at |-> "idle", off |-> FALSE, tardy |-> FALSE]

RwTypeOK ==
  /\ watched \in {"waiting", "started", "over"} /\ tardy \in BOOLEAN
  /\ car \in {"on", "off"} /\ detours \in 0..MaxDetours
  /\ storing \in {"no", "route", "risk"} /\ route \in BOOLEAN
  /\ risk \in {"none", "low", "moderate", "high"}
  /\ since \in {"none", "fresh", "long"}
  /\ check \in [Checks -> [at : {"idle", "trip", "route", "clock", "set", "clear", "forget",
                                 "escalate"}, off : BOOLEAN, tardy : BOOLEAN]]
  /\ told \in BOOLEAN
  /\ checkIn \in {"none", "pending", "safe", "escalated"}

RwInit ==
  /\ watched = "waiting" /\ tardy = FALSE /\ car = "on" /\ detours = 0
  /\ storing = "route" /\ route = FALSE /\ risk = "none" /\ since = "none"
  /\ check = [k \in Checks |-> Unchecked]
  /\ told = FALSE /\ checkIn = "none"

-----------------------------------------------------------------------------
(* The trip and the car                                                     *)

TripMoves ==
  /\ \/ watched = "waiting" /\ watched' = "started"
     \/ watched = "started" /\ watched' = "over"
  /\ UNCHANGED <<tardy, car, detours, storing, route, risk, since, check, told, checkIn,
                 faults>>

TripOverruns ==
  /\ watched = "started" /\ ~tardy /\ tardy' = TRUE
  /\ UNCHANGED <<watched, car, detours, storing, route, risk, since, check, told,
                 checkIn, faults>>

LeavesRoute ==
  /\ watched # "over" /\ car = "on" /\ detours < MaxDetours
  /\ car' = "off" /\ detours' = detours + 1 /\ told' = FALSE
  /\ UNCHANGED <<watched, tardy, storing, route, risk, since, check, checkIn, faults>>

BackOnRoute ==
  /\ car = "off" /\ car' = "on"
  /\ UNCHANGED <<watched, tardy, detours, storing, route, risk, since, check, told,
                 checkIn, faults>>

\* Two minutes with the key; ten minutes without a check that touches it.
SinceGrows ==
  /\ since = "fresh" /\ since' = "long"
  /\ UNCHANGED <<watched, tardy, car, detours, storing, route, risk, check, told,
                 checkIn, faults>>
SinceExpires ==
  /\ since = "long" /\ Fault /\ since' = "none"
  /\ UNCHANGED <<watched, tardy, car, detours, storing, route, risk, check, told, checkIn>>

-----------------------------------------------------------------------------
(* The route and the risk, stored after the trip is created                 *)

StoreRoute ==
  /\ storing = "route" /\ route' = TRUE /\ storing' = "risk"
  /\ UNCHANGED <<watched, tardy, car, detours, risk, since, check, told, checkIn, faults>>

\* The score: night 25, airport 10, over 20 miles 20 or over 10 miles 10; the
\* driver's history is not passed and counts nothing.
RiskLevel(night, airport, miles) ==
  LET score == (IF night THEN 25 ELSE 0) + (IF airport THEN 10 ELSE 0)
               + (CASE miles > 20 -> 20 [] miles \in 11..20 -> 10 [] OTHER -> 0) IN
  CASE score >= 50 -> "high" [] score \in 25..49 -> "moderate" [] OTHER -> "low"

StoreRisk ==
  /\ storing = "risk" /\ storing' = "no"
  /\ \E night, airport \in BOOLEAN, miles \in {5, 15, 25} : risk' = RiskLevel(night, airport, miles)
  /\ UNCHANGED <<watched, tardy, car, detours, route, since, check, told, checkIn, faults>>

\* Not retried.
StoringDies ==
  /\ storing # "no" /\ Fault /\ storing' = "no"
  /\ UNCHANGED <<watched, tardy, car, detours, route, risk, since, check, told, checkIn>>

-----------------------------------------------------------------------------
(* checkRouteAnomaly                                                        *)

At(k, step) == check[k].at = step
Continues(k, step) == check' = [check EXCEPT ![k] = IF step = "idle" THEN Unchecked
                                                     ELSE [@ EXCEPT !.at = step]]
RwWorld == <<watched, tardy, car, detours, storing, route, risk>>

\* The screens of the driver that send the position know the trip.
PositionPublished(k) ==
  /\ At(k, "idle") /\ watched # "over"
  /\ check' = [check EXCEPT ![k] = [at |-> "trip", off |-> car = "off", tardy |-> FALSE]]
  /\ UNCHANGED <<RwWorld, since, told, checkIn, faults>>

ReadTrip(k) ==
  /\ At(k, "trip")
  /\ CASE watched = "waiting" -> Continues(k, "idle")
       [] watched # "waiting" /\ tardy ->
            check' = [check EXCEPT ![k] = [@ EXCEPT !.at = "escalate", !.tardy = TRUE]]
       [] OTHER -> Continues(k, "route")
  /\ UNCHANGED <<RwWorld, since, told, checkIn, faults>>

ReadRoute(k) ==
  /\ At(k, "route")
  /\ Continues(k, CASE ~route -> "idle" [] route /\ check[k].off -> "clock" [] OTHER -> "forget")
  /\ UNCHANGED <<RwWorld, since, told, checkIn, faults>>

(* mutant: every position off the route restarts the clock *)
AlwaysRestart == "set"
AfterClock == CASE since = "none" -> "set" [] since = "fresh" -> "idle" [] since = "long" -> "clear"

ReadClock(k) ==
  /\ At(k, "clock") /\ Continues(k, AfterClock)
  /\ UNCHANGED <<RwWorld, since, told, checkIn, faults>>

SetClock(k) ==
  /\ At(k, "set") /\ Continues(k, "idle") /\ since' = "fresh"
  /\ UNCHANGED <<RwWorld, told, checkIn, faults>>

ClearClock(k) ==
  /\ At(k, "clear") /\ Continues(k, "escalate") /\ since' = "none"
  /\ UNCHANGED <<RwWorld, told, checkIn, faults>>

Forget(k) ==
  /\ At(k, "forget") /\ Continues(k, "idle") /\ since' = "none"
  /\ UNCHANGED <<RwWorld, told, checkIn, faults>>

\* handleDeviation: it is counted on the trip, then by risk an alert to the
\* administrators, a check-in of the rider, or an entry for the observers.
\* For an overrun the check goes on to the route.
Escalate(k) ==
  /\ At(k, "escalate")
  /\ IF check[k].tardy THEN check' = [check EXCEPT ![k] = [@ EXCEPT !.at = "route", !.tardy = FALSE]]
                      ELSE Continues(k, "idle")
  /\ told' = (told \/ ~check[k].tardy)
  /\ checkIn' = IF risk = "moderate" THEN "pending" ELSE checkIn
  /\ UNCHANGED <<RwWorld, since, faults>>

CheckDies(k) ==
  /\ ~At(k, "idle") /\ Continues(k, "idle") /\ Fault
  /\ UNCHANGED <<RwWorld, since, told, checkIn>>

\* respondCheckIn takes any answer at any time, the last one counts.
RespondCheckIn(answer) ==
  /\ checkIn # "none" /\ checkIn' = answer
  /\ UNCHANGED <<RwWorld, since, check, told, faults>>

-----------------------------------------------------------------------------
CheckStep(k) ==
  \/ ReadTrip(k) \/ ReadRoute(k) \/ ReadClock(k) \/ SetClock(k) \/ ClearClock(k) \/ Forget(k)
  \/ Escalate(k)

RwNext ==
  \/ TripMoves \/ TripOverruns \/ LeavesRoute \/ BackOnRoute \/ SinceGrows \/ SinceExpires
  \/ StoreRoute \/ StoreRisk \/ StoringDies
  \/ \E k \in Checks : PositionPublished(k) \/ CheckStep(k) \/ CheckDies(k)
  \/ \E answer \in {"safe", "escalated"} : RespondCheckIn(answer)

-----------------------------------------------------------------------------
Unheard == watched = "started" /\ car = "off" /\ route /\ ~told /\ faults = 0

\* A car that stays off its route is acted on, however the checks of its
\* positions interleave on the key (checkRouteAnomaly, handleDeviation).
OffRouteIsHeard == Unheard ~> ~Unheard
=============================================================================
