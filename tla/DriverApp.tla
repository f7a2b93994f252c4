----------------------------- MODULE DriverApp -----------------------------
(***************************************************************************)
(* The driver app while driving: offer cards, the screens of a ride and    *)
(* the events of the socket, against the trip service as far as this       *)
(* driver sees it.  A request is two steps: the server answers, then the   *)
(* app reads the answer.                                                   *)
(*                                                                         *)
(* The rider's answer to a counter offer is published for the id of the    *)
(* drivers row, while sockets sit in the room of the users id: the app is  *)
(* never told of it, and its handler and screen change for it never run.   *)
(*                                                                         *)
(* stray: since the app was launched the driver left the screen of a live  *)
(* ride by going back or by tapping a notification, or got a second ride:  *)
(* the app then shows one of them, and the cancellation of either clears   *)
(* what it knows of the other.                                             *)
(***************************************************************************)
EXTENDS FaultBudget

CONSTANTS
  Rides,
  MaxLaunches   \* bound: restarts of the app

VARIABLES
  ride,         \* the trips, as the server has them for this driver
  countered,    \* bids this driver answered with a counter offer
  screen,       \* the screen on top: its name, its ride, the phase it shows
  cards,        \* incomingBid and incomingRequest of the socket socketStore
  cancelledTripId,
  request,      \* the request in flight and its answer
  up,           \* the socket is connected
  launches,
  stray

daVars == <<ride, countered, screen, cards, cancelledTripId, request, up,
             launches, stray>>
socketStore == <<cards, cancelledTripId>>
None == "none"
ScreenAt(at, r, phase) == [at |-> at, ride |-> r, phase |-> phase]
HomeScreen == ScreenAt("home", None, None)
NoRequest == [op |-> None, ride |-> None, got |-> None]
Asked(op, r) == [op |-> op, ride |-> r, got |-> None]
Live == {"accepted", "driver_arrived", "in_progress"}

DriverAppTypeOK ==
  /\ ride \in [Rides -> Live \cup {"searching", "completed", "cancelled", "taken"}]
  /\ countered \subseteq Rides
  /\ screen \in [at : {"start", "home", "navigating", "in-trip", "rate"},
                 ride : Rides \cup {None}, phase : {None, "arrived", "in_progress"}]
  /\ cards \in [bid : Rides \cup {None}, request : Rides \cup {None}]
  /\ cancelledTripId \in Rides \cup {None}
  /\ request \in [op : {None, "accept", "counter", "arrived", "start", "end", "restore"},
                  ride : Rides \cup {None},
                  got : {None, "ok", "claimed", "invalid"} \cup Live]
  /\ up \in BOOLEAN /\ launches \in 0..MaxLaunches /\ stray \in BOOLEAN

DriverAppInit ==
  /\ ride = [r \in Rides |-> "searching"] /\ countered = {}
  /\ screen = HomeScreen /\ cards = [bid |-> None, request |-> None]
  /\ cancelledTripId = None /\ request = NoRequest
  /\ up = TRUE /\ launches = 0 /\ stray = FALSE

OnRide == screen.at \in {"navigating", "in-trip"}
Second(r) == \E o \in Rides \ {r} : ride[o] \in Live

-----------------------------------------------------------------------------
(* Events of the socket and of the network                                 *)

\* The first bid stays until it is cleared; a standard request is replaced.
OfferArrives(r) ==
  /\ up /\ ride[r] = "searching"
  /\ \/ cards.bid = None /\ cards' = [cards EXCEPT !.bid = r]
     \/ cards' = [cards EXCEPT !.request = r]
  /\ UNCHANGED <<ride, countered, screen, cancelledTripId, request, up,
                 launches, stray, faults>>

\* An event finds the app connected or is lost.
RiderCancels(r) ==
  /\ ride[r] \in Live \cup {"searching"}
  /\ ride' = [ride EXCEPT ![r] = "cancelled"]
  /\ IF up /\ ride[r] \in Live
       THEN /\ cards' = [bid |-> None, request |-> None]
            /\ cancelledTripId' = r
       ELSE UNCHANGED socketStore
  /\ UNCHANGED <<countered, screen, request, up, launches, stray, faults>>

RiderAcceptsCounter(r) ==
  /\ r \in countered /\ ride[r] = "searching"
  /\ ride' = [ride EXCEPT ![r] = "accepted"]
  /\ stray' = (stray \/ Second(r) \/ OnRide \/ request.op \notin {None, "counter"})
  /\ UNCHANGED <<countered, screen, socketStore, request, up, launches, faults>>

OtherDriverTakes(r) ==
  /\ ride[r] = "searching"
  /\ ride' = [ride EXCEPT ![r] = "taken"]
  /\ UNCHANGED <<countered, screen, socketStore, request, up, launches, stray, faults>>

LoseConnection ==
  /\ up /\ up' = FALSE /\ Fault
  /\ UNCHANGED <<ride, countered, screen, socketStore, request, launches, stray>>

Reconnect ==
  /\ ~up /\ up' = TRUE
  /\ UNCHANGED <<ride, countered, screen, socketStore, request, launches, stray, faults>>

ShowCancelled ==
  /\ OnRide /\ cancelledTripId = screen.ride
  /\ screen' = HomeScreen /\ cancelledTripId' = None
  /\ UNCHANGED <<ride, countered, cards, request, up, launches, stray,
                 faults>>

-----------------------------------------------------------------------------
(* The cards                                                               *)

\* The bid's card hides the standard request's.
CardShown == IF cards.bid # None THEN cards.bid ELSE cards.request
Cleared == IF cards.bid # None THEN [cards EXCEPT !.bid = None]
           ELSE [cards EXCEPT !.request = None]

Ask(op, r) ==
  /\ request = NoRequest /\ request' = Asked(op, r)
  /\ UNCHANGED <<ride, countered, screen, socketStore, up, launches, stray, faults>>

TapAccept == screen = HomeScreen /\ CardShown # None /\ Ask("accept", CardShown)
TapCounter == screen = HomeScreen /\ cards.bid # None /\ Ask("counter", cards.bid)

\* Declined, or its minute is over and no acceptance is in flight.
CardGone ==
  /\ screen = HomeScreen /\ CardShown # None /\ request = NoRequest
  /\ cards' = Cleared
  /\ UNCHANGED <<ride, countered, screen, cancelledTripId, request, up,
                 launches, stray, faults>>

-----------------------------------------------------------------------------
(* The screens of a ride                                                   *)

TapArrived == screen.at = "navigating" /\ Ask("arrived", screen.ride)
TapStart ==
  screen.at = "in-trip" /\ screen.phase = "arrived" /\ Ask("start", screen.ride)
TapEnd ==
  screen.at = "in-trip" /\ screen.phase = "in_progress" /\ Ask("end", screen.ride)

RateRider ==
  /\ screen.at = "rate" /\ screen' = HomeScreen
  /\ UNCHANGED <<ride, countered, socketStore, request, up, launches, stray, faults>>

\* Back, or a tapped notification.
GoHome ==
  /\ OnRide /\ request = NoRequest
  /\ screen' = HomeScreen /\ stray' = (stray \/ ride[screen.ride] \in Live)
  /\ UNCHANGED <<ride, countered, socketStore, request, up, launches, faults>>

Launch ==
  /\ launches < MaxLaunches /\ launches' = launches + 1
  /\ screen' = ScreenAt("start", None, None) /\ request' = NoRequest /\ up' = TRUE
  /\ cards' = [bid |-> None, request |-> None]
  /\ cancelledTripId' = None
  /\ stray' = (\E r \in Rides : ride[r] \in Live /\ Second(r))
  /\ UNCHANGED <<ride, countered, faults>>

RestoreActiveTrip == screen.at = "start" /\ Ask("restore", None)

-----------------------------------------------------------------------------
(* The server answers; the app reads the answer                            *)

NextStatus == [accept |-> [from |-> "searching", to |-> "accepted"],
               arrived |-> [from |-> "accepted", to |-> "driver_arrived"],
               start |-> [from |-> "driver_arrived", to |-> "in_progress"],
               end |-> [from |-> "in_progress", to |-> "completed"]]

ServerMoves(r) ==
  LET op == request.op IN
  /\ op \in DOMAIN NextStatus
  /\ IF ride[r] = NextStatus[op].from
       THEN /\ ride' = [ride EXCEPT ![r] = NextStatus[op].to]
            /\ request' = [request EXCEPT !.got = "ok"]
            /\ stray' = (stray \/ Second(r))
       ELSE /\ request' = [request EXCEPT !.got = IF op = "accept" THEN "claimed" ELSE "invalid"]
            /\ UNCHANGED <<ride, stray>>
  /\ UNCHANGED countered

ServerCounters(r) ==
  /\ request.op = "counter"
  /\ request' = [request EXCEPT !.got = IF ride[r] = "searching" THEN "ok" ELSE "invalid"]
  /\ countered' = IF ride[r] = "searching" THEN countered \cup {r} ELSE countered
  /\ UNCHANGED <<ride, stray>>

\* The newest of the driver's live rides, if any.
ServerRestores ==
  /\ request.op = "restore"
  /\ IF \E r \in Rides : ride[r] \in Live
       THEN \E r \in Rides : ride[r] \in Live
              /\ request' = [request EXCEPT !.ride = r, !.got = ride[r]]
       ELSE request' = [request EXCEPT !.got = "ok"]
  /\ UNCHANGED <<ride, countered, stray>>

ServerAnswers ==
  /\ request.op # None /\ request.got = None
  /\ ServerRestores \/ ServerMoves(request.ride) \/ ServerCounters(request.ride)
  /\ UNCHANGED <<screen, socketStore, up, launches, faults>>

(* mutant: a ride whose driver has arrived is not restored                 *)
RestoredWithoutPickup(r, status) ==
  CASE status = "accepted" -> ScreenAt("navigating", r, None)
    [] status = "in_progress" -> ScreenAt("in-trip", r, "in_progress")
    [] OTHER -> HomeScreen
Restored(r, status) ==
  CASE status = "accepted" -> ScreenAt("navigating", r, None)
    [] status = "driver_arrived" -> ScreenAt("in-trip", r, "arrived")
    [] status = "in_progress" -> ScreenAt("in-trip", r, "in_progress")
    [] OTHER -> HomeScreen

\* TRIP_INVALID_STATE counts as "already advanced", whatever the state is.
AfterAnswer(op, r, got) ==
  CASE op = "accept" -> IF got = "ok" THEN ScreenAt("navigating", r, None) ELSE screen
    [] op = "counter" -> screen
    [] op = "arrived" -> ScreenAt("in-trip", r, "arrived")
    [] op = "start" -> ScreenAt("in-trip", r, "in_progress")
    [] op = "end" -> IF got = "ok" THEN ScreenAt("rate", r, None) ELSE screen
    [] op = "restore" -> Restored(r, got)

AppReads ==
  /\ request.got # None /\ request' = NoRequest
  /\ screen' = AfterAnswer(request.op, request.ride, request.got)
  /\ cards' = IF request.op = "accept" \/ (request.op = "counter" /\ request.got = "ok")
                THEN Cleared ELSE cards
  /\ UNCHANGED <<ride, countered, cancelledTripId, up, launches, stray, faults>>

\* No answer: an alert, and the screen as it was; a launch goes on to Home.
RequestFails ==
  /\ request # NoRequest /\ request' = NoRequest /\ Fault
  /\ screen' = IF request.op = "restore" THEN HomeScreen ELSE screen
  /\ UNCHANGED <<ride, countered, socketStore, up, launches, stray>>

-----------------------------------------------------------------------------
AppReacts ==
  ShowCancelled \/ RestoreActiveTrip \/ ServerAnswers \/ AppReads
DriverAppNext ==
  \/ AppReacts \/ LoseConnection \/ Reconnect \/ RequestFails \/ Launch
  \/ TapAccept \/ TapCounter \/ CardGone \/ TapArrived \/ TapStart \/ TapEnd
  \/ RateRider \/ GoHome
  \/ \E r \in Rides : \/ OfferArrives(r) \/ RiderCancels(r) \/ RiderAcceptsCounter(r)
                      \/ OtherDriverTakes(r)

-----------------------------------------------------------------------------
Told == \A r \in countered : ride[r] \notin Live
Shown == OnRide /\ ride[screen.ride] \in Live
NothingLive == \A r \in Rides : ride[r] \notin Live

\* A ride this driver took is on the driver's screen again and again: accepted
\* by a tap or found after a restart, the app ends up on a screen of it, unless
\* an answer or event was lost, the driver strayed, or the ride came from a
\* counter offer.
LiveRideIsShown ==
  (\E r \in Rides : ride[r] \in Live)
    ~> (Shown \/ NothingLive \/ ~Told \/ faults > 0 \/ stray)

\* "Notify driver that rider accepted their counter" (dispatch.service.ts) and
\* "Navigate away when a counter offer is accepted by the rider"
\* (DriverHomeScreen.tsx): the ride of an accepted counter offer comes up too.
CounteredRideIsShown ==
  (\E r \in countered : ride[r] \in Live)
    ~> (Shown \/ NothingLive \/ faults > 0 \/ stray)
=============================================================================
