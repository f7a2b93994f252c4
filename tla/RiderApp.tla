------------------------------ MODULE RiderApp ------------------------------
(***************************************************************************)
(* The rider app around its rides: the trip store, the events of the       *)
(* socket, and the screens that follow them, against the trip service as   *)
(* far as this rider sees it.  A request is two steps: the server answers, *)
(* then the app reads the answer.                                          *)
(*                                                                         *)
(* Hails are the rides asked for, in order.  An event of a ride goes to    *)
(* its room; who is not in it then never learns of it.  The handlers ask   *)
(* the store for "the" ride and mostly ignore which ride an event is of.   *)
(* Events without a handler (bid:accepted, bid:declined, bid:expired) and  *)
(* changes without an event (a cancellation, a no-show) leave no message.  *)
(***************************************************************************)
EXTENDS FaultBudget, Sequences

CONSTANTS
  MaxHails,      \* bound: rides asked for
  MaxInbox       \* bound: events on their way to the app

VARIABLES
  hail,       \* the rides as the server has them
  offers,     \* those asked for as an offer below the standard fare
  app,        \* the screen; activeTrip and its status; completedTrip;
              \* navigatedTripId of Home
  pending,    \* pendingCounter: the ride countered on, or 0
  raCall,     \* the request in flight and its answer
  wire,       \* the socket, and its subscription to the newest ride: under
              \* way, in force, asked for since the launch
  inbox,      \* events on their way
  deaf        \* an event of the newest ride fell into a time when the app
              \* could not hear it: no socket, or not in the room yet

raVars == <<hail, offers, app, pending, raCall, wire, inbox, deaf>>
Hails == 1..MaxHails
Under == {"searching", "countered", "unanswered", "accepted", "arrived", "started"}
Over == {"completed", "cancelled", "droppedByDriver", "noDrivers"}
RaIdle == [op |-> "none", ride |-> 0, got |-> "none"]

RiderTypeOK ==
  /\ hail \in [Hails -> Under \cup Over \cup {"none"}] /\ offers \subseteq Hails
  /\ app \in [at : {"start", "home", "bid", "sent", "tracking", "complete"}, ride : 0..MaxHails,
              status : Under \cup Over \cup {"none"},
              ended : {"none", "completed", "cancelled"}, seen : 0..MaxHails]
  /\ pending \in 0..MaxHails
  /\ raCall \in [op : {"none", "hail", "offer", "cancel", "yes", "no", "restore"},
                 ride : 0..MaxHails, got : {"none", "ok", "refused"} \cup Under]
  /\ wire \in [up : BOOLEAN, asking : BOOLEAN, joined : BOOLEAN, ever : BOOLEAN]
  /\ inbox \in Seq([event : {"assigned", "arrived", "started", "completed", "countered",
                             "counterExpired", "noDrivers"}, ride : Hails])
  /\ deaf \in BOOLEAN

Connected == [up |-> TRUE, asking |-> FALSE, joined |-> FALSE, ever |-> FALSE]
RiderInit ==
  /\ hail = [h \in Hails |-> "none"] /\ offers = {}
  /\ app = [at |-> "home", ride |-> 0, status |-> "none", ended |-> "none", seen |-> 0]
  /\ pending = 0 /\ raCall = RaIdle /\ inbox = <<>> /\ deaf = FALSE
  /\ wire = Connected

-----------------------------------------------------------------------------
(* The screens after a change of the store                                 *)

\* Tracking gives way to the receipt or to Home; Home brings up tracking once
\* per ride, and the receipt of a ride that ended while the rider was there.
FromTracking(a) ==
  CASE a.ended = "completed" -> [a EXCEPT !.at = "complete"]
    [] a.ended # "completed" /\ a.ride = 0 -> [a EXCEPT !.at = "home", !.seen = 0]
    [] OTHER -> a
FromHome(a) ==
  CASE a.ride # 0 /\ a.seen = a.ride -> a
    [] a.ride # 0 /\ a.seen # a.ride ->
         FromTracking([a EXCEPT !.at = "tracking", !.seen = a.ride])
    [] OTHER -> [a EXCEPT !.seen = 0, !.at = IF a.ended = "completed" THEN "complete" ELSE "home"]
Settled(a) == CASE a.at = "home" -> FromHome(a)
                [] a.at = "tracking" -> FromTracking(a)
                [] OTHER -> a

Newest(h) == hail[h] # "none" /\ \A g \in Hails : hail[g] # "none" => g <= h

\* Every mount of tracking, and every new ride under it, asks for the room.
\* Rooms are never left, but earlier rides have no more events.
ToScreen(a) ==
  LET b == Settled(a) IN
  /\ app' = b
  /\ wire' = IF /\ b.at = "tracking" /\ b.ride \in Hails /\ Newest(b.ride)
                /\ app.at # "tracking" \/ app.ride # b.ride
               THEN [wire EXCEPT !.asking = TRUE, !.ever = TRUE] ELSE wire

\* updateTripStatus.
Update(a, status) ==
  CASE a.ride = 0 -> a
    [] a.ride # 0 /\ status \in {"completed", "cancelled"} ->
         [a EXCEPT !.ride = 0, !.status = "none", !.ended = status]
    [] OTHER -> [a EXCEPT !.status = status]
Ends(status) == status \in {"completed", "cancelled"} /\ app.ride # 0

-----------------------------------------------------------------------------
(* The server                                                              *)

\* The gateway passes an event on to the room of its trip.
Routed(h, event) ==
  IF wire.up /\ wire.joined THEN Append(inbox, [event |-> event, ride |-> h]) ELSE inbox
Publish(h, event) ==
  /\ inbox' = Routed(h, event)
  /\ deaf' = (deaf \/ ~wire.up \/ wire.asking \/ ~wire.ever)

Moves(h, from, to) == hail[h] \in from /\ hail' = [hail EXCEPT ![h] = to]
Silent == UNCHANGED <<inbox, deaf>>

RideMoves(h) ==
  /\ Len(inbox) < MaxInbox
  /\ \/ /\ h \notin offers
        /\ \/ Moves(h, {"searching"}, "accepted") /\ Publish(h, "assigned")
           \/ Moves(h, {"searching"}, "noDrivers") /\ Publish(h, "noDrivers")
     \/ /\ h \in offers
        /\ \/ Moves(h, {"searching"}, "accepted") /\ Silent
           \/ Moves(h, {"searching"}, "unanswered") /\ Silent
           \/ Moves(h, {"searching"}, "countered") /\ Publish(h, "countered")
           \/ Moves(h, {"countered"}, "unanswered") /\ Publish(h, "counterExpired")
     \/ Moves(h, {"accepted"}, "arrived") /\ Publish(h, "arrived")
     \/ Moves(h, {"arrived"}, "started") /\ Publish(h, "started")
     \/ Moves(h, {"started"}, "completed") /\ Publish(h, "completed")
     \/ Moves(h, {"accepted", "arrived"}, "droppedByDriver") /\ Silent
  /\ UNCHANGED <<offers, app, pending, raCall, wire, faults>>

NewHail(h) == hail[h] = "none" /\ \A g \in Hails : hail[g] = "none" => h <= g
Answer(ride, got) == raCall' = [raCall EXCEPT !.ride = ride, !.got = got]

CreateTrip ==
  /\ raCall.op \in {"hail", "offer"}
  /\ \E h \in Hails : NewHail(h) /\ hail' = [hail EXCEPT ![h] = "searching"] /\ Answer(h, "ok")
                      /\ offers' = IF raCall.op = "offer" THEN offers \cup {h} ELSE offers
  /\ deaf' = FALSE /\ wire' = [Connected EXCEPT !.up = wire.up] /\ UNCHANGED inbox

CancelTrip ==
  /\ raCall.op = "cancel"
  /\ IF hail[raCall.ride] \in Under
       THEN hail' = [hail EXCEPT ![raCall.ride] = "cancelled"] /\ Answer(raCall.ride, "ok")
       ELSE UNCHANGED hail /\ Answer(raCall.ride, "refused")
  /\ UNCHANGED offers /\ Silent

\* trip:accepted has the effect of driver:assigned.
AnswerCounter ==
  /\ raCall.op \in {"yes", "no"} /\ Len(inbox) < MaxInbox
  /\ IF hail[raCall.ride] = "countered"
       THEN /\ hail' = [hail EXCEPT ![raCall.ride] =
                          IF raCall.op = "yes" THEN "accepted" ELSE "unanswered"]
            /\ Answer(raCall.ride, "ok")
            /\ IF raCall.op = "yes" THEN Publish(raCall.ride, "assigned") ELSE Silent
       ELSE UNCHANGED hail /\ Answer(raCall.ride, "refused") /\ Silent
  /\ UNCHANGED offers

\* The newest ride still under way.
ActiveTrip ==
  /\ raCall.op = "restore" /\ UNCHANGED <<hail, offers>> /\ Silent
  /\ LET live == {h \in Hails : hail[h] \in Under} IN
     IF live = {} THEN Answer(0, "ok")
     ELSE \E h \in live : (\A g \in live : g <= h) /\ Answer(h, hail[h])

ServerReplies ==
  /\ raCall.op # "none" /\ raCall.got = "none"
  /\ CreateTrip \/ (UNCHANGED wire /\ (CancelTrip \/ AnswerCounter \/ ActiveTrip))
  /\ UNCHANGED <<app, pending, faults>>

-----------------------------------------------------------------------------
(* The socket                                                              *)

RoomJoined ==
  /\ wire.up /\ wire.asking /\ wire' = [wire EXCEPT !.asking = FALSE, !.joined = TRUE]
  /\ UNCHANGED <<hail, offers, app, pending, raCall, inbox, deaf, faults>>

SocketDrops ==
  /\ wire.up /\ Fault /\ inbox' = <<>>
  /\ deaf' = (deaf \/ inbox # <<>>)
  /\ wire' = [wire EXCEPT !.up = FALSE, !.joined = FALSE]
  /\ UNCHANGED <<hail, offers, app, pending, raCall>>

(* mutant: rooms are taken to outlive the connection                       *)
RejoinNothing == FALSE
Rejoin == app.ride \in Hails /\ Newest(app.ride)

SocketReturns ==
  /\ ~wire.up
  /\ wire' = [wire EXCEPT !.up = TRUE, !.asking = @ \/ Rejoin]
  /\ UNCHANGED <<hail, offers, app, pending, raCall, inbox, deaf, faults>>

EventStatus == [assigned |-> "accepted", arrived |-> "arrived", started |-> "started",
                completed |-> "completed", counterExpired |-> "cancelled"]

\* Only noDrivers looks at the ride it is about.
Hear ==
  /\ inbox # <<>> /\ inbox' = Tail(inbox)
  /\ LET e == Head(inbox) IN
     CASE e.event = "countered" ->
            /\ pending' = IF app.ride # 0 THEN e.ride ELSE pending
            /\ UNCHANGED <<app, wire>>
       [] e.event = "noDrivers" ->
            /\ ToScreen(IF app.ride = e.ride THEN [app EXCEPT !.status = "noDrivers"] ELSE app)
            /\ UNCHANGED pending
       [] OTHER ->
            /\ ToScreen(Update(app, EventStatus[e.event]))
            /\ pending' = IF Ends(EventStatus[e.event]) \/ e.event = "counterExpired"
                            THEN 0 ELSE pending
  /\ UNCHANGED <<hail, offers, raCall, deaf, faults>>

-----------------------------------------------------------------------------
(* The rider                                                               *)

RaAsk(op, h) ==
  /\ raCall = RaIdle /\ raCall' = [op |-> op, ride |-> h, got |-> "none"]
  /\ UNCHANGED <<hail, offers, app, pending, wire, inbox, deaf, faults>>

\* Bound: no second ride while one may still change.  The server and Home would
\* take it, and the handlers would then mix up the two.
CanHail == /\ \E h \in Hails : hail[h] = "none"
           /\ \A h \in Hails : hail[h] \in Over \cup {"none", "unanswered"}

RequestRide == app.at \in {"home", "bid"} /\ CanHail /\ RaAsk("hail", 0)
SubmitBid == app.at = "bid" /\ CanHail /\ RaAsk("offer", 0)
TapCancelRide ==
  /\ app.at = "tracking" /\ app.status \in {"searching", "accepted"}
  /\ RaAsk("cancel", app.ride)
TapCounterAnswer == app.at = "tracking" /\ pending # 0 /\ \E op \in {"yes", "no"} : RaAsk(op, pending)

\* The minute of the modal is over; the rider tries again after no drivers.
ModalCloses ==
  /\ app.at = "tracking" /\ pending # 0 /\ pending' = 0
  /\ UNCHANGED <<hail, offers, app, raCall, wire, inbox, deaf, faults>>
TryAgain ==
  /\ app.at = "tracking" /\ app.status = "noDrivers"
  /\ ToScreen([app EXCEPT !.ride = 0, !.status = "none"])
  /\ UNCHANGED <<hail, offers, pending, raCall, inbox, deaf, faults>>

\* Make an Offer, Watch Live or the banner, and back.
Goes(from, to) ==
  /\ app.at \in from /\ raCall.op \notin {"hail", "offer"} /\ ToScreen([app EXCEPT !.at = to])
  /\ UNCHANGED <<hail, offers, pending, raCall, inbox, deaf, faults>>
Navigate ==
  \/ Goes({"home"}, "bid") \/ Goes({"sent"}, "tracking")
  \/ Goes({"bid", "sent", "tracking", "complete"}, "home")
  \/ app.ride # 0 /\ Goes({"home"}, "tracking")

\* Done, with or without a rating, forgets the ride.
RateAndDone ==
  /\ app.at = "complete" /\ ToScreen([app EXCEPT !.at = "home", !.ended = "none"])
  /\ UNCHANGED <<hail, offers, pending, raCall, inbox, deaf, faults>>

\* A tapped notification opens its screen, whatever the store holds.
TapPush ==
  \/ (\E h \in Hails : hail[h] \in {"arrived", "started"}) /\ Goes({"home", "bid", "sent"}, "tracking")
  \/ (\E h \in Hails : hail[h] = "completed") /\ Goes({"home", "tracking"}, "complete")

ReadAnswer ==
  /\ raCall.got # "none" /\ raCall' = RaIdle
  /\ LET h == raCall.ride
         has == [app EXCEPT !.ride = h, !.status = "searching"] IN
     CASE raCall.op = "hail" ->
            ToScreen(IF app.at = "bid" THEN [has EXCEPT !.at = "tracking"] ELSE has)
            /\ UNCHANGED pending
       [] raCall.op = "offer" -> ToScreen([has EXCEPT !.at = "sent"]) /\ UNCHANGED pending
       [] raCall.op = "cancel" ->
            IF raCall.got = "ok" THEN ToScreen(Update(app, "cancelled"))
                                      /\ pending' = IF app.ride # 0 THEN 0 ELSE pending
            ELSE UNCHANGED <<app, wire, pending>>
       [] raCall.op \in {"yes", "no"} ->
            IF raCall.got = "refused" THEN UNCHANGED <<app, wire, pending>>
            ELSE /\ pending' = 0
                 /\ IF raCall.op = "yes" THEN ToScreen(Update(app, "accepted"))
                                         ELSE UNCHANGED <<app, wire>>
       [] raCall.op = "restore" ->
            /\ UNCHANGED pending
            /\ ToScreen(IF h = 0 THEN [app EXCEPT !.at = "home"]
                        ELSE [app EXCEPT !.at = "home", !.ride = h, !.status = raCall.got])
  /\ UNCHANGED <<hail, offers, inbox, deaf, faults>>

\* An alert, and everything as it was; a launch goes on to Home.
AnswerLost ==
  /\ raCall # RaIdle /\ raCall' = RaIdle /\ Fault
  /\ ToScreen(IF raCall.op = "restore" THEN [app EXCEPT !.at = "home"] ELSE app)
  /\ UNCHANGED <<hail, offers, pending, inbox, deaf>>

Restart ==
  /\ Fault
  /\ app' = [at |-> "start", ride |-> 0, status |-> "none", ended |-> "none", seen |-> 0]
  /\ pending' = 0 /\ raCall' = RaIdle /\ inbox' = <<>>
  /\ wire' = Connected /\ deaf' = (deaf \/ inbox # <<>>)
  /\ UNCHANGED <<hail, offers>>
RestoreRide == app.at = "start" /\ RaAsk("restore", 0)

-----------------------------------------------------------------------------
RiderNext ==
  \/ RequestRide \/ SubmitBid \/ TapCancelRide \/ TapCounterAnswer \/ ModalCloses \/ TryAgain
  \/ Navigate \/ RateAndDone \/ TapPush \/ Restart \/ RestoreRide
  \/ ServerReplies \/ ReadAnswer \/ AnswerLost \/ Hear \/ RoomJoined
  \/ SocketDrops \/ SocketReturns
  \/ \E h \in Hails : RideMoves(h)

Overdue(over) == /\ ~deaf /\ app.status \in Under
                 /\ \E h \in Hails : Newest(h) /\ app.ride = h /\ hail[h] \in over

\* A ride that ended, or found no driver, does not stay on the screen as a live
\* one: also across a reconnection or a restart the app hears of it, unless the
\* event fell into a time when it could not.
EndIsShown == Overdue({"completed", "noDrivers"}) ~> ~Overdue({"completed", "noDrivers"})

\* "trip:cancelled | Reason | Driver/system cancelled", an event from the server
\* to the rider (design/08-technical-architecture-part3.md): a ride its driver
\* cancels does not stay on the screen either.
CancelledIsShown == Overdue({"droppedByDriver"}) ~> ~Overdue({"droppedByDriver"})
=============================================================================
