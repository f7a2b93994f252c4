--------------------------- MODULE DriverPresence ---------------------------
(***************************************************************************)
(* Who counts as a driver on the road: one driver's app (switch, GPS fix,  *)
(* heartbeat, socket), the WebSocket gateway of auth-service, which runs   *)
(* as several tasks each with its own table of sockets, the availability   *)
(* handler of driver-service, and the two ways trip-service looks for a    *)
(* driver.  An offer is matched: the location key is read, then the        *)
(* drivers row.  A standard ride is broadcast to every open socket, and    *)
(* the row is read only when a driver asks for the ride.                   *)
(*                                                                         *)
(* The client loses a socket before the server notices.  The clean-up of a *)
(* closed socket is asynchronous: cleaning holds those still at work.      *)
(* drivers:geo is written next to each location key and never read; it is  *)
(* left out.                                                               *)
(***************************************************************************)
EXTENDS FaultBudget, FiniteSets

CONSTANTS
  Tasks,        \* tasks of auth-service behind the load balancer
  MaxSockets    \* bound: sockets the app opens

ASSUME PresenceAssumption == MaxSockets \in Nat

VARIABLES
  roadApp,      \* the app: switch, last GPS position, cached fix, heartbeat
  sock,         \* the app's connected socket, 0 if none
  userSockets,  \* the sockets each task lists for this driver
  opened,       \* sockets opened so far
  cleaning,     \* clean-ups of closed sockets
  avail,        \* the availability request in flight
  dutyRow,      \* the drivers row
  location,     \* driver:<id>:location exists
  suspending,   \* a suspension has written the row and not yet the location
  match,        \* one offer being matched
  offered,      \* for each offer sent: was the driver off duty throughout?
  incomingRequest, \* the app holds a standard request
  reply         \* the driver's answer at trip-service: suspended all the while?

prVars == <<roadApp, sock, userSockets, opened, cleaning, avail, dutyRow, location,
            suspending, match, offered, incomingRequest, reply>>
gateway == <<userSockets, opened, cleaning>>
rides == <<incomingRequest, reply>>
matching == <<match, offered, rides>>

Sockets == 1..MaxSockets
Cleanup == [socket : Sockets, last : BOOLEAN, at : {"log", "locate"}]
NoAvail == [at |-> "none", to |-> FALSE]
NoMatch == [at |-> "none", offDuty |-> FALSE]
NoReply == [at |-> "none", suspended |-> FALSE]

PresenceTypeOK ==
  /\ roadApp \in [online : BOOLEAN, seen : BOOLEAN, fix : BOOLEAN, beat : BOOLEAN]
  /\ sock \in 0..MaxSockets /\ opened \in 0..MaxSockets
  /\ userSockets \in [Tasks -> SUBSET Sockets]
  /\ cleaning \subseteq Cleanup
  /\ avail \in [at : {"none", "write", "locate", "answer"}, to : BOOLEAN]
  /\ dutyRow \in [available : BOOLEAN, approved : BOOLEAN]
  /\ location \in BOOLEAN
  /\ suspending \in BOOLEAN
  /\ match \in [at : {"none", "found"}, offDuty : BOOLEAN]
  /\ offered \subseteq BOOLEAN
  /\ incomingRequest \in BOOLEAN
  /\ reply \in [at : {"none", "check", "write"}, suspended : BOOLEAN]

PresenceInit ==
  /\ roadApp = [online |-> FALSE, seen |-> FALSE, fix |-> FALSE, beat |-> FALSE]
  /\ sock = 0 /\ opened = 0 /\ userSockets = [t \in Tasks |-> {}]
  /\ cleaning = {}
  /\ avail = NoAvail /\ dutyRow = [available |-> FALSE, approved |-> TRUE]
  /\ location = FALSE /\ suspending = FALSE
  /\ match = NoMatch /\ offered = {}
  /\ incomingRequest = FALSE /\ reply = NoReply

-----------------------------------------------------------------------------
(* The app                                                                 *)

(* mutant: a fix that arrives while the socket is down is thrown away      *)
CachesIfConnected == sock # 0
CachesFix == TRUE

\* The first position; a parked driver gets no other.
PositionArrives ==
  /\ roadApp.online /\ ~roadApp.seen
  /\ roadApp' = [roadApp EXCEPT !.seen = TRUE, !.fix = CachesFix]
  /\ UNCHANGED <<sock, gateway, avail, dutyRow, location, suspending, matching, faults>>

\* Once the movement watch runs, the heartbeat starts.
StartHeartbeat ==
  /\ roadApp.online /\ ~roadApp.beat
  /\ roadApp' = [roadApp EXCEPT !.beat = TRUE]
  /\ UNCHANGED <<sock, gateway, avail, dutyRow, location, suspending, matching, faults>>

\* handleDriverLocation looks at no status: whoever holds a socket is located.
Beat ==
  /\ roadApp.beat /\ roadApp.fix /\ sock # 0
  /\ location' = TRUE
  /\ UNCHANGED <<roadApp, sock, gateway, avail, dutyRow, suspending, matching, faults>>

ConnectSocket(t) ==
  /\ sock = 0 /\ opened < MaxSockets
  /\ sock' = opened + 1 /\ opened' = opened + 1
  /\ userSockets' = [userSockets EXCEPT ![t] = @ \cup {opened + 1}]
  /\ UNCHANGED <<roadApp, cleaning, avail, dutyRow, location, suspending, matching, faults>>

\* The network or the system closes the socket on the app's side.
LoseSocket ==
  /\ sock # 0 /\ sock' = 0
  /\ UNCHANGED <<roadApp, gateway, avail, dutyRow, location, suspending, matching, faults>>

\* Offered only while offline.
HubSignOut ==
  /\ ~roadApp.online /\ avail = NoAvail /\ sock # 0
  /\ sock' = 0 /\ roadApp' = [roadApp EXCEPT !.seen = FALSE, !.fix = FALSE, !.beat = FALSE]
  /\ UNCHANGED <<gateway, avail, dutyRow, location, suspending, matching, faults>>

-----------------------------------------------------------------------------
(* updateAvailability                                                      *)

Toggle ==
  /\ avail = NoAvail /\ dutyRow.approved
  /\ avail' = [at |-> "write", to |-> ~roadApp.online]
  /\ UNCHANGED <<roadApp, sock, gateway, dutyRow, location, suspending, matching, faults>>

\* Going online locates the driver only if the app knows where they are.
\* The row is written on what was read before: a suspension in between is lost.
WriteAvailable(located) ==
  /\ avail.at = "write"
  /\ dutyRow' = [dutyRow EXCEPT !.available = avail.to]
  /\ avail' = [avail EXCEPT !.at = IF avail.to /\ ~located THEN "answer" ELSE "locate"]
  /\ match' = [match EXCEPT !.offDuty = @ /\ ~(avail.to /\ dutyRow.approved)]
  /\ UNCHANGED <<roadApp, sock, gateway, location, suspending, offered, rides, faults>>

WriteLocation ==
  /\ avail.at = "locate"
  /\ location' = avail.to /\ avail' = [avail EXCEPT !.at = "answer"]
  /\ UNCHANGED <<roadApp, sock, gateway, dutyRow, suspending, matching, faults>>

\* The app shows the new state only when the answer comes.
ToggleAnswered ==
  /\ avail.at = "answer"
  /\ roadApp' = [roadApp EXCEPT !.online = avail.to, !.beat = @ /\ avail.to, !.seen = FALSE]
  /\ avail' = NoAvail
  /\ UNCHANGED <<sock, gateway, dutyRow, location, suspending, matching, faults>>

ToggleFails ==
  /\ avail # NoAvail /\ avail' = NoAvail /\ Fault
  /\ UNCHANGED <<roadApp, sock, gateway, dutyRow, location, suspending, matching>>

\* Nothing refreshes the key: the heartbeat is more frequent than its lifetime.
LocationLapses ==
  /\ location /\ ~(roadApp.beat /\ roadApp.fix /\ sock # 0)
  /\ location' = FALSE
  /\ UNCHANGED <<roadApp, sock, gateway, avail, dutyRow, suspending, matching, faults>>

-----------------------------------------------------------------------------
(* The gateway: handleDisconnect and its clean-up                          *)

\* The task counts the sockets it still lists, before any await.
SocketCloses(t, s) ==
  /\ s \in userSockets[t] /\ s # sock
  /\ userSockets' = [userSockets EXCEPT ![t] = @ \ {s}]
  /\ cleaning' = cleaning \cup
       {[socket |-> s, last |-> userSockets[t] = {s}, at |-> "log"]}
  /\ UNCHANGED <<roadApp, sock, opened, avail, dutyRow, location, suspending, matching, faults>>

Goes(c, at) == cleaning' = (cleaning \ {c}) \cup {[c EXCEPT !.at = at]}

\* Closing the session log and leaving the zone come first.
CloseLog(c) ==
  /\ c.at = "log"
  /\ IF c.last THEN Goes(c, "locate") ELSE cleaning' = cleaning \ {c}
  /\ UNCHANGED <<roadApp, sock, userSockets, opened, avail, dutyRow, location, suspending, matching,
                 faults>>

\* Evicted for the last socket of this task, whatever other tasks list.
EvictLocation(c) ==
  /\ c.at = "locate" /\ cleaning' = cleaning \ {c}
  /\ location' = FALSE
  /\ UNCHANGED <<roadApp, sock, userSockets, opened, avail, dutyRow, suspending,
                 matching, faults>>

-----------------------------------------------------------------------------
(* suspendDriver, and approveDriver for a driver suspended before          *)

SuspendDriver ==
  /\ ~suspending /\ suspending' = TRUE
  /\ dutyRow' = [available |-> FALSE, approved |-> FALSE]
  /\ UNCHANGED <<roadApp, sock, gateway, avail, location, matching, faults>>

ClearSuspended ==
  /\ suspending /\ suspending' = FALSE /\ location' = FALSE
  /\ UNCHANGED <<roadApp, sock, gateway, avail, dutyRow, matching, faults>>

\* A switch under way since before the suspension may have set available again.
ApproveAgain ==
  /\ ~dutyRow.approved
  /\ dutyRow' = [dutyRow EXCEPT !.approved = TRUE]
  /\ match' = [match EXCEPT !.offDuty = @ /\ ~dutyRow.available]
  /\ reply' = [reply EXCEPT !.suspended = FALSE]
  /\ UNCHANGED <<roadApp, sock, gateway, avail, location, suspending, offered, incomingRequest,
                 faults>>

-----------------------------------------------------------------------------
(* An offer ride: the candidates, then their rows                          *)

\* By a location key, or as one of the first of the airport queue.
FindNearby(queued) ==
  /\ match = NoMatch /\ (location \/ queued)
  /\ match' = [at |-> "found", offDuty |-> ~(dutyRow.available /\ dutyRow.approved)]
  /\ UNCHANGED <<roadApp, sock, gateway, avail, dutyRow, location, suspending, offered, rides, faults>>

(* mutant: a location key alone makes a driver eligible *)
LocatedIsEligible == TRUE
Eligible == dutyRow.available /\ dutyRow.approved

SendOffers ==
  /\ match.at = "found" /\ match' = NoMatch
  /\ offered' = IF Eligible THEN offered \cup {match.offDuty} ELSE offered
  /\ UNCHANGED <<roadApp, sock, gateway, avail, dutyRow, location, suspending, rides, faults>>

-----------------------------------------------------------------------------
(* A standard ride, and the answers of the driver                          *)

\* request:incoming goes to every socket; no row and no location is read.
BroadcastRequest ==
  /\ sock # 0 /\ incomingRequest' = TRUE
  /\ UNCHANGED <<roadApp, sock, gateway, avail, dutyRow, location, suspending, match, offered, reply,
                 faults>>

\* The card runs out, or the ride is cancelled.
RequestGone ==
  /\ incomingRequest /\ incomingRequest' = FALSE
  /\ UNCHANGED <<roadApp, sock, gateway, avail, dutyRow, location, suspending, match, offered, reply,
                 faults>>

\* Cards are shown while the switch is on.
TapReply ==
  /\ roadApp.online /\ reply = NoReply /\ (incomingRequest \/ offered # {})
  /\ reply' = [at |-> "check", suspended |-> ~dutyRow.approved]
  /\ UNCHANGED <<roadApp, sock, gateway, avail, dutyRow, location, suspending, match, offered,
                 incomingRequest, faults>>

\* acceptTrip and the bids' handlers ask for approval alone, not for availability.
ResolveDriver ==
  /\ reply.at = "check"
  /\ reply' = IF dutyRow.approved THEN [reply EXCEPT !.at = "write"] ELSE NoReply
  /\ UNCHANGED <<roadApp, sock, gateway, avail, dutyRow, location, suspending, match, offered,
                 incomingRequest, faults>>

\* The ride is claimed and written, unless another driver was quicker.
WriteReply ==
  /\ reply.at = "write" /\ reply' = NoReply /\ incomingRequest' = FALSE
  /\ UNCHANGED <<roadApp, sock, gateway, avail, dutyRow, location, suspending, match, offered, faults>>

-----------------------------------------------------------------------------
AvailStep ==
  (\E located \in BOOLEAN : WriteAvailable(located)) \/ WriteLocation \/ ToggleAnswered
CleanupStep(c) == CloseLog(c) \/ EvictLocation(c)

RoadNext ==
  \/ PositionArrives \/ StartHeartbeat \/ Beat \/ LoseSocket \/ HubSignOut
  \/ Toggle \/ AvailStep \/ ToggleFails \/ LocationLapses
  \/ SuspendDriver \/ ClearSuspended \/ ApproveAgain
  \/ \E t \in Tasks : ConnectSocket(t) \/ \E s \in Sockets : SocketCloses(t, s)
  \/ \E c \in cleaning : CleanupStep(c)
OfferNext == SendOffers \/ \E queued \in BOOLEAN : FindNearby(queued)
RequestNext == BroadcastRequest \/ RequestGone \/ TapReply \/ ResolveDriver \/ WriteReply

PresenceNext == RoadNext \/ OfferNext \/ RequestNext
PrSpec == PresenceInit /\ faults = 0 /\ [][PresenceNext]_<<prVars, faults>>

-----------------------------------------------------------------------------
\* A driver who is off duty from the moment an offer ride looks for drivers until
\* it has their rows is not offered it, although the location key may outlive the
\* duty: late heartbeats, late clean-ups and the airport queue all name such a
\* driver (findNearbyDriverUserIds).
OffDutyNotMatched == TRUE \notin offered

\* Everyone connected hears of a standard ride. A driver who was suspended before they
\* answered, and still is when the row is read, gets no further (acceptTrip, and
\* resolveDriver of the bids).
SuspendedGetNoFurther == reply.at = "write" => ~reply.suspended

\* Both of these: where each of the two ways to a driver reads the row.
DutyIsRead == OffDutyNotMatched /\ SuspendedGetNoFurther

\* Not so: a standard ride reaches only drivers the pickup zone has located
\* (dispatch.service.ts, publishDispatchRequest).
StaysInZone == [][BroadcastRequest => location]_prVars

\* A driver whose app stays online and connected is located again and again:
\* clean-ups of older sockets may remove the key, but the heartbeat puts it
\* back, also for a parked car whose only position arrived while the socket was
\* down (socket.store.ts, emitLocation and startHeartbeat).
OnlineStaysLocated ==
  <>[](roadApp.online /\ roadApp.seen /\ sock # 0) => []<>location
=============================================================================
