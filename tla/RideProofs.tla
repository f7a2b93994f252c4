----------------------------- MODULE RideProofs -----------------------------
(***************************************************************************)
(* Machine-checked facts about the ride around its dispatch and its        *)
(* payment, a section for each component.                                  *)
(***************************************************************************)
EXTENDS DriverPresence, Booking, Ratings, AirportQueue, FiniteSetTheorems, TLAPS

-----------------------------------------------------------------------------
(***************************************************************************)
(* DriverPresence, for any tasks, sockets and faults                       *)
(*                                                                         *)
(* The location key may name a driver who is off duty, and a standard ride *)
(* is heard by everyone. What follows rests on the row alone: a match that *)
(* still counts the driver as off duty is right (MatchKnows), an answer    *)
(* that still counts them as suspended is right (ReplyKnows), because      *)
(* every write of the row is seen by the match and the answer under way.   *)
(***************************************************************************)

\* A match that still counts the driver as off duty is right.
MatchKnows == match.offDuty => ~Eligible

\* An answer that still counts the driver as suspended is right.
ReplyKnows == reply.suspended => ~dutyRow.approved

\* The inductive invariant.
PrInv == PresenceTypeOK /\ MatchKnows /\ ReplyKnows /\ DutyIsRead

-----------------------------------------------------------------------------
LEMMA PrInitHolds == PresenceInit => PrInv
  <1> SUFFICES ASSUME PresenceInit PROVE PrInv
    OBVIOUS
  <1>1. NoAvail \in [at : {"none", "write", "locate", "answer"}, to : BOOLEAN]
    BY DEF NoAvail
  <1>2. NoMatch \in [at : {"none", "found"}, offDuty : BOOLEAN] /\ ~NoMatch.offDuty
    BY DEF NoMatch
  <1>3. /\ NoReply \in [at : {"none", "check", "write"}, suspended : BOOLEAN]
        /\ ~NoReply.suspended /\ NoReply.at = "none"
    BY DEF NoReply
  <1>4. 0 \in 0..MaxSockets
    BY PresenceAssumption
  <1>5. PresenceTypeOK
    BY <1>1, <1>2, <1>3, <1>4 DEF PresenceInit, PresenceTypeOK
  <1> QED
    BY <1>2, <1>3, <1>5
    DEF PresenceInit, PrInv, MatchKnows, ReplyKnows, DutyIsRead, OffDutyNotMatched,
        SuspendedGetNoFurther

\* The app, its socket and the gateway: neither the row, nor a match, nor an answer moves.
LEMMA RoadKeeps ==
  ASSUME PrInv,
         \/ PositionArrives \/ StartHeartbeat \/ Beat \/ LoseSocket \/ HubSignOut
         \/ Toggle \/ WriteLocation \/ ToggleAnswered \/ ToggleFails \/ LocationLapses
         \/ ClearSuspended
  PROVE  PrInv'
  <1>1. PresenceTypeOK
    BY DEF PrInv
  <1>2. UNCHANGED <<dutyRow, match, offered, incomingRequest, reply, opened, userSockets, cleaning>>
    BY DEF PositionArrives, StartHeartbeat, Beat, LoseSocket, HubSignOut, Toggle, WriteLocation,
           ToggleAnswered, ToggleFails, LocationLapses, ClearSuspended, gateway, matching, rides
  <1>3. roadApp' \in [online : BOOLEAN, seen : BOOLEAN, fix : BOOLEAN, beat : BOOLEAN]
    <2>1. CASE PositionArrives \/ StartHeartbeat \/ HubSignOut
      BY <1>1, <2>1 DEF PositionArrives, StartHeartbeat, HubSignOut, CachesFix, PresenceTypeOK
    <2>2. CASE ToggleAnswered
      BY <1>1, <2>2 DEF ToggleAnswered, PresenceTypeOK
    <2>3. CASE UNCHANGED roadApp
      BY <1>1, <2>3 DEF PresenceTypeOK
    <2> QED
      BY <2>1, <2>2, <2>3
      DEF Beat, LoseSocket, Toggle, WriteLocation, ToggleFails, LocationLapses, ClearSuspended
  <1>4. avail' \in [at : {"none", "write", "locate", "answer"}, to : BOOLEAN]
    <2>1. CASE Toggle
      <3>1. (~roadApp.online) \in BOOLEAN
        BY <1>1 DEF PresenceTypeOK
      <3> QED
        BY <2>1, <3>1 DEF Toggle
    <2>2. CASE WriteLocation
      BY <1>1, <2>2 DEF WriteLocation, PresenceTypeOK
    <2>3. CASE ToggleAnswered \/ ToggleFails
      <3>1. avail' = NoAvail
        BY <2>3 DEF ToggleAnswered, ToggleFails
      <3> QED
        BY <3>1 DEF NoAvail
    <2>4. CASE UNCHANGED avail
      BY <1>1, <2>4 DEF PresenceTypeOK
    <2> QED
      BY <2>1, <2>2, <2>3, <2>4
      DEF PositionArrives, StartHeartbeat, Beat, LoseSocket, HubSignOut, LocationLapses,
          ClearSuspended
  <1>5. location' \in BOOLEAN
    <2>1. CASE WriteLocation
      <3>1. avail.to \in BOOLEAN
        BY <1>1 DEF PresenceTypeOK
      <3> QED
        BY <2>1, <3>1 DEF WriteLocation
    <2>2. CASE Beat \/ LocationLapses \/ ClearSuspended
      BY <2>2 DEF Beat, LocationLapses, ClearSuspended
    <2>3. CASE UNCHANGED location
      BY <1>1, <2>3 DEF PresenceTypeOK
    <2> QED
      BY <2>1, <2>2, <2>3
      DEF PositionArrives, StartHeartbeat, LoseSocket, HubSignOut, Toggle, ToggleAnswered,
          ToggleFails
  <1>6. sock' \in 0..MaxSockets /\ suspending' \in BOOLEAN
    <2>1. sock' = sock \/ sock' = 0
      BY DEF PositionArrives, StartHeartbeat, Beat, LoseSocket, HubSignOut, Toggle, WriteLocation,
             ToggleAnswered, ToggleFails, LocationLapses, ClearSuspended
    <2>2. suspending' = suspending \/ suspending' = FALSE
      BY DEF PositionArrives, StartHeartbeat, Beat, LoseSocket, HubSignOut, Toggle, WriteLocation,
             ToggleAnswered, ToggleFails, LocationLapses, ClearSuspended
    <2>3. suspending' \in BOOLEAN
      BY <1>1, <2>2 DEF PresenceTypeOK
    <2> QED
      BY <1>1, <2>1, <2>3, PresenceAssumption DEF PresenceTypeOK
  <1>7. PresenceTypeOK'
    BY <1>1, <1>2, <1>3, <1>4, <1>5, <1>6 DEF PresenceTypeOK
  <1> QED
    BY <1>2, <1>7
    DEF PrInv, MatchKnows, ReplyKnows, Eligible, DutyIsRead, OffDutyNotMatched,
        SuspendedGetNoFurther

LEMMA GatewayKeeps ==
  ASSUME PrInv,
         \/ \E t \in Tasks : ConnectSocket(t) \/ \E s \in Sockets : SocketCloses(t, s)
         \/ \E c \in cleaning : CleanupStep(c)
  PROVE  PrInv'
  <1>1. PresenceTypeOK /\ (opened < MaxSockets => opened + 1 \in Sockets /\ opened + 1 \in 0..MaxSockets)
    BY PresenceAssumption DEF PrInv, PresenceTypeOK, Sockets
  <1>2. UNCHANGED <<roadApp, avail, dutyRow, suspending, match, offered, incomingRequest, reply>>
    BY DEF ConnectSocket, SocketCloses, CleanupStep, CloseLog, EvictLocation, matching, rides
  <1>3. cleaning' \subseteq Cleanup
    <2>1. ASSUME NEW c \in cleaning
          PROVE  [c EXCEPT !.at = "locate"] \in Cleanup
      BY <1>1 DEF PresenceTypeOK, Cleanup
    <2>2. ASSUME NEW c \in cleaning, CleanupStep(c) PROVE cleaning' \subseteq Cleanup
      BY <1>1, <2>1, <2>2 DEF CleanupStep, CloseLog, EvictLocation, Goes, PresenceTypeOK
    <2>3. ASSUME NEW t \in Tasks, NEW s \in Sockets, SocketCloses(t, s)
          PROVE  cleaning' \subseteq Cleanup
      <3>1. [socket |-> s, last |-> userSockets[t] = {s}, at |-> "log"] \in Cleanup
        BY DEF Cleanup
      <3> QED
        BY <1>1, <2>3, <3>1 DEF SocketCloses, PresenceTypeOK
    <2>4. ASSUME NEW t \in Tasks, ConnectSocket(t) PROVE cleaning' \subseteq Cleanup
      BY <1>1, <2>4 DEF ConnectSocket, PresenceTypeOK
    <2> QED
      BY <2>2, <2>3, <2>4
  <1>4. /\ sock' \in 0..MaxSockets /\ opened' \in 0..MaxSockets
        /\ userSockets' \in [Tasks -> SUBSET Sockets] /\ location' \in BOOLEAN
    <2>1. CASE \E t \in Tasks : ConnectSocket(t)
      BY <1>1, <2>1 DEF ConnectSocket, PresenceTypeOK
    <2>2. CASE \E t \in Tasks, s \in Sockets : SocketCloses(t, s)
      BY <1>1, <2>2 DEF SocketCloses, PresenceTypeOK
    <2>3. CASE \E c \in cleaning : CleanupStep(c)
      BY <1>1, <2>3 DEF CleanupStep, CloseLog, EvictLocation, PresenceTypeOK
    <2> QED
      BY <2>1, <2>2, <2>3
  <1>5. PresenceTypeOK'
    BY <1>1, <1>2, <1>3, <1>4 DEF PresenceTypeOK
  <1> QED
    BY <1>2, <1>5
    DEF PrInv, MatchKnows, ReplyKnows, Eligible, DutyIsRead, OffDutyNotMatched,
        SuspendedGetNoFurther

\* The row of the driver is written, by the switch or by an administrator.
LEMMA DutyKeeps ==
  ASSUME PrInv,
         \/ \E withFix \in BOOLEAN : WriteAvailable(withFix)
         \/ SuspendDriver \/ ApproveAgain
  PROVE  PrInv'
  <1>1. /\ PresenceTypeOK /\ MatchKnows /\ ReplyKnows /\ DutyIsRead
        /\ match \in [at : {"none", "found"}, offDuty : BOOLEAN]
        /\ reply \in [at : {"none", "check", "write"}, suspended : BOOLEAN]
        /\ dutyRow \in [available : BOOLEAN, approved : BOOLEAN]
        /\ avail \in [at : {"none", "write", "locate", "answer"}, to : BOOLEAN]
    BY DEF PrInv, PresenceTypeOK
  <1>2. UNCHANGED <<roadApp, sock, gateway, location, offered, incomingRequest>>
    BY DEF WriteAvailable, SuspendDriver, ApproveAgain, matching, rides
  <1>3. ASSUME NEW withFix \in BOOLEAN, WriteAvailable(withFix) PROVE PrInv'
    <2>1. /\ dutyRow' \in [available : BOOLEAN, approved : BOOLEAN]
          /\ dutyRow'.available = avail.to /\ dutyRow'.approved = dutyRow.approved
      BY <1>1, <1>3 DEF WriteAvailable
    <2>2. /\ match' \in [at : {"none", "found"}, offDuty : BOOLEAN]
          /\ match'.offDuty = (match.offDuty /\ ~(avail.to /\ dutyRow.approved))
      BY <1>1, <1>3 DEF WriteAvailable
    <2>3. avail' \in [at : {"none", "write", "locate", "answer"}, to : BOOLEAN]
      BY <1>1, <1>3 DEF WriteAvailable
    <2>4. PresenceTypeOK' /\ UNCHANGED <<offered, reply>>
      BY <1>1, <1>2, <1>3, <2>1, <2>2, <2>3 DEF WriteAvailable, PresenceTypeOK, gateway, rides
    <2>5. MatchKnows' /\ ReplyKnows'
      BY <1>1, <2>1, <2>2, <2>4 DEF MatchKnows, ReplyKnows, Eligible
    <2> QED
      BY <1>1, <2>4, <2>5 DEF PrInv, DutyIsRead, OffDutyNotMatched, SuspendedGetNoFurther
  <1>4. CASE SuspendDriver
    <2>1. /\ dutyRow' = [available |-> FALSE, approved |-> FALSE] /\ suspending' = TRUE
          /\ UNCHANGED <<match, reply, avail>>
      BY <1>4 DEF SuspendDriver, matching, rides
    <2>2. PresenceTypeOK'
      BY <1>1, <1>2, <2>1 DEF PresenceTypeOK, gateway
    <2>3. MatchKnows' /\ ReplyKnows'
      BY <2>1 DEF MatchKnows, ReplyKnows, Eligible
    <2> QED
      BY <1>1, <1>2, <2>1, <2>2, <2>3
      DEF PrInv, DutyIsRead, OffDutyNotMatched, SuspendedGetNoFurther
  <1>5. CASE ApproveAgain
    <2>1. /\ dutyRow' \in [available : BOOLEAN, approved : BOOLEAN]
          /\ dutyRow'.approved /\ dutyRow'.available = dutyRow.available
          /\ match' \in [at : {"none", "found"}, offDuty : BOOLEAN]
          /\ match'.offDuty = (match.offDuty /\ ~dutyRow.available)
          /\ reply' \in [at : {"none", "check", "write"}, suspended : BOOLEAN]
          /\ ~reply'.suspended
          /\ UNCHANGED <<suspending, avail>>
      BY <1>1, <1>5 DEF ApproveAgain
    <2>2. PresenceTypeOK'
      BY <1>1, <1>2, <2>1 DEF PresenceTypeOK, gateway
    <2>3. MatchKnows' /\ ReplyKnows'
      BY <2>1 DEF MatchKnows, ReplyKnows, Eligible
    <2> QED
      BY <1>1, <1>2, <2>1, <2>2, <2>3
      DEF PrInv, DutyIsRead, OffDutyNotMatched, SuspendedGetNoFurther
  <1> QED
    BY <1>3, <1>4, <1>5

\* The row is read for the drivers an offer ride has found.
LEMMA OffersKeep ==
  ASSUME PrInv, OfferNext
  PROVE  PrInv'
  <1>1. /\ PresenceTypeOK /\ MatchKnows /\ ReplyKnows /\ DutyIsRead
        /\ match \in [at : {"none", "found"}, offDuty : BOOLEAN]
        /\ dutyRow \in [available : BOOLEAN, approved : BOOLEAN]
    BY DEF PrInv, PresenceTypeOK
  <1>2. /\ UNCHANGED <<roadApp, sock, gateway, avail, dutyRow, location, suspending>>
        /\ UNCHANGED <<incomingRequest, reply>>
    BY DEF OfferNext, SendOffers, FindNearby, rides
  <1>3. /\ match' \in [at : {"none", "found"}, offDuty : BOOLEAN] /\ (match'.offDuty => ~Eligible)
        /\ offered' \subseteq offered \cup {FALSE}
    <2>1. ASSUME NEW queued \in BOOLEAN, FindNearby(queued)
          PROVE  match' = [at |-> "found", offDuty |-> ~Eligible] /\ UNCHANGED offered
      BY <2>1 DEF FindNearby, Eligible
    <2>2. CASE \E queued \in BOOLEAN : FindNearby(queued)
      <3>1. match' = [at |-> "found", offDuty |-> ~Eligible] /\ UNCHANGED offered
        BY <2>1, <2>2
      <3> QED
        BY <3>1
    <2>3. CASE SendOffers
      <3>1. match' = NoMatch /\ offered' \subseteq offered \cup {FALSE}
        BY <1>1, <2>3 DEF SendOffers, MatchKnows
      <3> QED
        BY <3>1 DEF NoMatch
    <2> QED
      BY <2>2, <2>3 DEF OfferNext
  <1>4. PresenceTypeOK'
    <2>1. offered' \subseteq BOOLEAN
      BY <1>1, <1>3 DEF PresenceTypeOK
    <2> QED
      BY <1>1, <1>2, <1>3, <2>1 DEF PresenceTypeOK, gateway
  <1>5. MatchKnows' /\ ReplyKnows'
    BY <1>1, <1>2, <1>3 DEF MatchKnows, ReplyKnows, Eligible
  <1> QED
    BY <1>1, <1>2, <1>3, <1>4, <1>5
    DEF PrInv, DutyIsRead, OffDutyNotMatched, SuspendedGetNoFurther

\* The row is read for the driver who answers.
LEMMA RequestsKeep ==
  ASSUME PrInv, RequestNext
  PROVE  PrInv'
  <1>1. /\ PresenceTypeOK /\ MatchKnows /\ ReplyKnows /\ DutyIsRead
        /\ reply \in [at : {"none", "check", "write"}, suspended : BOOLEAN]
        /\ dutyRow \in [available : BOOLEAN, approved : BOOLEAN]
    BY DEF PrInv, PresenceTypeOK
  <1>2. /\ UNCHANGED <<roadApp, sock, gateway, avail, dutyRow, location, suspending>>
        /\ UNCHANGED <<match, offered>>
    BY DEF RequestNext, BroadcastRequest, RequestGone, TapReply, ResolveDriver, WriteReply
  <1>3. incomingRequest' \in BOOLEAN
    BY <1>1
    DEF RequestNext, BroadcastRequest, RequestGone, TapReply, ResolveDriver, WriteReply,
        PresenceTypeOK
  <1>4. /\ reply' \in [at : {"none", "check", "write"}, suspended : BOOLEAN]
        /\ reply'.suspended => ~dutyRow.approved
        /\ reply'.at = "write" => ~reply'.suspended
    <2>1. /\ NoReply \in [at : {"none", "check", "write"}, suspended : BOOLEAN]
          /\ ~NoReply.suspended /\ NoReply.at # "write"
      BY DEF NoReply
    <2>2. CASE BroadcastRequest \/ RequestGone
      BY <1>1, <2>2
      DEF BroadcastRequest, RequestGone, ReplyKnows, DutyIsRead, SuspendedGetNoFurther
    <2>3. CASE TapReply
      <3>1. reply' = [at |-> "check", suspended |-> ~dutyRow.approved]
        BY <2>3 DEF TapReply
      <3> QED
        BY <3>1
    <2>4. CASE ResolveDriver
      <3>1. CASE dutyRow.approved
        <4>1. reply' = [reply EXCEPT !.at = "write"] /\ ~reply.suspended
          BY <1>1, <2>4, <3>1 DEF ResolveDriver, ReplyKnows
        <4> QED
          BY <1>1, <4>1
      <3>2. CASE ~dutyRow.approved
        BY <2>1, <2>4, <3>2 DEF ResolveDriver
      <3> QED
        BY <3>1, <3>2
    <2>5. CASE WriteReply
      BY <2>1, <2>5 DEF WriteReply
    <2> QED
      BY <2>2, <2>3, <2>4, <2>5 DEF RequestNext
  <1>5. PresenceTypeOK'
    BY <1>1, <1>2, <1>3, <1>4 DEF PresenceTypeOK, gateway
  <1>6. MatchKnows' /\ ReplyKnows'
    BY <1>1, <1>2, <1>4 DEF MatchKnows, ReplyKnows, Eligible
  <1> QED
    BY <1>1, <1>2, <1>4, <1>5, <1>6
    DEF PrInv, DutyIsRead, OffDutyNotMatched, SuspendedGetNoFurther

-----------------------------------------------------------------------------
THEOREM PrInvariantHolds == PrSpec => []PrInv
  <1>1. PrInv /\ [PresenceNext]_<<prVars, faults>> => PrInv'
    <2>1. ASSUME PrInv, UNCHANGED <<prVars, faults>> PROVE PrInv'
      <3>1. PresenceTypeOK'
        BY <2>1 DEF prVars, PrInv, PresenceTypeOK
      <3>2. MatchKnows'
        BY <2>1 DEF prVars, PrInv, MatchKnows, Eligible
      <3>3. ReplyKnows' /\ DutyIsRead'
        BY <2>1
        DEF prVars, PrInv, ReplyKnows, DutyIsRead, OffDutyNotMatched, SuspendedGetNoFurther
      <3> QED
        BY <3>1, <3>2, <3>3 DEF PrInv
    <2>2. ASSUME PrInv, RoadNext PROVE PrInv'
      BY <2>2, RoadKeeps, GatewayKeeps, DutyKeeps DEF RoadNext, AvailStep
    <2> QED
      BY <2>1, <2>2, OffersKeep, RequestsKeep DEF PresenceNext
  <1> QED
    BY <1>1, PrInitHolds, PTL DEF PrSpec

\* The app, the sockets, the clean-ups, the row, the match and the answer have their types.
THEOREM PresenceTypeCorrect == PrSpec => []PresenceTypeOK
  <1>1. PrInv => PresenceTypeOK
    BY DEF PrInv
  <1> QED
    BY <1>1, PrInvariantHolds, PTL

\* For any tasks and sockets: a driver who is off duty throughout the matching of an
\* offer ride is not offered it, whatever the location key says
\* (findNearbyDriverUserIds); and a driver who answers while suspended, having heard
\* of a standard ride like everyone who is connected, gets no further than the row
\* (acceptTrip).
THEOREM DutyDecides == PrSpec => []DutyIsRead
  <1>1. PrInv => DutyIsRead
    BY DEF PrInv
  <1> QED
    BY <1>1, PrInvariantHolds, PTL

-----------------------------------------------------------------------------
(***************************************************************************)
(* Booking, for any places, distances, answers of ai-service and faults    *)
(*                                                                         *)
(* The quote and the fare are computed at two times by two programs. Both  *)
(* are FareOf of the same ride in the same world and one answer of ai-     *)
(* service each (QuoteRight, OrderPriced), and two such fares are near     *)
(* each other (FaresNear). That it is the same ride holds as long as no    *)
(* address changed under an estimate: the estimates under way and the      *)
(* quote shown are for the two addresses on the screen (OnScreen).         *)
(***************************************************************************)

\* A quote is what pricing-service asked for its two places, and for the ride of the
\* order, with some answer of ai-service.
QuoteRight(q) ==
  /\ q.from \in Places /\ q.to \in Places
  /\ \E answer \in AiAnswers :
       q.amount = FareOf(Miles[{q.from, q.to}], QuotedAsAirport(q.from, q.to), q.night, q.demand,
                         answer)
OrderPriced ==
  \E answer \in AiAnswers :
    order.amount = FareOf(Miles[{order.from, order.to}], DetectAirportTrip(order.from, order.to),
                          order.night, order.demand, answer)

FareRight == fare # NoQuote => QuoteRight(fare)

\* As long as no address changed under an estimate, the quote on the screen and the
\* estimates under way are for the two addresses on the screen.
OnScreen ==
  ~crossed =>
    /\ \A e \in estimates : e.from = pickup /\ e.to = dropoff
    /\ fare # NoQuote => fare.from = pickup /\ fare.to = dropoff

OrderRight ==
  /\ order.at # "none" =>
       /\ order.from \in Places /\ order.to \in Places /\ QuoteRight(order.quote)
       /\ ~crossed => order.quote.from = order.from /\ order.quote.to = order.to
  /\ order.at = "made" => OrderPriced

\* The inductive invariant.
BkInv == BookingTypeOK /\ FareRight /\ OnScreen /\ OrderRight

-----------------------------------------------------------------------------
\* Whatever ai-service answers, it moves a fare by its cap at most.
LEMMA AdjustmentCapped ==
  ASSUME NEW answer \in AiAnswers
  PROVE  /\ Adjustment(answer) \in Int
         /\ Adjustment(answer) <= AdjustmentCap /\ -AdjustmentCap <= Adjustment(answer)
  <1>1. CASE answer = <<>>
    BY <1>1 DEF Adjustment, AdjustmentCap
  <1>2. CASE answer # <<>>
    <2>1. answer[1] \in Int
      BY <1>2, BookingAssumption
    <2> QED
      BY <1>2, <2>1 DEF Adjustment, AdjustmentCap
  <1> QED
    BY <1>1, <1>2

LEMMA RawFareInt ==
  ASSUME NEW miles \in Nat, NEW airport, NEW late, NEW half \in {0, 2}
  PROVE  RawFare(miles, airport, late, half) \in Int
  <1> DEFINE sum == BaseFare + PerMile * miles + PerMinute * Minutes(miles)
                    + (IF airport THEN AirportPremium ELSE 0) + (IF late THEN NightPremium ELSE 0)
  <1>1. sum \in Int
    BY DEF BaseFare, PerMile, PerMinute, Minutes, AirportPremium, NightPremium
  <1>2. SurgeTenths(half) = 10 \/ SurgeTenths(half) = 14
    BY DEF SurgeTenths
  <1> HIDE DEF sum
  <1>3. sum * SurgeTenths(half) + 5 \in Int
    BY <1>1, <1>2
  <1>4. (sum * SurgeTenths(half) + 5) \div 10 \in Int
    BY <1>3
  <1> QED
    BY <1>4 DEF RawFare, sum

\* Two fares of the same ride in the same world differ by what ai-service may add.
LEMMA FaresNear ==
  ASSUME NEW miles \in Nat, NEW airport, NEW late, NEW half \in {0, 2},
         NEW a \in AiAnswers, NEW b \in AiAnswers
  PROVE  /\ FareOf(miles, airport, late, half, a) \in Int
         /\ Near(FareOf(miles, airport, late, half, a), FareOf(miles, airport, late, half, b))
  <1> DEFINE raw == RawFare(miles, airport, late, half)
  <1>1. raw \in Int
    BY RawFareInt
  <1>2. Adjustment(a) \in Int /\ Adjustment(a) <= 200 /\ -200 <= Adjustment(a)
    BY AdjustmentCapped DEF AdjustmentCap
  <1>3. Adjustment(b) \in Int /\ Adjustment(b) <= 200 /\ -200 <= Adjustment(b)
    BY AdjustmentCapped DEF AdjustmentCap
  <1> HIDE DEF raw
  <1>4. /\ FareOf(miles, airport, late, half, a)
             = IF raw + Adjustment(a) < MinimumFare THEN MinimumFare ELSE raw + Adjustment(a)
        /\ FareOf(miles, airport, late, half, b)
             = IF raw + Adjustment(b) < MinimumFare THEN MinimumFare ELSE raw + Adjustment(b)
    BY DEF FareOf, raw
  <1> QED
    BY <1>1, <1>2, <1>3, <1>4 DEF Near, AdjustmentCap, MinimumFare

\* The app and trip-service find an airport in the same two places.
LEMMA SameAirport ==
  ASSUME NEW from, NEW to
  PROVE  DetectAirportTrip(from, to) <=> QuotedAsAirport(from, to)
  BY DEF DetectAirportTrip, QuotedAsAirport, IsAirportEndpoint

LEMMA BkInitHolds == BookingInit => BkInv
  <1> SUFFICES ASSUME BookingInit PROVE BkInv
    OBVIOUS
  <1>1. NoQuote \in Quotes
    BY DEF NoQuote, Quotes, Somewhere
  <1>2. NoOrder \in [at : {"none", "asked", "made"}, from : Somewhere, to : Somewhere,
                     quote : Quotes, amount : Int, demand : {0, 2}, night : BOOLEAN]
    BY <1>1 DEF NoOrder, Somewhere
  <1>3. 0 \in 0..MaxTexts /\ 0 \in 0..MaxPicks
    BY BookingAssumption
  <1>4. Closed \in [name : Names, text : 0..MaxTexts, list : 0..MaxTexts, timer : BOOLEAN]
    BY <1>3 DEF Closed, Names
  <1>5. BookingTypeOK
    BY <1>1, <1>2, <1>3, <1>4 DEF BookingInit, BookingTypeOK, Somewhere
  <1>6. FareRight /\ OnScreen
    BY DEF BookingInit, FareRight, OnScreen
  <1>7. OrderRight
    BY DEF BookingInit, OrderRight, NoOrder
  <1> QED
    BY <1>5, <1>6, <1>7 DEF BkInv

-----------------------------------------------------------------------------
(* The two address fields: what is typed, suggested and looked up.          *)
FieldStep ==
  \/ \E name \in {"pickup", "dropoff"} : OpenField(name)
  \/ CloseField \/ FetchSuggestions \/ \E short \in BOOLEAN : Type(short)
  \/ \E s \in suggesting, found \in BOOLEAN : Suggested(s, found)
  \/ \E p \in Places : TapSuggestion(p)
  \/ \E l \in lookups : GetPlaceCoordinates(l) \/ LookupFails(l)

LEMMA FieldKeeps ==
  ASSUME BkInv, FieldStep
  PROVE  BkInv'
  <1>1. BookingTypeOK /\ FareRight /\ OnScreen /\ OrderRight
    BY DEF BkInv
  <1>2. UNCHANGED <<pickup, dropoff, located, atAirport, estimates, fare, sheet, demand, night,
                    order, crossed>>
    BY DEF FieldStep, OpenField, CloseField, FetchSuggestions, Type, Suggested, TapSuggestion,
           GetPlaceCoordinates, LookupFails
  <1>3. /\ field \in [name : Names, text : 0..MaxTexts, list : 0..MaxTexts, timer : BOOLEAN]
        /\ typed \in 0..MaxTexts /\ suggesting \subseteq [name : Names, text : 0..MaxTexts]
        /\ 0 \in 0..MaxTexts
    BY <1>1, BookingAssumption DEF BookingTypeOK
  <1>4. Closed \in [name : Names, text : 0..MaxTexts, list : 0..MaxTexts, timer : BOOLEAN]
    BY <1>3 DEF Closed, Names
  <1>5. /\ field' \in [name : Names, text : 0..MaxTexts, list : 0..MaxTexts, timer : BOOLEAN]
        /\ typed' \in 0..MaxTexts /\ suggesting' \subseteq [name : Names, text : 0..MaxTexts]
    <2>1. CASE \E name \in {"pickup", "dropoff"} : OpenField(name)
      <3>1. PICK name \in {"pickup", "dropoff"} : OpenField(name)
        BY <2>1
      <3>2. [Closed EXCEPT !.name = name]
              \in [name : Names, text : 0..MaxTexts, list : 0..MaxTexts, timer : BOOLEAN]
        BY <1>3 DEF Closed, Names
      <3> QED
        BY <1>3, <3>1, <3>2 DEF OpenField
    <2>2. CASE CloseField
      BY <1>3, <1>4, <2>2 DEF CloseField
    <2>3. CASE FetchSuggestions
      <3>1. [name |-> field.name, text |-> field.text] \in [name : Names, text : 0..MaxTexts]
        BY <1>3
      <3>2. suggesting' \subseteq [name : Names, text : 0..MaxTexts] /\ UNCHANGED typed
        BY <1>3, <2>3, <3>1 DEF FetchSuggestions
      <3>3. field' = [field EXCEPT !.timer = FALSE]
        BY <2>3 DEF FetchSuggestions
      <3> QED
        BY <1>3, <3>2, <3>3
    <2>4. CASE \E short \in BOOLEAN : Type(short)
      <3>1. PICK short \in BOOLEAN : Type(short)
        BY <2>4
      <3>2. typed' \in 0..MaxTexts
        BY <1>3, <3>1, BookingAssumption DEF Type
      <3>3. (IF short THEN 0 ELSE typed') \in 0..MaxTexts /\ (~short) \in BOOLEAN
        BY <1>3, <3>2
      <3> QED
        BY <1>3, <3>1, <3>2, <3>3 DEF Type
    <2>5. CASE \E s \in suggesting, found \in BOOLEAN : Suggested(s, found)
      <3>1. PICK s \in suggesting, found \in BOOLEAN : Suggested(s, found)
        BY <2>5
      <3>2. (IF found THEN s.text ELSE 0) \in 0..MaxTexts
        BY <1>3
      <3> QED
        BY <1>3, <3>1, <3>2 DEF Suggested
    <2>6. CASE UNCHANGED search
      BY <1>3, <2>6 DEF search
    <2> QED
      BY <2>1, <2>2, <2>3, <2>4, <2>5, <2>6
      DEF FieldStep, TapSuggestion, GetPlaceCoordinates, LookupFails, search
  <1>6. /\ lookups' \subseteq [name : Names, place : Places, pickup : Somewhere,
                               dropoff : Somewhere, at : {"asked", "found"}]
        /\ placed' \subseteq Places /\ picks' \in 0..MaxPicks
    <2>1. CASE \E p \in Places : TapSuggestion(p)
      <3>1. PICK p \in Places : TapSuggestion(p)
        BY <2>1
      <3>2. [name |-> field.name, place |-> p, pickup |-> pickup, dropoff |-> dropoff,
             at |-> "asked"]
              \in [name : Names, place : Places, pickup : Somewhere, dropoff : Somewhere,
                   at : {"asked", "found"}]
        BY <1>1, <1>3 DEF BookingTypeOK
      <3> QED
        BY <1>1, <3>1, <3>2, BookingAssumption DEF TapSuggestion, Picks, BookingTypeOK
    <2>2. CASE \E l \in lookups : GetPlaceCoordinates(l)
      BY <1>1, <2>2 DEF GetPlaceCoordinates, BookingTypeOK
    <2>3. CASE \E l \in lookups : LookupFails(l)
      BY <1>1, <2>3 DEF LookupFails, BookingTypeOK
    <2>4. CASE UNCHANGED <<lookups, placed, picks>>
      BY <1>1, <2>4 DEF BookingTypeOK
    <2> QED
      BY <2>1, <2>2, <2>3, <2>4
      DEF FieldStep, OpenField, CloseField, FetchSuggestions, Type, Suggested
  <1>7. BookingTypeOK'
    BY <1>1, <1>2, <1>5, <1>6 DEF BookingTypeOK
  <1> QED
    BY <1>1, <1>2, <1>7 DEF BkInv, FareRight, OnScreen, OrderRight, QuoteRight, OrderPriced

(* A place comes to one of the two addresses.                               *)
LEMMA AddressKeeps ==
  ASSUME BkInv, NEW name, NEW p \in Places, NEW seen \in Somewhere, Resolved(name, p, seen)
  PROVE  /\ pickup' \in Somewhere /\ dropoff' \in Somewhere /\ atAirport' \in Somewhere
         /\ estimates' \subseteq [from : Places, to : Places] /\ fare' \in Quotes
         /\ crossed' \in BOOLEAN /\ (crossed => crossed')
         /\ FareRight' /\ OnScreen'
  <1>1. BookingTypeOK /\ FareRight /\ OnScreen
    BY DEF BkInv
  <1>2. NoQuote \in Quotes
    BY DEF NoQuote, Quotes, Somewhere
  <1>3. CASE SetPickup(p)
    BY <1>1, <1>2, <1>3 DEF SetPickup, QuoteGone, BookingTypeOK, Somewhere, FareRight, OnScreen
  <1>4. CASE Finalize(p, seen) /\ UNCHANGED atAirport
    <2>1. seen # NoPlace => [from |-> seen, to |-> p] \in [from : Places, to : Places]
      BY DEF Somewhere
    <2>2. estimates' \subseteq [from : Places, to : Places]
      BY <1>1, <1>4, <2>1 DEF Finalize, BookingTypeOK
    <2>3. OnScreen'
      <3>1. SUFFICES ASSUME ~crossed'
                     PROVE  /\ \A e \in estimates' : e.from = pickup' /\ e.to = dropoff'
                            /\ fare' = NoQuote
        BY DEF OnScreen
      <3>2. estimates = {} /\ seen = pickup /\ fare' = NoQuote /\ pickup' = pickup /\ dropoff' = p
        BY <1>4, <3>1 DEF Finalize, QuoteGone
      <3>3. estimates' \subseteq {[from |-> seen, to |-> p]}
        BY <1>4, <3>2 DEF Finalize
      <3> QED
        BY <3>2, <3>3
    <2> QED
      BY <1>1, <1>2, <1>4, <2>2, <2>3 DEF Finalize, QuoteGone, BookingTypeOK, Somewhere, FareRight
  <1>5. CASE atAirport' = p /\ UNCHANGED <<pickup, dropoff, estimates, fare, crossed>>
    BY <1>1, <1>5
    DEF BookingTypeOK, Somewhere, FareRight, OnScreen, QuoteRight
  <1> QED
    BY <1>3, <1>4, <1>5 DEF Resolved, SetDropoff

\* An address is settled, by a search, by the list of known ones, or by the phone.
AddressStep ==
  \/ \E l \in lookups : SelectApi(l)
  \/ \E p \in Places : SelectKnown(p)
  \/ SelectTerminal \/ LocationArrives

LEMMA AddressStepKeeps ==
  ASSUME BkInv, AddressStep
  PROVE  BkInv'
  <1>1. BookingTypeOK /\ FareRight /\ OnScreen /\ OrderRight
    BY DEF BkInv
  <1>2. UNCHANGED <<typed, placed, sheet, demand, night, order>>
    BY DEF AddressStep, SelectApi, SelectKnown, SelectTerminal, LocationArrives, search
  <1>3. /\ picks' \in 0..MaxPicks /\ lookups' \subseteq lookups /\ suggesting' \subseteq suggesting
        /\ located' \in BOOLEAN
    <2>1. UNCHANGED picks \/ Picks
      BY DEF AddressStep, SelectApi, SelectKnown, SelectTerminal, LocationArrives
    <2>2. lookups' \subseteq lookups
      BY DEF AddressStep, SelectApi, SelectKnown, SelectTerminal, LocationArrives
    <2>3. suggesting' = suggesting \/ suggesting' = StillAsked
      BY DEF AddressStep, SelectApi, SelectKnown, SelectTerminal, LocationArrives, search
    <2>4. UNCHANGED located \/ located' = TRUE
      BY DEF AddressStep, SelectApi, SelectKnown, SelectTerminal, LocationArrives
    <2>5. picks' \in 0..MaxPicks
      BY <1>1, <2>1, BookingAssumption DEF Picks, BookingTypeOK
    <2>6. suggesting' \subseteq suggesting
      BY <2>3 DEF StillAsked
    <2>7. located' \in BOOLEAN
      BY <1>1, <2>4 DEF BookingTypeOK
    <2> QED
      BY <2>2, <2>5, <2>6, <2>7
  <1>4. field' \in [name : Names, text : 0..MaxTexts, list : 0..MaxTexts, timer : BOOLEAN]
    <2>1. Closed \in [name : Names, text : 0..MaxTexts, list : 0..MaxTexts, timer : BOOLEAN]
      BY BookingAssumption DEF Closed, Names
    <2>2. field' = field \/ field' = Closed
      BY DEF AddressStep, SelectApi, SelectKnown, SelectTerminal, LocationArrives, search, Remounted
    <2> QED
      BY <1>1, <2>1, <2>2 DEF BookingTypeOK
  <1>5. /\ pickup' \in Somewhere /\ dropoff' \in Somewhere /\ atAirport' \in Somewhere
        /\ estimates' \subseteq [from : Places, to : Places] /\ fare' \in Quotes
        /\ crossed' \in BOOLEAN /\ (crossed => crossed')
        /\ FareRight' /\ OnScreen'
    <2>1. CASE \E l \in lookups : SelectApi(l)
      <3>1. PICK l \in lookups : SelectApi(l)
        BY <2>1
      <3>2. l.place \in Places /\ l.pickup \in Somewhere
        BY <1>1 DEF BookingTypeOK
      <3> QED
        BY <3>1, <3>2, AddressKeeps DEF SelectApi
    <2>2. CASE \E p \in Places : SelectKnown(p)
      <3>1. PICK p \in Places : SelectKnown(p)
        BY <2>2
      <3>2. Resolved("dropoff", p, pickup) /\ pickup \in Somewhere
        BY <1>1, <3>1 DEF SelectKnown, Resolved, BookingTypeOK
      <3> QED
        BY <3>2, AddressKeeps
    <2>3. CASE SelectTerminal
      <3>1. PICK p \in Terminals \cup {atAirport} : Finalize(p, pickup)
        BY <2>3 DEF SelectTerminal
      <3>2. /\ p \in Places /\ atAirport' = NoPlace
            /\ pickup \in Somewhere /\ NoQuote \in Quotes
        BY <1>1, <2>3, <3>1, BookingAssumption
        DEF SelectTerminal, BookingTypeOK, Somewhere, NoQuote, Quotes
      <3>3. estimates' \subseteq [from : Places, to : Places]
        <4>1. pickup # NoPlace => [from |-> pickup, to |-> p] \in [from : Places, to : Places]
          BY <3>2 DEF Somewhere
        <4> QED
          BY <1>1, <3>1, <4>1 DEF Finalize, BookingTypeOK
      <3>4. /\ fare' = NoQuote /\ pickup' = pickup /\ dropoff' = p
            /\ crossed' = (crossed \/ estimates # {})
            /\ estimates = {} => estimates' \subseteq {[from |-> pickup, to |-> p]}
        BY <3>1 DEF Finalize, QuoteGone
      <3>5. (~crossed') => (~crossed /\ estimates = {})
        BY <3>4
      <3>6. FareRight'
        BY <3>4 DEF FareRight
      <3>7. OnScreen'
        BY <3>4, <3>5 DEF OnScreen
      <3>8. crossed' \in BOOLEAN /\ (crossed => crossed')
        BY <1>1, <3>4 DEF BookingTypeOK
      <3> QED
        BY <3>2, <3>3, <3>4, <3>6, <3>7, <3>8 DEF Somewhere
    <2>4. CASE LocationArrives
      <3>1. /\ pickup' = Here /\ UNCHANGED <<dropoff, atAirport, estimates, fare>>
            /\ crossed' = (crossed \/ fare # NoQuote \/ estimates # {})
        BY <2>4 DEF LocationArrives
      <3> QED
        BY <1>1, <3>1, BookingAssumption
        DEF BookingTypeOK, Somewhere, FareRight, QuoteRight, OnScreen
    <2> QED
      BY <2>1, <2>2, <2>3, <2>4 DEF AddressStep
  <1>6. BookingTypeOK'
    BY <1>1, <1>2, <1>3, <1>4, <1>5 DEF BookingTypeOK
  <1>7. OrderRight'
    BY <1>1, <1>2, <1>5 DEF OrderRight, QuoteRight, OrderPriced
  <1> QED
    BY <1>5, <1>6, <1>7 DEF BkInv

-----------------------------------------------------------------------------
\* An estimate comes; the sheet and the world of the fare move.
EstimateStep ==
  \/ \E e \in estimates : EstimateFails(e) \/ \E answer \in AiAnswers : EstimateArrives(e, answer)
  \/ HoldSheet \/ \E open \in BOOLEAN : DropSheet(open)
  \/ DemandMoves \/ NightFalls

LEMMA EstimateKeeps ==
  ASSUME BkInv, EstimateStep
  PROVE  BkInv'
  <1>1. BookingTypeOK /\ FareRight /\ OnScreen /\ OrderRight
    BY DEF BkInv
  <1>2. UNCHANGED <<pickup, dropoff, located, search, lookups, placed, picks, atAirport, order,
                    crossed>>
    BY DEF EstimateStep, EstimateFails, EstimateArrives, HoldSheet, DropSheet, DemandMoves,
           NightFalls
  <1>3. estimates' \subseteq estimates
    BY DEF EstimateStep, EstimateFails, EstimateArrives, HoldSheet, DropSheet, DemandMoves,
           NightFalls
  <1>4. fare' \in Quotes /\ FareRight' /\ OnScreen'
    <2>1. CASE \E e \in estimates, answer \in AiAnswers : EstimateArrives(e, answer)
      <3>1. PICK e \in estimates, answer \in AiAnswers : EstimateArrives(e, answer)
        BY <2>1
      <3>2. e.from \in Places /\ e.to \in Places /\ demand \in {0, 2} /\ night \in BOOLEAN
        BY <1>1 DEF BookingTypeOK
      <3>3. Miles[{e.from, e.to}] \in Nat
        BY <3>2, BookingAssumption
      <3> DEFINE amount == FareOf(Miles[{e.from, e.to}], QuotedAsAirport(e.from, e.to), night,
                                  demand, answer)
      <3>4. amount \in Int
        BY <3>2, <3>3, FaresNear
      <3>5. fare' = [from |-> e.from, to |-> e.to, demand |-> demand, night |-> night,
                     amount |-> amount]
        BY <3>1 DEF EstimateArrives
      <3> HIDE DEF amount
      <3>6. fare' \in Quotes
        BY <3>2, <3>4, <3>5 DEF Quotes, Somewhere
      <3>7. /\ fare'.from = e.from /\ fare'.to = e.to /\ fare'.amount = amount
            /\ fare'.night = night /\ fare'.demand = demand
        BY <3>5
      <3>8. FareRight'
        BY <3>2, <3>7 DEF FareRight, QuoteRight, amount
      <3>9. OnScreen'
        BY <1>1, <1>2, <1>3, <3>7 DEF OnScreen
      <3> QED
        BY <3>6, <3>8, <3>9
    <2>2. CASE UNCHANGED fare
      BY <1>1, <1>2, <1>3, <2>2 DEF BookingTypeOK, FareRight, QuoteRight, OnScreen
    <2> QED
      BY <2>1, <2>2 DEF EstimateStep, EstimateFails, HoldSheet, DropSheet, DemandMoves, NightFalls
  <1>5. sheet' \in [open : BOOLEAN, held : BOOLEAN]
    <2>1. sheet \in [open : BOOLEAN, held : BOOLEAN]
      BY <1>1 DEF BookingTypeOK
    <2>2. \/ UNCHANGED sheet \/ sheet' = [sheet EXCEPT !.open = TRUE]
          \/ sheet' = [sheet EXCEPT !.held = TRUE]
          \/ \E open \in BOOLEAN : sheet' = [open |-> open, held |-> FALSE]
      BY DEF EstimateStep, EstimateFails, EstimateArrives, HoldSheet, DropSheet, DemandMoves,
             NightFalls
    <2>3. CASE \E open \in BOOLEAN : sheet' = [open |-> open, held |-> FALSE]
      BY <2>3
    <2>4. CASE sheet' = [sheet EXCEPT !.open = TRUE] \/ sheet' = [sheet EXCEPT !.held = TRUE]
      BY <2>1, <2>4
    <2> QED
      BY <2>1, <2>2, <2>3, <2>4
  <1>6. demand' \in {0, 2} /\ night' \in BOOLEAN
    <2>1. demand \in {0, 2} /\ night \in BOOLEAN
      BY <1>1 DEF BookingTypeOK
    <2>2. UNCHANGED demand \/ (demand < 2 /\ demand' = demand + 2)
      BY DEF EstimateStep, EstimateFails, EstimateArrives, HoldSheet, DropSheet, DemandMoves,
             NightFalls
    <2>3. UNCHANGED night \/ night' = TRUE
      BY DEF EstimateStep, EstimateFails, EstimateArrives, HoldSheet, DropSheet, DemandMoves,
             NightFalls
    <2>4. demand' \in {0, 2}
      BY <2>1, <2>2
    <2> QED
      BY <2>1, <2>3, <2>4
  <1>7. BookingTypeOK'
    BY <1>1, <1>2, <1>3, <1>4, <1>5, <1>6 DEF BookingTypeOK, search
  <1>8. OrderRight'
    BY <1>1, <1>2 DEF OrderRight, QuoteRight, OrderPriced
  <1> QED
    BY <1>4, <1>7, <1>8 DEF BkInv

LEMMA OrderKeeps ==
  ASSUME BkInv,
         RequestRideFromSheet \/ RequestRefused \/ \E answer \in AiAnswers : PriceRide(answer)
  PROVE  BkInv'
  <1>1. BookingTypeOK /\ FareRight /\ OnScreen /\ OrderRight
    BY DEF BkInv
  <1>2. UNCHANGED <<pickup, dropoff, located, search, lookups, placed, picks, atAirport, estimates,
                    fare, sheet, demand, night, crossed>>
    BY DEF RequestRideFromSheet, RequestRefused, PriceRide
  <1> DEFINE Orders == [at : {"none", "asked", "made"}, from : Somewhere, to : Somewhere,
                        quote : Quotes, amount : Int, demand : {0, 2}, night : BOOLEAN]
  <1>3. NoOrder \in Orders /\ NoOrder.at = "none"
    BY DEF NoOrder, NoQuote, Quotes, Somewhere
  <1>4. order' \in Orders /\ OrderRight'
    <2>1. CASE RequestRideFromSheet
      <3>1. /\ order' = [NoOrder EXCEPT !.at = "asked", !.from = pickup, !.to = dropoff, !.quote = fare]
            /\ pickup \in Places /\ dropoff \in Places /\ fare # NoQuote /\ fare \in Quotes
        BY <1>1, <2>1 DEF RequestRideFromSheet, BookingTypeOK, Somewhere
      <3>2. order' \in Orders
        BY <1>3, <3>1 DEF Somewhere
      <3>3. /\ order'.at = "asked" /\ order'.from = pickup /\ order'.to = dropoff
            /\ order'.quote = fare
        BY <1>3, <3>1
      <3>4. OrderRight'
        BY <1>1, <1>2, <3>1, <3>3 DEF OrderRight, FareRight, OnScreen, QuoteRight
      <3> QED
        BY <3>2, <3>4
    <2>2. CASE RequestRefused
      BY <1>3, <2>2 DEF RequestRefused, OrderRight
    <2>3. CASE \E answer \in AiAnswers : PriceRide(answer)
      <3>1. PICK answer \in AiAnswers : PriceRide(answer)
        BY <2>3
      <3>2. /\ order \in Orders /\ order.at = "asked" /\ demand \in {0, 2} /\ night \in BOOLEAN
            /\ order.from \in Places /\ order.to \in Places /\ QuoteRight(order.quote)
            /\ ~crossed => order.quote.from = order.from /\ order.quote.to = order.to
        BY <1>1, <3>1 DEF PriceRide, BookingTypeOK, OrderRight
      <3>3. Miles[{order.from, order.to}] \in Nat
        BY <3>2, BookingAssumption
      <3> DEFINE amount == FareOf(Miles[{order.from, order.to}],
                                  DetectAirportTrip(order.from, order.to), night, demand, answer)
      <3>4. amount \in Int
        BY <3>2, <3>3, FaresNear
      <3>5. order' = [order EXCEPT !.at = "made", !.demand = demand, !.night = night,
                                   !.amount = amount]
        BY <3>1 DEF PriceRide
      <3> HIDE DEF amount
      <3>6. order' \in Orders
        BY <3>2, <3>4, <3>5
      <3>7. /\ order'.at = "made" /\ order'.from = order.from /\ order'.to = order.to
            /\ order'.quote = order.quote /\ order'.amount = amount
            /\ order'.demand = demand /\ order'.night = night
        BY <3>2, <3>5
      <3>8. OrderPriced'
        BY <3>7 DEF OrderPriced, amount
      <3>9. QuoteRight(order.quote)'
        BY <3>2, <3>7 DEF QuoteRight
      <3>10. OrderRight'
        BY <1>2, <3>2, <3>7, <3>8, <3>9 DEF OrderRight
      <3> QED
        BY <3>6, <3>10
    <2> QED
      BY <2>1, <2>2, <2>3
  <1>5. BookingTypeOK'
    BY <1>1, <1>2, <1>4 DEF BookingTypeOK, search
  <1>6. FareRight' /\ OnScreen'
    BY <1>1, <1>2 DEF FareRight, QuoteRight, OnScreen
  <1> QED
    BY <1>4, <1>5, <1>6 DEF BkInv

-----------------------------------------------------------------------------
THEOREM BkInvariantHolds == BkSpec => []BkInv
  <1>1. BkInv /\ [BookingNext]_<<bkVars, faults>> => BkInv'
    <2>1. ASSUME BkInv, UNCHANGED <<bkVars, faults>> PROVE BkInv'
      <3>1. BookingTypeOK'
        BY <2>1 DEF bkVars, BkInv, BookingTypeOK
      <3>2. FareRight' /\ OnScreen' /\ OrderRight'
        BY <2>1 DEF bkVars, BkInv, FareRight, OnScreen, OrderRight, QuoteRight, OrderPriced
      <3> QED
        BY <3>1, <3>2 DEF BkInv
    <2>2. ASSUME BkInv, BookingNext PROVE BkInv'
      <3>1. FieldStep \/ AddressStep \/ EstimateStep
            \/ RequestRideFromSheet \/ RequestRefused \/ \E answer \in AiAnswers : PriceRide(answer)
        BY <2>2 DEF BookingNext, FieldStep, AddressStep, EstimateStep
      <3> QED
        BY <2>2, <3>1, FieldKeeps, AddressStepKeeps, EstimateKeeps, OrderKeeps
    <2> QED
      BY <2>1, <2>2
  <1> QED
    BY <1>1, BkInitHolds, PTL DEF BkSpec

\* The screen, its searches, the quote and the order have their types.
THEOREM BookingTypeCorrect == BkSpec => []BookingTypeOK
  <1>1. BkInv => BookingTypeOK
    BY DEF BkInv
  <1> QED
    BY <1>1, BkInvariantHolds, PTL

\* For any places, distances, airports and answers of ai-service: with demand and hour
\* unchanged, a ride costs what the rider was shown, up to the cap of the adjustment on
\* either side (fare-engine.service.ts, trips.service.ts createTrip, HomeScreen.tsx).
THEOREM QuotesAreKept == BkSpec => []QuoteHonoured
  <1>1. BkInv => QuoteHonoured
    <2>1. SUFFICES ASSUME BkInv, order.at = "made", SameWorld, ~crossed
                   PROVE  Near(order.amount, order.quote.amount)
      BY DEF QuoteHonoured
    <2>2. /\ order.from \in Places /\ order.to \in Places /\ QuoteRight(order.quote)
          /\ order.quote.from = order.from /\ order.quote.to = order.to /\ OrderPriced
      BY <2>1 DEF BkInv, OrderRight
    <2>3. order.demand \in {0, 2} /\ Miles[{order.from, order.to}] \in Nat
      BY <2>1, <2>2, BookingAssumption DEF BkInv, BookingTypeOK
    <2> DEFINE miles == Miles[{order.from, order.to}]
               airport == DetectAirportTrip(order.from, order.to)
               quoted == QuotedAsAirport(order.from, order.to)
    <2>4. PICK a \in AiAnswers : order.amount = FareOf(miles, airport, order.night, order.demand, a)
      BY <2>2 DEF OrderPriced
    <2>5. PICK b \in AiAnswers :
            order.quote.amount = FareOf(miles, quoted, order.night, order.demand, b)
      BY <2>1, <2>2 DEF QuoteRight, SameWorld
    <2>6. FareOf(miles, quoted, order.night, order.demand, b)
            = FareOf(miles, airport, order.night, order.demand, b)
      BY SameAirport DEF FareOf, RawFare
    <2> QED
      BY <2>3, <2>4, <2>5, <2>6, FaresNear
  <1> QED
    BY <1>1, BkInvariantHolds, PTL

-----------------------------------------------------------------------------
(***************************************************************************)
(* Ratings, for any rides, screens, stars and faults                       *)
(*                                                                         *)
(* A ride has a column for each party and a row of its own for each        *)
(* rating, written one after the other by a request that found the column  *)
(* empty. They agree because a column keeps its stars (StarsStand) unless  *)
(* two requests found it empty, so that the request that writes the row    *)
(* gave the stars that are in the column (ScreenTrue).                     *)
(***************************************************************************)

Sent == {"check", "trip", "row", "mean", "driver"}   \* a request is under way

\* What a request knows of the stars, in columns that only it found empty.
ScreenTrue(r, st, tw) ==
  /\ r.at \in Sent => r.given # 0
  /\ r.at = "row" /\ r.on \notin tw => r.given = st[r.on]
  /\ \A t \in Rated : <<t, "rider">> \notin tw => r.seen[t] \in {0, st[<<t, "rider">>]}

\* The inductive invariant.
RtInv ==
  /\ RtTypeOK /\ faults \in Nat /\ RatingsAgree
  /\ \A s \in Screens : ScreenTrue(screen[s], stars, twice)

\* A column keeps its stars, unless two requests found it empty.
StarsStand ==
  /\ stars' \in [Columns -> Stars] /\ twice \subseteq twice' /\ twice' \subseteq Columns
  /\ \A c \in Columns \ twice' : stars[c] # 0 => stars'[c] = stars[c]

LEMMA ClosedScreenHolds ==
  /\ ClosedScreen \in RatingScreen
  /\ \A st, tw : ScreenTrue(ClosedScreen, st, tw)
  <1>1. SomeColumn \in Columns
    <2>1. PICK t \in Rated : TRUE
      BY RatingsAssumption
    <2>2. <<t, "rider">> \in Columns
      BY DEF Columns, Parties
    <2> QED
      BY <2>2 DEF SomeColumn
  <1>2. 0 \in Stars /\ Unseen \in [Rated -> Stars]
    BY RatingsAssumption DEF Stars, Unseen
  <1> QED
    BY <1>1, <1>2 DEF ClosedScreen, RatingScreen, ScreenStep, ScreenTrue, Sent, Unseen

LEMMA RtInitHolds == RtInit /\ faults = 0 => RtInv
  <1> SUFFICES ASSUME RtInit, faults = 0 PROVE RtInv
    OBVIOUS
  <1>1. 0 \in Stars /\ Unseen \in [Rated -> Stars]
    BY RatingsAssumption DEF Stars, Unseen
  <1>2. RtTypeOK
    BY <1>1, ClosedScreenHolds DEF RtInit, RtTypeOK
  <1>3. RatingsAgree
    BY DEF RtInit, RatingsAgree, RowAgrees, AverageIsGiven, Unseen, Columns, Parties
  <1> QED
    BY <1>2, <1>3, ClosedScreenHolds DEF RtInit, RtInv

\* What a step that moves the screens has to show.
ScreensHold ==
  \/ screen' = screen
  \/ \E s \in Screens, r \in RatingScreen :
       screen' = [screen EXCEPT ![s] = r] /\ ScreenTrue(r, stars', twice')

LEMMA ScreensKept ==
  ASSUME RtInv, StarsStand, ScreensHold
  PROVE  /\ screen' \in [Screens -> RatingScreen]
         /\ \A s \in Screens : ScreenTrue(screen'[s], stars', twice')
  <1>1. screen' \in [Screens -> RatingScreen]
    BY DEF ScreensHold, RtInv, RtTypeOK
  <1>2. ASSUME NEW s \in Screens PROVE ScreenTrue(screen'[s], stars', twice')
    <2>1. screen[s] \in RatingScreen /\ ScreenTrue(screen[s], stars, twice)
      BY DEF RtInv, RtTypeOK
    <2>2. \/ screen'[s] = screen[s]
          \/ ScreenTrue(screen'[s], stars', twice')
      BY DEF ScreensHold, RtInv, RtTypeOK
    <2>3. ScreenTrue(screen[s], stars', twice')
      <3> DEFINE r == screen[s]
      <3>1. r.on \in Columns /\ r.seen \in [Rated -> Stars]
        BY <2>1 DEF RatingScreen
      <3>2. ASSUME r.at = "row", r.on \notin twice' PROVE r.given = stars'[r.on]
        <4>1. r.given # 0 /\ r.given = stars[r.on]
          BY <2>1, <3>2 DEF ScreenTrue, Sent, StarsStand
        <4> QED
          BY <3>1, <3>2, <4>1 DEF StarsStand
      <3>3. ASSUME NEW t \in Rated, <<t, "rider">> \notin twice'
            PROVE  r.seen[t] \in {0, stars'[<<t, "rider">>]}
        <4>1. <<t, "rider">> \in Columns
          BY DEF Columns, Parties
        <4>2. r.seen[t] \in {0, stars[<<t, "rider">>]}
          BY <2>1, <3>3 DEF ScreenTrue, StarsStand
        <4> QED
          BY <3>3, <4>1, <4>2 DEF StarsStand
      <3> QED
        BY <2>1, <3>2, <3>3 DEF ScreenTrue
    <2> QED
      BY <2>2, <2>3
  <1> QED
    BY <1>1, <1>2

-----------------------------------------------------------------------------
\* Only the screen moves.
LEMMA OnlyScreen ==
  ASSUME RtInv, ScreensHold, UNCHANGED <<stars, rated, average, twice>>, faults' \in Nat,
         \/ faults' = faults /\ \A c \in Columns : AwaitsRow(c) => AwaitsRow(c)'
         \/ faults' # 0
  PROVE  RtInv'
  <1>1. StarsStand
    BY DEF RtInv, RtTypeOK, StarsStand
  <1>2. RowAgrees' /\ AverageIsGiven'
    BY DEF RtInv, RatingsAgree, RowAgrees, AverageIsGiven
  <1> QED
    BY <1>1, <1>2, ScreensKept DEF RtInv, RtTypeOK, RatingsAgree

\* A screen that goes on, not from or to the row.
LEMMA StepKnows ==
  ASSUME RtInv, NEW s \in Screens, NEW step \in ScreenStep \ {"row"}, Turns(s, step),
         step \in Sent => screen[s].at \in Sent, UNCHANGED <<stars, twice>>
  PROVE  ScreensHold
  <1>1. screen[s] \in RatingScreen /\ ScreenTrue(screen[s], stars, twice)
    BY DEF RtInv, RtTypeOK
  <1>2. CASE step = "thanks"
    <2> DEFINE r == [ClosedScreen EXCEPT !.at = "thanks"]
    <2>1. r \in RatingScreen /\ ScreenTrue(r, stars', twice')
      BY ClosedScreenHolds DEF ClosedScreen, RatingScreen, ScreenStep, ScreenTrue, Sent, Unseen
    <2> QED
      BY <1>2, <2>1 DEF Turns, ScreensHold
  <1>3. CASE step # "thanks"
    <2> DEFINE r == [screen[s] EXCEPT !.at = step]
    <2>1. r \in RatingScreen /\ ScreenTrue(r, stars', twice')
      BY <1>1 DEF RatingScreen, ScreenTrue
    <2> QED
      BY <1>3, <2>1 DEF Turns, ScreensHold, RtInv, RtTypeOK
  <1> QED
    BY <1>2, <1>3

-----------------------------------------------------------------------------
\* What happens on a screen, and what a request reads.
LEMMA ReadsKeep ==
  ASSUME RtInv, NEW s \in Screens,
         \/ \E c \in Columns : OpenRating(s, c)
         \/ LeaveRating(s) \/ \E n \in 1..MaxStars : SubmitRating(s, n)
         \/ CheckRated(s) \/ AggregateStars(s) \/ RatingDies(s)
  PROVE  RtInv'
  <1>1. /\ screen \in [Screens -> RatingScreen] /\ screen[s] \in RatingScreen
        /\ ScreenTrue(screen[s], stars, twice) /\ stars \in [Columns -> Stars]
        /\ faults \in Nat /\ MaxStars \in Nat
    BY RatingsAssumption DEF RtInv, RtTypeOK
  <1>2. UNCHANGED <<stars, rated, average, twice>>
    BY DEF OpenRating, LeaveRating, SubmitRating, CheckRated, AggregateStars, RatingDies
  <1>3. ASSUME faults' = faults, ~ShowsAt(s, "row"),
               \E r \in RatingScreen :
                 screen' = [screen EXCEPT ![s] = r] /\ ScreenTrue(r, stars, twice)
        PROVE  RtInv'
    <2>1. ScreensHold
      BY <1>2, <1>3 DEF ScreensHold
    <2>2. \A c \in Columns : AwaitsRow(c) => AwaitsRow(c)'
      BY <1>1, <1>3 DEF AwaitsRow, ShowsAt
    <2> QED
      BY <1>1, <1>2, <1>3, <2>1, <2>2, OnlyScreen
  <1>4. ASSUME NEW c \in Columns, OpenRating(s, c) PROVE RtInv'
    <2> DEFINE r == [screen[s] EXCEPT !.at = "shown", !.on = c]
    <2>1. r \in RatingScreen /\ ScreenTrue(r, stars, twice)
      BY <1>1 DEF RatingScreen, ScreenStep, ScreenTrue, Sent
    <2>2. screen' = [screen EXCEPT ![s] = r] /\ faults' = faults /\ ~ShowsAt(s, "row")
      BY <1>1, <1>4 DEF OpenRating, ShowsAt
    <2> QED
      BY <1>3, <2>1, <2>2
  <1>5. ASSUME LeaveRating(s) PROVE RtInv'
    <2> DEFINE r == [ClosedScreen EXCEPT !.at = "left"]
    <2>1. r \in RatingScreen /\ ScreenTrue(r, stars, twice)
      BY ClosedScreenHolds DEF ClosedScreen, RatingScreen, ScreenStep, ScreenTrue, Sent
    <2>2. screen' = [screen EXCEPT ![s] = r] /\ faults' = faults /\ ~ShowsAt(s, "row")
      BY <1>1, <1>5 DEF LeaveRating, ShowsAt
    <2> QED
      BY <1>3, <2>1, <2>2
  <1>6. ASSUME NEW n \in 1..MaxStars, SubmitRating(s, n) PROVE RtInv'
    <2> DEFINE r == [screen[s] EXCEPT !.at = "check", !.given = n]
    <2>1. n \in Stars /\ n # 0
      BY <1>1 DEF Stars
    <2>2. r \in RatingScreen /\ ScreenTrue(r, stars, twice)
      BY <1>1, <2>1 DEF RatingScreen, ScreenStep, ScreenTrue
    <2>3. screen' = [screen EXCEPT ![s] = r] /\ faults' = faults /\ ~ShowsAt(s, "row")
      BY <1>1, <1>6 DEF SubmitRating, ShowsAt
    <2> QED
      BY <1>3, <2>2, <2>3
  <1>7. ASSUME CheckRated(s) PROVE RtInv'
    <2>1. PICK step \in {"trip", "thanks"} : Turns(s, step)
      BY <1>7 DEF CheckRated
    <2>2. ScreensHold
      BY <1>2, <1>7, <2>1, StepKnows DEF CheckRated, ShowsAt, ScreenStep, Sent
    <2>3. \A c \in Columns : AwaitsRow(c) => AwaitsRow(c)'
      BY <1>1, <1>7, <2>1 DEF AwaitsRow, ShowsAt, CheckRated, Turns
    <2> QED
      BY <1>1, <1>2, <1>7, <2>2, <2>3, OnlyScreen DEF CheckRated
  <1>8. ASSUME AggregateStars(s) PROVE RtInv'
    <2> DEFINE seen == [t \in Rated |-> stars[<<t, "rider">>]]
               r == [screen[s] EXCEPT !.at = "driver", !.seen = seen]
    <2>1. seen \in [Rated -> Stars]
      BY <1>1 DEF Columns, Parties
    <2>2. r \in RatingScreen /\ ScreenTrue(r, stars, twice)
      BY <1>1, <1>8, <2>1 DEF RatingScreen, ScreenStep, ScreenTrue, Sent, AggregateStars, ShowsAt
    <2>3. screen' = [screen EXCEPT ![s] = r] /\ faults' = faults /\ ~ShowsAt(s, "row")
      BY <1>1, <1>8 DEF AggregateStars, ShowsAt
    <2> QED
      BY <1>3, <2>2, <2>3
  <1>9. ASSUME RatingDies(s) PROVE RtInv'
    <2>1. ScreensHold
      BY <1>2, <1>9, StepKnows DEF RatingDies, ScreenStep, Sent
    <2>2. faults' \in Nat /\ faults' # 0
      BY <1>1, <1>9 DEF RatingDies, Fault
    <2> QED
      BY <1>2, <2>1, <2>2, OnlyScreen
  <1> QED
    BY <1>4, <1>5, <1>6, <1>7, <1>8, <1>9

\* The three writes.
LEMMA TripWriteKeeps ==
  ASSUME RtInv, NEW s \in Screens, WriteTripRating(s)
  PROVE  RtInv'
  <1> DEFINE c == screen[s].on
             n == screen[s].given
             r == [screen[s] EXCEPT !.at = "row"]
  <1>1. /\ screen \in [Screens -> RatingScreen] /\ screen[s] \in RatingScreen
        /\ ScreenTrue(screen[s], stars, twice) /\ screen[s].at = "trip"
        /\ stars \in [Columns -> Stars] /\ twice \subseteq Columns
    BY DEF RtInv, RtTypeOK, WriteTripRating, ShowsAt
  <1>2. c \in Columns /\ n \in Stars /\ n # 0
    BY <1>1 DEF RatingScreen, ScreenTrue, Sent
  <1>3. /\ stars' = [stars EXCEPT ![c] = n] /\ screen' = [screen EXCEPT ![s] = r]
        /\ twice' = IF stars[c] = 0 THEN twice ELSE twice \cup {c}
        /\ UNCHANGED <<rated, average, faults>>
    BY <1>1 DEF WriteTripRating, Turns
  <1>4. StarsStand
    BY <1>1, <1>2, <1>3 DEF StarsStand
  <1>5. r \in RatingScreen /\ ScreenTrue(r, stars', twice')
    <2>1. ASSUME NEW t \in Rated, <<t, "rider">> \notin twice'
          PROVE  r.seen[t] \in {0, stars'[<<t, "rider">>]}
      <3>1. <<t, "rider">> \in Columns /\ <<t, "rider">> \notin twice
        BY <2>1, <1>4 DEF Columns, Parties, StarsStand
      <3>2. r.seen[t] \in {0, stars[<<t, "rider">>]}
        BY <1>1, <3>1 DEF ScreenTrue
      <3> QED
        BY <1>4, <2>1, <3>1, <3>2 DEF StarsStand
    <2> QED
      BY <1>1, <1>2, <1>3, <2>1 DEF RatingScreen, ScreenStep, ScreenTrue
  <1>6. ScreensHold
    BY <1>3, <1>5 DEF ScreensHold
  <1>7. RowAgrees'
    <2> SUFFICES ASSUME NEW d \in Columns, d \notin twice'
                 PROVE  /\ rated'[d] \in {0, stars'[d]}
                        /\ faults' = 0 /\ ~AwaitsRow(d)' => rated'[d] = stars'[d]
      BY DEF RowAgrees
    <2>1. /\ d \notin twice /\ rated[d] \in {0, stars[d]}
          /\ faults = 0 /\ ~AwaitsRow(d) => rated[d] = stars[d]
      BY <1>4 DEF StarsStand, RtInv, RatingsAgree, RowAgrees
    <2>2. CASE d = c
      BY <1>1, <1>2, <1>3, <2>1, <2>2 DEF AwaitsRow, ShowsAt
    <2>3. CASE d # c
      <3>1. AwaitsRow(d)' <=> AwaitsRow(d)
        BY <1>1, <1>3, <2>3 DEF AwaitsRow, ShowsAt
      <3> QED
        BY <1>1, <1>3, <2>1, <2>3, <3>1
    <2> QED
      BY <2>2, <2>3
  <1>8. AverageIsGiven'
    <2> SUFFICES ASSUME NEW t \in Rated, <<t, "rider">> \notin twice'
                 PROVE  average'[t] \in {0, stars'[<<t, "rider">>]}
      BY DEF AverageIsGiven
    <2>1. <<t, "rider">> \in Columns /\ <<t, "rider">> \notin twice
      BY <1>4 DEF Columns, Parties, StarsStand
    <2>2. average[t] \in {0, stars[<<t, "rider">>]}
      BY <2>1 DEF RtInv, RatingsAgree, AverageIsGiven
    <2> QED
      BY <1>3, <1>4, <2>1, <2>2 DEF StarsStand
  <1> QED
    BY <1>3, <1>4, <1>6, <1>7, <1>8, ScreensKept DEF RtInv, RtTypeOK, RatingsAgree, StarsStand

LEMMA RowWriteKeeps ==
  ASSUME RtInv, NEW s \in Screens, UpsertRating(s)
  PROVE  RtInv'
  <1> DEFINE c == screen[s].on
             n == screen[s].given
  <1>1. /\ screen \in [Screens -> RatingScreen] /\ screen[s] \in RatingScreen
        /\ ScreenTrue(screen[s], stars, twice) /\ screen[s].at = "row"
        /\ rated \in [Columns -> Stars] /\ stars \in [Columns -> Stars] /\ twice \subseteq Columns
    BY DEF RtInv, RtTypeOK, UpsertRating, ShowsAt
  <1>2. c \in Columns /\ n \in Stars /\ (c \notin twice => n = stars[c])
    BY <1>1 DEF RatingScreen, ScreenTrue
  <1>3. rated' = [rated EXCEPT ![c] = n] /\ UNCHANGED <<stars, average, twice, faults>>
    BY DEF UpsertRating, RowWith
  <1>4. PICK step \in {"mean", "thanks"} : Turns(s, step)
    BY DEF UpsertRating
  <1>5. StarsStand /\ ScreensHold
    BY <1>1, <1>3, <1>4, StepKnows DEF StarsStand, ScreenStep, Sent
  <1>6. RowAgrees'
    <2> SUFFICES ASSUME NEW d \in Columns, d \notin twice
                 PROVE  /\ rated'[d] \in {0, stars[d]}
                        /\ faults = 0 /\ ~AwaitsRow(d)' => rated'[d] = stars[d]
      BY <1>3 DEF RowAgrees
    <2>1. /\ rated[d] \in {0, stars[d]}
          /\ faults = 0 /\ ~AwaitsRow(d) => rated[d] = stars[d]
      BY DEF RtInv, RatingsAgree, RowAgrees
    <2>2. CASE d = c
      BY <1>1, <1>2, <1>3, <2>2
    <2>3. CASE d # c
      <3>1. AwaitsRow(d) => AwaitsRow(d)'
        BY <1>1, <1>4, <2>3 DEF AwaitsRow, ShowsAt, Turns
      <3> QED
        BY <1>1, <1>3, <2>1, <2>3, <3>1
    <2> QED
      BY <2>2, <2>3
  <1>7. AverageIsGiven'
    BY <1>3 DEF RtInv, RatingsAgree, AverageIsGiven
  <1> QED
    BY <1>1, <1>2, <1>3, <1>5, <1>6, <1>7, ScreensKept DEF RtInv, RtTypeOK, RatingsAgree

LEMMA AverageWriteKeeps ==
  ASSUME RtInv, NEW s \in Screens, WriteAverage(s)
  PROVE  RtInv'
  <1>1. /\ screen \in [Screens -> RatingScreen] /\ screen[s] \in RatingScreen
        /\ ScreenTrue(screen[s], stars, twice) /\ screen[s].at = "driver"
        /\ average' = screen[s].seen /\ UNCHANGED <<stars, rated, twice, faults>>
    BY DEF RtInv, RtTypeOK, WriteAverage, ShowsAt
  <1>2. StarsStand /\ ScreensHold
    BY <1>1, StepKnows DEF WriteAverage, RtInv, RtTypeOK, StarsStand, ScreenStep, Sent
  <1>3. AverageIsGiven' /\ average' \in [Rated -> Stars]
    BY <1>1 DEF AverageIsGiven, ScreenTrue, RatingScreen
  <1>4. RowAgrees'
    <2>1. \A c \in Columns : AwaitsRow(c) => AwaitsRow(c)'
      BY <1>1 DEF AwaitsRow, ShowsAt, WriteAverage, Turns
    <2> QED
      BY <1>1, <2>1 DEF RtInv, RatingsAgree, RowAgrees
  <1> QED
    BY <1>1, <1>2, <1>3, <1>4, ScreensKept DEF RtInv, RtTypeOK, RatingsAgree

-----------------------------------------------------------------------------
THEOREM RtInvariantHolds == RtSpec => []RtInv
  <1>1. RtInv /\ [RtNext]_<<rtVars, faults>> => RtInv'
    <2> SUFFICES ASSUME RtInv, [RtNext]_<<rtVars, faults>> PROVE RtInv'
      OBVIOUS
    <2>1. CASE UNCHANGED <<rtVars, faults>>
      BY <2>1, OnlyScreen DEF rtVars, RtInv, ScreensHold, AwaitsRow, ShowsAt
    <2>2. CASE RtNext
      BY <2>2, ReadsKeep, TripWriteKeeps, RowWriteKeeps, AverageWriteKeeps DEF RtNext
    <2> QED
      BY <2>1, <2>2
  <1> QED
    BY <1>1, RtInitHolds, PTL DEF RtSpec

\* The stars, the row, the average and the screens have their types.
THEOREM RtTypeCorrect == RtSpec => []RtTypeOK
  <1>1. RtInv => RtTypeOK
    BY DEF RtInv
  <1> QED
    BY <1>1, RtInvariantHolds, PTL

\* The trip and its ratings row tell the same of each party, and the driver's
\* average counts what riders gave, however the screens and requests of both
\* overlap or die (rateDriver, rateRider of trips.service.ts).
THEOREM StarsAreCounted == RtSpec => []RatingsAgree
  <1>1. RtInv => RatingsAgree
    BY DEF RtInv
  <1> QED
    BY <1>1, RtInvariantHolds, PTL

-----------------------------------------------------------------------------
(***************************************************************************)
(* AirportQueue, for any drivers, joins and leaves                         *)
(*                                                                         *)
(* A driver may be queueing, leaving and dispatched at once, and several   *)
(* times over. The members of the sorted set stand in a line all the same  *)
(* (InLine), since a step adds one at the end, or takes one out and leaves *)
(* the order of the others (LineStep); who is before another stays before  *)
(* them, and a dispatch takes who has nobody before them.                  *)
(***************************************************************************)

-----------------------------------------------------------------------------
\* The members stand in a line.
InLine ==
  /\ \A d, e \in queue : d # e => Before(d, e) \/ Before(e, d)
  /\ \A d, e \in queue : Before(d, e) => ~Before(e, d)
  /\ \A d, e, f \in queue : Before(d, e) /\ Before(e, f) => Before(d, f)

\* The inductive invariant.
AqInv == AirportTypeOK /\ InLine

-----------------------------------------------------------------------------
LEMMA AqInitHolds == AirportInit => AqInv
  <1> SUFFICES ASSUME AirportInit PROVE AqInv
    OBVIOUS
  <1>1. AirportTypeOK
    BY QueueAssumption DEF AirportInit, AirportTypeOK
  <1>2. InLine
    BY DEF AirportInit, InLine
  <1> QED
    BY <1>1, <1>2 DEF AqInv

\* Who goes leaves the others in line.
LEMMA ZremKeeps ==
  ASSUME NEW d \in Queuers, AirportTypeOK, InLine, Zrem(d)
  PROVE  /\ queue' \subseteq Queuers /\ ahead' \subseteq queue' \X queue'
         /\ InLine'
         /\ \A e, f \in Queuers : Before(e, f) /\ d \notin {e, f} => Before(e, f)'
  <1>1. \A e, f \in Queuers : Before(e, f)' <=> Before(e, f) /\ e # d /\ f # d
    BY DEF Zrem, Without, Before
  <1>2. queue' \subseteq Queuers /\ ahead' \subseteq queue' \X queue'
    BY DEF Zrem, Without, AirportTypeOK
  <1>3. InLine'
    BY <1>1 DEF InLine, Zrem, AirportTypeOK
  <1> QED
    BY <1>1, <1>2, <1>3

\* Who is added stands at the end.
LEMMA ZaddKeeps ==
  ASSUME NEW d \in Queuers, AirportTypeOK, InLine, Zadd(d)
  PROVE  /\ queue' \subseteq Queuers /\ ahead' \subseteq queue' \X queue'
         /\ InLine'
         /\ \A e, f \in Queuers : Before(e, f) /\ e # d => Before(e, f)'
  <1>1. ASSUME NEW e \in Queuers, NEW f \in Queuers
        PROVE  Before(e, f)' <=> \/ Before(e, f) /\ e # d /\ f # d
                                 \/ e \in queue /\ e # d /\ f = d
    BY DEF Zadd, Without, Before
  <1>2. queue' \subseteq Queuers /\ ahead' \subseteq queue' \X queue'
    BY DEF Zadd, Without, AirportTypeOK
  <1>3. queue' = queue \cup {d}
    BY DEF Zadd
  <1>4. InLine'
    BY <1>1, <1>2, <1>3 DEF InLine, AirportTypeOK
  <1>5. ASSUME NEW e \in Queuers, NEW f \in Queuers, Before(e, f), e # d
        PROVE  Before(e, f)'
    BY <1>1, <1>5 DEF Before, AirportTypeOK
  <1> QED
    BY <1>2, <1>4, <1>5

\* A call that is under way is a driver's.
LEMMA CallsAreTheirs ==
  ASSUME AirportTypeOK, NEW c \in Calls, calls[c].at # "no"
  PROVE  calls[c] \in [by : Queuers, at : Joining \cup Leaving, awaited : BOOLEAN]
  BY DEF AirportTypeOK, Idle

\* A step of one call leaves the calls, the entries and the screens well formed.
LEMMA CallKeepsTypes ==
  ASSUME AirportTypeOK, NEW c \in Calls, CallStep(c)
  PROVE  /\ waiting' \in [Queuers -> Nat]
         /\ calls' \in [Calls -> [by : Queuers, at : Joining \cup Leaving, awaited : BOOLEAN]
                                    \cup {Idle}]
         /\ inQueue' \in [Queuers -> BOOLEAN]
         /\ UNCHANGED popped
  <1>1. calls[c].at \in Joining \cup Leaving
    BY DEF CallStep, AddToSet, CreateEntry, JoinAnswered, JoinFails, RemoveFromSet, ClearEntries,
           LeaveAnswered, LeaveFails, Moves, Joining, Leaving
  <1>2. calls[c] \in [by : Queuers, at : Joining \cup Leaving, awaited : BOOLEAN]
    BY <1>1, CallsAreTheirs DEF Joining, Leaving
  <1>3. calls' = [calls EXCEPT ![c] = Idle] \/ \E to \in Joining \cup Leaving :
                                                 calls' = [calls EXCEPT ![c].at = to]
    BY DEF CallStep, AddToSet, CreateEntry, JoinAnswered, JoinFails, RemoveFromSet, ClearEntries,
           LeaveAnswered, LeaveFails, Ends, Moves, Joining, Leaving
  <1>4. calls' \in [Calls -> [by : Queuers, at : Joining \cup Leaving, awaited : BOOLEAN]
                                \cup {Idle}]
    <2>1. ASSUME NEW to \in Joining \cup Leaving
          PROVE  [calls[c] EXCEPT !.at = to]
                   \in [by : Queuers, at : Joining \cup Leaving, awaited : BOOLEAN]
      BY <1>2
    <2> QED
      BY <1>3, <2>1 DEF AirportTypeOK
  <1>5. waiting' \in [Queuers -> Nat]
    <2>1. \/ UNCHANGED waiting
          \/ waiting' = [waiting EXCEPT ![calls[c].by] = @ + 1]
          \/ waiting' = [waiting EXCEPT ![calls[c].by] = 0]
      BY DEF CallStep, AddToSet, CreateEntry, JoinAnswered, JoinFails, RemoveFromSet, ClearEntries,
             LeaveAnswered, LeaveFails
    <2> QED
      BY <1>2, <2>1 DEF AirportTypeOK
  <1>6. inQueue' \in [Queuers -> BOOLEAN]
    <2>1. UNCHANGED inQueue \/ \E believes \in BOOLEAN :
                                  inQueue' = [inQueue EXCEPT ![calls[c].by] = believes]
      BY DEF CallStep, AddToSet, CreateEntry, JoinAnswered, JoinFails, RemoveFromSet, ClearEntries,
             LeaveAnswered, LeaveFails, Ends
    <2> QED
      BY <2>1 DEF AirportTypeOK
  <1> QED
    BY <1>4, <1>5, <1>6
    DEF CallStep, AddToSet, CreateEntry, JoinAnswered, JoinFails, RemoveFromSet, ClearEntries,
        LeaveAnswered, LeaveFails

\* Any step does.
LEMMA TypesKept ==
  ASSUME AirportTypeOK, AirportNext
  PROVE  /\ waiting' \in [Queuers -> Nat]
         /\ calls' \in [Calls -> [by : Queuers, at : Joining \cup Leaving, awaited : BOOLEAN]
                                    \cup {Idle}]
         /\ inQueue' \in [Queuers -> BOOLEAN]
         /\ popped' \in Queuers \cup {Nobody}
  <1>1. CASE DispatchStep
    BY <1>1, QueueAssumption DEF DispatchStep, PopNext, EntryDispatched, AirportTypeOK
  <1>2. ASSUME NEW c \in Calls, CallStep(c)
        PROVE  /\ waiting' \in [Queuers -> Nat]
               /\ calls' \in [Calls -> [by : Queuers, at : Joining \cup Leaving, awaited : BOOLEAN]
                                          \cup {Idle}]
               /\ inQueue' \in [Queuers -> BOOLEAN]
               /\ popped' \in Queuers \cup {Nobody}
    BY <1>2, CallKeepsTypes DEF AirportTypeOK
  <1>3. ASSUME NEW c \in Calls, NEW d \in Queuers, JoinQueue(d, c) \/ LeaveQueue(d, c)
        PROVE  /\ UNCHANGED <<waiting, inQueue, popped>>
               /\ calls' \in [Calls -> [by : Queuers, at : Joining \cup Leaving, awaited : BOOLEAN]
                                          \cup {Idle}]
    <2>1. \E at \in Joining \cup Leaving :
            calls' = [calls EXCEPT ![c] = [by |-> d, at |-> at, awaited |-> TRUE]]
      BY <1>3 DEF JoinQueue, LeaveQueue, Starts, Joining, Leaving
    <2> QED
      BY <1>3, <2>1 DEF JoinQueue, LeaveQueue, AirportTypeOK
  <1>4. ASSUME NEW d \in Queuers, Remount(d)
        PROVE  /\ UNCHANGED <<waiting, popped>>
               /\ inQueue' \in [Queuers -> BOOLEAN]
               /\ calls' \in [Calls -> [by : Queuers, at : Joining \cup Leaving, awaited : BOOLEAN]
                                          \cup {Idle}]
    <2>1. ASSUME NEW c \in Calls, calls[c].by = d
          PROVE  [calls[c] EXCEPT !.awaited = FALSE]
                   \in [by : Queuers, at : Joining \cup Leaving, awaited : BOOLEAN]
      <3>1. calls[c] # Idle
        BY <2>1, QueueAssumption DEF Idle
      <3>2. calls[c] \in [by : Queuers, at : Joining \cup Leaving, awaited : BOOLEAN]
        BY <3>1 DEF AirportTypeOK
      <3> QED
        BY <3>2
    <2>2. calls' \in [Calls -> [by : Queuers, at : Joining \cup Leaving, awaited : BOOLEAN]
                                  \cup {Idle}]
      BY <1>4, <2>1 DEF Remount, AirportTypeOK
    <2> QED
      BY <1>4, <2>2 DEF Remount, AirportTypeOK
  <1> QED
    BY <1>1, <1>2, <1>3, <1>4 DEF AirportNext, AirportTypeOK

\* What becomes of the line in a step: one driver may be added or go, and a
\* dispatch takes the first one.
LineStep ==
  \/ UNCHANGED <<sortedSet, popped>>
  \/ UNCHANGED sortedSet /\ popped' = Nobody
  \/ \E d \in Queuers : InFlight(d) /\ UNCHANGED popped /\ (Zadd(d) \/ Zrem(d))
  \/ \E d \in Queuers : NextOut(d) /\ Zrem(d) /\ popped' = d

LEMMA EveryStepIsALineStep ==
  ASSUME AirportTypeOK, AirportNext
  PROVE  LineStep
  <1>1. CASE DispatchStep
    BY <1>1 DEF DispatchStep, PopNext, EntryDispatched, LineStep
  <1>2. ASSUME NEW c \in Calls, CallStep(c) PROVE LineStep
    <2>1. CASE AddToSet(c) \/ RemoveFromSet(c)
      <3>1. calls[c].at # "no"
        BY <2>1 DEF AddToSet, RemoveFromSet, Moves
      <3>2. calls[c].by \in Queuers /\ InFlight(calls[c].by)
        BY <3>1, CallsAreTheirs DEF InFlight
      <3> QED
        BY <2>1, <3>2 DEF AddToSet, RemoveFromSet, LineStep
    <2>2. CASE ~AddToSet(c) /\ ~RemoveFromSet(c)
      BY <1>2, <2>2
      DEF CallStep, CreateEntry, JoinAnswered, JoinFails, ClearEntries, LeaveAnswered, LeaveFails,
          LineStep
    <2> QED
      BY <2>1, <2>2
  <1>3. ASSUME NEW c \in Calls, NEW d \in Queuers, JoinQueue(d, c) \/ LeaveQueue(d, c)
        PROVE  LineStep
    BY <1>3 DEF JoinQueue, LeaveQueue, LineStep
  <1>4. ASSUME NEW d \in Queuers, Remount(d) PROVE LineStep
    BY <1>4 DEF Remount, LineStep
  <1> QED
    BY <1>1, <1>2, <1>3, <1>4 DEF AirportNext

LEMMA LineKeeps ==
  ASSUME AqInv, LineStep
  PROVE  queue' \subseteq Queuers /\ ahead' \subseteq queue' \X queue' /\ InLine'
  <1>1. AirportTypeOK /\ InLine
    BY DEF AqInv
  <1>2. CASE UNCHANGED sortedSet
    BY <1>1, <1>2 DEF sortedSet, AirportTypeOK, InLine, Before
  <1>3. ASSUME NEW d \in Queuers, Zadd(d)
        PROVE  queue' \subseteq Queuers /\ ahead' \subseteq queue' \X queue' /\ InLine'
    BY <1>1, <1>3, ZaddKeeps
  <1>4. ASSUME NEW d \in Queuers, Zrem(d)
        PROVE  queue' \subseteq Queuers /\ ahead' \subseteq queue' \X queue' /\ InLine'
    BY <1>1, <1>4, ZremKeeps
  <1> QED
    BY <1>2, <1>3, <1>4 DEF LineStep

-----------------------------------------------------------------------------
\* What KeepsPlace says of one step.
PlaceKept ==
  \A d, e \in Queuers :
    Before(d, e) => /\ Queued(e)' => (Before(d, e)' \/ InFlight(d) \/ popped' = d)
                    /\ popped' = e => popped = e

LEMMA StepKeepsPlace ==
  ASSUME AqInv, LineStep
  PROVE  PlaceKept
  <1>1. AirportTypeOK /\ InLine
    BY DEF AqInv
  <1> SUFFICES ASSUME NEW d \in Queuers, NEW e \in Queuers, Before(d, e)
               PROVE  /\ Queued(e)' => (Before(d, e)' \/ InFlight(d) \/ popped' = d)
                      /\ popped' = e => popped = e
    BY DEF PlaceKept
  <1>2. d \in queue /\ e \in queue /\ d # e
    BY <1>1 DEF AirportTypeOK, InLine, Before
  <1>3. CASE UNCHANGED sortedSet /\ (UNCHANGED popped \/ popped' = Nobody)
    BY <1>3, QueueAssumption DEF sortedSet, Before
  <1>4. ASSUME NEW x \in Queuers, InFlight(x), UNCHANGED popped, Zadd(x)
        PROVE  Before(d, e)' \/ InFlight(d)
    BY <1>1, <1>4, ZaddKeeps
  <1>5. ASSUME NEW x \in Queuers, InFlight(x), UNCHANGED popped, Zrem(x)
        PROVE  Queued(e)' => (Before(d, e)' \/ InFlight(d))
    <2>1. CASE x = e
      BY <1>5, <2>1 DEF Zrem, Queued
    <2>2. CASE x # e
      BY <1>1, <1>5, <2>2, ZremKeeps
    <2> QED
      BY <2>1, <2>2
  <1>6. ASSUME NEW x \in Queuers, NextOut(x), Zrem(x), popped' = x
        PROVE  x # e /\ (Before(d, e)' \/ popped' = d)
    <2>1. x # e
      BY <1>2, <1>6 DEF NextOut, Before
    <2>2. x # d => Before(d, e)'
      BY <1>1, <1>6, <2>1, ZremKeeps
    <2> QED
      BY <1>6, <2>1, <2>2
  <1> QED
    BY <1>3, <1>4, <1>5, <1>6 DEF LineStep

-----------------------------------------------------------------------------
LEMMA AqStepHolds == AqInv /\ [AirportNext]_<<aqVars, faults>> => AqInv'
  <1> SUFFICES ASSUME AqInv, [AirportNext]_<<aqVars, faults>> PROVE AqInv'
    OBVIOUS
  <1>1. CASE AirportNext
    <2>1. queue' \subseteq Queuers /\ ahead' \subseteq queue' \X queue' /\ InLine'
      BY <1>1, EveryStepIsALineStep, LineKeeps DEF AqInv
    <2> QED
      BY <1>1, <2>1, TypesKept DEF AqInv, AirportTypeOK
  <1>2. CASE UNCHANGED <<aqVars, faults>>
    BY <1>2 DEF AqInv, AirportTypeOK, InLine, Before, aqVars
  <1> QED
    BY <1>1, <1>2

\* The types are right, and the drivers in the queue stand in a line, at every moment.
THEOREM AqInvariantHolds == AqSpec => []AqInv
  <1> QED
    BY AqInitHolds, AqStepHolds, PTL DEF AqSpec

\* First come, first served, for any drivers, whatever joins and leaves are under way.
THEOREM FirstComeFirstServed == AqSpec => KeepsPlace
  <1>1. AqInv /\ [AirportNext]_<<aqVars, faults>> => [PlaceKept]_aqVars
    BY EveryStepIsALineStep, StepKeepsPlace DEF AqInv, aqVars
  <1>2. AqSpec => [][PlaceKept]_aqVars
    BY <1>1, AqInvariantHolds, PTL DEF AqSpec
  <1> QED
    BY <1>2 DEF KeepsPlace, PlaceKept

-----------------------------------------------------------------------------
(* A join is let through when the driver has no waiting entry, and writes  *)
(* its own later. The joins of a driver that can overlap are all there is  *)
(* to keep the entries few: each one that is still to write takes the room *)
(* of one entry (EntriesHaveRoom).                                         *)

ToCreate(d) == {c \in Calls : calls[c].by = d /\ calls[c].at \in {"add", "create"}}
EntriesHaveRoom ==
  \A d \in Queuers : waiting[d] + Cardinality(ToCreate(d)) <= Cardinality(Calls)

\* No driver has more waiting entries than requests can overlap: one, if they never do.
FewEntries == \A d \in Queuers : waiting[d] <= Cardinality(Calls)

\* The joins of any driver, and how many they are, are finite.
LEMMA ToCreateIsFinite ==
  ASSUME IsFiniteSet(Calls), NEW d
  PROVE  /\ IsFiniteSet(ToCreate(d)) /\ Cardinality(ToCreate(d)) \in Nat
         /\ Cardinality(ToCreate(d)) <= Cardinality(Calls) /\ Cardinality(Calls) \in Nat
  BY FS_Subset, FS_CardinalityType DEF ToCreate

\* A step that lets nothing more wait than it takes from the joins still to write.
LEMMA RoomKeeps ==
  ASSUME IsFiniteSet(Calls), AirportTypeOK, EntriesHaveRoom, AirportNext
  PROVE  EntriesHaveRoom'
  <1> SUFFICES ASSUME NEW d \in Queuers
               PROVE  waiting'[d] + Cardinality(ToCreate(d)') <= Cardinality(Calls)
    BY DEF EntriesHaveRoom
  <1>1. /\ waiting[d] \in Nat /\ Cardinality(Calls) \in Nat
        /\ IsFiniteSet(ToCreate(d)) /\ Cardinality(ToCreate(d)) \in Nat
        /\ waiting[d] + Cardinality(ToCreate(d)) <= Cardinality(Calls)
    BY ToCreateIsFinite DEF AirportTypeOK, EntriesHaveRoom
  <1>2. /\ IsFiniteSet(ToCreate(d)') /\ Cardinality(ToCreate(d)') \in Nat
        /\ Cardinality(ToCreate(d)') <= Cardinality(Calls)
    BY FS_Subset, FS_CardinalityType DEF ToCreate
  <1>3. ASSUME waiting'[d] \in {waiting[d], 0}, ToCreate(d)' \subseteq ToCreate(d)
        PROVE  waiting'[d] + Cardinality(ToCreate(d)') <= Cardinality(Calls)
    <2>1. Cardinality(ToCreate(d)') <= Cardinality(ToCreate(d))
      BY <1>1, <1>3, FS_Subset
    <2> QED
      BY <1>1, <1>2, <1>3, <2>1
  <1>4. CASE DispatchStep
    BY <1>3, <1>4 DEF DispatchStep, PopNext, EntryDispatched, AirportTypeOK, ToCreate
  <1>5. ASSUME NEW c \in Calls, CreateEntry(c)
        PROVE  waiting'[d] + Cardinality(ToCreate(d)') <= Cardinality(Calls)
    <2>1. /\ waiting' = [waiting EXCEPT ![calls[c].by] = @ + 1]
          /\ calls' = [calls EXCEPT ![c].at = "answer"] /\ calls[c].at = "create"
      BY <1>5 DEF CreateEntry, Moves
    <2>2. CASE calls[c].by = d
      <3>1. ToCreate(d)' = ToCreate(d) \ {c} /\ c \in ToCreate(d)
        BY <2>1, <2>2 DEF ToCreate, AirportTypeOK
      <3>2. Cardinality(ToCreate(d)') = Cardinality(ToCreate(d)) - 1
        BY <1>1, <3>1, FS_RemoveElement
      <3>3. waiting'[d] = waiting[d] + 1
        BY <2>1, <2>2 DEF AirportTypeOK
      <3> QED
        BY <1>1, <3>2, <3>3
    <2>3. CASE calls[c].by # d
      BY <1>3, <2>1, <2>3 DEF ToCreate, AirportTypeOK
    <2> QED
      BY <2>2, <2>3
  <1>6. ASSUME NEW c \in Calls, CallStep(c), ~CreateEntry(c)
        PROVE  waiting'[d] + Cardinality(ToCreate(d)') <= Cardinality(Calls)
    <2>1. waiting'[d] \in {waiting[d], 0}
      BY <1>6
      DEF CallStep, AddToSet, JoinAnswered, JoinFails, RemoveFromSet, ClearEntries, LeaveAnswered,
          LeaveFails, AirportTypeOK
    <2>2. \/ calls' = [calls EXCEPT ![c] = Idle]
          \/ calls[c].at = "add" /\ calls' = [calls EXCEPT ![c].at = "create"]
          \/ \E to \in Leaving : calls' = [calls EXCEPT ![c].at = to]
      BY <1>6
      DEF CallStep, AddToSet, JoinAnswered, JoinFails, RemoveFromSet, ClearEntries, LeaveAnswered,
          LeaveFails, Ends, Moves, Leaving
    <2>3. ToCreate(d)' \subseteq ToCreate(d)
      BY <2>2 DEF ToCreate, AirportTypeOK, Idle, Leaving
    <2> QED
      BY <1>3, <2>1, <2>3
  <1>7. ASSUME NEW c \in Calls, NEW e \in Queuers, JoinQueue(e, c)
        PROVE  waiting'[d] + Cardinality(ToCreate(d)') <= Cardinality(Calls)
    <2>1. CASE e = d
      BY <1>2, <1>7, <2>1 DEF JoinQueue
    <2>2. CASE e # d
      <3>1. ToCreate(d)' \subseteq ToCreate(d)
        BY <1>7, <2>2 DEF JoinQueue, Starts, ToCreate, AirportTypeOK
      <3> QED
        BY <1>3, <1>7, <3>1 DEF JoinQueue
    <2> QED
      BY <2>1, <2>2
  <1>8. ASSUME NEW c \in Calls, NEW e \in Queuers, LeaveQueue(e, c)
        PROVE  waiting'[d] + Cardinality(ToCreate(d)') <= Cardinality(Calls)
    <2>1. ToCreate(d)' \subseteq ToCreate(d)
      BY <1>8 DEF LeaveQueue, Starts, ToCreate, AirportTypeOK
    <2> QED
      BY <1>3, <1>8, <2>1 DEF LeaveQueue
  <1>9. ASSUME NEW e \in Queuers, Remount(e)
        PROVE  waiting'[d] + Cardinality(ToCreate(d)') <= Cardinality(Calls)
    <2>1. \A c \in Calls : calls'[c].by = calls[c].by /\ calls'[c].at = calls[c].at
      BY <1>9 DEF Remount, AirportTypeOK, Idle
    <2>2. ToCreate(d)' \subseteq ToCreate(d)
      BY <2>1 DEF ToCreate
    <2> QED
      BY <1>3, <1>9, <2>2 DEF Remount
  <1> QED
    BY <1>4, <1>5, <1>6, <1>7, <1>8, <1>9 DEF AirportNext

\* For any drivers: a driver's overlapping joins leave no more waiting entries than
\* there are of them. "Already in EWR queue." (airport.service.ts), one entry at most,
\* is so if requests do not overlap, and only then.
THEOREM OverlapLimitsEntries ==
  ASSUME IsFiniteSet(Calls)
  PROVE  AqSpec => []FewEntries
  <1>1. AirportInit => EntriesHaveRoom
    <2> SUFFICES ASSUME AirportInit, NEW d \in Queuers
                 PROVE  waiting[d] + Cardinality(ToCreate(d)) <= Cardinality(Calls)
      BY DEF EntriesHaveRoom
    <2>1. waiting[d] = 0
      BY DEF AirportInit
    <2> QED
      BY <2>1, ToCreateIsFinite
  <1>2. AirportTypeOK /\ EntriesHaveRoom /\ [AirportNext]_<<aqVars, faults>> => EntriesHaveRoom'
    <2>1. CASE AirportNext
      BY <2>1, RoomKeeps
    <2>2. CASE UNCHANGED <<aqVars, faults>>
      BY <2>2 DEF EntriesHaveRoom, ToCreate, aqVars
    <2> QED
      BY <2>1, <2>2
  <1>3. AqInv => AirportTypeOK
    BY DEF AqInv
  <1>4. AirportTypeOK /\ EntriesHaveRoom => FewEntries
    <2> SUFFICES ASSUME AirportTypeOK, EntriesHaveRoom, NEW d \in Queuers
                 PROVE  waiting[d] <= Cardinality(Calls)
      BY DEF FewEntries
    <2> QED
      BY ToCreateIsFinite DEF AirportTypeOK, EntriesHaveRoom
  <1> QED
    BY <1>1, <1>2, <1>3, <1>4, AqInvariantHolds, PTL DEF AqSpec

=============================================================================
