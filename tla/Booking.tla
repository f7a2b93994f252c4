------------------------------- MODULE Booking -------------------------------
(***************************************************************************)
(* Booking on the home screen of the rider app: the two address fields and *)
(* their search, the picker of airport terminals, the fare estimates, the  *)
(* sheet and the request; the look-ups of rider-service; and the pricing,  *)
(* asked by the app for the quote and again by trip-service for the ride.  *)
(*                                                                         *)
(* A text typed into a field is a number, 0 while it is too short to be    *)
(* looked up.  A place is picked from the suggestions of any text.         *)
(***************************************************************************)
EXTENDS FaultBudget, FareEngine, FiniteSets

CONSTANTS
  Places,       \* addresses
  NoPlace,
  Here,         \* the place the phone is at
  Airports,     \* the places priced as the airport: inside the geofence, or named so
  Terminals,    \* EWR_TERMINALS, all inside the geofence
  NamedEwr,     \* the places whose address matches EWR_ADDRESS_PATTERNS, wherever they are
  Miles,        \* the distance between the two places of a set
  AiAnswers,    \* what ai-service may answer
  MaxTexts,     \* bound: texts typed
  MaxPicks      \* bound: places picked

ASSUME BookingAssumption ==
  /\ NoPlace \notin Places /\ Here \in Places /\ Airports \subseteq Places
  /\ Terminals \subseteq Airports /\ NamedEwr \subseteq Places
  /\ \A a, b \in Places : Miles[{a, b}] \in Nat
  /\ \A answer \in AiAnswers : answer = <<>> \/ answer[1] \in Int
  /\ MaxTexts \in Nat /\ MaxPicks \in Nat

VARIABLES
  pickup,       \* pickupResolved
  dropoff,      \* dropoffResolved
  located,      \* the position of the phone came
  field,        \* the search that is open: its field, text, list, and timer
  typed,        \* texts typed so far
  suggesting,   \* autocomplete requests under way
  lookups,      \* picks whose coordinates are being looked up
  placed,       \* geocode:place:<id>
  picks,        \* picks so far
  atAirport,    \* pendingEwrAddress: the picker is up
  estimates,    \* estimates under way
  fare,         \* fareEstimate, with what it was computed from
  sheet,        \* the booking sheet
  demand,       \* the surge score of the zone, in halves
  night,
  order,        \* the request, and the ride made from it
  crossed       \* an address changed under an estimate, see QuoteHonoured

bkVars == <<pickup, dropoff, located, field, typed, suggesting, lookups, placed, picks, atAirport,
            estimates, fare, sheet, demand, night, order, crossed>>
search == <<field, typed, suggesting>>
NoQuote == [from |-> NoPlace, to |-> NoPlace, amount |-> 0, demand |-> 0, night |-> FALSE]
NoOrder == [at |-> "none", from |-> NoPlace, to |-> NoPlace, quote |-> NoQuote, amount |-> 0,
            demand |-> 0, night |-> FALSE]
Closed == [name |-> "none", text |-> 0, list |-> 0, timer |-> FALSE]

Somewhere == Places \cup {NoPlace}
Names == {"none", "pickup", "dropoff"}
Quotes == [from : Somewhere, to : Somewhere, amount : Int, demand : {0, 2}, night : BOOLEAN]

BookingTypeOK ==
  /\ pickup \in Somewhere /\ dropoff \in Somewhere /\ located \in BOOLEAN
  /\ field \in [name : Names, text : 0..MaxTexts, list : 0..MaxTexts, timer : BOOLEAN]
  /\ typed \in 0..MaxTexts /\ suggesting \subseteq [name : Names, text : 0..MaxTexts]
  /\ lookups \subseteq [name : Names, place : Places, pickup : Somewhere, dropoff : Somewhere,
                        at : {"asked", "found"}]
  /\ placed \subseteq Places /\ picks \in 0..MaxPicks /\ atAirport \in Somewhere
  /\ estimates \subseteq [from : Places, to : Places] /\ fare \in Quotes
  /\ sheet \in [open : BOOLEAN, held : BOOLEAN] /\ demand \in {0, 2} /\ night \in BOOLEAN
  /\ order \in [at : {"none", "asked", "made"}, from : Somewhere, to : Somewhere, quote : Quotes,
                amount : Int, demand : {0, 2}, night : BOOLEAN]
  /\ crossed \in BOOLEAN

BookingInit ==
  /\ pickup = NoPlace /\ dropoff = NoPlace /\ located = FALSE
  /\ field = Closed /\ typed = 0 /\ suggesting = {} /\ lookups = {} /\ placed = {} /\ picks = 0
  /\ atAirport = NoPlace /\ estimates = {} /\ fare = NoQuote
  /\ sheet = [open |-> FALSE, held |-> FALSE]
  /\ demand = 0 /\ night = FALSE /\ order = NoOrder /\ crossed = FALSE

Booking == order.at = "none" /\ atAirport = NoPlace
Picks == picks < MaxPicks /\ picks' = picks + 1

-----------------------------------------------------------------------------
(* What a resolved address does to the screen                               *)

\* mutant: the quote of the old address stays
QuoteStays == fare
QuoteGone == NoQuote

SetPickup(p) ==
  /\ pickup' = p /\ fare' = QuoteGone
  /\ crossed' = (crossed \/ estimates # {})
  /\ UNCHANGED <<dropoff, estimates, atAirport>>

\* finalizeDropoff, by a handler that was made while pickup was seen.
Finalize(p, seen) ==
  /\ dropoff' = p /\ fare' = QuoteGone
  /\ estimates' = IF seen = NoPlace THEN estimates ELSE estimates \cup {[from |-> seen, to |-> p]}
  /\ crossed' = (crossed \/ estimates # {} \/ seen # pickup)
  /\ UNCHANGED pickup

\* handleDropoffResolved: an address that names the airport asks for the terminal first.
SetDropoff(p, seen) ==
  IF p \in NamedEwr
    THEN atAirport' = p /\ UNCHANGED <<pickup, dropoff, estimates, fare, crossed>>
    ELSE Finalize(p, seen) /\ UNCHANGED atAirport

Resolved(name, p, seen) == IF name = "pickup" THEN SetPickup(p) ELSE SetDropoff(p, seen)

\* The drop-off field is mounted anew with each drop-off, the pickup field never.
Mounted(l) == l.name = "pickup" \/ l.dropoff = dropoff
Remounted(f) == IF dropoff' # dropoff /\ f.name = "dropoff" THEN Closed ELSE f
StillAsked == IF dropoff' # dropoff THEN {s \in suggesting : s.name = "pickup"} ELSE suggesting

-----------------------------------------------------------------------------
(* The fields: AddressAutocomplete                                          *)

OpenField(name) ==
  /\ Booking /\ field = Closed /\ field' = [Closed EXCEPT !.name = name]
  /\ UNCHANGED <<pickup, dropoff, located, typed, suggesting, lookups, placed, picks, atAirport,
                 estimates, fare, sheet, demand, night, order, crossed, faults>>

CloseField ==
  /\ field # Closed /\ field' = Closed
  /\ UNCHANGED <<pickup, dropoff, located, typed, suggesting, lookups, placed, picks, atAirport,
                 estimates, fare, sheet, demand, night, order, crossed, faults>>

\* Every change of the text clears the list and starts the timer anew.
Type(short) ==
  /\ field # Closed /\ typed < MaxTexts /\ typed' = typed + 1
  /\ field' = [field EXCEPT !.text = IF short THEN 0 ELSE typed', !.list = 0, !.timer = ~short]
  /\ UNCHANGED <<pickup, dropoff, located, suggesting, lookups, placed, picks, atAirport,
                 estimates, fare, sheet, demand, night, order, crossed, faults>>

FetchSuggestions ==
  /\ field.timer /\ field' = [field EXCEPT !.timer = FALSE]
  /\ suggesting' = suggesting \cup {[name |-> field.name, text |-> field.text]}
  /\ UNCHANGED <<pickup, dropoff, located, typed, lookups, placed, picks, atAirport,
                 estimates, fare, sheet, demand, night, order, crossed, faults>>

\* autocomplete answers a failure with an empty list; the field shows any answer.
Suggested(s, found) ==
  /\ suggesting' = suggesting \ {s}
  /\ field' = IF field.name = s.name THEN [field EXCEPT !.list = IF found THEN s.text ELSE 0]
                                     ELSE field
  /\ UNCHANGED <<pickup, dropoff, located, typed, lookups, placed, picks, atAirport,
                 estimates, fare, sheet, demand, night, order, crossed, faults>>

TapSuggestion(p) ==
  /\ field.list # 0 /\ Picks
  /\ lookups' = lookups \cup {[name |-> field.name, place |-> p, pickup |-> pickup,
                               dropoff |-> dropoff, at |-> "asked"]}
  /\ UNCHANGED <<pickup, dropoff, located, search, placed, atAirport, estimates, fare, sheet,
                 demand, night, order, crossed, faults>>

\* getPlaceCoordinates, from its cache or from the maps API.
GetPlaceCoordinates(l) ==
  /\ l.at = "asked" /\ placed' = placed \cup {l.place}
  /\ lookups' = (lookups \ {l}) \cup {[l EXCEPT !.at = "found"]}
  /\ UNCHANGED <<pickup, dropoff, located, search, picks, atAirport, estimates, fare, sheet,
                 demand, night, order, crossed, faults>>

\* The search stays open, to be tried again.
LookupFails(l) ==
  /\ l.at = "asked" /\ l.place \notin placed /\ Fault /\ lookups' = lookups \ {l}
  /\ UNCHANGED <<pickup, dropoff, located, search, placed, picks, atAirport, estimates, fare,
                 sheet, demand, night, order, crossed>>

\* The search closes, whatever the rider did with it meanwhile.
SelectApi(l) ==
  /\ l.at = "found" /\ order.at = "none" /\ lookups' = lookups \ {l}
  /\ Resolved(l.name, l.place, l.pickup)
  /\ field' = Remounted(IF field.name = l.name /\ Mounted(l) THEN Closed ELSE field)
  /\ suggesting' = StillAsked
  /\ UNCHANGED <<located, typed, placed, picks, sheet, demand, night, order, faults>>

\* A recent address, or one of the shortcuts of the sheet.
SelectKnown(p) ==
  /\ Booking /\ Picks
  /\ field = Closed \/ field = [Closed EXCEPT !.name = "dropoff"]
  /\ SetDropoff(p, pickup) /\ field' = Closed /\ suggesting' = StillAsked
  /\ UNCHANGED <<located, typed, lookups, placed, sheet, demand, night, order, faults>>

\* A terminal, or the address as it was found.
SelectTerminal ==
  /\ atAirport # NoPlace /\ atAirport' = NoPlace
  /\ \E p \in Terminals \cup {atAirport} : Finalize(p, pickup)
  /\ field' = Remounted(field) /\ suggesting' = StillAsked
  /\ UNCHANGED <<located, typed, lookups, placed, picks, sheet, demand, night, order, faults>>

\* The position of the phone, once, as the pickup.
LocationArrives ==
  /\ ~located /\ located' = TRUE /\ pickup' = Here
  /\ crossed' = (crossed \/ fare # NoQuote \/ estimates # {})
  /\ UNCHANGED <<dropoff, search, lookups, placed, picks, atAirport, estimates, fare, sheet,
                 demand, night, order, faults>>

-----------------------------------------------------------------------------
(* The estimates and the sheet                                              *)

\* Both sides look at the two endpoints: isAirportEndpoint of the app, and
\* detectAirportTripFromEndpoints of trip-service.
IsAirportEndpoint(p) == p \in Airports
QuotedAsAirport(from, to) == IsAirportEndpoint(from) \/ IsAirportEndpoint(to)
DetectAirportTrip(from, to) == {from, to} \cap Airports # {}

EstimateArrives(e, answer) ==
  /\ estimates' = estimates \ {e}
  /\ fare' = [from |-> e.from, to |-> e.to, demand |-> demand, night |-> night,
              amount |-> FareOf(Miles[{e.from, e.to}], QuotedAsAirport(e.from, e.to), night,
                                demand, answer)]
  /\ sheet' = IF sheet.held THEN sheet ELSE [sheet EXCEPT !.open = TRUE]
  /\ UNCHANGED <<pickup, dropoff, located, search, lookups, placed, picks, atAirport, demand,
                 night, order, crossed, faults>>

EstimateFails(e) ==
  /\ estimates' = estimates \ {e} /\ Fault
  /\ UNCHANGED <<pickup, dropoff, located, search, lookups, placed, picks, atAirport, fare, sheet,
                 demand, night, order, crossed>>

\* A finger takes the sheet and lets it go at one of its two heights.
HoldSheet ==
  /\ Booking /\ field = Closed /\ ~sheet.held /\ sheet' = [sheet EXCEPT !.held = TRUE]
  /\ UNCHANGED <<pickup, dropoff, located, search, lookups, placed, picks, atAirport, estimates,
                 fare, demand, night, order, crossed, faults>>
DropSheet(open) ==
  /\ sheet.held /\ sheet' = [open |-> open, held |-> FALSE]
  /\ UNCHANGED <<pickup, dropoff, located, search, lookups, placed, picks, atAirport, estimates,
                 fare, demand, night, order, crossed, faults>>

RequestRideFromSheet ==
  /\ Booking /\ field = Closed /\ sheet.open /\ ~sheet.held
  /\ pickup # NoPlace /\ dropoff # NoPlace /\ fare # NoQuote
  /\ order' = [NoOrder EXCEPT !.at = "asked", !.from = pickup, !.to = dropoff, !.quote = fare]
  /\ UNCHANGED <<pickup, dropoff, located, search, lookups, placed, picks, atAirport, estimates,
                 fare, sheet, demand, night, crossed, faults>>

\* createTrip asks pricing-service for a fare of its own.
PriceRide(answer) ==
  /\ order.at = "asked"
  /\ order' = [order EXCEPT !.at = "made", !.demand = demand, !.night = night,
                 !.amount = FareOf(Miles[{order.from, order.to}],
                                   DetectAirportTrip(order.from, order.to), night, demand, answer)]
  /\ UNCHANGED <<pickup, dropoff, located, search, lookups, placed, picks, atAirport, estimates,
                 fare, sheet, demand, night, crossed, faults>>

\* No pricing, or the account is under review.
RequestRefused ==
  /\ order.at = "asked" /\ order' = NoOrder /\ Fault
  /\ UNCHANGED <<pickup, dropoff, located, search, lookups, placed, picks, atAirport, estimates,
                 fare, sheet, demand, night, crossed>>

-----------------------------------------------------------------------------
(* The world of the fare                                                    *)

DemandMoves ==
  /\ order.at # "made" /\ demand < 2 /\ demand' = demand + 2
  /\ UNCHANGED <<pickup, dropoff, located, search, lookups, placed, picks, atAirport, estimates,
                 fare, sheet, night, order, crossed, faults>>
NightFalls ==
  /\ order.at # "made" /\ ~night /\ night' = TRUE
  /\ UNCHANGED <<pickup, dropoff, located, search, lookups, placed, picks, atAirport, estimates,
                 fare, sheet, demand, order, crossed, faults>>

BookingNext ==
  \/ \E name \in {"pickup", "dropoff"} : OpenField(name)
  \/ CloseField \/ FetchSuggestions \/ SelectTerminal \/ LocationArrives
  \/ \E short \in BOOLEAN : Type(short)
  \/ \E s \in suggesting, found \in BOOLEAN : Suggested(s, found)
  \/ \E p \in Places : TapSuggestion(p) \/ SelectKnown(p)
  \/ \E l \in lookups : GetPlaceCoordinates(l) \/ LookupFails(l) \/ SelectApi(l)
  \/ \E e \in estimates : EstimateFails(e) \/ \E answer \in AiAnswers : EstimateArrives(e, answer)
  \/ HoldSheet \/ (\E open \in BOOLEAN : DropSheet(open))
  \/ RequestRideFromSheet \/ RequestRefused \/ (\E answer \in AiAnswers : PriceRide(answer))
  \/ DemandMoves \/ NightFalls
BkSpec == BookingInit /\ faults = 0 /\ [][BookingNext]_<<bkVars, faults>>

-----------------------------------------------------------------------------
Near(a, b) == a - b <= 2 * AdjustmentCap /\ b - a <= 2 * AdjustmentCap
SameWorld == order.quote.demand = order.demand /\ order.quote.night = order.night

\* "Quoted fares must not diverge from charged fares" (trips.service.ts, airports.ts):
\* with demand and hour unchanged a ride costs what the rider was shown, up to the
\* adjustment of ai-service, as long as no address changed under an estimate.
QuoteHonoured ==
  (order.at = "made" /\ SameWorld /\ ~crossed) => Near(order.amount, order.quote.amount)

\* "The quoted fare must include the airport premium exactly when the created trip
\* will be charged it" (HomeScreen.tsx): without that restriction.
PremiumIsQuoted ==
  (order.at = "made") => (DetectAirportTrip(order.from, order.to)
                          <=> QuotedAsAirport(order.quote.from, order.quote.to))
=============================================================================
