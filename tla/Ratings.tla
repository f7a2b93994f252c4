------------------------------- MODULE Ratings -------------------------------
(***************************************************************************)
(* The stars two parties give each other after a ride (rateDriver and      *)
(* rateRider of trips.service.ts) and the screens they give them on        *)
(* (TripCompleteScreen.tsx, rate-rider.tsx).                               *)
(*                                                                         *)
(* A screen is opened for one ride by one party, who may open another for  *)
(* it, later or on a second device; its request runs as one step per       *)
(* await. Its answer changes nothing: a screen that was refused thanks     *)
(* like one that was heard. The rides are completed ones of one driver. An *)
(* average is kept as the ratings it is the mean of, 0 for a ride left     *)
(* out. Comments and the safety flag travel with the stars; the push to    *)
(* the driver and the trust score, which start in the background, are left *)
(* out here.                                                               *)
(***************************************************************************)
EXTENDS FaultBudget, Integers

CONSTANTS
  Rated,    \* completed rides of the driver
  MaxStars,
  MaxScreens \* bound: rating screens that are opened

ASSUME RatingsAssumption ==
  Rated # {} /\ MaxStars \in Nat \ {0} /\ MaxScreens \in Nat

VARIABLES
  stars,    \* riderRatingDriver and driverRatingRider of each trip, 0 when null
  rated,    \* the ratings row of each trip, the same two columns
  average,  \* avgRating of the driver
  screen,   \* what every screen and its request are doing
  twice     \* columns that two requests found empty

rtVars == <<stars, rated, average, screen, twice>>

Screens == 1..MaxScreens   \* in the order they are opened
Parties == {"rider", "driver"}
Columns == Rated \X Parties
Stars == 0..MaxStars
Unseen == [t \in Rated |-> 0]
ScreenStep == {"closed", "shown", "check", "trip", "row", "mean", "driver", "thanks", "left"}
\* what a screen that is not open yet is about: anything
SomeColumn == CHOOSE c \in Columns : TRUE
ClosedScreen == [at |-> "closed", on |-> SomeColumn, given |-> 0, seen |-> Unseen]
RatingScreen == [at : ScreenStep, on : Columns, given : Stars, seen : [Rated -> Stars]]

RtTypeOK ==
  /\ stars \in [Columns -> Stars] /\ rated \in [Columns -> Stars]
  /\ average \in [Rated -> Stars]
  /\ screen \in [Screens -> RatingScreen]
  /\ twice \subseteq Columns

RtInit ==
  /\ stars = [c \in Columns |-> 0] /\ rated = [c \in Columns |-> 0]
  /\ average = Unseen /\ twice = {}
  /\ screen = [s \in Screens |-> ClosedScreen]

ShowsAt(s, step) == screen[s].at = step
Turns(s, step) ==
  screen' = [screen EXCEPT ![s] = IF step = "thanks" THEN [ClosedScreen EXCEPT !.at = step]
                                  ELSE [@ EXCEPT !.at = step]]

-----------------------------------------------------------------------------
(* The screens                                                              *)

OpenRating(s, c) ==
  /\ ShowsAt(s, "closed") /\ \A r \in 1..(s - 1) : ~ShowsAt(r, "closed")
  /\ screen' = [screen EXCEPT ![s].at = "shown", ![s].on = c]
  /\ UNCHANGED <<stars, rated, average, twice, faults>>

\* Skip, done, or the screen is left.
LeaveRating(s) ==
  /\ screen[s].at \in {"shown", "thanks"}
  /\ screen' = [screen EXCEPT ![s] = [ClosedScreen EXCEPT !.at = "left"]]
  /\ UNCHANGED <<stars, rated, average, twice, faults>>

\* The button is off without stars and while a request is under way.
SubmitRating(s, n) ==
  /\ ShowsAt(s, "shown")
  /\ screen' = [screen EXCEPT ![s].at = "check", ![s].given = n]
  /\ UNCHANGED <<stars, rated, average, twice, faults>>

-----------------------------------------------------------------------------
(* The handlers                                                             *)

\* A ride that has been rated is refused.
CheckRated(s) ==
  /\ ShowsAt(s, "check") /\ Turns(s, IF stars[screen[s].on] = 0 THEN "trip" ELSE "thanks")
  /\ UNCHANGED <<stars, rated, average, twice, faults>>

WriteTripRating(s) ==
  LET c == screen[s].on IN
  /\ ShowsAt(s, "trip") /\ Turns(s, "row")
  /\ stars' = [stars EXCEPT ![c] = screen[s].given]
  /\ twice' = IF stars[c] = 0 THEN twice ELSE twice \cup {c}
  /\ UNCHANGED <<rated, average, faults>>

(* mutant: the upsert starts the row anew *)
RowAnew(s) ==
  [c \in Columns |-> IF c = screen[s].on THEN screen[s].given
                     ELSE IF c[1] = screen[s].on[1] THEN 0 ELSE rated[c]]
\* The upsert writes the columns of its own party.
RowWith(s) == [rated EXCEPT ![screen[s].on] = screen[s].given]

\* Only the rider's stars are averaged.
UpsertRating(s) ==
  /\ ShowsAt(s, "row") /\ rated' = RowWith(s)
  /\ Turns(s, IF screen[s].on[2] = "rider" THEN "mean" ELSE "thanks")
  /\ UNCHANGED <<stars, average, twice, faults>>

AggregateStars(s) ==
  /\ ShowsAt(s, "mean")
  /\ screen' = [screen EXCEPT ![s].at = "driver",
                              ![s].seen = [t \in Rated |-> stars[<<t, "rider">>]]]
  /\ UNCHANGED <<stars, rated, average, twice, faults>>

WriteAverage(s) ==
  /\ ShowsAt(s, "driver") /\ average' = screen[s].seen /\ Turns(s, "thanks")
  /\ UNCHANGED <<stars, rated, twice, faults>>

\* The task dies, or the request or its answer is lost.
RatingDies(s) ==
  /\ screen[s].at \in {"check", "trip", "row", "mean", "driver"} /\ Fault
  /\ Turns(s, "thanks")
  /\ UNCHANGED <<stars, rated, average, twice>>

RtNext ==
  \E s \in Screens :
    \/ \E c \in Columns : OpenRating(s, c)
    \/ LeaveRating(s) \/ \E n \in 1..MaxStars : SubmitRating(s, n)
    \/ CheckRated(s) \/ WriteTripRating(s) \/ UpsertRating(s)
    \/ AggregateStars(s) \/ WriteAverage(s) \/ RatingDies(s)

RtSpec == RtInit /\ faults = 0 /\ [][RtNext]_<<rtVars, faults>>

-----------------------------------------------------------------------------
AwaitsRow(c) == \E s \in Screens : screen[s].on = c /\ ShowsAt(s, "row")

(* The trip and its ratings row tell the same, whichever of the two parties *)
(* writes it first: a column that no two requests found empty holds its     *)
(* stars in both, or not yet in the row, and in the row as well when its    *)
(* request is past it and did not die.                                      *)
RowAgrees ==
  \A c \in Columns \ twice :
    /\ rated[c] \in {0, stars[c]}
    /\ faults = 0 /\ ~AwaitsRow(c) => rated[c] = stars[c]

(* What the driver's average counts of a ride is what its rider gave.       *)
AverageIsGiven ==
  \A t \in Rated : <<t, "rider">> \notin twice => average[t] \in {0, stars[<<t, "rider">>]}

RatingsAgree == RowAgrees /\ AverageIsGiven
=============================================================================
