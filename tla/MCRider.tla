------------------------------- MODULE MCRider ------------------------------
(***************************************************************************)
(* The rider, for TLC: booking a ride, the app around it, and the stars    *)
(* its two parties give each other after it.  A behaviour lets one of them *)
(* run and the others rest; they share the fault budget.                   *)
(***************************************************************************)
EXTENDS RiderApp, Booking, Ratings

CONSTANTS home, town, ewr   \* a terminal is two miles from town, home is six away
MCMiles == [s \in SUBSET {home, town, ewr} |->
              IF Cardinality(s) = 1 THEN 0 ELSE IF ewr \in s THEN 2 ELSE 6]
MCAiAnswers == {<<>>, <<300>>}   \* none, and one above the cap

VARIABLE part   \* the component that runs

mcVars == <<part, faults, raVars, bkVars, rtVars>>
InRiderApp == part = "app" /\ UNCHANGED <<part, bkVars, rtVars>>
AtHome == part = "booking" /\ UNCHANGED <<part, raVars, rtVars>>
AfterRide == part = "ratings" /\ UNCHANGED <<part, raVars, bkVars>>

MCInit ==
  /\ part \in {"app", "booking", "ratings"} /\ faults = 0
  /\ RiderInit /\ BookingInit /\ RtInit
MCNext ==
  \/ InRiderApp /\ RiderNext
  \/ AtHome /\ BookingNext
  \/ AfterRide /\ RtNext

\* The code goes on with what it began and the socket comes back; people may
\* stop at any point.
MCFairness ==
  /\ WF_mcVars(InRiderApp /\ Hear)
  /\ WF_mcVars(InRiderApp /\ RoomJoined)
  /\ WF_mcVars(InRiderApp /\ SocketReturns)

Spec == MCInit /\ [][MCNext]_mcVars /\ MCFairness
=============================================================================
