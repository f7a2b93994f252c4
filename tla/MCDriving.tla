----------------------------- MODULE MCDriving ------------------------------
(***************************************************************************)
(* Being on the road, for TLC: presence, the airport queue, and the app of *)
(* a driver.  A behaviour lets one of them run and the others rest; they   *)
(* share the fault budget.  Presence runs with offer rides or with         *)
(* standard ones: all a ride does to the road is read it.                  *)
(***************************************************************************)
EXTENDS DriverPresence, AirportQueue, DriverApp

VARIABLE part   \* the component that runs

mcVars == <<part, faults, prVars, aqVars, daVars>>
AtGateway == part \in {"offers", "requests"} /\ UNCHANGED <<part, aqVars, daVars>>
AtAirport == part = "airport" /\ UNCHANGED <<part, prVars, daVars>>
InApp == part = "app" /\ UNCHANGED <<part, prVars, aqVars>>

MCInit ==
  /\ part \in {"offers", "requests", "airport", "app"} /\ faults = 0
  /\ PresenceInit /\ AirportInit /\ DriverAppInit
MCNext ==
  \/ AtGateway /\ RoadNext
  \/ AtGateway /\ part = "offers" /\ OfferNext
  \/ AtGateway /\ part = "requests" /\ RequestNext
  \/ AtAirport /\ AirportNext
  \/ InApp /\ DriverAppNext

\* The code goes on with what it began; people may stop at any point.  Only one
\* part ever runs, so a disjunction of one action of each is fair to all.
MCFairness ==
  /\ WF_mcVars((AtGateway /\ AvailStep) \/ (InApp /\ ShowCancelled))
  /\ WF_mcVars((AtGateway /\ Beat) \/ (InApp /\ RestoreActiveTrip))
  /\ WF_mcVars((AtGateway /\ StartHeartbeat) \/ (InApp /\ ServerAnswers))
  /\ WF_mcVars((AtGateway /\ PositionArrives) \/ (InApp /\ AppReads))

Spec == MCInit /\ [][MCNext]_mcVars /\ MCFairness
=============================================================================
