---------------------------- MODULE MCOnboarding ----------------------------
(***************************************************************************)
(* Accounts, for TLC: signing in; the screens of a driver's sign-up and    *)
(* the handlers of the application; the cards and the profile of a rider.  *)
(* A behaviour lets one of them run and the others rest; they share the    *)
(* fault budget.                                                           *)
(***************************************************************************)
EXTENDS DriverOnboarding, DriverSignup, AuthSession, RiderCards, RiderProfile

VARIABLE part   \* the component that runs

mcVars == <<part, faults, obVars, suVars, asVars, rcVars, rpVars>>
InHandlers == part = "handlers" /\ UNCHANGED <<part, suVars, asVars, rcVars, rpVars>>
OnScreens == part = "screens" /\ UNCHANGED <<part, obVars, asVars, rcVars, rpVars>>
InSession == part = "session" /\ UNCHANGED <<part, obVars, suVars, rcVars, rpVars>>
InCards == part = "cards" /\ UNCHANGED <<part, obVars, suVars, asVars, rpVars>>
InProfile(p) == part = p /\ UNCHANGED <<part, obVars, suVars, asVars, rcVars>>

MCInit ==
  /\ part \in {"handlers", "screens", "session", "cards", "contacts", "places"} /\ faults = 0
  /\ ObInit /\ SignupInit /\ AsInit /\ RcInit /\ RpInit
MCNext ==
  \/ InHandlers /\ ObNext
  \/ OnScreens /\ SignupNext
  \/ InSession /\ AsNext
  \/ InCards /\ RcNext
  \/ InProfile("contacts") /\ ContactsNext
  \/ InProfile("places") /\ PlacesNext

\* The code goes on with what it began; people may stop at any point.  A driver
\* does not leave every screen just before its guard has answered (SF).  Only one
\* part ever runs, so a disjunction of one action of each is fair to all.
MCFairness ==
  /\ WF_mcVars((InHandlers /\ ObAppStep) \/ (OnScreens /\ FormStep(0)))
  /\ \A h \in Hooks : WF_mcVars((InHandlers /\ HookStep(h)) \/ (OnScreens /\ FormStep(2)))
  /\ WF_mcVars((InHandlers /\ \E h \in Hooks, e \in CheckrEvent : ClaimReport(h, e))
               \/ (OnScreens /\ FormStep(3)))
  /\ SF_mcVars(OnScreens /\ GuardAnswers)

Spec == MCInit /\ [][MCNext]_mcVars /\ MCFairness
=============================================================================
