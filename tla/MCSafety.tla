------------------------------- MODULE MCSafety -----------------------------
(***************************************************************************)
(* Safety, for TLC: an emergency on the rider's phone, the desk that looks *)
(* out for them, and the watch over the route of a trip.  A behaviour lets *)
(* one of the three run and the others rest; they share the fault budget.  *)
(***************************************************************************)
EXTENDS SosAlert, SafetyDesk, RouteWatch

VARIABLE part   \* the component that runs

mcVars == <<part, faults, sosVars, deskVars, rwVars>>
InSos == part = "sos" /\ UNCHANGED <<part, deskVars, rwVars>>
AtDesk == part = "desk" /\ UNCHANGED <<part, sosVars, rwVars>>
OnRoute == part = "route" /\ UNCHANGED <<part, sosVars, deskVars>>

MCInit ==
  /\ part \in {"sos", "desk", "route"} /\ faults = 0
  /\ SosInit /\ DeskInit /\ RwInit
  /\ part # "sos" => slaColumn   \* no other part reads it
MCNext ==
  \/ InSos /\ SosNext
  \/ AtDesk /\ DeskNext
  \/ OnRoute /\ RwNext

\* The code goes on with what it began and the page polls; people may stop at any
\* point.  Only one part ever runs, so a disjunction of one action of each is fair
\* to all.
MCFairness ==
  /\ WF_mcVars((InSos /\ \E c \in sosCalls : SosStep(c)) \/ (OnRoute /\ SinceGrows)
               \/ (AtDesk /\ Poll("k1")))
  /\ WF_mcVars((InSos /\ \E s \in SosIds : CountdownEnds(s)) \/ (AtDesk /\ Poll("k2"))
               \/ (OnRoute /\ \E k \in Checks : PositionPublished(k)))
  /\ WF_mcVars((OnRoute /\ \E k \in Checks : CheckStep(k)) \/ (AtDesk /\ PollStep("k1")))
  /\ WF_mcVars(AtDesk /\ PollStep("k2"))

Spec == MCInit /\ [][MCNext]_mcVars /\ MCFairness
=============================================================================
