----------------------------- MODULE TrustHold -----------------------------
(***************************************************************************)
(* The fraud holds of one account: the recalculation of trust-service that *)
(* places them (trust.service.ts), the check of trip-service that obeys    *)
(* them (assertNoActiveFraudHold), and the review of the fraud page of the *)
(* admin console (fraud.service.ts, fraud/page.tsx).                       *)
(*                                                                         *)
(* A recalculation is not serialised with another, nor a review with       *)
(* anything.  The answer of a trained model is external: too low for a     *)
(* hold, or high enough.                                                   *)
(***************************************************************************)
EXTENDS FaultBudget, FiniteSets

CONSTANTS
  Desks,         \* consoles on which the fraud page is open
  Reviewers,     \* those whose role may decide
  InitialFacts,  \* what counts against the account at first
  Threshold,     \* FRAUD_AUTO_HOLD_THRESHOLD
  MaxAlerts,     \* bound: alerts placed
  MaxRefreshes,  \* bound: recalculations asked for
  MaxReviews     \* bound: requests at admin-service at once
ASSUME ReviewersAssumption == Reviewers \subseteq Desks
ASSUME HoldBoundsAssumption == MaxAlerts \in Nat /\ MaxRefreshes \in Nat
\* 90 in the code; the rules alone give at most 80.
ASSUME ThresholdAssumption == Threshold \in Nat /\ Threshold > 80

VARIABLES
  facts,      \* what counts against the account, besides its alerts
  alerts,     \* fraud_alerts, by number
  refreshes,  \* recalculations under way, with what they counted
  asked,      \* recalculations begun so far
  ride,       \* the ride the account asked for, or accepted
  page,       \* per desk, the alert that is open
  reviews,    \* requests at admin-service, with the status they read
  modelFlagged  \* a trained model once answered at or above the threshold

thVars == <<facts, alerts, refreshes, asked, ride, page, reviews, modelFlagged>>
Account == <<facts, ride>>
Refreshing == <<refreshes, asked, modelFlagged>>
Facts == {"linked", "devices", "disputes", "new"}
AlertIds == 1..MaxAlerts
ASSUME FactsAssumption == InitialFacts \subseteq Facts
Undecided == {"pending", "under_review"}
Decided == {"cleared", "escalated"}
NoAlert == [status |-> "none", decision |-> "none", released |-> FALSE]
Placed(a) == alerts[a].status # "none"
Held == \E a \in AlertIds : Placed(a) /\ ~alerts[a].released
Reviewing(op, d, a) == [op |-> op, desk |-> d, alert |-> a, at |-> "read"]

ThTypeOK ==
  /\ facts \subseteq Facts /\ ride \in {"none", "under_way"}
  /\ alerts \in [AlertIds -> [status : {"none"} \cup Undecided \cup Decided,
                              decision : {"none", "clear", "escalate"}, released : BOOLEAN]]
  /\ refreshes \subseteq [n : 1..MaxRefreshes, at : {"count", "score", "place"},
                          flagged : BOOLEAN]
  /\ asked \in 0..MaxRefreshes /\ modelFlagged \in BOOLEAN
  /\ page \in [Desks -> 0..MaxAlerts]
  /\ reviews \subseteq [op : {"mark", "clear", "escalate"}, desk : Desks, alert : AlertIds,
                        at : {"read", "write"}]

ThInit ==
  /\ facts = InitialFacts /\ ride = "none" /\ modelFlagged = FALSE
  /\ alerts = [a \in AlertIds |-> NoAlert] /\ refreshes = {} /\ asked = 0 /\ reviews = {}
  /\ page = [d \in Desks |-> 0]

-----------------------------------------------------------------------------
(* trust-service                                                            *)

\* scheduleTrustRefresh, after a ride ends; a lost request is forgotten.
AskRefresh(arrives) ==
  IF arrives
    THEN /\ asked < MaxRefreshes /\ asked' = asked + 1
         /\ refreshes' = refreshes \cup {[n |-> asked', at |-> "count", flagged |-> FALSE]}
         /\ NoFault
    ELSE UNCHANGED <<refreshes, asked>> /\ Fault

\* Flags are the alerts nobody cleared.
CountFlags(r) ==
  /\ r.at = "count"
  /\ refreshes' = (refreshes \ {r}) \cup
       {[r EXCEPT !.at = "score",
                  !.flagged = \E a \in AlertIds : alerts[a].status \in Undecided \cup {"escalated"}]}
  /\ UNCHANGED <<Account, alerts, asked, page, reviews, modelFlagged, faults>>

\* getFraudProbability without a model, in trust-service and in the fallback of
\* ai-service alike.
RuleProbability(f, flagged) ==
  (IF "linked" \in f THEN 30 ELSE 0) + (IF "devices" \in f THEN 20 ELSE 0)
  + (IF flagged THEN 40 ELSE 0) + (IF "disputes" \in f THEN 20 ELSE 0)
  + (IF "new" \in f THEN 10 ELSE 0)

\* The probability, the trust_scores row, and whether a hold follows.
ScoreByRules(r) ==
  /\ r.at = "score"
  /\ refreshes' = IF RuleProbability(facts, r.flagged) >= Threshold
                    THEN (refreshes \ {r}) \cup {[r EXCEPT !.at = "place"]}
                    ELSE refreshes \ {r}
  /\ UNCHANGED <<Account, alerts, asked, page, reviews, modelFlagged, faults>>

ScoreByModel(r, high) ==
  /\ r.at = "score"
  /\ refreshes' = IF high THEN (refreshes \ {r}) \cup {[r EXCEPT !.at = "place"]}
                  ELSE refreshes \ {r}
  /\ modelFlagged' = (modelFlagged \/ high)
  /\ UNCHANGED <<Account, alerts, asked, page, reviews, faults>>

\* triggerFraudHold: an alert of its own each time.
PlaceHold(r, a) ==
  /\ r.at = "place" /\ ~Placed(a) /\ (\A b \in 1..(a - 1) : Placed(b))
  /\ refreshes' = refreshes \ {r} /\ alerts' = [alerts EXCEPT ![a].status = "pending"]
  /\ UNCHANGED <<Account, asked, page, reviews, modelFlagged, faults>>

\* The process dies: the score may be written, the hold is not placed.
RefreshDies(r) ==
  /\ refreshes' = refreshes \ {r} /\ Fault
  /\ UNCHANGED <<Account, alerts, asked, page, reviews, modelFlagged>>

-----------------------------------------------------------------------------
(* The account: createTrip and acceptTrip ask for a hold, once              *)

\* A hold placed after the check does not stop the trip that is being written.
CheckedRide ==
  /\ ride = "none" /\ ~Held /\ ride' = "under_way"
  /\ UNCHANGED <<facts, alerts, Refreshing, page, reviews, faults>>

\* Completed, cancelled, or nobody came.
RideEnds(completed, arrives) ==
  /\ ride = "under_way" /\ ride' = "none" /\ AskRefresh(arrives)
  /\ facts' = IF completed THEN facts \ {"new"} ELSE facts
  /\ UNCHANGED <<alerts, page, reviews, modelFlagged>>

\* A complaint too many, another account on the same phone, one phone more.
Incriminated(f) ==
  /\ f \in Facts \ (facts \cup {"new"}) /\ facts' = facts \cup {f}
  /\ UNCHANGED <<ride, alerts, Refreshing, page, reviews, faults>>

-----------------------------------------------------------------------------
(* The fraud page.  The list is fetched every half minute and after a      *)
(* review; on a page that could not fetch it is as old as the alert.       *)

\* An alert listed as pending is marked.  Not to list it so, the page must have
\* seen it in another status.
OpenAlert(d, a, pending) ==
  /\ page[d] = 0 /\ Placed(a) /\ (pending \/ alerts[a].status # "pending")
  /\ page' = [page EXCEPT ![d] = a] /\ Cardinality(reviews) < MaxReviews
  /\ reviews' = IF pending THEN reviews \cup {Reviewing("mark", d, a)} ELSE reviews
  /\ UNCHANGED <<Account, alerts, Refreshing, faults>>

CloseAlert(d) ==
  /\ page[d] # 0 /\ page' = [page EXCEPT ![d] = 0]
  /\ UNCHANGED <<Account, alerts, Refreshing, reviews, faults>>

\* One decision at a time from a page, with the notes it requires.
Decide(d, op) ==
  /\ page[d] # 0 /\ Cardinality(reviews) < MaxReviews
  /\ ~\E c \in reviews : c.desk = d /\ c.op # "mark"
  /\ reviews' = reviews \cup {Reviewing(op, d, page[d])}
  /\ UNCHANGED <<Account, alerts, Refreshing, page, faults>>

-----------------------------------------------------------------------------
(* admin-service: the row is read, then written by its id                   *)

MayGoOn(c) == IF c.op = "mark" THEN alerts[c.alert].status = "pending"
              ELSE c.desk \in Reviewers /\ alerts[c.alert].status \in Undecided

ReadAlert(c) ==
  /\ c.at = "read"
  /\ reviews' = (reviews \ {c}) \cup (IF MayGoOn(c) THEN {[c EXCEPT !.at = "write"]} ELSE {})
  /\ UNCHANGED <<Account, alerts, Refreshing, page, faults>>

MarkAlert(c) ==
  /\ c.op = "mark" /\ c.at = "write" /\ reviews' = reviews \ {c}
  /\ alerts' = [alerts EXCEPT ![c.alert].status = "under_review"]
  /\ UNCHANGED <<Account, Refreshing, page, faults>>

(* mutant: an escalation leaves the hold as it was *)
HoldKept(c, was) == was.released \/ c.op = "clear"
HoldReleased(c, was) == c.op = "clear"

ReviewAlert(c) ==
  /\ c.op # "mark" /\ c.at = "write" /\ reviews' = reviews \ {c}
  /\ alerts' = [alerts EXCEPT ![c.alert] =
       [status |-> IF c.op = "clear" THEN "cleared" ELSE "escalated",
        decision |-> c.op, released |-> HoldReleased(c, @)]]
  /\ page' = [page EXCEPT ![c.desk] = 0]
  /\ UNCHANGED <<Account, Refreshing, faults>>

\* Lost on the way: the page stays as it is.
ReviewLost(c) ==
  /\ reviews' = reviews \ {c} /\ Fault
  /\ UNCHANGED <<Account, alerts, Refreshing, page>>

-----------------------------------------------------------------------------
RefreshStep(r) ==
  \/ CountFlags(r) \/ ScoreByRules(r) \/ RefreshDies(r)
  \/ \E high \in BOOLEAN : ScoreByModel(r, high)
  \/ \E a \in AlertIds : PlaceHold(r, a)
AccountStep ==
  \/ CheckedRide
  \/ \E completed, arrives \in BOOLEAN : RideEnds(completed, arrives)
  \/ \E f \in Facts : Incriminated(f)
DeskStep(d) ==
  \/ CloseAlert(d)
  \/ \E a \in AlertIds, pending \in BOOLEAN : OpenAlert(d, a, pending)
  \/ \E op \in {"clear", "escalate"} : Decide(d, op)

ThNext ==
  \/ \E r \in refreshes : RefreshStep(r)
  \/ AccountStep
  \/ \E d \in Desks : DeskStep(d)
  \/ \E c \in reviews : ReadAlert(c) \/ MarkAlert(c) \/ ReviewAlert(c) \/ ReviewLost(c)

\* The holds of the account by themselves.
ThSpec == ThInit /\ faults = 0 /\ [][ThNext]_<<thVars, faults>>

-----------------------------------------------------------------------------
\* A request passes the hold check only if the review written last on every alert
\* of the account cleared it, whatever two desks and a late mark do to a row
\* (assertNoActiveFraudHold; the columns decision and holdReleasedAt of reviewAlert).
OnlyTheClearedRide ==
  [][ride = "none" /\ ride' = "under_way" =>
       \A a \in AlertIds : Placed(a) => alerts[a].decision = "clear"]_ride

\* The rules alone never hold an account, however it is incriminated and however
\* often it is recalculated: a hold follows from an answer of a trained model, or
\* from the flag such a hold left behind (getFraudProbability).
HoldStartsWithModel == (\E a \in AlertIds : Placed(a)) => modelFlagged

\* An alert that was decided is not opened again (fraud.service.ts: a mark on an
\* alert in a terminal state does nothing, and it cannot be reviewed again).
DecidedStaysDecided ==
  [][\A a \in AlertIds : alerts[a].status \in Decided =>
       alerts'[a].status = alerts[a].status]_alerts
=============================================================================
