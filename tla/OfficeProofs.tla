---------------------------- MODULE OfficeProofs ----------------------------
(***************************************************************************)
(* Machine-checked facts about what runs behind the apps, a section for    *)
(* each component.                                                         *)
(***************************************************************************)
EXTENDS TrustHold, SupportDesk, DriverWallet, AdviceLedger, ProxySession, Books, FiniteSetTheorems, TLAPS

-----------------------------------------------------------------------------
(***************************************************************************)
(* TrustHold, for any desks, reviewers, facts and faults                   *)
(*                                                                         *)
(* Every threshold above 80. The hold check reads holdReleasedAt and the   *)
(* promise is about the decision: they agree because only reviewAlert      *)
(* writes either, and writes both (ReleaseIsDecision). That the rules      *)
(* alone never hold an account is an induction over the flags: a refresh   *)
(* that counted one, or is about to place one, has an answer of the model  *)
(* behind it (FlagsFromModel).                                             *)
(***************************************************************************)

AlertRow == [status : {"none"} \cup Undecided \cup Decided,
          decision : {"none", "clear", "escalate"}, released : BOOLEAN]
RefreshCall == [n : 1..MaxRefreshes, at : {"count", "score", "place"}, flagged : BOOLEAN]
ReviewCall == [op : {"mark", "clear", "escalate"}, desk : Desks, alert : AlertIds,
           at : {"read", "write"}]

\* A hold is released by the review that clears its alert.
ReleaseIsDecision ==
  \A a \in AlertIds : alerts[a].released => alerts[a].decision = "clear"

\* A recalculation that saw a flag, or is about to place one, has the model behind it.
FlagsFromModel ==
  \A r \in refreshes : r.flagged \/ r.at = "place" => modelFlagged

\* What is open on a desk, or asked about, is an alert that was placed.
OpenIsPlaced ==
  /\ \A d \in Desks : page[d] # 0 => Placed(page[d])
  /\ \A c \in reviews : Placed(c.alert)

\* The inductive invariant.
AlertsHold == ReleaseIsDecision /\ HoldStartsWithModel /\ OpenIsPlaced
ThInv == ThTypeOK /\ AlertsHold /\ FlagsFromModel

-----------------------------------------------------------------------------
\* What the rules give an account without a flag stays below the threshold.
LEMMA RulesStayBelow ==
  ASSUME NEW f \in SUBSET Facts
  PROVE  ~(RuleProbability(f, FALSE) >= Threshold)
  <1> DEFINE l == IF "linked" \in f THEN 30 ELSE 0
             d == IF "devices" \in f THEN 20 ELSE 0
             s == IF "disputes" \in f THEN 20 ELSE 0
             n == IF "new" \in f THEN 10 ELSE 0
  <1>1. l \in 0..30 /\ d \in 0..20 /\ s \in 0..20 /\ n \in 0..10
    OBVIOUS
  <1>2. RuleProbability(f, FALSE) = l + d + 0 + s + n
    BY DEF RuleProbability
  <1>3. l + d + 0 + s + n <= 80
    BY <1>1
  <1> HIDE DEF l, d, s, n
  <1>4. l + d + 0 + s + n \in Nat
    BY <1>1
  <1>5. ~(l + d + 0 + s + n >= Threshold)
    BY <1>3, <1>4, ThresholdAssumption
  <1> QED
    BY <1>2, <1>5

\* Nothing is held and nothing asked for at first.
LEMMA ThInitHolds == ThInit => ThInv
  <1> SUFFICES ASSUME ThInit PROVE ThInv
    OBVIOUS
  <1>1. alerts \in [AlertIds -> AlertRow]
    BY DEF ThInit, NoAlert, AlertRow
  <1>a. page \in [Desks -> 0..MaxAlerts] /\ asked \in 0..MaxRefreshes
    BY HoldBoundsAssumption DEF ThInit
  <1>2. ThTypeOK
    BY <1>1, <1>a, FactsAssumption DEF ThInit, ThTypeOK, AlertRow
  <1>3. AlertsHold
    BY DEF ThInit, NoAlert, AlertsHold, ReleaseIsDecision, HoldStartsWithModel, OpenIsPlaced,
       Placed
  <1> QED
    BY <1>2, <1>3 DEF ThInv, ThInit, FlagsFromModel

\* Alerts nobody touches, and nobody asks about, say what they said.
LEMMA AlertsAlone ==
  ASSUME ThInv, UNCHANGED <<alerts, page, reviews>>, modelFlagged => modelFlagged'
  PROVE  AlertsHold'
  BY DEF ThInv, AlertsHold, ReleaseIsDecision, HoldStartsWithModel, OpenIsPlaced, Placed

\* trust-service recalculates and places holds.
LEMMA RefreshKeeps ==
  ASSUME ThInv, NEW r \in refreshes, RefreshStep(r)
  PROVE  ThInv'
  <1>a. ThTypeOK /\ r \in RefreshCall /\ (modelFlagged => modelFlagged')
    BY DEF ThInv, ThTypeOK, RefreshCall, RefreshStep, CountFlags, ScoreByRules, RefreshDies,
       ScoreByModel, PlaceHold
  <1>1. CASE CountFlags(r)
    <2> DEFINE seen == \E a \in AlertIds : alerts[a].status \in Undecided \cup {"escalated"}
               s == [r EXCEPT !.at = "score", !.flagged = seen]
    <2>1. s \in RefreshCall /\ s.flagged = seen /\ s.at = "score"
      BY <1>a DEF RefreshCall
    <2>2. seen => modelFlagged
      BY DEF ThInv, AlertsHold, HoldStartsWithModel, Placed, Undecided
    <2>3. refreshes' = (refreshes \ {r}) \cup {s}
      BY <1>1 DEF CountFlags
    <2>4. ThTypeOK'
      BY <1>1, <1>a, <2>1, <2>3 DEF CountFlags, ThTypeOK, RefreshCall, Account
    <2>5. FlagsFromModel'
      BY <1>1, <2>1, <2>2, <2>3 DEF CountFlags, ThInv, FlagsFromModel
    <2> QED
      BY <1>1, <2>4, <2>5, AlertsAlone DEF CountFlags, ThInv
  <1>2. ASSUME NEW high \in BOOLEAN, ScoreByRules(r) \/ ScoreByModel(r, high)
        PROVE  ThInv'
    <2> DEFINE s == [r EXCEPT !.at = "place"]
    <2>1. s \in RefreshCall
      BY <1>a DEF RefreshCall
    <2>2. refreshes' \in {refreshes \ {r}, (refreshes \ {r}) \cup {s}}
      BY <1>2 DEF ScoreByRules, ScoreByModel
    <2>3. refreshes' # refreshes \ {r} => modelFlagged'
      <3>1. CASE ScoreByRules(r)
        <4>1. r.flagged \in BOOLEAN /\ facts \in SUBSET Facts
          BY <1>a DEF RefreshCall, ThTypeOK
        <4>2. RuleProbability(facts, r.flagged) >= Threshold => r.flagged
          BY <4>1, RulesStayBelow
        <4>3. r.flagged => modelFlagged'
          BY <1>a DEF ThInv, FlagsFromModel
        <4> QED
          BY <3>1, <4>2, <4>3 DEF ScoreByRules
      <3>2. CASE ScoreByModel(r, high)
        BY <3>2 DEF ScoreByModel
      <3> QED
        BY <1>2, <3>1, <3>2
    <2>4. modelFlagged' \in BOOLEAN
      BY <1>2, <1>a DEF ScoreByRules, ScoreByModel, ThTypeOK
    <2>5. ThTypeOK'
      BY <1>2, <1>a, <2>1, <2>2, <2>4 DEF ScoreByRules, ScoreByModel, ThTypeOK, RefreshCall, Account
    <2>6. FlagsFromModel'
      BY <1>a, <2>2, <2>3 DEF ThInv, FlagsFromModel
    <2> QED
      BY <1>2, <1>a, <2>5, <2>6, AlertsAlone DEF ScoreByRules, ScoreByModel, ThInv
  <1>3. ASSUME NEW a \in AlertIds, PlaceHold(r, a)
        PROVE  ThInv'
    <2>1. modelFlagged'
      BY <1>3, <1>a DEF PlaceHold, ThInv, FlagsFromModel
    <2>2. alerts' \in [AlertIds -> AlertRow]
      BY <1>3, <1>a DEF PlaceHold, ThTypeOK, AlertRow, Undecided
    <2>3. ThTypeOK'
      BY <1>3, <1>a, <2>2 DEF PlaceHold, ThTypeOK, AlertRow, Account
    <2>4. \A b \in AlertIds : /\ Placed(b) => Placed(b)'
                              /\ alerts'[b].released = alerts[b].released
                              /\ alerts'[b].decision = alerts[b].decision
      BY <1>3, <1>a DEF PlaceHold, ThTypeOK, Placed
    <2>5. \A d \in Desks : page[d] \in 0..MaxAlerts
      BY <1>a DEF ThTypeOK
    <2>6. \A c \in reviews : c.alert \in AlertIds
      BY <1>a DEF ThTypeOK
    <2>7. OpenIsPlaced'
      BY <1>3, <2>4, <2>5, <2>6, HoldBoundsAssumption DEF PlaceHold, ThInv, AlertsHold,
         OpenIsPlaced, AlertIds
    <2>8. ReleaseIsDecision'
      BY <2>4 DEF ThInv, AlertsHold, ReleaseIsDecision
    <2> QED
      BY <1>3, <2>1, <2>3, <2>7, <2>8 DEF PlaceHold, ThInv, AlertsHold, HoldStartsWithModel,
         FlagsFromModel
  <1>4. CASE RefreshDies(r)
    BY <1>4, AlertsAlone DEF RefreshDies, ThInv, ThTypeOK, FlagsFromModel, Account
  <1> QED
    BY <1>1, <1>2, <1>3, <1>4 DEF RefreshStep

\* A recalculation that is asked for has seen nothing yet.
LEMMA AskKeeps ==
  ASSUME ThInv, NEW arrives, AskRefresh(arrives)
  PROVE  /\ refreshes' \subseteq RefreshCall /\ asked' \in 0..MaxRefreshes
         /\ modelFlagged' = modelFlagged => FlagsFromModel'
  <1>1. CASE arrives
    <2> DEFINE s == [n |-> asked', at |-> "count", flagged |-> FALSE]
    <2>1. asked' \in 1..MaxRefreshes
      BY <1>1, HoldBoundsAssumption DEF AskRefresh, ThInv, ThTypeOK
    <2>2. s \in RefreshCall /\ ~s.flagged /\ s.at = "count"
      BY <2>1 DEF RefreshCall
    <2>3. refreshes' = refreshes \cup {s}
      BY <1>1 DEF AskRefresh
    <2>4. refreshes \subseteq RefreshCall
      BY DEF ThInv, ThTypeOK, RefreshCall
    <2>5. modelFlagged' = modelFlagged => FlagsFromModel'
      BY <2>2, <2>3 DEF ThInv, FlagsFromModel
    <2> QED
      <3>1. asked' \in 0..MaxRefreshes
        BY <2>1, HoldBoundsAssumption
      <3>2. refreshes' \subseteq RefreshCall
        BY <2>2, <2>3, <2>4
      <3> QED
        BY <3>1, <3>2, <2>5
  <1>2. CASE ~arrives
    BY <1>2 DEF AskRefresh, ThInv, ThTypeOK, RefreshCall, FlagsFromModel
  <1> QED
    BY <1>1, <1>2

\* The account rides and is incriminated.
LEMMA AccountKeeps ==
  ASSUME ThInv, AccountStep
  PROVE  ThInv'
  <1>a. ThTypeOK
    BY DEF ThInv
  <1>1. CASE CheckedRide
    BY <1>1, AlertsAlone DEF CheckedRide, ThInv, ThTypeOK, FlagsFromModel, Refreshing
  <1>2. ASSUME NEW completed \in BOOLEAN, NEW arrives \in BOOLEAN, RideEnds(completed, arrives)
        PROVE  ThInv'
    <2>1. /\ refreshes' \subseteq RefreshCall /\ asked' \in 0..MaxRefreshes
          /\ FlagsFromModel'
      BY <1>2, AskKeeps DEF RideEnds
    <2>2. facts' \in SUBSET Facts
      BY <1>2, <1>a DEF RideEnds, ThTypeOK
    <2> QED
      BY <1>2, <1>a, <2>1, <2>2, AlertsAlone DEF RideEnds, ThInv, ThTypeOK, RefreshCall
  <1>3. ASSUME NEW f \in Facts, Incriminated(f)
        PROVE  ThInv'
    BY <1>3, AlertsAlone DEF Incriminated, ThInv, ThTypeOK, FlagsFromModel, Refreshing
  <1> QED
    BY <1>1, <1>2, <1>3 DEF AccountStep

\* The desks open, close and decide.
LEMMA DeskKeeps ==
  ASSUME ThInv, NEW d \in Desks, DeskStep(d)
  PROVE  ThInv'
  <1>a. /\ ThTypeOK /\ OpenIsPlaced /\ reviews \subseteq ReviewCall
        /\ page \in [Desks -> 0..MaxAlerts]
    BY DEF ThInv, AlertsHold, ThTypeOK, ReviewCall
  <1>b. ASSUME NEW op \in {"mark", "clear", "escalate"}, NEW a \in AlertIds
        PROVE  Reviewing(op, d, a) \in ReviewCall /\ Reviewing(op, d, a).alert = a
    BY DEF Reviewing, ReviewCall
  <1>c. UNCHANGED <<Account, alerts, Refreshing>>
    BY DEF DeskStep, CloseAlert, OpenAlert, Decide
  <1> DEFINE Fits == /\ reviews' \subseteq ReviewCall /\ page' \in [Desks -> 0..MaxAlerts]
                     /\ OpenIsPlaced'
  <1>1. ASSUME CloseAlert(d) PROVE Fits
    BY <1>1, <1>a, <1>c, HoldBoundsAssumption DEF CloseAlert, OpenIsPlaced, Placed
  <1>2. ASSUME NEW a \in AlertIds, NEW pending \in BOOLEAN, OpenAlert(d, a, pending)
        PROVE  Fits
    BY <1>2, <1>a, <1>b, <1>c, HoldBoundsAssumption DEF OpenAlert, AlertIds, OpenIsPlaced, Placed
  <1>3. ASSUME NEW op \in {"clear", "escalate"}, Decide(d, op)
        PROVE  Fits
    <2>1. page[d] \in AlertIds /\ Placed(page[d])
      BY <1>3, <1>a, HoldBoundsAssumption DEF Decide, OpenIsPlaced, AlertIds
    <2> QED
      BY <1>3, <1>a, <1>b, <1>c, <2>1 DEF Decide, OpenIsPlaced, Placed
  <1>4. Fits
    BY <1>1, <1>2, <1>3 DEF DeskStep
  <1>5. ThTypeOK'
    BY <1>a, <1>c, <1>4 DEF ThTypeOK, Account, Refreshing, ReviewCall
  <1> QED
    BY <1>c, <1>4, <1>5 DEF ThInv, AlertsHold, ReleaseIsDecision, HoldStartsWithModel, Placed,
       FlagsFromModel, Refreshing

\* admin-service reads an alert, then writes it by its id.
LEMMA ReviewKeeps ==
  ASSUME ThInv, NEW c \in reviews,
         ReadAlert(c) \/ MarkAlert(c) \/ ReviewAlert(c) \/ ReviewLost(c)
  PROVE  ThInv'
  <1>a. ThTypeOK /\ c \in ReviewCall /\ Placed(c.alert) /\ reviews \subseteq ReviewCall
    BY DEF ThInv, AlertsHold, OpenIsPlaced, ThTypeOK, ReviewCall
  <1>1. CASE ReadAlert(c)
    <2> DEFINE w == [c EXCEPT !.at = "write"]
    <2>1. w \in ReviewCall /\ w.alert = c.alert
      BY <1>a DEF ReviewCall
    <2>2. reviews' \subseteq reviews \cup {w}
      BY <1>1 DEF ReadAlert
    <2>3. UNCHANGED <<Account, alerts, Refreshing, page>>
      BY <1>1 DEF ReadAlert
    <2>4. ThTypeOK'
      BY <1>a, <2>1, <2>2, <2>3 DEF ThTypeOK, Account, Refreshing, ReviewCall
    <2>5. OpenIsPlaced'
      BY <1>a, <2>1, <2>2, <2>3 DEF ThInv, AlertsHold, OpenIsPlaced, Placed
    <2> QED
      BY <2>3, <2>4, <2>5 DEF ThInv, AlertsHold, ReleaseIsDecision, HoldStartsWithModel, Placed,
         FlagsFromModel, Refreshing
  <1>2. CASE ReviewLost(c)
    BY <1>2, <1>a DEF ReviewLost, ThInv, ThTypeOK, AlertsHold, ReleaseIsDecision,
       HoldStartsWithModel, OpenIsPlaced, Placed, FlagsFromModel, Account, Refreshing
  <1>3. CASE MarkAlert(c) \/ ReviewAlert(c)
    <2>a. c.alert \in AlertIds /\ c.op \in {"mark", "clear", "escalate"} /\ c.desk \in Desks
      BY <1>a DEF ReviewCall
    <2>b. alerts \in [AlertIds -> AlertRow]
      BY <1>a DEF ThTypeOK, AlertRow
    <2>c. PICK row \in AlertRow :
            /\ alerts' = [alerts EXCEPT ![c.alert] = row] /\ row.status # "none"
            /\ row.released =>
                 \/ row.decision = "clear"
                 \/ row.decision = alerts[c.alert].decision /\ alerts[c.alert].released
      <3>1. CASE MarkAlert(c)
        <4> DEFINE row == [alerts[c.alert] EXCEPT !.status = "under_review"]
        <4>1. row \in AlertRow /\ row.status # "none" /\ row.released = alerts[c.alert].released
              /\ row.decision = alerts[c.alert].decision
          BY <2>a, <2>b DEF AlertRow, Undecided
        <4>2. alerts' = [alerts EXCEPT ![c.alert] = row]
          BY <3>1, <2>a, <2>b DEF MarkAlert, AlertRow
        <4> HIDE DEF row
        <4> QED
          BY <4>1, <4>2
      <3>2. CASE ReviewAlert(c)
        <4> DEFINE new == [status |-> IF c.op = "clear" THEN "cleared" ELSE "escalated",
                           decision |-> c.op, released |-> c.op = "clear"]
        <4>1. c.op \in {"clear", "escalate"}
          BY <3>2, <2>a DEF ReviewAlert
        <4>2. new \in AlertRow /\ new.status # "none" /\ (new.released => new.decision = "clear")
          BY <4>1 DEF AlertRow, Decided
        <4>3. alerts' = [alerts EXCEPT ![c.alert] = new]
          BY <3>2 DEF ReviewAlert, HoldReleased
        <4> HIDE DEF new
        <4> QED
          BY <4>2, <4>3
      <3> QED
        BY <1>3, <3>1, <3>2
    <2>1. /\ alerts' \in [AlertIds -> AlertRow] /\ Placed(c.alert)'
          /\ alerts'[c.alert] = row
          /\ \A a \in AlertIds : a # c.alert => alerts'[a] = alerts[a]
      BY <2>a, <2>b, <2>c DEF Placed
    <2>2. page' \in [Desks -> 0..MaxAlerts] /\ \A d \in Desks : page'[d] \in {0, page[d]}
      BY <1>3, <1>a, <2>a, HoldBoundsAssumption DEF MarkAlert, ReviewAlert, ThTypeOK
    <2>3. reviews' \subseteq reviews /\ UNCHANGED <<Account, Refreshing>>
      BY <1>3 DEF MarkAlert, ReviewAlert
    <2>4. ThTypeOK'
      BY <1>a, <2>1, <2>2, <2>3 DEF ThTypeOK, Account, Refreshing, ReviewCall, AlertRow
    <2>5. ReleaseIsDecision'
      BY <2>a, <2>c, <2>1 DEF ThInv, AlertsHold, ReleaseIsDecision
    <2>6. \A a \in AlertIds : Placed(a)' <=> Placed(a)
      BY <1>a, <2>a, <2>1 DEF Placed
    <2>7. HoldStartsWithModel'
      BY <2>3, <2>6 DEF ThInv, AlertsHold, HoldStartsWithModel, Refreshing
    <2>8. OpenIsPlaced'
      <3>1. \A d \in Desks : page'[d] # 0 => page'[d] = page[d] /\ page[d] \in AlertIds
        BY <1>a, <2>2, HoldBoundsAssumption DEF ThTypeOK, AlertIds
      <3>2. \A e \in reviews' : e \in reviews /\ e.alert \in AlertIds
        BY <1>a, <2>3 DEF ReviewCall
      <3> QED
        BY <2>6, <3>1, <3>2 DEF ThInv, AlertsHold, OpenIsPlaced
    <2> QED
      BY <2>3, <2>4, <2>5, <2>7, <2>8 DEF ThInv, AlertsHold, FlagsFromModel, Refreshing
  <1> QED
    BY <1>1, <1>2, <1>3

-----------------------------------------------------------------------------
\* The invariant holds throughout.
THEOREM ThInvariantHolds == ThSpec => []ThInv
  <1>1. ThInv /\ [ThNext]_<<thVars, faults>> => ThInv'
    <2> SUFFICES ASSUME ThInv, [ThNext]_<<thVars, faults>> PROVE ThInv'
      OBVIOUS
    <2>1. CASE UNCHANGED <<thVars, faults>>
      <3>1. AlertsHold'
        BY <2>1, AlertsAlone DEF thVars
      <3> QED
        BY <2>1, <3>1 DEF thVars, ThInv, ThTypeOK, FlagsFromModel
    <2>2. CASE ThNext
      BY <2>2, RefreshKeeps, AccountKeeps, DeskKeeps, ReviewKeeps DEF ThNext
    <2> QED
      BY <2>1, <2>2
  <1> QED
    BY <1>1, ThInitHolds, PTL DEF ThSpec

\* The alerts, recalculations and reviews have their types.
THEOREM ThTypeCorrect == ThSpec => []ThTypeOK
  <1>1. ThInv => ThTypeOK
    BY DEF ThInv
  <1> QED
    BY <1>1, ThInvariantHolds, PTL

\* The rules alone never hold an account, however it is incriminated: their
\* largest answer is below the threshold (getFraudProbability in trust.service.ts).
THEOREM RulesNeverHold == ThSpec => []HoldStartsWithModel
  <1>1. ThInv => HoldStartsWithModel
    BY DEF ThInv, AlertsHold
  <1> QED
    BY <1>1, ThInvariantHolds, PTL

\* A ride begins only on alerts whose last written review cleared them
\* (assertNoActiveFraudHold against reviewAlert), however reviews, late marks and
\* recalculations overlap.
THEOREM HeldAccountsWait == ThSpec => OnlyTheClearedRide
  <1> DEFINE Promise == ride = "none" /\ ride' = "under_way" =>
                          \A a \in AlertIds : Placed(a) => alerts[a].decision = "clear"
  <1>1. ThInv /\ [ThNext]_<<thVars, faults>> => [Promise]_ride
    <2> SUFFICES ASSUME ThInv, ThNext, ride = "none", ride' = "under_way"
                 PROVE  \A a \in AlertIds : Placed(a) => alerts[a].decision = "clear"
      BY DEF thVars
    <2>1. CheckedRide
      <3>1. ASSUME NEW r \in refreshes, RefreshStep(r) PROVE FALSE
        BY <3>1 DEF RefreshStep, CountFlags, ScoreByRules, RefreshDies, ScoreByModel, PlaceHold,
           Account
      <3>2. ASSUME NEW d \in Desks, DeskStep(d) PROVE FALSE
        BY <3>2 DEF DeskStep, CloseAlert, OpenAlert, Decide, Account
      <3>3. ASSUME NEW c \in reviews,
                   ReadAlert(c) \/ MarkAlert(c) \/ ReviewAlert(c) \/ ReviewLost(c)
            PROVE  FALSE
        BY <3>3 DEF ReadAlert, MarkAlert, ReviewAlert, ReviewLost, Account
      <3>4. AccountStep
        BY <3>1, <3>2, <3>3 DEF ThNext
      <3> QED
        BY <3>4 DEF AccountStep, RideEnds, Incriminated
    <2> QED
      BY <2>1 DEF CheckedRide, Held, ThInv, AlertsHold, ReleaseIsDecision
  <1> QED
    BY <1>1, ThInvariantHolds, PTL DEF ThSpec, OnlyTheClearedRide

-----------------------------------------------------------------------------
(***************************************************************************)
(* SupportDesk, for any tickets, forms, fare and faults                    *)
(*                                                                         *)
(* RefundsWithinFare is not inductive: a form writes a refund it decided   *)
(* on when it read the earlier ones. It holds because refunds have a form  *)
(* to themselves from the read to the write, so the total that was read is *)
(* the total there is (TotalStillHolds).                                   *)
(***************************************************************************)

\* A refund about to be written was decided on the total there still is.
TotalStillHolds ==
  ~overlapped =>
    /\ refunds <= FinalFare
    /\ \A r \in issuing : r.at = "write" =>
         r.total = refunds /\ \A o \in issuing : o.at = "write" => o = r

\* The inductive invariant.
SdInv == SdTypeOK /\ TotalStillHolds

LEMMA SdInitHolds == SdInit => SdInv
  <1> SUFFICES ASSUME SdInit PROVE SdInv
    OBVIOUS
  <1>1. NoTicket \in [status : {"none"} \cup Statuses, safety : BOOLEAN, urgent : BOOLEAN]
    BY DEF NoTicket
  <1>2. ticket \in [1..MaxTickets -> [status : {"none"} \cup Statuses, safety : BOOLEAN,
                                      urgent : BOOLEAN]]
    BY <1>1 DEF SdInit
  <1>3. tasksBegun \in 0..MaxTasks /\ refunds \in Nat /\ refundsBegun \in 0..MaxRefunds
    BY SupportAssumption DEF SdInit
  <1>4. SdTypeOK
    BY <1>2, <1>3 DEF SdInit, SdTypeOK
  <1> QED
    BY <1>4, SupportAssumption DEF SdInit, SdInv, TotalStillHolds

\* Nothing about a ticket touches a refund.
TaskRecord ==
  [n : 1..MaxTasks, op : {"assign", "status", "escalate", "note"}, ticket : 1..MaxTickets,
   to : Statuses, at : {"write", "note", "log"}]

LEMMA TicketsKeep ==
  ASSUME SdInv, TicketsNext
  PROVE  SdInv'
  <1>1. SdTypeOK /\ tasks \subseteq TaskRecord
    BY DEF SdInv, SdTypeOK, TaskRecord
  <1>2. UNCHANGED Refunds
    BY DEF TicketsNext, CreateTicket, AssignTicket, EscalateTicket, AddNote, UpdateStatus, Begin,
       WriteTicket, WriteNote, WriteLog, TaskDies
  <1>3. ASSUME NEW t \in 1..MaxTickets, NEW safety \in BOOLEAN, NEW urgent \in BOOLEAN,
               CreateTicket(t, safety, urgent)
        PROVE  SdTypeOK'
    BY <1>1, <1>2, <1>3 DEF CreateTicket, SdTypeOK, Statuses, Refunds
  <1>4. ASSUME NEW t \in 1..MaxTickets, NEW op \in {"assign", "status", "escalate", "note"},
               NEW to \in Statuses, Begin(op, t, to)
        PROVE  SdTypeOK'
    <2>1. tasksBegun \in Nat /\ tasksBegun' \in 1..MaxTasks
      BY <1>1, <1>4, SupportAssumption DEF SdTypeOK, Begin
    <2>2. [n |-> tasksBegun', op |-> op, ticket |-> t, to |-> to,
           at |-> IF op = "note" THEN "note" ELSE "write"] \in TaskRecord
      BY <2>1 DEF TaskRecord
    <2>3. tasks' \subseteq TaskRecord
      BY <1>1, <1>4, <2>2 DEF Begin
    <2> QED
      BY <1>1, <1>2, <1>4, <2>1, <2>3 DEF Begin, SdTypeOK, Refunds, TaskRecord
  <1>5. ASSUME NEW t \in 1..MaxTickets, NEW to \in Statuses,
               AssignTicket(t) \/ EscalateTicket(t) \/ AddNote(t) \/ UpdateStatus(t, to)
        PROVE  SdTypeOK'
    <2>1. "in_review" \in Statuses /\ "escalated" \in Statuses
      BY DEF Statuses
    <2>2. AddNote(t) => ticket[t].status \in Statuses
      BY <1>1 DEF AddNote, Begin, Begun, SdTypeOK
    <2> QED
      BY <1>4, <1>5, <2>1, <2>2 DEF AssignTicket, EscalateTicket, AddNote, UpdateStatus
  <1>6. ASSUME NEW k \in tasks, WriteTicket(k) \/ WriteNote(k) \/ WriteLog(k) \/ TaskDies(k)
        PROVE  SdTypeOK'
    <2>1. k \in TaskRecord
      BY <1>1
    <2>2. \A at \in {"write", "note", "log"} : [k EXCEPT !.at = at] \in TaskRecord
      BY <2>1 DEF TaskRecord
    <2>3. tasks' \subseteq TaskRecord
      BY <1>1, <1>6, <2>2 DEF WriteTicket, WriteNote, WriteLog, TaskDies, TaskGoes, TaskEnds
    <2>4. ended' \subseteq 1..MaxTasks /\ ended \subseteq ended'
      BY <1>1, <1>6, <2>1
      DEF WriteTicket, WriteNote, WriteLog, TaskDies, TaskEnds, SdTypeOK, TaskRecord
    <2>5. logged' = logged /\ tasksBegun' = tasksBegun
      BY <1>6 DEF WriteTicket, WriteNote, WriteLog, TaskDies, KnowsAdmin, TokenPayload
    <2>6. ticket' \in [1..MaxTickets -> [status : {"none"} \cup Statuses, safety : BOOLEAN,
                                         urgent : BOOLEAN]]
      BY <1>1, <1>6, <2>1 DEF WriteTicket, WriteNote, WriteLog, TaskDies, SdTypeOK, TaskRecord
    <2> QED
      BY <1>1, <1>2, <2>3, <2>4, <2>5, <2>6 DEF SdTypeOK, Refunds, TaskRecord
  <1>7. SdTypeOK'
    <2>1. "open" \in Statuses
      BY DEF Statuses
    <2> QED
      BY <1>3, <1>5, <1>6, <2>1 DEF TicketsNext
  <1> QED
    BY <1>2, <1>7 DEF SdInv, TotalStillHolds, Refunds

-----------------------------------------------------------------------------
RefundRecord ==
  [n : 1..MaxRefunds, clerk : Clerks, amount : 1..FinalFare,
   at : {"read", "write", "done", "refused"}, total : Nat]

\* A refund that is asked for, answered or lost is not about to be written.
LEMMA FormsKeep ==
  ASSUME SdInv,
         \/ \E a \in Clerks : OpenForm(a) \/ CloseForm(a)
         \/ \E a \in Clerks, amount \in 1..FinalFare : SendRefund(a, amount)
         \/ \E r \in issuing : RefundAnswered(r) \/ RefundLost(r)
  PROVE  SdInv'
  <1>1. SdTypeOK /\ TotalStillHolds
    BY DEF SdInv
  <1>2. /\ UNCHANGED <<Tickets, refunds, overlapped>>
        /\ form' \in [Clerks -> {"closed", "open", "sent"}]
    BY <1>1 DEF OpenForm, CloseForm, SendRefund, RefundAnswered, RefundLost, SdTypeOK
  <1>3. /\ issuing' \subseteq RefundRecord /\ refundsBegun' \in 0..MaxRefunds
        /\ \A r \in issuing' : r.at = "write" => r \in issuing
    <2>1. ASSUME NEW a \in Clerks, NEW amount \in 1..FinalFare, SendRefund(a, amount)
          PROVE  /\ issuing' \subseteq RefundRecord /\ refundsBegun' \in 0..MaxRefunds
                 /\ \A r \in issuing' : r.at = "write" => r \in issuing
      <3>1. refundsBegun' \in 1..MaxRefunds
        BY <1>1, <2>1, SupportAssumption DEF SdTypeOK, SendRefund
      <3> DEFINE new == [n |-> refundsBegun', clerk |-> a, amount |-> amount, at |-> "read",
                         total |-> 0]
      <3>2. new \in RefundRecord /\ new.at = "read" /\ issuing' = issuing \cup {new}
        BY <2>1, <3>1 DEF RefundRecord, SendRefund
      <3> HIDE DEF new
      <3> QED
        BY <1>1, <3>1, <3>2 DEF SdTypeOK, RefundRecord
    <2> QED
      BY <1>1, <2>1 DEF OpenForm, CloseForm, RefundAnswered, RefundLost, SdTypeOK, RefundRecord
  <1> QED
    BY <1>1, <1>2, <1>3 DEF SdInv, SdTypeOK, TotalStillHolds, Tickets, RefundRecord

LEMMA ReadKeeps ==
  ASSUME SdInv, NEW r \in issuing, ReadRefunds(r)
  PROVE  SdInv'
  <1>1. SdTypeOK /\ TotalStillHolds /\ issuing \subseteq RefundRecord
    BY DEF SdInv, SdTypeOK, RefundRecord
  <1> DEFINE new == [r EXCEPT !.at = IF r.amount > RefundCap[r.clerk] THEN "refused" ELSE "write",
                              !.total = refunds]
  <1>2. new \in RefundRecord /\ new.total = refunds
    BY <1>1 DEF RefundRecord, SdTypeOK
  <1>3. issuing' = (issuing \ {r}) \cup {new} /\ UNCHANGED <<Tickets, form, refunds, refundsBegun>>
    BY DEF ReadRefunds
  <1>4. overlapped' \in BOOLEAN /\ (~overlapped' => ~overlapped /\ ~\E o \in issuing : o.at = "write")
    BY <1>1 DEF ReadRefunds, SdTypeOK
  <1> HIDE DEF new
  <1>5. TotalStillHolds'
    BY <1>1, <1>2, <1>3, <1>4 DEF TotalStillHolds
  <1> QED
    BY <1>1, <1>2, <1>3, <1>4, <1>5 DEF SdInv, SdTypeOK, Tickets, RefundRecord

LEMMA CreateKeeps ==
  ASSUME SdInv, NEW r \in issuing, CreateRefund(r)
  PROVE  SdInv'
  <1>1. SdTypeOK /\ TotalStillHolds /\ issuing \subseteq RefundRecord
    BY DEF SdInv, SdTypeOK, RefundRecord
  <1>2. /\ r \in RefundRecord /\ r.at = "write" /\ r.amount \in Nat /\ r.total \in Nat
        /\ refunds \in Nat /\ FinalFare \in Nat
    BY <1>1, SupportAssumption DEF RefundRecord, CreateRefund, SdTypeOK
  <1> DEFINE new == [r EXCEPT !.at = IF WithinFare(r) THEN "done" ELSE "refused"]
  <1>3. new \in RefundRecord /\ new.at # "write"
    BY <1>2 DEF RefundRecord
  <1>4. /\ issuing' = (issuing \ {r}) \cup {new}
        /\ UNCHANGED <<Tickets, form, refundsBegun, overlapped>>
    BY DEF CreateRefund
  <1> HIDE DEF new
  <1>5. refunds' \in Nat /\ (~overlapped => refunds' <= FinalFare)
    BY <1>1, <1>2 DEF CreateRefund, WithinFare, TotalStillHolds
  <1>6. TotalStillHolds'
    BY <1>1, <1>2, <1>3, <1>4, <1>5 DEF TotalStillHolds
  <1> QED
    BY <1>1, <1>3, <1>4, <1>5, <1>6 DEF SdInv, SdTypeOK, Tickets, RefundRecord

-----------------------------------------------------------------------------
THEOREM SdInvariantHolds == SdSpec => []SdInv
  <1>1. SdInv /\ [TicketsNext \/ RefundsNext]_<<sdVars, faults>> => SdInv'
    <2>1. SdInv /\ UNCHANGED <<sdVars, faults>> => SdInv'
      BY DEF sdVars, SdInv, SdTypeOK, TotalStillHolds
    <2> QED
      BY <2>1, TicketsKeep, FormsKeep, ReadKeeps, CreateKeeps DEF RefundsNext
  <1> QED
    BY <1>1, SdInitHolds, PTL DEF SdSpec

\* The tickets, the tasks, the forms and the refunds under way have their types.
THEOREM SdTypeCorrect == SdSpec => []SdTypeOK
  <1>1. SdInv => SdTypeOK
    BY DEF SdInv
  <1> QED
    BY <1>1, SdInvariantHolds, PTL

\* For any fare, caps and clerks, and however often a lost answer makes one of
\* them send again, a trip is refunded within its fare as long as no two refunds
\* are decided at once (issueRefund of refunds.service.ts).
THEOREM FareCoversRefunds == SdSpec => []RefundsWithinFare
  <1>1. SdInv => RefundsWithinFare
    BY DEF SdInv, TotalStillHolds, RefundsWithinFare
  <1> QED
    BY <1>1, SdInvariantHolds, PTL

-----------------------------------------------------------------------------
(***************************************************************************)
(* DriverWallet, for any fares, attempts and faults                        *)
(*                                                                         *)
(* Pending is the number of earnings without a release: a read of the      *)
(* wallet releases only what nobody else has found, unless two reads       *)
(* crossed (HoldsCounted). What was paid is counted in units of money:     *)
(* every unit that left Stripe is owed by the wallet until it is debited,  *)
(* in one debit or by the attempt that sent it (OwedCovered), and no unit  *)
(* is in two debits (DebitsApart).                                         *)
(***************************************************************************)

Debit == [for : 0..MaxAttempts, after : Nat, amount : Nat, at : {"check", "write"}]
AttemptRow == [amount : Nat, number : 0..MaxRetries, of : 0..MaxAttempts,
               status : {"none", "pending", "sent", "succeeded", "retrying", "failed"}]
WalletRow == [pending : Int, available : Int, earned : Nat, paid : Nat]

\* What is still held, and nobody else releases what one call found, unless two did.
HeldEarnings == earningRows \ releaseRows
HoldsCounted ==
  /\ \A g \in WalletReads, t \in WalletTrips : <<g, t>> \in releasing => t \in earningRows
  /\ ~readsCrossed =>
    /\ wallet.pending = Cardinality(HeldEarnings)
    /\ \A g, h \in WalletReads, t \in WalletTrips :
         <<g, t>> \in releasing => t \in HeldEarnings /\ (<<h, t>> \in releasing => h = g)

\* The units that left Stripe and that the wallet has not been debited yet: of an
\* attempt that was sent, or in a debit under way.  Instant payouts number theirs
\* one after the other.
InDebit(p, d) == p[1] = d.for /\ d.after < p[2] /\ p[2] <= d.after + d.amount
InSent(p, row) ==
  p[1] \in Attempts /\ row[p[1]].status = "sent" /\ 0 < p[2] /\ p[2] <= row[p[1]].amount
Owed ==
  {p \in (0..MaxAttempts) \X Nat : InSent(p, attempt) \/ \E d \in debits : InDebit(p, d)}

OwedCovered ==
  IsFiniteSet(Owed) /\ wallet.paid + Cardinality(Owed) <= transferred + instantPaid

\* No unit is in two debits, or in one and in an attempt still to be debited.
Apart(d, e) ==
  d.for = e.for => \/ d = e
                   \/ d.for = 0 /\ (d.after + d.amount <= e.after \/ e.after + e.amount <= d.after)
DebitsApart ==
  /\ \A d, e \in debits : Apart(d, e)
  /\ \A d \in debits : IF d.for = 0 THEN d.after + d.amount <= instantPaid
                       ELSE d.after = 0 /\ attempt[d.for].status = "succeeded"

\* The inductive invariant.
DwInv == DwTypeOK /\ HoldsCounted /\ OwedCovered /\ DebitsApart

-----------------------------------------------------------------------------
\* The units of one payout.
Block(k, lo, n) == {k} \X ((lo + 1)..(lo + n))

LEMMA BlockSize ==
  ASSUME NEW k, NEW lo \in Nat, NEW n \in Nat
  PROVE  IsFiniteSet(Block(k, lo, n)) /\ Cardinality(Block(k, lo, n)) = n
  <1>1. IsFiniteSet({k}) /\ Cardinality({k}) = 1
    BY FS_Singleton
  <1>2. IsFiniteSet((lo + 1)..(lo + n)) /\ Cardinality((lo + 1)..(lo + n)) = n
    BY FS_Interval
  <1>3. /\ IsFiniteSet(Block(k, lo, n))
        /\ Cardinality(Block(k, lo, n)) = Cardinality({k}) * Cardinality((lo + 1)..(lo + n))
    BY <1>1, <1>2, FS_Product DEF Block
  <1> QED
    BY <1>1, <1>2, <1>3

\* What is owed may shrink, ...
LEMMA OwedShrinks ==
  ASSUME OwedCovered, DwTypeOK, Owed' \subseteq Owed, wallet'.paid = wallet.paid,
         transferred' \in Nat, transferred' >= transferred,
         instantPaid' \in Nat, instantPaid' >= instantPaid
  PROVE  OwedCovered'
  <1>1. IsFiniteSet(Owed') /\ Cardinality(Owed') <= Cardinality(Owed)
    BY FS_Subset DEF OwedCovered
  <1>2. Cardinality(Owed) \in Nat /\ Cardinality(Owed') \in Nat
    BY <1>1, FS_CardinalityType DEF OwedCovered
  <1>3. wallet.paid \in Nat /\ transferred \in Nat /\ instantPaid \in Nat
    BY WalletAssumption DEF DwTypeOK
  <1> QED
    BY <1>1, <1>2, <1>3 DEF OwedCovered

\* ... grow by what left Stripe, ...
LEMMA OwedGrows ==
  ASSUME OwedCovered, DwTypeOK, NEW B, IsFiniteSet(B), Owed' \subseteq Owed \cup B,
         wallet'.paid = wallet.paid, transferred' \in Nat, instantPaid' \in Nat,
         transferred' + instantPaid' = transferred + instantPaid + Cardinality(B)
  PROVE  OwedCovered'
  <1>1. /\ IsFiniteSet(Owed \cup B)
        /\ Cardinality(Owed \cup B)
             = Cardinality(Owed) + Cardinality(B) - Cardinality(Owed \cap B)
    BY FS_Union DEF OwedCovered
  <1>2. IsFiniteSet(Owed') /\ Cardinality(Owed') <= Cardinality(Owed \cup B)
    BY <1>1, FS_Subset
  <1>3. IsFiniteSet(Owed \cap B)
    BY FS_Intersection DEF OwedCovered
  <1>4. /\ Cardinality(Owed) \in Nat /\ Cardinality(B) \in Nat /\ Cardinality(Owed') \in Nat
        /\ Cardinality(Owed \cap B) \in Nat /\ Cardinality(Owed \cup B) \in Nat
    BY <1>1, <1>2, <1>3, FS_CardinalityType DEF OwedCovered
  <1>5. wallet.paid \in Nat /\ transferred \in Nat /\ instantPaid \in Nat
    BY WalletAssumption DEF DwTypeOK
  <1> QED
    BY <1>1, <1>2, <1>4, <1>5 DEF OwedCovered

\* ... and become what was paid.
LEMMA OwedPaid ==
  ASSUME OwedCovered, DwTypeOK, NEW B, IsFiniteSet(B), B \subseteq Owed, Owed' \subseteq Owed \ B,
         wallet'.paid = wallet.paid + Cardinality(B),
         UNCHANGED <<transferred, instantPaid>>
  PROVE  OwedCovered'
  <1>1. /\ IsFiniteSet(Owed \ B)
        /\ Cardinality(Owed \ B) = Cardinality(Owed) - Cardinality(Owed \cap B)
    BY FS_Difference DEF OwedCovered
  <1>2. Owed \cap B = B
    OBVIOUS
  <1>3. IsFiniteSet(Owed') /\ Cardinality(Owed') <= Cardinality(Owed \ B)
    BY <1>1, FS_Subset
  <1>4. /\ Cardinality(Owed) \in Nat /\ Cardinality(B) \in Nat /\ Cardinality(Owed') \in Nat
        /\ Cardinality(Owed \ B) \in Nat
    BY <1>1, <1>3, FS_CardinalityType DEF OwedCovered
  <1>5. wallet.paid \in Nat /\ transferred \in Nat /\ instantPaid \in Nat
    BY WalletAssumption DEF DwTypeOK
  <1>6. Cardinality(Owed \ B) = Cardinality(Owed) - Cardinality(B)
    BY <1>1, <1>2
  <1> QED
    BY <1>3, <1>4, <1>5, <1>6 DEF OwedCovered

LEMMA DwInitHolds == DwInit => DwInv
  <1> SUFFICES ASSUME DwInit PROVE DwInv
    OBVIOUS
  <1>1. DwTypeOK
    <2>1. NoAttempt \in AttemptRow
      BY WalletAssumption DEF NoAttempt, AttemptRow
    <2>2. attempt \in [Attempts -> AttemptRow]
      BY <2>1 DEF DwInit
    <2>3. batchRun \in [BatchRuns -> [at : {"idle", "claim", "wallets", "finish"},
                                      try : 0..MaxAttempts]]
      BY WalletAssumption DEF DwInit
    <2>4. instantPaid \in 0..MaxInstant
      BY WalletAssumption DEF DwInit
    <2>5. wallet \in WalletRow /\ adjusted \in Int /\ transferred \in Nat
      BY DEF DwInit, WalletRow
    <2>6. screen \in [available : Int, busy : BOOLEAN]
      BY DEF DwInit
    <2>7. /\ earningRows = {} /\ heldOver = {} /\ releaseRows = {} /\ releasing = {} /\ debits = {}
          /\ readsCrossed = FALSE /\ batchStatus = "none"
      BY DEF DwInit
    <2> QED
      BY <2>2, <2>3, <2>4, <2>5, <2>6, <2>7 DEF DwTypeOK, AttemptRow, WalletRow
  <1>2. HoldsCounted
    BY FS_EmptySet DEF DwInit, HoldsCounted, HeldEarnings
  <1>3. Owed = {}
    BY DEF DwInit, Owed, InSent, NoAttempt
  <1>4. OwedCovered
    BY <1>3, FS_EmptySet DEF DwInit, OwedCovered
  <1> QED
    BY <1>1, <1>2, <1>4 DEF DwInit, DwInv, DebitsApart

\* What a step leaves alone.
LEMMA HoldsUnmoved ==
  ASSUME DwInv, UNCHANGED <<earningRows, releaseRows, releasing, readsCrossed, wallet.pending>>
  PROVE  HoldsCounted'
  BY DEF DwInv, HoldsCounted, HeldEarnings

LEMMA OwedUnmoved ==
  ASSUME DwInv, UNCHANGED <<debits, instantPaid, transferred, attempt, wallet.paid>>
  PROVE  OwedCovered' /\ DebitsApart'
  BY DEF DwInv, OwedCovered, Owed, DebitsApart

-----------------------------------------------------------------------------
\* Earnings come, ripen and are released.
LEMMA CreditKeeps ==
  ASSUME DwInv, NEW t \in WalletTrips, CreditEarning(t) \/ HoldElapses(t)
  PROVE  DwInv'
  <1>1. DwTypeOK /\ HoldsCounted /\ wallet \in WalletRow
    BY DEF DwInv, DwTypeOK, WalletRow
  <1>2. ASSUME HoldElapses(t) PROVE DwInv'
    <2>1. HoldsCounted' /\ OwedCovered' /\ DebitsApart'
      BY <1>2, HoldsUnmoved, OwedUnmoved DEF HoldElapses, Batching, Paying
    <2>2. DwTypeOK'
      BY <1>1, <1>2 DEF DwTypeOK, HoldElapses, Batching, Paying
    <2> QED
      BY <2>1, <2>2 DEF DwInv
  <1>3. ASSUME CreditEarning(t) PROVE DwInv'
    <2>1. /\ wallet' \in WalletRow /\ wallet'.pending = wallet.pending + 1
          /\ wallet'.paid = wallet.paid
      <3>1. wallet' = [pending |-> wallet.pending + 1, available |-> wallet.available,
                       earned |-> wallet.earned + 1, paid |-> wallet.paid]
        BY <1>1, <1>3 DEF CreditEarning, WalletRow
      <3> QED
        BY <1>1, <3>1 DEF WalletRow
    <2>2. OwedCovered' /\ DebitsApart'
      BY <1>3, <2>1, OwedUnmoved DEF CreditEarning, Batching, Paying
    <2>3. DwTypeOK'
      BY <1>1, <1>3, <2>1 DEF DwTypeOK, CreditEarning, Batching, Paying, WalletRow
    <2>4. HoldsCounted'
      <3>1. IsFiniteSet(HeldEarnings)
        BY <1>1, WalletAssumption, FS_Subset DEF HeldEarnings, DwTypeOK
      <3>2. HeldEarnings' = HeldEarnings \cup {t} /\ t \notin HeldEarnings
        BY <1>1, <1>3 DEF CreditEarning, NotCredited, HeldEarnings, DwTypeOK
      <3>3. Cardinality(HeldEarnings') = Cardinality(HeldEarnings) + 1
        BY <3>1, <3>2, FS_AddElement
      <3> QED
        BY <1>1, <1>3, <2>1, <3>2, <3>3 DEF HoldsCounted, CreditEarning
    <2> QED
      BY <2>2, <2>3, <2>4 DEF DwInv
  <1> QED
    BY <1>2, <1>3

LEMMA ReleaseKeeps ==
  ASSUME DwInv, NEW g \in WalletReads, NEW t \in WalletTrips, FindHeld(g, t) \/ ReleaseHold(g, t)
  PROVE  DwInv'
  <1>1. DwTypeOK /\ HoldsCounted /\ wallet \in WalletRow
    BY DEF DwInv, DwTypeOK, WalletRow
  <1>2. ASSUME FindHeld(g, t) PROVE DwInv'
    <2>1. OwedCovered' /\ DebitsApart'
      BY <1>2, OwedUnmoved DEF FindHeld, Batching, Paying
    <2>2. DwTypeOK'
      BY <1>1, <1>2 DEF DwTypeOK, FindHeld, Batching, Paying
    <2>3. HoldsCounted'
      <3>1. t \in HeldEarnings
        BY <1>1, <1>2 DEF FindHeld, StillHeld, HeldEarnings, DwTypeOK
      <3>2. UNCHANGED <<HeldEarnings, wallet>> /\ releasing' = releasing \cup {<<g, t>>}
        BY <1>2 DEF FindHeld, HeldEarnings
      <3>3. ~readsCrossed' => ~readsCrossed /\ \A h \in WalletReads : <<h, t>> \notin releasing
        BY <1>1, <1>2 DEF FindHeld, DwTypeOK
      <3> QED
        BY <1>1, <1>2, <3>1, <3>2, <3>3 DEF HoldsCounted, FindHeld, HeldEarnings
    <2> QED
      BY <2>1, <2>2, <2>3 DEF DwInv
  <1>3. ASSUME ReleaseHold(g, t) PROVE DwInv'
    <2>1. /\ wallet' \in WalletRow /\ wallet'.pending = wallet.pending - 1
          /\ wallet'.paid = wallet.paid
      <3>1. wallet' = [pending |-> wallet.pending - 1, available |-> wallet.available + 1,
                       earned |-> wallet.earned, paid |-> wallet.paid]
        BY <1>1, <1>3 DEF ReleaseHold, WalletRow
      <3> QED
        BY <1>1, <3>1 DEF WalletRow
    <2>2. OwedCovered' /\ DebitsApart'
      BY <1>3, <2>1, OwedUnmoved DEF ReleaseHold, Batching, Paying
    <2>3. DwTypeOK'
      <3>1. t \in earningRows
        BY <1>1, <1>3 DEF ReleaseHold, HoldsCounted
      <3> QED
        BY <1>1, <1>3, <2>1, <3>1 DEF DwTypeOK, ReleaseHold, Batching, Paying, WalletRow
    <2>4. HoldsCounted'
      <3>1. IsFiniteSet(HeldEarnings)
        BY <1>1, WalletAssumption, FS_Subset DEF HeldEarnings, DwTypeOK
      <3>2. HeldEarnings' = HeldEarnings \ {t} /\ readsCrossed' = readsCrossed
            /\ releasing' = releasing \ {<<g, t>>} /\ <<g, t>> \in releasing
        BY <1>3 DEF ReleaseHold, HeldEarnings
      <3>3. t \in HeldEarnings => Cardinality(HeldEarnings') = Cardinality(HeldEarnings) - 1
        BY <3>1, <3>2, FS_RemoveElement
      <3> QED
        BY <1>1, <1>3, <2>1, <3>2, <3>3 DEF HoldsCounted, ReleaseHold
    <2> QED
      BY <2>2, <2>3, <2>4 DEF DwInv
  <1> QED
    BY <1>2, <1>3

-----------------------------------------------------------------------------
\* Debits.
LEMMA DebitsKeep ==
  ASSUME DwInv, NEW d \in debits, CheckDebit(d) \/ DebitPayout(d) \/ DebitDies(d)
  PROVE  DwInv'
  <1>1. /\ DwTypeOK /\ OwedCovered /\ DebitsApart /\ wallet \in WalletRow /\ debits \subseteq Debit
        /\ d \in Debit
    BY DEF DwInv, DwTypeOK, WalletRow, Debit
  <1>2. UNCHANGED <<Holding, batchStatus, batchRun, attempt, transferred, instantPaid, screen>>
    BY DEF CheckDebit, DebitPayout, DebitDies, Batching
  <1>3. transferred \in Nat /\ instantPaid \in Nat
    BY <1>1, WalletAssumption DEF DwTypeOK
  <1>4. ASSUME debits' = debits \ {d}, wallet' = wallet PROVE DwInv'
    <2>1. Owed' \subseteq Owed
      BY <1>2, <1>4 DEF Owed
    <2>2. OwedCovered'
      BY <1>1, <1>2, <1>3, <1>4, <2>1, OwedShrinks
    <2>3. DebitsApart'
      BY <1>1, <1>2, <1>4 DEF DebitsApart
    <2> QED
      BY <1>1, <1>2, <1>4, <2>2, <2>3, HoldsUnmoved DEF DwInv, DwTypeOK, Holding
  <1>5. CASE DebitDies(d)
    BY <1>4, <1>5 DEF DebitDies
  <1>6. CASE CheckDebit(d)
    <2>1. CASE wallet.available < d.amount
      BY <1>4, <1>6, <2>1 DEF CheckDebit
    <2>2. CASE ~(wallet.available < d.amount)
      <3> DEFINE e == [d EXCEPT !.at = "write"]
      <3>1. /\ e \in Debit /\ e.for = d.for /\ e.after = d.after /\ e.amount = d.amount
            /\ debits' = (debits \ {d}) \cup {e} /\ wallet' = wallet
        BY <1>1, <1>6, <2>2 DEF CheckDebit, Debit
      <3> HIDE DEF e
      <3>2. Owed' \subseteq Owed
        BY <1>2, <3>1 DEF Owed, InDebit
      <3>3. OwedCovered'
        BY <1>1, <1>2, <1>3, <3>1, <3>2, OwedShrinks
      <3>4. DebitsApart'
        BY <1>1, <1>2, <3>1 DEF DebitsApart, Apart
      <3>5. DwTypeOK'
        BY <1>1, <1>2, <3>1 DEF DwTypeOK, Holding, Debit
      <3> QED
        BY <1>2, <3>1, <3>3, <3>4, <3>5, HoldsUnmoved DEF DwInv, Holding
    <2> QED
      BY <2>1, <2>2
  <1>7. CASE DebitPayout(d)
    <2> DEFINE B == Block(d.for, d.after, d.amount)
    <2>1. IsFiniteSet(B) /\ Cardinality(B) = d.amount
      BY <1>1, BlockSize DEF Debit
    <2>2. /\ wallet' \in WalletRow /\ wallet'.pending = wallet.pending
          /\ wallet'.paid = wallet.paid + d.amount /\ debits' = debits \ {d}
      <3>1. wallet' = [pending |-> wallet.pending, available |-> wallet.available - d.amount,
                       earned |-> wallet.earned, paid |-> wallet.paid + d.amount]
        BY <1>1, <1>7 DEF DebitPayout, WalletRow, Debit
      <3>2. d.amount \in Nat /\ debits' = debits \ {d}
        BY <1>1, <1>7 DEF DebitPayout, Debit
      <3> QED
        BY <1>1, <3>1, <3>2 DEF WalletRow
    <2>3. \A p \in (0..MaxAttempts) \X Nat : p \in B <=> InDebit(p, d)
      BY <1>1 DEF Block, InDebit, Debit
    <2>4. B \subseteq (0..MaxAttempts) \X Nat
      BY <1>1 DEF Block, Debit
    <2>5. B \subseteq Owed
      BY <2>3, <2>4 DEF Owed
    <2>6. ASSUME NEW p \in Owed' PROVE p \in Owed /\ p \notin B
      <3>1. p \in (0..MaxAttempts) \X Nat /\ p \in Owed
        BY <1>2, <2>2, <2>6 DEF Owed
      <3>2. ASSUME InDebit(p, d) PROVE FALSE
        <4>1. CASE InSent(p, attempt)
          BY <1>1, <3>2, <4>1 DEF InSent, InDebit, DebitsApart, Attempts
        <4>2. ASSUME NEW e \in debits, e # d, InDebit(p, e) PROVE FALSE
          <5>1. Apart(d, e) /\ e \in Debit
            BY <1>1 DEF DebitsApart
          <5> QED
            BY <1>1, <3>1, <3>2, <4>2, <5>1 DEF InDebit, Apart, Debit
        <4> QED
          BY <1>2, <2>2, <2>6, <4>1, <4>2 DEF Owed
      <3> QED
        BY <2>3, <3>1, <3>2
    <2> HIDE DEF B
    <2>7. OwedCovered'
      BY <1>1, <1>2, <2>1, <2>2, <2>5, <2>6, OwedPaid
    <2>8. DebitsApart'
      BY <1>1, <1>2, <2>2 DEF DebitsApart
    <2>9. DwTypeOK'
      BY <1>1, <1>2, <2>2 DEF DwTypeOK, Holding, WalletRow
    <2> QED
      BY <1>2, <2>2, <2>7, <2>8, <2>9, HoldsUnmoved DEF DwInv, Holding
  <1> QED
    BY <1>5, <1>6, <1>7

-----------------------------------------------------------------------------
\* The screen, the admin and the runs of the batch move no money that left Stripe.
LEMMA QuietKeep ==
  ASSUME DwInv,
         \/ ApplyAdjustment(1) \/ ApplyAdjustment(-1)
         \/ LoadWallet \/ TapTransfer \/ TransferFails \/ ScheduleBatch
         \/ \E b \in BatchRuns : ReadBatch(b) \/ ClaimBatch(b) \/ FinishBatch(b)
  PROVE  DwInv'
  <1>1. DwTypeOK /\ wallet \in WalletRow
    BY DEF DwInv, DwTypeOK, WalletRow
  <1>2. /\ UNCHANGED <<earningRows, heldOver, releaseRows, releasing, readsCrossed, attempt,
                       transferred, debits, instantPaid>>
    BY DEF ApplyAdjustment, LoadWallet, TapTransfer, TransferFails, ScheduleBatch, ReadBatch,
           ClaimBatch, FinishBatch, Holding, Batching, Paying
  <1>3. /\ wallet' \in WalletRow /\ wallet'.pending = wallet.pending /\ wallet'.paid = wallet.paid
        /\ adjusted' \in Int
    <2>1. ASSUME NEW n \in {1, -1}, ApplyAdjustment(n)
          PROVE  wallet' = [pending |-> wallet.pending, available |-> wallet.available + n,
                            earned |-> wallet.earned, paid |-> wallet.paid] /\ adjusted' = n
      BY <1>1, <2>1 DEF ApplyAdjustment, WalletRow
    <2>2. \/ \E n \in {1, -1} : ApplyAdjustment(n)
          \/ UNCHANGED <<wallet, adjusted>>
      BY DEF LoadWallet, TapTransfer, TransferFails, ScheduleBatch, ReadBatch, ClaimBatch,
             FinishBatch, Holding
    <2>3. CASE \E n \in {1, -1} : ApplyAdjustment(n)
      BY <1>1, <2>1, <2>3 DEF WalletRow
    <2>4. CASE UNCHANGED <<wallet, adjusted>>
      BY <1>1, <2>4 DEF DwTypeOK
    <2> QED
      BY <2>2, <2>3, <2>4
  <1>4. screen' \in [available : Int, busy : BOOLEAN]
    <2>1. wallet.available \in Int
      BY <1>1 DEF WalletRow
    <2> QED
      BY <1>1, <2>1
      DEF ApplyAdjustment, LoadWallet, AvailableWallet, TapTransfer, TransferFails, ScheduleBatch,
          ReadBatch, ClaimBatch, FinishBatch, Batching, Paying, DwTypeOK
  <1>5. /\ batchStatus' \in {"none", "pending", "processing", "completed", "failed"}
        /\ batchRun' \in [BatchRuns -> [at : {"idle", "claim", "wallets", "finish"},
                                        try : 0..MaxAttempts]]
    BY <1>1, WalletAssumption
    DEF ApplyAdjustment, LoadWallet, TapTransfer, TransferFails, ScheduleBatch, ReadBatch,
        ClaimBatch, FinishBatch, Batching, Paying, DwTypeOK
  <1>6. DwTypeOK'
    BY <1>1, <1>2, <1>3, <1>4, <1>5 DEF DwTypeOK, WalletRow
  <1> QED
    BY <1>2, <1>3, <1>6, HoldsUnmoved, OwedUnmoved DEF DwInv

\* An instant payout owes the next units.
LEMMA InstantKeeps ==
  ASSUME DwInv, NEW n \in 1..MaxInstant, PayInstantly(n)
  PROVE  DwInv'
  <1>1. /\ DwTypeOK /\ OwedCovered /\ DebitsApart /\ debits \subseteq Debit
        /\ n \in Nat /\ instantPaid \in Nat /\ transferred \in Nat
    BY WalletAssumption DEF DwInv, DwTypeOK, Debit
  <1> DEFINE e == [for |-> 0, after |-> instantPaid, amount |-> n, at |-> "check"]
             B == Block(0, instantPaid, n)
  <1>2. /\ debits' = debits \cup {e} /\ instantPaid' = instantPaid + n
        /\ UNCHANGED <<wallet, Holding, Batching>>
        /\ screen' = [available |-> wallet.available, busy |-> FALSE]
    BY DEF PayInstantly, AvailableWallet
  <1>3. e \in Debit /\ instantPaid' \in 0..MaxInstant
    BY <1>1, <1>2, WalletAssumption DEF Debit, PayInstantly
  <1>4. IsFiniteSet(B) /\ Cardinality(B) = n
    BY <1>1, BlockSize
  <1>5. Owed' \subseteq Owed \cup B
    <2>1. \A p \in (0..MaxAttempts) \X Nat : InDebit(p, e) => p \in B
      BY <1>1 DEF InDebit, Block
    <2> HIDE DEF e, B
    <2> QED
      BY <1>2, <2>1 DEF Owed, Batching
  <1>6. OwedCovered'
    <2> HIDE DEF B
    <2> QED
      BY <1>1, <1>2, <1>4, <1>5, OwedGrows DEF Batching
  <1>7. DebitsApart'
    <2>1. \A d \in debits : d.for = 0 => d.after + d.amount <= instantPaid
      BY <1>1 DEF DebitsApart
    <2>2. e.for = 0 /\ e.after = instantPaid /\ e.amount = n
      OBVIOUS
    <2> HIDE DEF e
    <2>3. \A d \in debits : d \in Debit
      BY <1>1
    <2> QED
      BY <1>1, <1>2, <1>3, <2>1, <2>2, <2>3 DEF DebitsApart, Apart, Debit, Batching
  <1>8. DwTypeOK'
    <2>1. screen' \in [available : Int, busy : BOOLEAN]
      BY <1>1, <1>2 DEF DwTypeOK
    <2> QED
      BY <1>1, <1>2, <1>3, <2>1 DEF DwTypeOK, Holding, Batching, Debit
  <1> QED
    BY <1>2, <1>6, <1>7, <1>8, HoldsUnmoved DEF DwInv, Holding

-----------------------------------------------------------------------------
\* What the rows of attempts become: a debit is only of one that succeeded for good.
AttemptsMove(a, r) ==
  /\ attempt' = [attempt EXCEPT ![a] = r]
  /\ UNCHANGED <<wallet, Holding, batchStatus, instantPaid, screen>>

\* A new row is not sent, and there is no debit for it.
LEMMA NewAttemptKeeps ==
  ASSUME DwInv, NEW a \in Attempts, NEW r \in AttemptRow, AttemptsMove(a, r),
         attempt[a].status \in {"none", "pending"}, r.status # "sent",
         UNCHANGED <<transferred, debits>>,
         batchRun' \in [BatchRuns -> [at : {"idle", "claim", "wallets", "finish"},
                                      try : 0..MaxAttempts]]
  PROVE  DwInv'
  <1>1. DwTypeOK /\ OwedCovered /\ DebitsApart /\ attempt \in [Attempts -> AttemptRow]
    BY DEF DwInv, DwTypeOK, AttemptRow
  <1>2. \A p \in (0..MaxAttempts) \X Nat : InSent(p, attempt') => InSent(p, attempt)
    BY <1>1 DEF InSent, AttemptsMove
  <1>3. Owed' \subseteq Owed
    BY <1>2 DEF Owed, InDebit
  <1>4. OwedCovered'
    BY <1>1, <1>3, OwedShrinks, WalletAssumption DEF AttemptsMove, DwTypeOK
  <1>5. DebitsApart'
    BY <1>1 DEF DebitsApart, AttemptsMove
  <1>6. DwTypeOK'
    BY <1>1 DEF DwTypeOK, AttemptsMove, AttemptRow, Holding
  <1> QED
    BY <1>4, <1>5, <1>6, HoldsUnmoved DEF DwInv, AttemptsMove, Holding

LEMMA BatchPays ==
  ASSUME DwInv, NEW b \in BatchRuns, NEW a \in Attempts, NEW banked \in BOOLEAN,
         PayWallet(b, a, banked)
  PROVE  DwInv'
  <1>1. /\ DwTypeOK /\ attempt \in [Attempts -> AttemptRow] /\ wallet.available \in Int
    BY DEF DwInv, DwTypeOK, AttemptRow
  <1>a. a \in 0..MaxAttempts
    BY WalletAssumption DEF Attempts
  <1>2. /\ UNCHANGED <<wallet, Holding, batchStatus, transferred, Paying>>
        /\ batchRun' \in [BatchRuns -> [at : {"idle", "claim", "wallets", "finish"},
                                        try : 0..MaxAttempts]]
    BY <1>1, <1>a DEF PayWallet, DwTypeOK
  <1>3. CASE wallet.available >= 1 /\ banked
    <2> DEFINE r == [amount |-> wallet.available, of |-> a, status |-> "pending", number |-> 1]
    <2>1. r \in AttemptRow
      BY <1>1, <1>a, <1>3, WalletAssumption DEF AttemptRow
    <2>2. AttemptsMove(a, r) /\ attempt[a].status = "none"
      BY <1>2, <1>3 DEF PayWallet, NextAttempt, Tried, AttemptsMove, Paying
    <2> QED
      BY <1>2, <2>1, <2>2, NewAttemptKeeps DEF Paying
  <1>4. CASE ~(wallet.available >= 1 /\ banked)
    <2>1. UNCHANGED attempt
      BY <1>4 DEF PayWallet
    <2> QED
      BY <1>1, <1>2, <2>1, HoldsUnmoved, OwedUnmoved DEF DwInv, DwTypeOK, Holding, Paying
  <1> QED
    BY <1>3, <1>4

LEMMA RetryKeeps ==
  ASSUME DwInv, NEW a \in Attempts, NEW c \in Attempts, Retry(a, c)
  PROVE  DwInv'
  <1>1. DwTypeOK /\ attempt[a] \in AttemptRow
    BY DEF DwInv, DwTypeOK, AttemptRow
  <1> DEFINE r == [attempt[a] EXCEPT !.status = "pending", !.number = @ + 1]
  <1>2. r \in AttemptRow /\ r.status # "sent"
    <2>1. attempt[a].number + 1 \in 0..MaxRetries
      BY <1>1, WalletAssumption DEF AttemptRow, Retry
    <2> QED
      BY <1>1, <2>1 DEF AttemptRow
  <1>3. AttemptsMove(c, r) /\ attempt[c].status = "none"
    BY DEF Retry, NextAttempt, Tried, AttemptsMove, Paying
  <1> QED
    BY <1>1, <1>2, <1>3, NewAttemptKeeps DEF Retry, Paying, DwTypeOK

LEMMA TransferKeeps ==
  ASSUME DwInv, NEW a \in Attempts, NEW made \in BOOLEAN, NEW answered \in BOOLEAN,
         Transfer(a, made, answered)
  PROVE  DwInv'
  <1>1. /\ DwTypeOK /\ OwedCovered /\ DebitsApart /\ attempt \in [Attempts -> AttemptRow]
        /\ attempt[a] \in AttemptRow /\ attempt[a].amount \in Nat /\ transferred \in Nat
        /\ instantPaid \in Nat
    BY WalletAssumption DEF DwInv, DwTypeOK, AttemptRow
  <1> DEFINE r == [attempt[a] EXCEPT !.status = Outcome(attempt[a], made, answered)]
  <1>2. r \in AttemptRow /\ r.amount = attempt[a].amount
    BY <1>1 DEF AttemptRow, Outcome, Retried
  <1>3. /\ AttemptsMove(a, r) /\ attempt[a].status = "pending"
        /\ UNCHANGED <<debits, batchRun>>
        /\ transferred' = IF made THEN transferred + attempt[a].amount ELSE transferred
    BY DEF Transfer, AttemptsMove, Paying
  <1>4. CASE made
    <2> DEFINE B == Block(a, 0, attempt[a].amount)
    <2>1. IsFiniteSet(B) /\ Cardinality(B) = attempt[a].amount
      BY <1>1, BlockSize
    <2>2. \A p \in (0..MaxAttempts) \X Nat : InSent(p, attempt') => InSent(p, attempt) \/ p \in B
      BY <1>1, <1>2, <1>3 DEF InSent, AttemptsMove, Block
    <2> HIDE DEF B
    <2>3. Owed' \subseteq Owed \cup B
      BY <1>3, <2>2 DEF Owed, InDebit
    <2>4. OwedCovered'
      BY <1>1, <1>3, <1>4, <2>1, <2>3, OwedGrows DEF AttemptsMove
    <2>5. DebitsApart'
      BY <1>1, <1>3 DEF DebitsApart, AttemptsMove
    <2>6. DwTypeOK'
      BY <1>1, <1>2, <1>3 DEF DwTypeOK, AttemptsMove, AttemptRow, Holding
    <2> QED
      BY <1>3, <2>4, <2>5, <2>6, HoldsUnmoved DEF DwInv, AttemptsMove, Holding
  <1>5. CASE ~made
    <2>1. r.status # "sent"
      BY <1>1, <1>5 DEF Outcome, Retried, AttemptRow
    <2> HIDE DEF r
    <2> QED
      BY <1>1, <1>2, <1>3, <1>5, <2>1, NewAttemptKeeps DEF DwTypeOK
  <1> QED
    BY <1>4, <1>5

LEMMA RecordKeeps ==
  ASSUME DwInv, NEW a \in Attempts, NEW written \in BOOLEAN, RecordTransfer(a, written)
  PROVE  DwInv'
  <1>1. /\ DwTypeOK /\ OwedCovered /\ DebitsApart /\ attempt \in [Attempts -> AttemptRow]
        /\ attempt[a] \in AttemptRow /\ attempt[a].amount \in Nat /\ transferred \in Nat
        /\ instantPaid \in Nat /\ debits \subseteq Debit
    BY WalletAssumption DEF DwInv, DwTypeOK, AttemptRow, Debit
  <1>a. a \in 0..MaxAttempts /\ a # 0
    BY WalletAssumption DEF Attempts
  <1> DEFINE r == [attempt[a] EXCEPT !.status =
                     IF written THEN "succeeded" ELSE Retried(attempt[a])]
             e == [for |-> a, after |-> 0, amount |-> attempt[a].amount, at |-> "check"]
  <1>2. /\ r \in AttemptRow /\ r.amount = attempt[a].amount /\ r.status # "sent"
        /\ written => r.status = "succeeded"
    BY <1>1 DEF AttemptRow, Retried
  <1>3. /\ e \in Debit /\ e.for = a /\ e.after = 0 /\ e.amount = attempt[a].amount
    BY <1>1, <1>a DEF Debit
  <1>4. /\ AttemptsMove(a, r) /\ attempt[a].status = "sent"
        /\ UNCHANGED <<batchRun, transferred>>
        /\ debits' = IF written THEN debits \cup {e} ELSE debits
    BY DEF RecordTransfer, AttemptsMove
  <1> HIDE DEF r, e
  <1>5. \A p \in (0..MaxAttempts) \X Nat :
          /\ InSent(p, attempt') => InSent(p, attempt)
          /\ InDebit(p, e) => InSent(p, attempt)
    BY <1>1, <1>a, <1>2, <1>3, <1>4 DEF InSent, InDebit, AttemptsMove
  <1>6. Owed' \subseteq Owed
    BY <1>4, <1>5 DEF Owed, InDebit
  <1>7. OwedCovered'
    BY <1>1, <1>4, <1>6, OwedShrinks DEF AttemptsMove
  <1>8. \A d \in debits : d.for # a
    BY <1>1, <1>a, <1>4 DEF DebitsApart
  <1>9. DebitsApart'
    BY <1>1, <1>a, <1>2, <1>3, <1>4, <1>8 DEF DebitsApart, Apart, AttemptsMove
  <1>10. DwTypeOK'
    BY <1>1, <1>2, <1>3, <1>4 DEF DwTypeOK, AttemptsMove, AttemptRow, Holding, Debit
  <1> QED
    BY <1>4, <1>7, <1>9, <1>10, HoldsUnmoved DEF DwInv, AttemptsMove, Holding

-----------------------------------------------------------------------------
THEOREM DwInvariantHolds == DwSpec => []DwInv
  <1>1. DwInv /\ [DwNext]_<<dwVars, faults>> => DwInv'
    <2> SUFFICES ASSUME DwInv, [DwNext]_<<dwVars, faults>> PROVE DwInv'
      OBVIOUS
    <2>1. CASE UNCHANGED <<dwVars, faults>>
      BY <2>1, HoldsUnmoved, OwedUnmoved DEF dwVars, DwInv, DwTypeOK
    <2>2. CASE WalletNext
      BY <2>2, CreditKeeps, ReleaseKeeps, DebitsKeep, QuietKeep, InstantKeeps DEF WalletNext
    <2>3. CASE BatchNext
      BY <2>3, QuietKeep, BatchPays, TransferKeeps, RecordKeeps, RetryKeeps DEF BatchNext
    <2> QED
      BY <2>1, <2>2, <2>3 DEF DwNext
  <1> QED
    BY <1>1, DwInitHolds, PTL DEF DwSpec

\* The wallet, its rows, the batch, the debits and the screen have their types.
THEOREM DwTypeCorrect == DwSpec => []DwTypeOK
  <1>1. DwInv => DwTypeOK
    BY DEF DwInv
  <1> QED
    BY <1>1, DwInvariantHolds, PTL

\* For any trips, reads, batches, retries and amounts: the pending balance is what
\* its transactions say is held, unless two reads released one earning, and the
\* wallet never claims to have paid more than Stripe moved (wallet.service.ts,
\* payout-batch.service.ts).
THEOREM WalletIsTrue == DwSpec => []WalletAddsUp
  <1>1. DwInv => PendingIsHeld
    BY DEF DwInv, HoldsCounted, PendingIsHeld, HeldEarnings
  <1>2. DwInv => PaidWasTransferred
    <2> SUFFICES ASSUME DwInv PROVE PaidWasTransferred
      OBVIOUS
    <2>1. Cardinality(Owed) \in Nat
      BY FS_CardinalityType DEF DwInv, OwedCovered
    <2>2. wallet.paid \in Nat /\ transferred \in Nat /\ instantPaid \in Nat
      BY WalletAssumption DEF DwInv, DwTypeOK
    <2> QED
      BY <2>1, <2>2 DEF DwInv, OwedCovered, PaidWasTransferred
  <1>3. DwInv => WalletAddsUp
    BY <1>1, <1>2 DEF WalletAddsUp
  <1> QED
    BY <1>3, DwInvariantHolds, PTL

-----------------------------------------------------------------------------
(***************************************************************************)
(* AdviceLedger, for any pages, jobs, days and faults                      *)
(*                                                                         *)
(* Three writers may change a status long after they read it. A request    *)
(* and the expiry sweep compare again when they write (StillIn), so what   *)
(* matters is only that they read something they may leave: RequestsLegal, *)
(* SweepsStanding. A snapshot writes by id; it is right because a          *)
(* recommendation that was once adopted stays so or moves on (OnceTaken).  *)
(***************************************************************************)

AdviceRows == [status : {"none"} \cup AdviceStatuses, day : 0..MaxDays,
         zoned : BOOLEAN, lapsed : BOOLEAN, evidence : BOOLEAN]
AdviceViews == [advice : 0..MaxAdvice, status : {"none"} \cup AdviceStatuses, evidence : BOOLEAN]

\* Adopted, or past it.
Taken == {"adopted", "outcome_pending", "outcome_scored"}

\* What a writer in flight read.
RequestsLegal == \A c \in asks : c.at = "write" => Target(c.op) \in Legal(c.from)
SweepsStanding ==
  \A c \in jobs : c.job = "expire_sweep" => \A t \in c.todo : t[2] \in Standing
OnceTaken ==
  \A c \in jobs : \A t \in c.todo : t[2] = "adopted" => advice[t[1]].status \in Taken

\* A page that shows a status is of a recommendation.
PagesOfAdvice == \A p \in Pages : adviceOn[p].status # "none" => adviceOn[p].advice # 0

\* The inductive invariant.
AlInv == AlTypeOK /\ PagesOfAdvice /\ RequestsLegal /\ SweepsStanding /\ OnceTaken

\* What no step takes back.
TakenStays ==
  \A r \in Advice : advice[r].status \in Taken => advice'[r].status \in Taken
KeepsDecision(r) ==
  advice[r].status \in {"adopted", "dismissed"} =>
    advice'[r].status \in {advice[r].status} \cup Legal(advice[r].status)
DecisionsStand == \A r \in Advice : KeepsDecision(r)

-----------------------------------------------------------------------------
\* A legal move from a status that was taken keeps it so.
LEMMA LegalMoves ==
  /\ \A s \in Taken : Legal(s) \subseteq Taken
  /\ \A s \in Standing : "expired" \in Legal(s) /\ s \notin Taken
  /\ \A s : Legal(s) \subseteq AdviceStatuses
  BY DEF Legal, Taken, Standing, AdviceStatuses

\* A step that leaves the rows' statuses alone.
LEMMA StatusesAlone ==
  ASSUME AlInv, \A r \in Advice : advice'[r].status = advice[r].status
  PROVE  TakenStays /\ DecisionsStand
  BY DEF TakenStays, DecisionsStand, KeepsDecision

\* What holds of the jobs and of the requests is kept by rows that keep their word.
LEMMA OthersAsTheyWere ==
  ASSUME AlInv, TakenStays, NEW kept \in SUBSET jobs
  PROVE  \A c \in kept : \A t \in c.todo : t[2] = "adopted" => advice'[t[1]].status \in Taken
  BY DEF AlInv, AlTypeOK, JobRuns, OnceTaken, TakenStays

LEMMA AlInitHolds == AlInit => AlInv
  <1> SUFFICES ASSUME AlInit PROVE AlInv
    OBVIOUS
  <1>1. advice \in [Advice -> AdviceRows]
    BY AdviceBoundsAssumption DEF AlInit, NoAdvice, AdviceRows
  <1>2. adviceOn \in [Pages -> AdviceViews]
    BY AdviceBoundsAssumption DEF AlInit, AdviceViews
  <1>3. AlTypeOK
    BY <1>1, <1>2, AdviceBoundsAssumption DEF AlInit, AlTypeOK, AdviceRows, AdviceViews
  <1> QED
    BY <1>3 DEF AlInit, AlInv, PagesOfAdvice, RequestsLegal, SweepsStanding, OnceTaken

-----------------------------------------------------------------------------
\* What a step has to show.
RowsHold == advice' \in [Advice -> AdviceRows] /\ TakenStays /\ DecisionsStand
JobHolds(c) ==
  /\ c \in JobRuns
  /\ c.job = "expire_sweep" => \A t \in c.todo : t[2] \in Standing
  /\ \A t \in c.todo : t[2] = "adopted" => advice'[t[1]].status \in Taken
AlRestHolds ==
  /\ day' \in 1..MaxDays /\ due' \subseteq JobNames /\ lock' \subseteq JobNames
  /\ jobsBegun' \in 0..MaxJobs
JobsHold == \A c \in jobs' : JobHolds(c)
PagesHold ==
  /\ adviceOn' \in [Pages -> AdviceViews] /\ asks' \subseteq AdviceRequests
  /\ PagesOfAdvice' /\ RequestsLegal'

LEMMA AlStepHolds ==
  ASSUME RowsHold, JobsHold, AlRestHolds, PagesHold
  PROVE  AlInv' /\ DecisionsStand
  BY DEF RowsHold, JobsHold, JobHolds, AlRestHolds, PagesHold, AlInv, AlTypeOK, AdviceRows, AdviceViews,
     SweepsStanding, OnceTaken

\* What is left alone holds.
LEMMA AlUnmoved ==
  ASSUME AlInv
  PROVE  /\ advice' = advice => RowsHold
         /\ UNCHANGED <<day, Scheduling>> => AlRestHolds
         /\ UNCHANGED AtPages => PagesHold
         /\ TakenStays => \A c \in jobs : JobHolds(c)
  <1>1. advice' = advice => RowsHold
    BY StatusesAlone DEF AlInv, AlTypeOK, AdviceRows, RowsHold
  <1>2. UNCHANGED <<day, Scheduling>> => AlRestHolds
    BY DEF AlInv, AlTypeOK, AlRestHolds, Scheduling
  <1>3. UNCHANGED AtPages => PagesHold
    BY DEF AlInv, AlTypeOK, PagesHold, AtPages, AdviceViews, PagesOfAdvice, RequestsLegal
  <1>4. TakenStays => \A c \in jobs : JobHolds(c)
    BY OthersAsTheyWere DEF AlInv, AlTypeOK, SweepsStanding, JobHolds
  <1> QED
    BY <1>1, <1>2, <1>3, <1>4

\* A job that goes on, or ends.
LEMMA JobMoves ==
  ASSUME AlInv, TakenStays, NEW c \in jobs
  PROVE  /\ JobEnds(c) => JobsHold
         /\ \A d : JobGoes(c, d) /\ JobHolds(d) => JobsHold
         /\ \A s \in {"again", "look", "work", "read", "write"} : JobHolds([c EXCEPT !.at = s])
         /\ Done(c) => JobsHold
  <1>1. JobHolds(c) /\ c \in JobRuns
    BY AlUnmoved DEF AlInv, AlTypeOK
  <1>2. JobEnds(c) => JobsHold
    BY AlUnmoved DEF JobEnds, JobsHold
  <1>3. ASSUME NEW d, JobGoes(c, d), JobHolds(d) PROVE JobsHold
    BY <1>3, AlUnmoved DEF JobGoes, JobsHold
  <1>4. ASSUME NEW s \in {"again", "look", "work", "read", "write"}
        PROVE  JobHolds([c EXCEPT !.at = s])
    BY <1>1 DEF JobHolds, JobRuns
  <1>5. JobHolds([c EXCEPT !.at = "read", !.todo = {}])
    <2> DEFINE d == [c EXCEPT !.at = "read", !.todo = {}]
    <2>1. d \in JobRuns /\ d.todo = {}
      BY <1>1 DEF JobRuns
    <2> QED
      BY <2>1 DEF JobHolds
  <1> QED
    BY <1>2, <1>3, <1>4, <1>5 DEF Done

\* The clock moves, and jobs begin with nothing listed.
LEMMA ClockKeeps ==
  ASSUME AlInv,
         \/ NextDay \/ IntervalsPass \/ \E j \in JobNames : LockExpires(j)
         \/ \E r \in Advice : Lapses(r)
         \/ \E j \in JobNames, how \in {"tick", "forced", "direct"} : BeginJob(j, how)
  PROVE  AlInv' /\ DecisionsStand
  <1>a. AlTypeOK
    BY DEF AlInv
  <1>1. CASE NextDay \/ IntervalsPass \/ \E j \in JobNames : LockExpires(j)
    <2>1. UNCHANGED <<advice, jobs, AtPages>>
      BY <1>1 DEF NextDay, IntervalsPass, LockExpires
    <2>2. RowsHold /\ PagesHold
      BY <2>1, AlUnmoved DEF AtPages
    <2>3. JobsHold
      BY <2>1, <2>2, AlUnmoved DEF JobsHold, RowsHold
    <2>4. AlRestHolds
      BY <1>1, <1>a, AdviceBoundsAssumption DEF NextDay, IntervalsPass, LockExpires, AlTypeOK,
         AlRestHolds, Scheduling
    <2> QED
      BY <2>2, <2>3, <2>4, AlStepHolds
  <1>2. ASSUME NEW r \in Advice, Lapses(r) PROVE AlInv' /\ DecisionsStand
    <2>1. \A q \in Advice : advice'[q].status = advice[q].status
      BY <1>2, <1>a DEF Lapses, AlTypeOK
    <2>2. advice' \in [Advice -> AdviceRows]
      BY <1>2, <1>a DEF Lapses, AlTypeOK, AdviceRows
    <2>3. RowsHold
      BY <2>1, <2>2, StatusesAlone DEF RowsHold
    <2>4. JobsHold
      BY <1>2, <2>3, AlUnmoved DEF Lapses, JobsHold, RowsHold
    <2> QED
      BY <1>2, <2>3, <2>4, AlUnmoved, AlStepHolds DEF Lapses
  <1>3. ASSUME NEW j \in JobNames, NEW how \in {"tick", "forced", "direct"}, BeginJob(j, how)
        PROVE  AlInv' /\ DecisionsStand
    <2> DEFINE d == [n |-> jobsBegun', job |-> j, how |-> how, day |-> day, todo |-> {},
                     seen |-> {}, at |-> IF how = "direct" THEN "look" ELSE "lock"]
    <2>1. jobsBegun' \in 1..MaxJobs /\ day \in 1..MaxDays
      BY <1>3, <1>a, AdviceBoundsAssumption DEF BeginJob, AlTypeOK
    <2>2. d \in JobRuns /\ d.todo = {}
      BY <2>1 DEF JobRuns
    <2>3. RowsHold /\ PagesHold
      BY <1>3, AlUnmoved DEF BeginJob
    <2>4. JobHolds(d)
      BY <2>2 DEF JobHolds
    <2>5. jobs' = jobs \cup {d}
      BY <1>3 DEF BeginJob
    <2> HIDE DEF d
    <2>6. JobsHold
      BY <2>3, <2>4, <2>5, AlUnmoved DEF JobsHold, RowsHold
    <2>7. AlRestHolds
      BY <1>3, <1>a, <2>1, AdviceBoundsAssumption DEF BeginJob, AlTypeOK, AlRestHolds
    <2> QED
      BY <2>3, <2>6, <2>7, AlStepHolds
  <1> QED
    BY <1>1, <1>2, <1>3

\* The steps of a job that change no row.
LEMMA JobReads ==
  ASSUME AlInv, NEW c \in jobs,
         \/ TakeLock(c) \/ DueAgain(c) \/ ReadState(c) \/ RecordRun(c) \/ JobFails(c)
         \/ LookForStanding(c) \/ ListStale(c) \/ ListDecided(c) \/ LoopEnds(c)
         \/ \E t \in c.todo : ReadDecided(c, t)
  PROVE  AlInv' /\ DecisionsStand
  <1>a. AlTypeOK /\ c \in JobRuns /\ advice' = advice /\ UNCHANGED <<day, AtPages>>
    BY DEF AlInv, AlTypeOK, TakeLock, DueAgain, ReadState, RecordRun, JobFails, LookForStanding,
       ListStale, ListDecided, LoopEnds, ReadDecided
  <1>b. RowsHold /\ PagesHold /\ TakenStays /\ JobHolds(c)
    BY <1>a, AlUnmoved DEF RowsHold, AtPages
  <1>1. AlRestHolds
    BY <1>a DEF AlTypeOK, JobRuns, AlRestHolds, Scheduling, TakeLock, DueAgain, ReadState,
       RecordRun, JobFails, LookForStanding, ListStale, ListDecided, LoopEnds, ReadDecided
  <1>2. JobsHold
    <2>1. CASE TakeLock(c) \/ RecordRun(c) \/ JobFails(c) \/ LookForStanding(c) \/ LoopEnds(c)
      BY <1>b, <2>1, JobMoves DEF TakeLock, RecordRun, JobFails, LookForStanding, LoopEnds
    <2>2. CASE DueAgain(c)
      <3> DEFINE d == [c EXCEPT !.at = "look", !.how = "forced"]
      <3>1. d \in JobRuns /\ d.todo = c.todo /\ d.job = c.job
        BY <1>a DEF JobRuns
      <3>2. JobHolds(d)
        BY <1>b, <3>1 DEF JobHolds
      <3> HIDE DEF d
      <3> QED
        BY <1>b, <2>2, <3>2, JobMoves DEF DueAgain, d
    <2>3. CASE ReadState(c)
      <3> DEFINE d == [c EXCEPT !.at = "write", !.seen = due]
      <3>1. d \in JobRuns /\ d.todo = c.todo /\ d.job = c.job
        BY <1>a DEF JobRuns, AlTypeOK
      <3>2. JobHolds(d)
        BY <1>b, <3>1 DEF JobHolds
      <3> HIDE DEF d
      <3> QED
        BY <1>b, <2>3, <3>2, JobMoves DEF ReadState, d
    <2>4. CASE ListStale(c)
      <3> DEFINE list == {<<r, advice[r].status>> : r \in {q \in Advice :
                             advice[q].status \in Standing /\ advice[q].lapsed}}
                 d == [c EXCEPT !.at = "work", !.todo = list]
      <3>1. \A t \in list : /\ t \in Advice \X ({"none"} \cup AdviceStatuses)
                            /\ t[2] \in Standing
        BY <1>a DEF AlTypeOK
      <3>2. d.todo = list /\ d.job = c.job
        BY <1>a DEF JobRuns
      <3>3. d \in JobRuns
        BY <1>a, <3>1 DEF JobRuns
      <3>4. JobHolds(d)
        BY <3>1, <3>2, <3>3 DEF JobHolds, Standing
      <3> HIDE DEF d
      <3> QED
        BY <1>b, <2>4, <3>4, JobMoves DEF ListStale, d
    <2>5. CASE ListDecided(c)
      <3> DEFINE list == {<<r, "none">> : r \in {q \in Advice :
                             advice[q].status \in {"adopted", "dismissed", "outcome_pending"}
                             /\ advice[q].zoned /\ ~advice[q].evidence}}
                 d == [c EXCEPT !.at = "work", !.todo = list]
      <3>1. \A t \in list : /\ t \in Advice \X ({"none"} \cup AdviceStatuses)
                            /\ t[2] = "none"
        OBVIOUS
      <3>2. d.todo = list /\ d.job = "outcome_snapshots"
        BY <1>a, <2>5 DEF JobRuns, ListDecided
      <3>3. d \in JobRuns
        BY <1>a, <3>1 DEF JobRuns
      <3>4. JobHolds(d)
        BY <3>1, <3>2, <3>3 DEF JobHolds
      <3> HIDE DEF d
      <3> QED
        BY <1>b, <2>5, <3>4, JobMoves DEF ListDecided, d
    <2>6. ASSUME NEW t \in c.todo, ReadDecided(c, t) PROVE JobsHold
      <3> DEFINE u == <<t[1], advice[t[1]].status>>
                 d == [c EXCEPT !.todo = (@ \ {t}) \cup {u}]
      <3>1. t[1] \in Advice /\ u \in Advice \X ({"none"} \cup AdviceStatuses)
        BY <1>a DEF AlTypeOK, JobRuns
      <3>2. c.job # "expire_sweep"
        BY <1>b, <2>6 DEF ReadDecided, JobHolds, Standing
      <3>3. d.todo = (c.todo \ {t}) \cup {u} /\ d.job = c.job
        BY <1>a DEF JobRuns
      <3>4. d \in JobRuns
        BY <1>a, <3>1 DEF JobRuns
      <3>5. u[1] = t[1] /\ u[2] = advice[t[1]].status
        OBVIOUS
      <3>6. JobHolds(d)
        BY <1>a, <1>b, <3>2, <3>3, <3>4, <3>5 DEF JobHolds, Taken
      <3> HIDE DEF d
      <3> QED
        BY <1>b, <2>6, <3>6, JobMoves DEF ReadDecided, d
    <2> QED
      BY <2>1, <2>2, <2>3, <2>4, <2>5, <2>6
  <1> QED
    BY <1>1, <1>2, <1>b, AlStepHolds

\* The steps of a job that write a row: a new one, a standing one that expires,
\* an adopted one whose outcome is measured.
LEMMA JobWrites ==
  ASSUME AlInv, NEW c \in jobs,
         \/ \E r \in Advice, zoned \in BOOLEAN : CreateAdvice(c, r, zoned)
         \/ \E t \in c.todo : ExpireAdvice(c, t) \/ SnapshotOne(c, t)
  PROVE  AlInv' /\ DecisionsStand
  <1>a. AlTypeOK /\ c \in JobRuns /\ advice \in [Advice -> AdviceRows]
    BY DEF AlInv, AlTypeOK, AdviceRows
  <1>b. /\ UNCHANGED <<day, Scheduling, AtPages>> /\ AlRestHolds /\ PagesHold
    BY AlUnmoved DEF CreateAdvice, ExpireAdvice, SnapshotOne
  <1>1. ASSUME NEW r \in Advice, NEW zoned \in BOOLEAN, CreateAdvice(c, r, zoned)
        PROVE  RowsHold /\ JobsHold
    <2>1. NewAdvice(c.day, zoned) \in AdviceRows
      <3>1. c.day \in 0..MaxDays
        BY <1>a DEF JobRuns
      <3> QED
        BY <3>1 DEF NewAdvice, AdviceRows, AdviceStatuses, Standing
    <2>2. advice' = [advice EXCEPT ![r] = NewAdvice(c.day, zoned)]
      BY <1>1 DEF CreateAdvice
    <2>3. advice[r].status = "none"
      BY <1>1 DEF CreateAdvice, Written
    <2>4. RowsHold
      BY <1>a, <2>1, <2>2, <2>3 DEF RowsHold, TakenStays, DecisionsStand, KeepsDecision, Taken
    <2> QED
      BY <1>1, <2>4, JobMoves DEF CreateAdvice, RowsHold
  <1>2. ASSUME NEW t \in c.todo, ExpireAdvice(c, t) \/ SnapshotOne(c, t)
        PROVE  RowsHold /\ JobsHold
    <2> DEFINE d == [c EXCEPT !.todo = @ \ {t}]
    <2>1. t[1] \in Advice
      BY <1>a DEF JobRuns
    <2>2. d \in JobRuns /\ d.todo = c.todo \ {t} /\ d.job = c.job
      BY <1>a DEF JobRuns
    <2>3. ASSUME ExpireAdvice(c, t) PROVE RowsHold
      <3>1. t[2] \in Standing
        BY <2>3 DEF ExpireAdvice, AlInv, SweepsStanding
      <3>2. CASE StillIn(t[1], t[2])
        <4>1. advice' = [advice EXCEPT ![t[1]].status = "expired"]
          BY <2>3, <3>2 DEF ExpireAdvice
        <4>2. advice[t[1]].status \in Standing
          BY <3>1, <3>2 DEF StillIn
        <4>3. advice' \in [Advice -> AdviceRows]
          BY <1>a, <2>1, <4>1 DEF AdviceRows, AdviceStatuses
        <4> QED
          BY <1>a, <2>1, <4>1, <4>2, <4>3
          DEF RowsHold, TakenStays, DecisionsStand, KeepsDecision, Taken, Standing
      <3>3. CASE ~StillIn(t[1], t[2])
        BY <2>3, <3>3, AlUnmoved DEF ExpireAdvice
      <3> QED
        BY <3>2, <3>3
    <2>4. ASSUME SnapshotOne(c, t) PROVE RowsHold
      <3> DEFINE now == IF t[2] = "adopted" THEN "outcome_pending" ELSE advice[t[1]].status
      <3>1. advice' = [advice EXCEPT ![t[1]].evidence = TRUE, ![t[1]].status = now]
        BY <2>4, <1>a, <2>1 DEF SnapshotOne, AdviceRows
      <3>2. t[2] = "adopted" => advice[t[1]].status \in Taken
        BY DEF AlInv, OnceTaken
      <3>3. now \in {"none"} \cup AdviceStatuses
        BY <1>a, <2>1 DEF AdviceRows, AdviceStatuses
      <3>4. \/ now = advice[t[1]].status
            \/ now = "outcome_pending" /\ advice[t[1]].status \in Taken
        BY <3>2
      <3> HIDE DEF now
      <3>5. advice' \in [Advice -> AdviceRows]
        BY <1>a, <2>1, <3>1, <3>3 DEF AdviceRows
      <3>6. /\ advice'[t[1]].status = now
            /\ \A r \in Advice : r # t[1] => advice'[r] = advice[r]
        BY <1>a, <2>1, <3>1 DEF AdviceRows
      <3>7. TakenStays
        BY <3>4, <3>6 DEF TakenStays, Taken
      <3>8. DecisionsStand
        BY <3>4, <3>6 DEF DecisionsStand, KeepsDecision, Taken, Legal
      <3> QED
        BY <3>5, <3>7, <3>8 DEF RowsHold
    <2>5. RowsHold
      BY <1>2, <2>3, <2>4
    <2>6. JobHolds(d)
      <3>1. JobHolds(c)
        BY <2>5, AlUnmoved DEF RowsHold
      <3> QED
        BY <2>2, <3>1 DEF JobHolds
    <2>7. JobGoes(c, d)
      BY <1>2 DEF ExpireAdvice, SnapshotOne
    <2> QED
      BY <2>5, <2>6, <2>7, JobMoves DEF RowsHold
  <1> QED
    BY <1>b, <1>1, <1>2, AlStepHolds

\* The pages show, ask and are answered.
LEMMA PagesKeep ==
  ASSUME AlInv,
         \/ \E p \in Pages, r \in Advice : ShowAdvice(p, r)
         \/ \E p \in Pages :
              RecordOutcome(p) \/ \E op \in {"adopt", "dismiss"} : DecideAdvice(p, op)
         \/ \E c \in asks : ReadAdvice(c) \/ AskLost(c)
  PROVE  AlInv' /\ DecisionsStand
  <1>a. /\ AlTypeOK /\ asks \subseteq AdviceRequests /\ adviceOn \in [Pages -> AdviceViews]
        /\ advice \in [Advice -> AdviceRows] /\ PagesOfAdvice /\ RequestsLegal
    BY DEF AlInv, AlTypeOK, AdviceViews, AdviceRows
  <1>b. UNCHANGED <<advice, day, Scheduling, jobs>>
    BY DEF ShowAdvice, RecordOutcome, DecideAdvice, ReadAdvice, AskLost
  <1>c. ASSUME NEW op \in {"view", "adopt", "dismiss", "score"}, NEW p \in Pages, NEW r \in Advice
        PROVE  Asking(op, p, r) \in AdviceRequests /\ Asking(op, p, r).at = "read"
    BY DEF Asking, AdviceRequests
  <1>1. ASSUME NEW p \in Pages, NEW r \in Advice, ShowAdvice(p, r) PROVE PagesHold
    <2> DEFINE v == [advice |-> r, status |-> advice[r].status, evidence |-> advice[r].evidence]
    <2>1. v \in AdviceViews
      BY <1>a, AdviceBoundsAssumption DEF AdviceViews, AdviceRows, Advice
    <2>4. v.advice # 0
      BY AdviceBoundsAssumption DEF Advice
    <2>2. adviceOn' = [adviceOn EXCEPT ![p] = v]
      BY <1>1 DEF ShowAdvice
    <2> HIDE DEF v
    <2>3. asks' \subseteq asks \cup {Asking("view", p, r)}
      BY <1>1 DEF ShowAdvice
    <2> QED
      BY <1>a, <1>c, <2>1, <2>2, <2>3, <2>4 DEF PagesHold, PagesOfAdvice, RequestsLegal
  <1>2. ASSUME NEW p \in Pages, NEW op \in {"score", "adopt", "dismiss"},
               asks' = asks \cup {Asking(op, p, adviceOn[p].advice)}, adviceOn' = adviceOn,
               adviceOn[p].advice # 0
        PROVE  PagesHold
    <2>1. adviceOn[p].advice \in Advice
      BY <1>a, <1>2, AdviceBoundsAssumption DEF AdviceViews, Advice
    <2> QED
      BY <1>a, <1>c, <1>2, <2>1 DEF PagesHold, PagesOfAdvice, RequestsLegal
  <1>3. ASSUME NEW c \in asks, ReadAdvice(c) PROVE PagesHold
    <2> DEFINE w == [c EXCEPT !.at = "write", !.from = advice[c.advice].status]
    <2>1. c \in AdviceRequests
      BY <1>a
    <2>2. w \in AdviceRequests /\ w.op = c.op /\ w.from = advice[c.advice].status
      BY <1>a, <2>1 DEF AdviceRequests, AdviceRows
    <2>3. \/ asks' = asks \ {c}
          \/ asks' = (asks \ {c}) \cup {w} /\ Target(c.op) \in Legal(w.from)
      BY <1>3, <2>2 DEF ReadAdvice
    <2> HIDE DEF w
    <2> QED
      BY <1>3, <1>a, <2>2, <2>3 DEF ReadAdvice, PagesHold, PagesOfAdvice, RequestsLegal
  <1>4. ASSUME NEW c \in asks, AskLost(c) PROVE PagesHold
    BY <1>4, <1>a DEF AskLost, PagesHold, PagesOfAdvice, RequestsLegal
  <1>5. PagesHold
    BY <1>1, <1>2, <1>3, <1>4, <1>a DEF RecordOutcome, DecideAdvice, PagesOfAdvice, Standing
  <1> QED
    BY <1>b, <1>5, AlUnmoved, AlStepHolds DEF JobsHold, RowsHold

\* A request writes what it decided, if the row is still as it read it.
LEMMA AnswerKeeps ==
  ASSUME AlInv, NEW c \in asks, WriteAdvice(c)
  PROVE  AlInv' /\ DecisionsStand
  <1>a. /\ AlTypeOK /\ c \in AdviceRequests /\ advice \in [Advice -> AdviceRows] /\ c.advice \in Advice
    BY DEF AlInv, AlTypeOK, AdviceRows, AdviceRequests
  <1>1. RowsHold
    <2>1. CASE StillIn(c.advice, c.from)
      <3>1. Target(c.op) \in Legal(advice[c.advice].status)
        BY <2>1 DEF WriteAdvice, StillIn, AlInv, RequestsLegal
      <3>2. advice' = [advice EXCEPT ![c.advice].status = Target(c.op)]
        BY <2>1 DEF WriteAdvice
      <3>3. advice' \in [Advice -> AdviceRows]
        BY <1>a, <3>1, <3>2, LegalMoves DEF AdviceRows
      <3> QED
        BY <1>a, <3>1, <3>2, <3>3, LegalMoves DEF RowsHold, TakenStays, DecisionsStand, KeepsDecision
    <2>2. CASE ~StillIn(c.advice, c.from)
      BY <2>2, AlUnmoved DEF WriteAdvice
    <2> QED
      BY <2>1, <2>2
  <1>2. PagesHold
    BY DEF WriteAdvice, PagesHold, AlInv, AlTypeOK, AdviceViews, PagesOfAdvice, RequestsLegal
  <1>3. AlRestHolds /\ JobsHold
    BY <1>1, AlUnmoved DEF WriteAdvice, RowsHold, JobsHold
  <1> QED
    BY <1>1, <1>2, <1>3, AlStepHolds

-----------------------------------------------------------------------------
LEMMA EveryStep ==
  ASSUME AlInv, [AlNext]_<<alVars, faults>>
  PROVE  AlInv' /\ DecisionsStand
  <1>1. CASE UNCHANGED <<alVars, faults>>
    <2>1. RowsHold /\ AlRestHolds /\ PagesHold
      BY <1>1, AlUnmoved DEF alVars, Scheduling, AtPages
    <2> QED
      BY <1>1, <2>1, AlUnmoved, AlStepHolds DEF alVars, JobsHold, RowsHold
  <1>2. CASE AlNext
    BY <1>2, ClockKeeps, JobReads, JobWrites, PagesKeep, AnswerKeeps DEF AlNext, JobStep
  <1> QED
    BY <1>1, <1>2

\* The invariant holds throughout.
THEOREM AlInvariantHolds == AlSpec => []AlInv
  BY AlInitHolds, EveryStep, PTL DEF AlSpec

\* The rows, runs, pages and requests have their types.
THEOREM AlTypeCorrect == AlSpec => []AlTypeOK
  <1>1. AlInv => AlTypeOK
    BY DEF AlInv
  <1> QED
    BY <1>1, AlInvariantHolds, PTL

\* A decision of the founder stands against every sweep, snapshot and request
\* that read the recommendation before it (transition, expireSweep, snapshotDue).
THEOREM FounderDecides == AlSpec => DecisionWins
  <1>1. AlInv /\ [AlNext]_<<alVars, faults>> => [DecisionsStand]_advice
    BY EveryStep
  <1> QED
    BY <1>1, AlInvariantHolds, PTL DEF AlSpec, DecisionWins, DecisionsStand, KeepsDecision

-----------------------------------------------------------------------------
(***************************************************************************)
(* ProxySession, for any requests, sessions, rate limit and faults         *)
(*                                                                         *)
(* The copy in Redis is written by a request that read or made its session *)
(* long before. It is right because a session that is on record with both  *)
(* people on it stays so (Recorded): people only join, and a trip's row,   *)
(* once written, is of one session for good.                               *)
(***************************************************************************)

\* Messages may go by session n, with these members and this row.
Recorded(n, m, row) == n # 0 /\ m[n] = Both /\ row.sid = n

\* What a request knows of the session it holds.
CallerKnows(r, m, row) ==
  /\ r.op = "none" => r.at = "none"
  /\ r.op = "create" /\ r.at \in {"rider", "driver", "row", "cache"} => r.sid # 0
  /\ r.op = "create" /\ r.at = "driver" => "rider" \in m[r.sid]
  /\ r.op = "create" /\ r.at = "row" => m[r.sid] = Both
  /\ r.op \in {"create", "extend"} /\ r.at = "cache" => Recorded(r.sid, m, row)

\* The inductive invariant.
PxInv ==
  /\ PxTypeOK /\ CachedIsRecorded
  /\ \A c \in Callers : CallerKnows(caller[c], members, proxyRow)

-----------------------------------------------------------------------------
LEMMA PxInitHolds == PxInit => PxInv
  <1> SUFFICES ASSUME PxInit PROVE PxInv
    OBVIOUS
  <1>1. Resting \in Handlers /\ CallerKnows(Resting, members, proxyRow)
    BY LimitsAssumption DEF Resting, Handlers, CallerKnows
  <1>2. members \in [Proxies -> SUBSET Both] /\ caller \in [Callers -> Handlers]
    BY <1>1 DEF PxInit
  <1>3. /\ twilio \in 0..MaxProxies /\ proxies \in 0..MaxProxies /\ cached \in 0..MaxProxies
        /\ rate \in 0..(RateMax + 1) /\ webhooks \subseteq Proxies
    BY LimitsAssumption DEF PxInit
  <1>a. rateEnds \in BOOLEAN
    BY DEF PxInit
  <1>4. proxyRow \in [sid : 0..MaxProxies, status : {"none", "active", "closed", "expired"}]
    BY LimitsAssumption DEF PxInit
  <1>5. PxTypeOK
    BY <1>2, <1>3, <1>a, <1>4 DEF PxTypeOK
  <1> QED
    BY <1>1, <1>5 DEF PxInit, PxInv, CachedIsRecorded

\* People join, and the row keeps its session.
Onward ==
  /\ \A n \in Proxies : members[n] \subseteq members'[n] /\ members'[n] \subseteq Both
  /\ proxyRow.sid # 0 => proxyRow'.sid = proxyRow.sid

LEMMA RecordedStays ==
  ASSUME PxTypeOK, Onward, NEW n \in 0..MaxProxies, Recorded(n, members, proxyRow)
  PROVE  Recorded(n, members', proxyRow')
  <1>1. n \in Proxies
    BY LimitsAssumption DEF Recorded, Proxies
  <1>2. members'[n] = Both
    BY <1>1 DEF Onward, Recorded
  <1> QED
    BY <1>1, <1>2 DEF Onward, Recorded

\* So a request knows what it knew.
LEMMA KnownStays ==
  ASSUME PxTypeOK, Onward, NEW r \in Handlers, CallerKnows(r, members, proxyRow)
  PROVE  CallerKnows(r, members', proxyRow')
  <1>1. r.sid \in 0..MaxProxies
    BY DEF Handlers
  <1>2. r.sid # 0 => r.sid \in Proxies
    BY <1>1, LimitsAssumption DEF Proxies
  <1> QED
    BY <1>1, <1>2, RecordedStays DEF CallerKnows, Onward

\* What a step has to show: the request that moves is at one that knows enough.
PxRestHolds ==
  /\ twilio' \in 0..MaxProxies /\ proxies' \in 0..MaxProxies
  /\ members' \in [Proxies -> SUBSET Both] /\ webhooks' \subseteq Proxies
  /\ proxyRow' \in [sid : 0..MaxProxies, status : {"none", "active", "closed", "expired"}]
  /\ rate' \in 0..(RateMax + 1) /\ rateEnds' \in BOOLEAN
  /\ Onward
CacheHolds ==
  /\ cached' \in 0..MaxProxies
  /\ cached' \in {0, cached} \/ Recorded(cached', members', proxyRow')
CallersHold ==
  \/ caller' = caller
  \/ \E c \in Callers, r \in Handlers : caller' = [caller EXCEPT ![c] = r] /\ CallerKnows(r, members', proxyRow')

LEMMA PxStepHolds ==
  ASSUME PxInv, PxRestHolds, CacheHolds, CallersHold
  PROVE  PxInv'
  <1>a. PxTypeOK /\ Onward
    BY DEF PxInv, PxRestHolds
  <1>b. \A c \in Callers : CallerKnows(caller'[c], members', proxyRow')
    <2> SUFFICES ASSUME NEW c \in Callers PROVE CallerKnows(caller'[c], members', proxyRow')
      OBVIOUS
    <2>1. caller[c] \in Handlers /\ CallerKnows(caller[c], members, proxyRow)
      BY DEF PxInv, PxTypeOK
    <2>2. \/ caller'[c] = caller[c]
          \/ CallerKnows(caller'[c], members', proxyRow')
      BY <1>a DEF CallersHold, PxTypeOK
    <2> QED
      BY <1>a, <2>1, <2>2, KnownStays
  <1>c. caller' \in [Callers -> Handlers]
    BY <1>a DEF CallersHold, PxTypeOK
  <1>d. CachedIsRecorded'
    <2>1. cached \in 0..MaxProxies /\ (cached # 0 => Recorded(cached, members, proxyRow))
      BY <1>a DEF PxInv, PxTypeOK, CachedIsRecorded, Recorded
    <2>2. CASE cached' = cached
      BY <1>a, <2>1, <2>2, RecordedStays DEF CachedIsRecorded, Recorded
    <2>3. CASE cached' # cached
      BY <2>3 DEF CacheHolds, CachedIsRecorded, Recorded
    <2> QED
      BY <2>2, <2>3
  <1> QED
    BY <1>b, <1>c, <1>d DEF PxInv, PxTypeOK, PxRestHolds, CacheHolds

\* What is left alone holds.
LEMMA PxUnmoved ==
  ASSUME PxInv
  PROVE  /\ UNCHANGED <<twilio, proxies, members, webhooks, proxyRow, Counting>> => PxRestHolds
         /\ cached' = cached => CacheHolds
         /\ cached' = 0 => CacheHolds
  BY LimitsAssumption DEF PxInv, PxTypeOK, PxRestHolds, Onward, Counting, CacheHolds

\* A request that leaves knows nothing; one that waits for nothing in particular, little.
LEMMA Waits ==
  ASSUME PxInv, NEW c \in Callers
  PROVE  /\ Leaves(c) => CallersHold
         /\ \A at \in {"twilio", "row", "cache", "rate", "window"} :
              Moves(c, at) /\ caller[c].op \notin {"none", "create"}
                /\ (caller[c].op = "extend" => at # "cache") => CallersHold
  <1>1. Leaves(c) => CallersHold
    <2>1. Resting \in Handlers /\ CallerKnows(Resting, members', proxyRow')
      BY LimitsAssumption DEF Resting, Handlers, CallerKnows
    <2> QED
      BY <2>1 DEF Leaves, CallersHold
  <1>2. ASSUME NEW at \in {"twilio", "row", "cache", "rate", "window"}, Moves(c, at),
               caller[c].op \notin {"none", "create"}, caller[c].op = "extend" => at # "cache"
        PROVE  CallersHold
    <2> DEFINE r == [caller[c] EXCEPT !.at = at]
    <2>1. caller[c] \in Handlers
      BY DEF PxInv, PxTypeOK
    <2>2. r \in Handlers /\ r.op = caller[c].op /\ r.at = at
      BY <2>1 DEF Handlers
    <2>3. caller' = [caller EXCEPT ![c] = r]
      BY <1>2, <2>1 DEF Moves, Handlers, PxInv, PxTypeOK
    <2> HIDE DEF r
    <2>4. CallerKnows(r, members', proxyRow')
      BY <1>2, <2>2 DEF CallerKnows
    <2> QED
      BY <2>2, <2>3, <2>4 DEF CallersHold
  <1> QED
    BY <1>1, <1>2

\* A request that goes on to a step it knows enough for.
LEMMA GoesOn ==
  ASSUME PxInv, NEW c \in Callers, NEW r \in Handlers, caller' = [caller EXCEPT ![c] = r],
         CallerKnows(r, members', proxyRow')
  PROVE  CallersHold
  BY DEF CallersHold

\* The record a request becomes when it moves, or takes a session.
LEMMA Records ==
  ASSUME PxInv, NEW c \in Callers, NEW at, NEW sid \in 0..MaxProxies,
         at \in {"none", "get", "twilio", "rider", "driver", "row", "cache", "rate", "window"}
  PROVE  /\ caller[c] \in Handlers /\ CallerKnows(caller[c], members, proxyRow)
         /\ Moves(c, at) => caller' = [caller EXCEPT ![c] =
                              [op |-> caller[c].op, sid |-> caller[c].sid, at |-> at]]
         /\ Holds(c, at, sid) => caller' = [caller EXCEPT ![c] =
                                   [op |-> caller[c].op, sid |-> sid, at |-> at]]
         /\ [op |-> caller[c].op, sid |-> caller[c].sid, at |-> at] \in Handlers
         /\ [op |-> caller[c].op, sid |-> sid, at |-> at] \in Handlers
  BY DEF PxInv, PxTypeOK, Handlers, Moves, Holds

-----------------------------------------------------------------------------
\* Requests come, find their session and die.
LEMMA RequestsKeep ==
  ASSUME PxInv, NEW c \in Callers,
         \/ \E op \in {"create", "close", "extend", "sms"} : Arrives(c, op)
         \/ ReportExpiry(c) \/ CallerDies(c) \/ GetCached(c)
  PROVE  PxInv'
  <1>a. /\ UNCHANGED <<twilio, proxies, members, proxyRow, cached, webhooks, Counting>>
        /\ PxTypeOK
    BY DEF Arrives, ReportExpiry, CallerDies, GetCached, PxInv
  <1>b. PxRestHolds /\ CacheHolds
    BY <1>a, PxUnmoved
  <1>1. ASSUME NEW op \in {"create", "close", "extend", "sms"}, Arrives(c, op)
        PROVE  CallersHold
    <2>1. [op |-> op, at |-> "get", sid |-> 0] \in Handlers
      BY LimitsAssumption DEF Handlers
    <2> QED
      BY <1>1, <2>1, GoesOn DEF Arrives, CallerKnows
  <1>2. ASSUME ReportExpiry(c) PROVE CallersHold
    <2>1. PICK n \in webhooks : caller' = [caller EXCEPT ![c] = [op |-> "expired", at |-> "get", sid |-> n]]
      BY <1>2 DEF ReportExpiry
    <2>2. [op |-> "expired", at |-> "get", sid |-> n] \in Handlers
      BY <1>a, LimitsAssumption DEF PxTypeOK, Proxies, Handlers
    <2> QED
      BY <2>1, <2>2, GoesOn DEF CallerKnows
  <1>3. ASSUME CallerDies(c) PROVE CallersHold
    BY <1>3, Waits DEF CallerDies
  <1>4. ASSUME GetCached(c) PROVE CallersHold
    <2>1. CASE Leaves(c)
      BY <2>1, Waits
    <2>2. CASE ~Leaves(c)
      <3> DEFINE at == NextStep(caller[c].op)
      <3>1. caller[c] \in Handlers /\ CallerKnows(caller[c], members, proxyRow)
        BY <1>a DEF PxInv, PxTypeOK
      <3>2. /\ caller[c].op \in {"create", "close", "extend", "sms"}
            /\ (caller[c].op = "create") = (cached = 0) /\ Holds(c, at, cached)
        BY <1>4, <2>2, <3>1 DEF GetCached, CallerKnows, Handlers
      <3>3. /\ at \in {"twilio", "cache", "rate"}
            /\ at = "cache" => caller[c].op = "extend"
        BY <3>2 DEF NextStep
      <3> HIDE DEF at
      <3>4. cached \in 0..MaxProxies /\ (cached # 0 => Recorded(cached, members, proxyRow))
        BY <1>a DEF PxInv, PxTypeOK, CachedIsRecorded, Recorded
      <3>5. PICK s \in 0..MaxProxies : s = cached
        BY <3>4
      <3>6. PICK a \in {"twilio", "cache", "rate"} : a = at
        BY <3>3
      <3>7. PICK o \in {"create", "close", "extend", "sms"} : o = caller[c].op
        BY <3>2
      <3>b. Holds(c, a, s)
        BY <3>2, <3>5, <3>6
      <3>8. /\ caller' = [caller EXCEPT ![c] = [op |-> o, sid |-> s, at |-> a]]
            /\ [op |-> o, sid |-> s, at |-> a] \in Handlers
        BY <3>b, <3>7, Records
      <3>9. a = "cache" => Recorded(s, members', proxyRow')
        BY <1>a, <3>2, <3>3, <3>4, <3>5, <3>6
      <3>10. CallerKnows([op |-> o, sid |-> s, at |-> a], members', proxyRow')
        BY <3>2, <3>3, <3>6, <3>7, <3>9 DEF CallerKnows
      <3> QED
        BY <3>8, <3>10, GoesOn
    <2> QED
      BY <2>1, <2>2
  <1> QED
    BY <1>b, <1>1, <1>2, <1>3, <1>4, PxStepHolds

\* Twilio opens a session, and takes its two participants.
LEMMA OpeningKeeps ==
  ASSUME PxInv, NEW c \in Callers, OpenTwilio(c) \/ \E who \in Both : AddMember(c, who)
  PROVE  PxInv'
  <1>a. /\ PxTypeOK /\ caller[c] \in Handlers /\ CallerKnows(caller[c], members, proxyRow)
        /\ UNCHANGED <<proxyRow, cached, webhooks, Counting>>
    BY DEF PxInv, PxTypeOK, OpenTwilio, AddMember
  <1>b. CacheHolds
    BY <1>a, PxUnmoved
  <1>1. ASSUME OpenTwilio(c) PROVE PxRestHolds /\ CallersHold
    <2>1. PxRestHolds
      BY <1>1, <1>a, LimitsAssumption DEF OpenTwilio, PxTypeOK, PxRestHolds, Onward, Counting
    <2>2. CASE Leaves(c)
      BY <2>1, <2>2, Waits
    <2>3. CASE ~Leaves(c)
      <3>1. /\ Holds(c, "rider", proxies') /\ proxies' \in 0..MaxProxies /\ proxies' # 0
            /\ caller[c].op = "create"
        BY <1>1, <1>a, <2>3, LimitsAssumption DEF OpenTwilio, PxTypeOK, Call
      <3>2. PICK n \in 0..MaxProxies : n = proxies'
        BY <3>1
      <3>b. Holds(c, "rider", n) /\ caller[c].op = "create"
        BY <3>1, <3>2
      <3>c. PICK a \in {"rider"} : Holds(c, a, n)
        BY <3>b
      <3>3. /\ caller' = [caller EXCEPT ![c] = [op |-> "create", sid |-> n, at |-> "rider"]]
            /\ [op |-> "create", sid |-> n, at |-> "rider"] \in Handlers
        BY <3>b, <3>c, Records
      <3>4. CallerKnows([op |-> "create", sid |-> n, at |-> "rider"], members', proxyRow')
        BY <3>1, <3>2 DEF CallerKnows
      <3> QED
        BY <2>1, <3>3, <3>4, GoesOn
    <2> QED
      BY <2>2, <2>3
  <1>2. ASSUME NEW who \in Both, AddMember(c, who) PROVE PxRestHolds /\ CallersHold
    <2>1. CASE Leaves(c) /\ UNCHANGED members
      BY <1>a, <1>2, <2>1, Waits, PxUnmoved DEF AddMember
    <2>2. CASE ~(Leaves(c) /\ UNCHANGED members)
      <3> DEFINE n == caller[c].sid
                 at == IF who = "rider" THEN "driver" ELSE "row"
      <3>1. /\ caller[c].op = "create" /\ caller[c].at = who /\ twilio = n
            /\ members' = [members EXCEPT ![twilio] = @ \cup {who}] /\ Moves(c, at)
            /\ UNCHANGED <<twilio, proxies>>
        BY <1>2, <2>2 DEF AddMember, Call
      <3>2. n \in Proxies
        BY <1>a, <3>1, LimitsAssumption DEF CallerKnows, Handlers, Proxies, Both
      <3>3. members[n] \subseteq Both /\ members' = [members EXCEPT ![n] = members[n] \cup {who}]
        BY <1>a, <3>1, <3>2 DEF PxTypeOK
      <3>4. PxRestHolds
        BY <1>a, <3>1, <3>2, <3>3 DEF PxTypeOK, PxRestHolds, Onward, Counting
      <3>5. members'[n] = members[n] \cup {who}
        BY <1>a, <3>2, <3>3 DEF PxTypeOK
      <3>6. who = "driver" => "rider" \in members[n]
        BY <1>a, <3>1 DEF CallerKnows
      <3>7. PICK m \in 0..MaxProxies : m = n
        BY <1>a DEF Handlers
      <3>8. PICK a \in {"driver", "row"} : a = at
        OBVIOUS
      <3> HIDE DEF at
      <3>9. /\ caller' = [caller EXCEPT ![c] = [op |-> "create", sid |-> m, at |-> a]]
            /\ [op |-> "create", sid |-> m, at |-> a] \in Handlers
        BY <3>1, <3>7, <3>8, Records
      <3>10. m # 0 /\ (a = "driver" => who = "rider") /\ (a = "row" => who = "driver")
        BY <3>2, <3>7, <3>8, LimitsAssumption DEF at, Proxies, Both
      <3>11. (a = "driver" => "rider" \in members'[m]) /\ (a = "row" => members'[m] = Both)
        BY <3>3, <3>5, <3>6, <3>7, <3>10 DEF Both
      <3>12. CallerKnows([op |-> "create", sid |-> m, at |-> a], members', proxyRow')
        BY <3>10, <3>11 DEF CallerKnows
      <3> QED
        BY <3>4, <3>9, <3>12, GoesOn
    <2> QED
      BY <2>1, <2>2
  <1> QED
    BY <1>b, <1>1, <1>2, PxStepHolds

\* The row and the copy of a new session, and the copy a request read.
LEMMA RecordingKeeps ==
  ASSUME PxInv, NEW c \in Callers, WriteRow(c) \/ CacheNew(c) \/ CacheAgain(c)
  PROVE  PxInv'
  <1>a. /\ PxTypeOK /\ caller[c] \in Handlers /\ CallerKnows(caller[c], members, proxyRow)
        /\ UNCHANGED <<twilio, proxies, members, webhooks, Counting>>
    BY DEF PxInv, PxTypeOK, WriteRow, CacheNew, CacheAgain
  <1>1. ASSUME WriteRow(c) PROVE PxInv'
    <2>1. CacheHolds
      BY <1>1, PxUnmoved DEF WriteRow
    <2>2. CASE RowTaken
      BY <1>a, <1>1, <2>1, <2>2, PxUnmoved, Waits, PxStepHolds DEF WriteRow
    <2>3. CASE ~RowTaken
      <3>1. /\ caller[c].op = "create" /\ caller[c].at = "row" /\ Moves(c, "cache")
            /\ proxyRow' = [sid |-> caller[c].sid, status |-> "active"]
        BY <1>1, <2>3 DEF WriteRow, Call
      <3>2. PxRestHolds
        BY <1>a, <2>3, <3>1 DEF PxTypeOK, Handlers, PxRestHolds, Onward, RowTaken, Counting
      <3>3. PICK n \in 0..MaxProxies : n = caller[c].sid
        BY <1>a DEF Handlers
      <3>4. /\ caller' = [caller EXCEPT ![c] = [op |-> "create", sid |-> n, at |-> "cache"]]
            /\ [op |-> "create", sid |-> n, at |-> "cache"] \in Handlers
        BY <3>1, <3>3, Records
      <3>5. Recorded(n, members', proxyRow')
        BY <1>a, <3>1, <3>3 DEF CallerKnows, Recorded
      <3>6. CallerKnows([op |-> "create", sid |-> n, at |-> "cache"], members', proxyRow')
        BY <3>5 DEF CallerKnows, Recorded
      <3> QED
        BY <2>1, <3>2, <3>4, <3>6, GoesOn, PxStepHolds
    <2> QED
      BY <2>2, <2>3
  <1>2. ASSUME CacheNew(c) \/ CacheAgain(c) PROVE PxInv'
    <2>1. PxRestHolds
      BY <1>a, <1>2, PxUnmoved DEF CacheNew, CacheAgain
    <2>2. cached' = caller[c].sid /\ Recorded(caller[c].sid, members', proxyRow')
      BY <1>a, <1>2 DEF CacheNew, CacheAgain, Call, CallerKnows
    <2>3. CacheHolds
      BY <1>a, <2>2 DEF CacheHolds, Handlers
    <2>4. CallersHold
      BY <1>2, Waits DEF CacheNew, CacheAgain, Call
    <2> QED
      BY <2>1, <2>3, <2>4, PxStepHolds
  <1> QED
    BY <1>1, <1>2

\* What closes a session takes the copy away and leaves the row its session.
LEMMA ClosingKeeps ==
  ASSUME PxInv, NEW c \in Callers,
         RemoveTwilio(c) \/ Forget(c) \/ CloseRow(c) \/ FindRow(c) \/ ExpireRow(c)
  PROVE  PxInv'
  <1>a. PxTypeOK /\ caller[c] \in Handlers
    BY DEF PxInv, PxTypeOK
  <1>1. PxRestHolds
    BY <1>a, LimitsAssumption DEF RemoveTwilio, Forget, CloseRow, FindRow, ExpireRow, PxTypeOK,
       PxRestHolds, Onward, Counting
  <1>2. CacheHolds
    BY PxUnmoved DEF RemoveTwilio, Forget, CloseRow, FindRow, ExpireRow
  <1>3. CallersHold
    BY Waits DEF RemoveTwilio, Forget, CloseRow, FindRow, ExpireRow, Call
  <1> QED
    BY <1>1, <1>2, <1>3, PxStepHolds

\* Messages are counted and sent; keys and sessions end by themselves.
LEMMA CountingKeeps ==
  ASSUME PxInv,
         \/ \E c \in Callers : CountSms(c) \/ SetWindow(c) \/ SendSms(c) \/ ExtendTwilio(c)
         \/ TwilioExpires \/ CacheExpires \/ WindowEnds
  PROVE  PxInv'
  <1>a. PxTypeOK /\ rateEnds' \in BOOLEAN
    BY DEF PxInv, PxTypeOK, CountSms, SetWindow, SendSms, ExtendTwilio, TwilioExpires,
       CacheExpires, WindowEnds, Counting
  <1>1. rate' \in 0..(RateMax + 1)
    BY <1>a, LimitsAssumption DEF CountSms, SetWindow, SendSms, ExtendTwilio, TwilioExpires,
       CacheExpires, WindowEnds, Counting, PxTypeOK
  <1>2. /\ UNCHANGED <<proxies, members, proxyRow>> /\ twilio' \in {0, twilio}
        /\ webhooks' \in {webhooks, webhooks \cup {twilio}} /\ cached' \in {0, cached}
        /\ (webhooks' # webhooks => twilio # 0)
    BY DEF CountSms, SetWindow, SendSms, ExtendTwilio, TwilioExpires, CacheExpires, WindowEnds
  <1>3. PxRestHolds
    BY <1>a, <1>1, <1>2, LimitsAssumption DEF PxTypeOK, PxRestHolds, Onward, Proxies
  <1>4. CacheHolds
    BY <1>2, PxUnmoved
  <1>5. CallersHold
    BY Waits DEF CountSms, SetWindow, SendSms, ExtendTwilio, TwilioExpires, CacheExpires,
       WindowEnds, Call, CallersHold
  <1> QED
    BY <1>3, <1>4, <1>5, PxStepHolds

-----------------------------------------------------------------------------
\* The invariant holds throughout.
THEOREM PxInvariantHolds == PxSpec => []PxInv
  <1>1. PxInv /\ [PxNext]_<<pxVars, faults>> => PxInv'
    <2> SUFFICES ASSUME PxInv, [PxNext]_<<pxVars, faults>> PROVE PxInv'
      OBVIOUS
    <2>1. CASE UNCHANGED <<pxVars, faults>>
      BY <2>1, PxUnmoved, PxStepHolds DEF pxVars, Counting, CallersHold
    <2>2. CASE PxNext
      BY <2>2, RequestsKeep, OpeningKeeps, RecordingKeeps, ClosingKeeps, CountingKeeps
      DEF PxNext, PxStep
    <2> QED
      BY <2>1, <2>2
  <1> QED
    BY <1>1, PxInitHolds, PTL DEF PxSpec

\* The session, its row, its copy and the requests have their types.
THEOREM PxTypeCorrect == PxSpec => []PxTypeOK
  <1>1. PxInv => PxTypeOK
    BY DEF PxInv
  <1> QED
    BY <1>1, PxInvariantHolds, PTL

\* Messages go only by a session both people are on and the database knows of,
\* however many requests open, extend and close it at once (proxy.service.ts).
THEOREM MessagesAreOnRecord == PxSpec => []CachedIsRecorded
  <1>1. PxInv => CachedIsRecorded
    BY DEF PxInv
  <1> QED
    BY <1>1, PxInvariantHolds, PTL

-----------------------------------------------------------------------------
(***************************************************************************)
(* Books, for any payments, passes and faults                              *)
(*                                                                         *)
(* A pair of entries debits one account by what it credits another, in one *)
(* transaction, so the accounts balance after each step. The key of a      *)
(* verdict is unique, so a call that looked before there was one writes    *)
(* nothing over it, and nobody but an admin changes one.                   *)
(***************************************************************************)

\* The inductive invariant.
BooksInv == BooksTypeOK /\ BooksBalance

LEMMA SomeObject == IdleKeeper \in Keeper /\ NoVerdict \in Verdict
  <1>1. PICK i \in Payments : TRUE
    BY BooksAssumption
  <1>2. (CHOOSE o \in Objects : TRUE) \in Objects
    BY <1>1 DEF Objects
  <1> QED
    BY <1>2 DEF IdleKeeper, Keeper, NoVerdict, Verdict

LEMMA BooksInitHolds == BooksInit => BooksInv
  <1> SUFFICES ASSUME BooksInit PROVE BooksInv
    OBVIOUS
  <1>1. /\ balance = [a \in Accounts |-> 0] /\ postings \in 0..MaxPostings
        /\ refunded \in [Payments -> Nat]
    BY BooksAssumption DEF BooksInit
  <1>2. BooksBalance
    BY <1>1 DEF BooksBalance, Accounts
  <1>3. BooksTypeOK
    BY <1>1, SomeObject DEF BooksInit, BooksTypeOK
  <1> QED
    BY <1>2, <1>3 DEF BooksInv

\* A pair of entries debits one account by what it credits another.
LEMMA PairKeeps ==
  ASSUME BooksInv, NEW d \in Accounts, NEW c \in Accounts, NEW n \in Nat,
         CreateEntries(<<d, c>>, n, n)
  PROVE  BooksInv'
  <1>1. balance \in [Accounts -> Int] /\ postings \in 0..MaxPostings /\ MaxPostings \in Nat
    BY BooksAssumption DEF BooksInv, BooksTypeOK
  <1> DEFINE taken == [balance EXCEPT ![d] = @ - n]
  <1>2. taken \in [Accounts -> Int] /\ balance' = [taken EXCEPT ![c] = @ + n]
    BY <1>1 DEF CreateEntries
  <1>3. balance' \in [Accounts -> Int] /\ postings' \in 0..MaxPostings
    BY <1>1, <1>2 DEF CreateEntries
  <1>4. BooksBalance'
    <2>1. balance["rider"] + balance["driver"] + balance["platform"] = 0
      BY DEF BooksInv, BooksBalance
    <2>2. /\ d \in {"rider", "driver", "platform"} /\ c \in {"rider", "driver", "platform"}
          /\ balance["rider"] \in Int /\ balance["driver"] \in Int /\ balance["platform"] \in Int
      BY <1>1 DEF Accounts
    <2>3. \A a \in {"rider", "driver", "platform"} :
            /\ taken[a] = IF a = d THEN balance[a] - n ELSE balance[a]
            /\ balance'[a] = IF a = c THEN taken[a] + n ELSE taken[a]
      BY <1>1, <1>2 DEF Accounts
    <2> HIDE DEF taken
    <2> QED
      BY <2>1, <2>2, <2>3 DEF BooksBalance
  <1> QED
    BY <1>3, <1>4 DEF BooksInv, BooksTypeOK, CreateEntries, Local

LEMMA EntriesKeep ==
  ASSUME BooksInv, LedgerNext
  PROVE  BooksInv'
  <1>1. PICK n \in 1..Fare : RecordEntries(n) \/ RecordByAdmin(n) \/ RecordAdjustment(n)
    BY DEF LedgerNext
  <1>2. n \in Nat
    BY BooksAssumption
  <1>3. \E d, c \in Accounts : CreateEntries(<<d, c>>, n, n)
    <2>1. CASE RecordEntries(n)
      BY <2>1 DEF RecordEntries, Legs, Accounts
    <2>2. CASE RecordByAdmin(n)
      BY <2>2 DEF RecordByAdmin, AdminLegs, Accounts
    <2>3. CASE RecordAdjustment(n)
      BY <2>3 DEF RecordAdjustment, AdjustmentLegs, Accounts
    <2> QED
      BY <1>1, <2>1, <2>2, <2>3
  <1> QED
    BY <1>2, <1>3, PairKeeps

\* What the comparison concludes has the type of a verdict.
LEMMA Judgement ==
  ASSUME BooksInv, NEW o \in Objects
  PROVE  Judged(o) \in Verdict
  <1>1. o \in StripeRefunds => RefundOf[o] \in Payments
    BY BooksAssumption
  <1>2. \A i \in Payments : refunded[i] \in Nat
    BY DEF BooksInv, BooksTypeOK
  <1> QED
    BY <1>1, <1>2, BooksAssumption DEF Judged, Verdict

\* What the payments row, Stripe and the entries may become.
LEMMA ComparingKeeps ==
  ASSUME BooksInv, UNCHANGED Ledger, booked' \subseteq Payments,
         refunded' \in [Payments -> Nat], atStripe' \subseteq StripeRefunds \cup Disputes,
         verdict' \in [Objects -> Verdict],
         \/ keeper' = keeper
         \/ \E k \in BookKeepers, r \in Keeper : keeper' = [keeper EXCEPT ![k] = r]
  PROVE  BooksInv'
  BY DEF BooksInv, BooksTypeOK, BooksBalance, Ledger

LEMMA KeeperMoves ==
  ASSUME BooksInv, NEW k \in BookKeepers
  PROVE  /\ keeper[k] \in Keeper
         /\ Stops(k) => \E r \in Keeper : keeper' = [keeper EXCEPT ![k] = r]
         /\ \A step \in {"idle", "look", "compare", "create"}, o \in Objects :
              keeper' = [keeper EXCEPT ![k].at = step, ![k].of = o]
              => \E r \in Keeper : keeper' = [keeper EXCEPT ![k] = r]
         /\ \A step \in {"idle", "look", "compare", "create"}, v \in Verdict :
              keeper' = [keeper EXCEPT ![k].at = step, ![k].then = v]
              => \E r \in Keeper : keeper' = [keeper EXCEPT ![k] = r]
         /\ \A step \in {"idle", "look", "compare", "create"} :
              keeper' = [keeper EXCEPT ![k].at = step]
              => \E r \in Keeper : keeper' = [keeper EXCEPT ![k] = r]
  <1>1. keeper \in [BookKeepers -> Keeper] /\ keeper[k] \in Keeper
    BY DEF BooksInv, BooksTypeOK
  <1>2. Stops(k) => \E r \in Keeper : keeper' = [keeper EXCEPT ![k] = r]
    BY SomeObject DEF Stops
  <1>3. ASSUME NEW step \in {"idle", "look", "compare", "create"}, NEW o \in Objects, NEW v \in Verdict
        PROVE  /\ [keeper[k] EXCEPT !.at = step, !.of = o] \in Keeper
               /\ [keeper[k] EXCEPT !.at = step, !.then = v] \in Keeper
               /\ [keeper[k] EXCEPT !.at = step] \in Keeper
    BY <1>1 DEF Keeper
  <1>4. Objects # {} /\ Verdict # {}
    BY BooksAssumption, SomeObject DEF Objects
  <1> QED
    BY <1>1, <1>2, <1>3, <1>4

LEMMA ReconcileKeeps ==
  ASSUME BooksInv, ReconcileNext
  PROVE  BooksInv'
  <1>1. /\ booked \subseteq Payments /\ refunded \in [Payments -> Nat]
        /\ atStripe \subseteq StripeRefunds \cup Disputes
        /\ verdict \in [Objects -> Verdict] /\ keeper \in [BookKeepers -> Keeper]
    BY DEF BooksInv, BooksTypeOK
  <1>2. ASSUME NEW i \in Payments, BookPayment(i) PROVE BooksInv'
    BY <1>1, <1>2, ComparingKeeps DEF BookPayment
  <1>3. ASSUME NEW i \in Payments, CountRefunds(i) PROVE BooksInv'
    <2> DEFINE S == {r \in atStripe \cap StripeRefunds : RefundOf[r] = i}
    <2>1. IsFiniteSet(S)
      BY BooksAssumption, FS_Subset
    <2>2. Cardinality(S) \in Nat
      BY <2>1, FS_CardinalityType
    <2>3. refunded' = [refunded EXCEPT ![i] = Cardinality(S)]
      BY <1>3 DEF CountRefunds
    <2> HIDE DEF S
    <2>4. refunded' \in [Payments -> Nat]
      BY <1>1, <2>2, <2>3
    <2> QED
      BY <1>1, <1>3, <2>4, ComparingKeeps DEF CountRefunds
  <1>4. ASSUME NEW o \in StripeRefunds \cup Disputes, AtStripe(o) PROVE BooksInv'
    BY <1>1, <1>4, ComparingKeeps DEF AtStripe
  <1>5. ASSUME NEW k \in BookKeepers, NEW o \in Objects, Reconcile(k, o) PROVE BooksInv'
    BY <1>1, <1>5, KeeperMoves, ComparingKeeps DEF Reconcile, Local
  <1>6. ASSUME NEW k \in BookKeepers, LookForVerdict(k) PROVE BooksInv'
    <2>1. Opened \in Verdict
      BY DEF Opened, Verdict
    <2> QED
      BY <1>1, <1>6, <2>1, KeeperMoves, ComparingKeeps DEF LookForVerdict, Local
  <1>7. ASSUME NEW k \in BookKeepers, Compare(k) PROVE BooksInv'
    <2>1. Judged(keeper[k].of) \in Verdict
      BY <1>1, Judgement DEF Keeper
    <2> QED
      BY <1>1, <1>7, <2>1, KeeperMoves, ComparingKeeps DEF Compare, Local
  <1>8. ASSUME NEW k \in BookKeepers, CreateVerdict(k) PROVE BooksInv'
    <2>1. verdict' \in [Objects -> Verdict]
      BY <1>1, <1>8 DEF CreateVerdict, Keeper
    <2> QED
      BY <1>1, <1>8, <2>1, KeeperMoves, ComparingKeeps DEF CreateVerdict, Local
  <1>9. ASSUME NEW k \in BookKeepers, KeeperDies(k) PROVE BooksInv'
    BY <1>1, <1>9, KeeperMoves, ComparingKeeps DEF KeeperDies, Local
  <1>10. ASSUME NEW o \in Objects, ResolveEntry(o) PROVE BooksInv'
    <2>1. verdict' \in [Objects -> Verdict]
      BY <1>1, <1>10 DEF ResolveEntry, Verdict
    <2> QED
      BY <1>1, <1>10, <2>1, ComparingKeeps DEF ResolveEntry, Local
  <1> QED
    BY <1>2, <1>3, <1>4, <1>5, <1>6, <1>7, <1>8, <1>9, <1>10 DEF ReconcileNext

-----------------------------------------------------------------------------
THEOREM BooksInvariantHolds == BooksSpec => []BooksInv
  <1>1. BooksInv /\ [BooksNext]_<<booksVars, faults>> => BooksInv'
    <2>1. BooksInv /\ UNCHANGED <<booksVars, faults>> => BooksInv'
      BY DEF booksVars, BooksInv, BooksTypeOK, BooksBalance
    <2> QED
      BY <2>1, EntriesKeep, ReconcileKeeps DEF BooksNext
  <1> QED
    BY <1>1, BooksInitHolds, PTL DEF BooksSpec

\* The ledger, the rows, the entries and the calls have their types.
THEOREM BooksTypeCorrect == BooksSpec => []BooksTypeOK
  <1>1. BooksInv => BooksTypeOK
    BY DEF BooksInv
  <1> QED
    BY <1>1, BooksInvariantHolds, PTL

\* Whatever entries are asked for, of any amounts and in any order, what the
\* ledger credits is what it debits (createEntries of ledger.service.ts).
THEOREM LedgerBalances == BooksSpec => []BooksBalance
  <1>1. BooksInv => BooksBalance
    BY DEF BooksInv
  <1> QED
    BY <1>1, BooksInvariantHolds, PTL

\* The first entry about an object of Stripe is changed by an admin alone,
\* however many calls reconcile the object at once (reconciliation.service.ts).
THEOREM FirstVerdictStands == BooksSpec => VerdictStands
  <1>1. BooksInv /\ [BooksNext]_<<booksVars, faults>> => [\A o \in Objects : Stands(o)]_verdict
    <2> SUFFICES ASSUME BooksInv, BooksNext, verdict' # verdict, NEW o \in Objects
                 PROVE  Stands(o)
      BY DEF booksVars
    <2>1. verdict \in [Objects -> Verdict] /\ keeper \in [BookKeepers -> Keeper]
      BY DEF BooksInv, BooksTypeOK
    <2>2. \/ \E k \in BookKeepers : CreateVerdict(k)
          \/ \E p \in Objects : ResolveEntry(p)
      BY DEF BooksNext, LedgerNext, RecordEntries, RecordByAdmin, RecordAdjustment, CreateEntries,
             ReconcileNext, BookPayment, CountRefunds, AtStripe, Reconcile, LookForVerdict,
             Compare, KeeperDies
    <2>3. ASSUME NEW k \in BookKeepers, CreateVerdict(k) PROVE Stands(o)
      BY <2>1, <2>3 DEF CreateVerdict, KeyTaken, HasVerdict, Stands, Keeper
    <2>4. ASSUME NEW p \in Objects, ResolveEntry(p) PROVE Stands(o)
      BY <2>1, <2>4 DEF ResolveEntry, HasVerdict, Stands
    <2> QED
      BY <2>2, <2>3, <2>4
  <1> QED
    BY <1>1, BooksInvariantHolds, PTL DEF BooksSpec, VerdictStands

=============================================================================
