--------------------------- MODULE AccountProofs ----------------------------
(***************************************************************************)
(* Machine-checked facts about accounts, a section for each component.     *)
(***************************************************************************)
EXTENDS DriverOnboarding, AuthSession, RiderCards, RiderProfile, FiniteSetTheorems, TLAPS

-----------------------------------------------------------------------------
(***************************************************************************)
(* DriverOnboarding, for any documents, admins, deliveries, reports and faults*)
(*                                                                         *)
(* ApprovedWasCleared is not inductive: a handler writes what it decided   *)
(* when it read. What carries it is that a claimed event stays claimed     *)
(* (ClearanceStays), so that the clearance an administrator or a delivery  *)
(* once relied on (CallKnows) still stands when they come to write.        *)
(***************************************************************************)

\* Some report on the driver came back clear and was taken up.
Cleared == \E e \in claimedReports : e.outcome = "clear"

\* What a call in flight relies on.
CallKnows(c) ==
  /\ ObAt(c, "approve") => Cleared
  /\ obCall[c].op \in {"look", "apply"} => obCall[c].event \in claimedReports

RowKnows == driverRow.bg = "clear" => Cleared

\* The inductive invariant.
ObInv ==
  ObTypeOK /\ RowKnows /\ ApprovedWasCleared /\ \A c \in ObCallers : CallKnows(c)

-----------------------------------------------------------------------------
\* The calls are of one of five shapes, told apart by what they do.
LEMMA CallShapes ==
  ASSUME ObTypeOK, NEW c \in ObCallers
  PROVE  /\ obCall[c] \in ObCalls
         /\ obCall[c].op \in {"confirm", "car", "carStep"} => 
              obCall[c] \in [op : {"confirm", "car", "carStep"}, due : BOOLEAN]
         /\ obCall[c].op = "store" => obCall[c].report \in 1..MaxReports
         /\ obCall[c].op \in {"look", "apply"} => obCall[c].event \in CheckrEvent
  BY DEF ObTypeOK, ObCalls

LEMMA NoObCallIsCall == NoObCall \in ObCalls
  BY DEF NoObCall, ObCalls

\* No step takes an event back.
LEMMA ClearanceStays ==
  ASSUME claimedReports \subseteq claimedReports', Cleared
  PROVE  Cleared'
  BY DEF Cleared

\* The call that moves is judged by itself; the others know what they knew.
LEMMA OthersKnow ==
  ASSUME ObTypeOK, NEW c \in ObCallers, NEW r \in ObCalls, ObBegin(c, r),
         claimedReports \subseteq claimedReports',
         \A d \in ObCallers : CallKnows(d),
         r.op = "approve" => Cleared',
         r.op \in {"look", "apply"} => r.event \in claimedReports'
  PROVE  /\ obCall' \in [ObCallers -> ObCalls]
         /\ \A d \in ObCallers : CallKnows(d)'
  <1>1. obCall' \in [ObCallers -> ObCalls]
    BY DEF ObBegin, ObTypeOK
  <1>2. ASSUME NEW d \in ObCallers PROVE CallKnows(d)'
    <2>1. CASE d = c
      BY <2>1 DEF ObBegin, ObTypeOK, CallKnows, ObAt
    <2>2. CASE d # c
      <3>1. obCall'[d] = obCall[d]
        BY <2>2 DEF ObBegin, ObTypeOK
      <3> QED
        BY <3>1, ClearanceStays DEF CallKnows, ObAt
    <2> QED
      BY <2>1, <2>2
  <1> QED
    BY <1>1, <1>2

\* The same for a call that ends.
LEMMA DoneKnows ==
  ASSUME ObTypeOK, NEW c \in ObCallers, ObDone(c),
         claimedReports \subseteq claimedReports',
         \A d \in ObCallers : CallKnows(d)
  PROVE  /\ obCall' \in [ObCallers -> ObCalls]
         /\ \A d \in ObCallers : CallKnows(d)'
  <1>1. ObBegin(c, NoObCall)
    BY DEF ObBegin, ObDone
  <1>2. NoObCall.op = "none"
    BY DEF NoObCall
  <1> QED
    BY <1>1, <1>2, NoObCallIsCall, OthersKnow

-----------------------------------------------------------------------------
RowType ==
  [status : DriverStatuses, step : ObSteps, report : 0..MaxReports,
   bg : {"not_started", "pending", "clear", "consider", "adverse_action"},
   insured : BOOLEAN]

\* Before the first step nothing is approved and nobody at work.
LEMMA ObInitHolds == ObInit => ObInv
  <1> SUFFICES ASSUME ObInit PROVE ObInv
    OBVIOUS
  <1>1. driverRow \in RowType
    BY ReportsAssumption DEF ObInit, RowType, DriverStatuses, ObSteps
  <1>2. obCall \in [ObCallers -> ObCalls]
    BY NoObCallIsCall DEF ObInit
  <1>3. ObTypeOK
    BY <1>1, <1>2, ReportsAssumption DEF ObInit, ObTypeOK, RowType
  <1>4. \A c \in ObCallers : CallKnows(c)
    BY DEF ObInit, CallKnows, ObAt, NoObCall
  <1> QED
    BY <1>3, <1>4 DEF ObInv, ObInit, RowKnows, ApprovedWasCleared

\* What a step has to show for the invariant: the types of what it writes, and a
\* clearance for a row it clears or approves.
CallsHold == obCall' \in [ObCallers -> ObCalls] /\ \A c \in ObCallers : CallKnows(c)'
RowHolds ==
  /\ driverRow' \in RowType
  /\ driverRow'.bg = "clear" => driverRow.bg = "clear" \/ Cleared'
  /\ driverRow'.status = "approved" => driverRow.status = "approved" \/ Cleared'
FilesHold ==
  /\ papers' \in [Papers -> {"none", "pending", "approved", "rejected"}]
  /\ car' \in {"none", "active"}
ReportsHold ==
  /\ reports' \in 0..MaxReports /\ sentReports' \subseteq CheckrEvent
  /\ claimedReports \subseteq claimedReports' /\ claimedReports' \subseteq sentReports'

LEMMA ObStepHolds ==
  ASSUME ObInv, CallsHold, RowHolds, FilesHold, ReportsHold
  PROVE  ObInv'
  <1>1. ObTypeOK'
    BY DEF CallsHold, RowHolds, FilesHold, ReportsHold, ObTypeOK, RowType
  <1>2. RowKnows' /\ ApprovedWasCleared'
    BY ClearanceStays DEF ObInv, RowHolds, ReportsHold, RowKnows, ApprovedWasCleared, Cleared
  <1> QED
    BY <1>1, <1>2 DEF ObInv, CallsHold

\* What is left alone holds.
LEMMA ObUnmoved ==
  ASSUME ObInv
  PROVE  /\ driverRow' = driverRow => RowHolds
         /\ UNCHANGED <<papers, car>> => FilesHold
         /\ UNCHANGED <<checkrSide, claimedReports>> => ReportsHold
         /\ UNCHANGED <<obCall, claimedReports>> => CallsHold
  <1>1. ObTypeOK
    BY DEF ObInv
  <1>2. UNCHANGED <<obCall, claimedReports>> => CallsHold
    BY <1>1 DEF ObInv, CallsHold, CallKnows, ObAt, Cleared, ObTypeOK
  <1> QED
    BY <1>1, <1>2 DEF ObTypeOK, RowHolds, RowType, FilesHold, ReportsHold, checkrSide

\* A call that goes on to read or store, or ends, relies on nothing new.
LEMMA CallMoves ==
  ASSUME ObInv, NEW c \in ObCallers, claimedReports' = claimedReports
  PROVE  /\ ObDone(c) => CallsHold
         /\ \A r \in ObCalls :
              ObBegin(c, r) /\ r.op \notin {"approve", "look", "apply"} => CallsHold
  BY DoneKnows, OthersKnow DEF ObInv, CallsHold

\* What the app does: it reads, stores and moves the step, and never clears or
\* approves.
LEMMA AppKeeps ==
  ASSUME ObInv,
         \/ SubmitInfoRead \/ RequestCheckRead \/ AddVehicleRead \/ ObAppStep \/ AppDies
         \/ \E p \in Papers : UploadUrl(p)
  PROVE  ObInv'
  <1>a. "app" \in ObCallers /\ ObTypeOK
    BY DEF ObInv, ObCallers
  <1>1. CASE SubmitInfoRead
    <2>a. [op |-> "info"] \in ObCalls
      BY <1>1, <1>a DEF SubmitInfoRead, ObCalls, ObTypeOK
    <2>1. CallsHold
      BY <1>1, <1>a, <2>a, CallMoves DEF SubmitInfoRead
    <2> QED
      BY <1>1, <2>1, ObUnmoved, ObStepHolds DEF SubmitInfoRead, driverSide, checkrSide
  <1>2. CASE SubmitInfoWrite
    <2>1. CallsHold
      BY <1>2, <1>a, CallMoves DEF SubmitInfoWrite
    <2>2. RowHolds
      BY <1>2, <1>a DEF SubmitInfoWrite, RowHolds, RowType, ObTypeOK, DriverStatuses, ObSteps
    <2> QED
      BY <1>2, <2>1, <2>2, ObUnmoved, ObStepHolds DEF SubmitInfoWrite, driverSide, checkrSide
  <1>3. ASSUME NEW p \in Papers, UploadUrl(p) PROVE ObInv'
    <2>a. [op |-> "upload"] \in ObCalls
      BY <1>3, <1>a DEF UploadUrl, ObCalls, ObTypeOK
    <2>1. CallsHold
      BY <1>3, <1>a, <2>a, CallMoves DEF UploadUrl
    <2>2. FilesHold
      BY <1>3, <1>a DEF UploadUrl, FilesHold, ObTypeOK
    <2> QED
      BY <1>3, <2>1, <2>2, ObUnmoved, ObStepHolds DEF UploadUrl, driverSide, checkrSide
  <1>4. CASE ConfirmRead
    <2>a. [op |-> "confirm", due |-> driverRow.step = "document_upload"] \in ObCalls
      BY <1>4, <1>a DEF ConfirmRead, ObCalls, ObTypeOK
    <2>1. CallsHold
      BY <1>4, <1>a, <2>a, CallMoves DEF ConfirmRead
    <2> QED
      BY <1>4, <2>1, ObUnmoved, ObStepHolds DEF ConfirmRead, driverSide, checkrSide
  <1>5. CASE ConfirmCheck
    <2>a. [op |-> "advance"] \in ObCalls
      BY <1>5, <1>a DEF ConfirmCheck, ObCalls, ObTypeOK
    <2>1. CallsHold
      BY <1>5, <1>a, <2>a, CallMoves DEF ConfirmCheck
    <2> QED
      BY <1>5, <2>1, ObUnmoved, ObStepHolds DEF ConfirmCheck, driverSide, checkrSide
  <1>6. CASE ConfirmWrite
    <2>1. CallsHold
      BY <1>6, <1>a, CallMoves DEF ConfirmWrite
    <2>2. RowHolds
      BY <1>6, <1>a DEF ConfirmWrite, RowHolds, RowType, ObTypeOK, DriverStatuses, ObSteps
    <2> QED
      BY <1>6, <2>1, <2>2, ObUnmoved, ObStepHolds DEF ConfirmWrite, driverSide, checkrSide
  <1>7. CASE RequestCheckRead
    <2>a. [op |-> "order"] \in ObCalls
      BY <1>7, <1>a DEF RequestCheckRead, ObCalls, ObTypeOK
    <2>1. CallsHold
      BY <1>7, <1>a, <2>a, CallMoves DEF RequestCheckRead
    <2> QED
      BY <1>7, <2>1, ObUnmoved, ObStepHolds DEF RequestCheckRead, driverSide, checkrSide
  <1>8. CASE OrderReport
    <2>a. [op |-> "store", report |-> reports + 1] \in ObCalls
      BY <1>8, ReportsAssumption, <1>a DEF OrderReport, ObCalls, ObTypeOK
    <2>1. CallsHold
      BY <1>8, <1>a, <2>a, CallMoves DEF OrderReport
    <2>2. ReportsHold
      BY <1>8, <1>a, ReportsAssumption DEF OrderReport, ReportsHold, ObTypeOK
    <2> QED
      BY <1>8, <2>1, <2>2, ObUnmoved, ObStepHolds DEF OrderReport, driverSide, checkrSide
  <1>9. CASE StoreReport
    <2>1. CallsHold
      BY <1>9, <1>a, CallMoves DEF StoreReport
    <2>a. obCall["app"].report \in 0..MaxReports
      BY <1>9, CallShapes, ReportsAssumption, <1>a DEF StoreReport, ObAt
    <2>2. RowHolds
      BY <1>9, <2>a, <1>a DEF StoreReport, RowHolds, RowType, ObTypeOK, DriverStatuses, ObSteps
    <2> QED
      BY <1>9, <2>1, <2>2, ObUnmoved, ObStepHolds DEF StoreReport, driverSide, checkrSide
  <1>10. CASE AddVehicleRead
    <2>a. [op |-> "car", due |-> driverRow.step = "vehicle_info"] \in ObCalls
      BY <1>10, <1>a DEF AddVehicleRead, ObCalls, ObTypeOK
    <2>1. CallsHold
      BY <1>10, <1>a, <2>a, CallMoves DEF AddVehicleRead
    <2> QED
      BY <1>10, <2>1, ObUnmoved, ObStepHolds DEF AddVehicleRead, driverSide, checkrSide
  <1>11. CASE AddVehicle
    <2>a. [obCall["app"] EXCEPT !.op = "carStep"] \in ObCalls
      BY <1>11, CallShapes, <1>a DEF AddVehicle, ObAt, ObCalls, ObTypeOK
    <2>1. CallsHold
      BY <1>11, <1>a, <2>a, CallMoves, CallShapes DEF AddVehicle, ObAt
    <2>2. FilesHold
      BY <1>11, <1>a DEF AddVehicle, FilesHold, ObTypeOK
    <2> QED
      BY <1>11, <2>1, <2>2, ObUnmoved, ObStepHolds DEF AddVehicle, driverSide, checkrSide
  <1>12. CASE AddVehicleStep
    <2>1. CallsHold
      BY <1>12, <1>a, CallMoves DEF AddVehicleStep
    <2>2. RowHolds
      BY <1>12, <1>a DEF AddVehicleStep, RowHolds, RowType, ObTypeOK, DriverStatuses, ObSteps
    <2> QED
      BY <1>12, <2>1, <2>2, ObUnmoved, ObStepHolds DEF AddVehicleStep, driverSide, checkrSide
  <1>13. CASE AppDies
    <2>1. CallsHold
      BY <1>13, <1>a, CallMoves DEF AppDies
    <2> QED
      BY <1>13, <2>1, ObUnmoved, ObStepHolds DEF AppDies, driverSide, checkrSide
  <1> QED
    BY <1>1, <1>2, <1>3, <1>4, <1>5, <1>6, <1>7, <1>8, <1>9, <1>10, <1>11, <1>12, <1>13 DEF ObAppStep

\* What an administrator does: only ApproveWrite approves, on the clearance
\* that RequirementsMet read.
LEMMA AdminKeeps ==
  ASSUME ObInv, NEW a \in Admins, AdminBegins(a) \/ AdminStep(a)
  PROVE  ObInv'
  <1>a. a \in ObCallers /\ ObTypeOK
    BY DEF ObInv, ObCallers
  <1>1. CASE ApproveRead(a)
    <2>a. [op |-> "approve"] \in ObCalls
      BY DEF ObCalls
    <2>b. Cleared'
      BY <1>1, ClearanceStays DEF ApproveRead, RequirementsMet, ObInv, RowKnows
    <2>1. CallsHold
      BY <1>1, <1>a, <2>a, <2>b, OthersKnow DEF ApproveRead, ObInv, CallsHold
    <2> QED
      BY <1>1, <2>1, ObUnmoved, ObStepHolds DEF ApproveRead, driverSide, checkrSide
  <1>2. CASE ApproveWrite(a)
    <2>1. CallsHold
      BY <1>2, <1>a, CallMoves DEF ApproveWrite
    <2>2. Cleared'
      BY <1>2, <1>a, ClearanceStays DEF ApproveWrite, ObInv, CallKnows
    <2>3. RowHolds
      BY <1>2, <1>a, <2>2 DEF ApproveWrite, RowHolds, RowType, ObTypeOK, DriverStatuses, ObSteps
    <2> QED
      BY <1>2, <2>1, <2>3, ObUnmoved, ObStepHolds DEF ApproveWrite, checkrSide
  <1>3. CASE DeclineDriver(a) \/ SuspendByAdmin(a)
    <2>1. RowHolds
      BY <1>3, <1>a DEF DeclineDriver, SuspendByAdmin, RowHolds, RowType, ObTypeOK,
         DriverStatuses
    <2> QED
      BY <1>3, <2>1, ObUnmoved, ObStepHolds DEF DeclineDriver, SuspendByAdmin, checkrSide
  <1>4. CASE AdminReviews(a)
    <2>a. PICK p \in Papers, d \in {"approved", "rejected"} : ReviewDocument(a, p, d)
      BY <1>4 DEF AdminReviews
    <2>b. [op |-> "flag"] \in ObCalls
      BY DEF ObCalls
    <2>1. CallsHold
      BY <2>a, <2>b, <1>a, CallMoves, ObUnmoved DEF ReviewDocument
    <2>2. FilesHold
      BY <2>a, <1>a DEF ReviewDocument, FilesHold, ObTypeOK
    <2> QED
      BY <2>a, <2>1, <2>2, ObUnmoved, ObStepHolds DEF ReviewDocument, checkrSide
  <1>5. CASE FlagDriver(a)
    <2>1. CallsHold
      BY <1>5, <1>a, CallMoves DEF FlagDriver
    <2>2. RowHolds
      BY <1>5, <1>a DEF FlagDriver, RowHolds, RowType, ObTypeOK, DriverStatuses
    <2> QED
      BY <1>5, <2>1, <2>2, ObUnmoved, ObStepHolds DEF FlagDriver, checkrSide
  <1>6. CASE ApproveInspection(a)
    <2>a. [op |-> "inspected"] \in ObCalls
      BY DEF ObCalls
    <2>1. CallsHold
      BY <1>6, <2>a, <1>a, CallMoves DEF ApproveInspection
    <2> QED
      BY <1>6, <2>1, ObUnmoved, ObStepHolds DEF ApproveInspection, driverSide, checkrSide
  <1>7. CASE InspectionStep(a)
    <2>1. CallsHold
      BY <1>7, <1>a, CallMoves DEF InspectionStep
    <2>2. RowHolds
      BY <1>7, <1>a DEF InspectionStep, RowHolds, RowType, ObTypeOK, ObSteps
    <2> QED
      BY <1>7, <2>1, <2>2, ObUnmoved, ObStepHolds DEF InspectionStep, checkrSide
  <1> QED
    BY <1>1, <1>2, <1>3, <1>4, <1>5, <1>6, <1>7 DEF AdminBegins, AdminStep, AdminDecides

\* What Checkr sends and its deliveries do: an event is claimed first, so the
\* clear one that is applied has been taken up.
LEMMA CheckrKeeps ==
  ASSUME ObInv,
         \/ \E r \in 1..MaxReports, o \in Outcomes : ReportDecided(r, o)
         \/ \E h \in Hooks : HookStep(h) \/ HookDies(h) \/ \E e \in CheckrEvent : ClaimReport(h, e)
  PROVE  ObInv'
  <1>a. ObTypeOK
    BY DEF ObInv
  <1>1. ASSUME NEW r \in 1..MaxReports, NEW o \in Outcomes, ReportDecided(r, o)
        PROVE  ObInv'
    <2>1. ReportsHold
      BY <1>1, <1>a DEF ReportDecided, ReportsHold, ObTypeOK, CheckrEvent
    <2> QED
      BY <1>1, <2>1, ObUnmoved, ObStepHolds DEF ReportDecided, driverSide
  <1>2. ASSUME NEW h \in Hooks, NEW e \in CheckrEvent, ClaimReport(h, e)
        PROVE  ObInv'
    <2>a. h \in ObCallers /\ [op |-> "look", event |-> e] \in ObCalls
      BY DEF ObCallers, ObCalls
    <2>1. ReportsHold
      BY <1>2, <1>a DEF ClaimReport, ReportsHold, ObTypeOK, checkrSide
    <2>2. CallsHold
      BY <1>2, <1>a, <2>a, OthersKnow DEF ClaimReport, ObInv, CallsHold
    <2> QED
      BY <1>2, <2>1, <2>2, ObUnmoved, ObStepHolds DEF ClaimReport, driverSide
  <1>3. ASSUME NEW h \in Hooks, FindDriver(h)
        PROVE  ObInv'
    <2> DEFINE r == [op |-> "apply", event |-> obCall[h].event,
                     mayClear |-> driverRow.status \in Approveable]
    <2>a. h \in ObCallers
      BY DEF ObCallers
    <2>b. obCall[h].event \in CheckrEvent /\ obCall[h].event \in claimedReports
      BY <1>3, <1>a, <2>a, CallShapes DEF FindDriver, ObAt, ObInv, CallKnows
    <2>c. r \in ObCalls
      BY <2>b DEF ObCalls
    <2>1. CASE ObBegin(h, r)
      <3>1. CallsHold
        BY <1>3, <1>a, <2>1, <2>a, <2>b, <2>c, OthersKnow DEF FindDriver, ObInv, CallsHold
      <3> QED
        BY <1>3, <3>1, ObUnmoved, ObStepHolds DEF FindDriver, driverSide, checkrSide
    <2>2. CASE ObDone(h)
      <3>1. CallsHold
        BY <1>3, <2>2, <2>a, CallMoves DEF FindDriver
      <3> QED
        BY <1>3, <3>1, ObUnmoved, ObStepHolds DEF FindDriver, driverSide, checkrSide
    <2> QED
      BY <1>3, <2>1, <2>2 DEF FindDriver
  <1>4. ASSUME NEW h \in Hooks, ApplyReport(h)
        PROVE  ObInv'
    <2>a. h \in ObCallers
      BY DEF ObCallers
    <2>b. obCall[h].event.outcome = "clear" => Cleared'
      BY <1>4, <2>a, ClearanceStays DEF ApplyReport, ObAt, ObInv, CallKnows, Cleared
    <2>1. CallsHold
      BY <1>4, <2>a, CallMoves DEF ApplyReport
    <2>2. RowHolds
      <3>1. CASE obCall[h].event.outcome = "clear"
        BY <1>4, <1>a, <2>b, <3>1 DEF ApplyReport, RowHolds, RowType, ObTypeOK, DriverStatuses,
           ObSteps
      <3>2. CASE obCall[h].event.outcome # "clear"
        BY <1>4, <1>a, <3>2 DEF ApplyReport, RowHolds, RowType, ObTypeOK, DriverStatuses
      <3> QED
        BY <3>1, <3>2
    <2> QED
      BY <1>4, <2>1, <2>2, ObUnmoved, ObStepHolds DEF ApplyReport, checkrSide
  <1>5. ASSUME NEW h \in Hooks, HookDies(h)
        PROVE  ObInv'
    <2>a. h \in ObCallers
      BY DEF ObCallers
    <2>1. CallsHold
      BY <1>5, <2>a, CallMoves DEF HookDies
    <2> QED
      BY <1>5, <2>1, ObUnmoved, ObStepHolds DEF HookDies, driverSide, checkrSide
  <1> QED
    BY <1>1, <1>2, <1>3, <1>4, <1>5 DEF HookStep

-----------------------------------------------------------------------------
\* The invariant holds throughout: no approval or clearance is written without
\* a clear report that was taken up, whoever overlaps and whichever call dies.
THEOREM ObInvariantHolds == ObSpec => []ObInv
  <1>1. ObInit => ObInv
    BY ObInitHolds
  <1>2. ObInv /\ [ObNext]_<<obVars, faults>> => ObInv'
    <2> SUFFICES ASSUME ObInv, [ObNext]_<<obVars, faults>> PROVE ObInv'
      OBVIOUS
    <2>1. CASE UNCHANGED <<obVars, faults>>
      BY <2>1, ObUnmoved, ObStepHolds DEF obVars, checkrSide
    <2>2. CASE ObNext
      BY <2>2, AppKeeps, AdminKeeps, CheckrKeeps DEF ObNext
    <2> QED
      BY <2>1, <2>2
  <1> QED
    BY <1>1, <1>2, PTL DEF ObSpec

\* The rows of driver-service and the calls in flight have their types.
THEOREM ObTypeCorrect == ObSpec => []ObTypeOK
  <1>1. ObInv => ObTypeOK
    BY DEF ObInv
  <1> QED
    BY <1>1, ObInvariantHolds, PTL

\* Nobody drives on an approval without a clear report behind it: approval by an
\* administrator (drivers.service.ts, approve) and by the event itself
\* (handleCheckrWebhook) alike.
THEOREM ApprovalRestsOnClearance == ObSpec => []ApprovedWasCleared
  <1>1. ObInv => ApprovedWasCleared
    BY DEF ObInv
  <1> QED
    BY <1>1, ObInvariantHolds, PTL

-----------------------------------------------------------------------------
(***************************************************************************)
(* AuthSession, for any codes, pairs, threads, limits and faults           *)
(*                                                                         *)
(* As long as nothing fails and no two threads change the session at once  *)
(* (contended), at most one thread is changing it, and what that thread    *)
(* knows is how the session stands (Knows): every other thread finds the   *)
(* keys as the app believes them to be. For the code the argument is about *)
(* a guess under way: what it read was counted since the newest code came, *)
(* or it is of an older code (CodeKnown).                                  *)
(***************************************************************************)

ThreadRow == [at : {"idle", "sent", "ask", "delete", "issue", "save", "clear", "saved", "cleared",
                    "guess", "miss", "take"},
              pair : 0..MaxPairs, guess : 0..MaxCodes, read : 0..MaxAttempts]

\* The session is as the app believes.
Kept == held # 0 => held \in refreshKeys /\ disk = held

\* What the one thread that changes the session knows.
Knows(t) ==
  /\ thread[t].at \in {"ask", "delete"} => thread[t].pair = held /\ held # 0 /\ Kept
  /\ thread[t].at \in {"save", "saved"} => thread[t].pair \in refreshKeys
  /\ thread[t].at = "saved" => disk = thread[t].pair

SessionKnown ==
  /\ \A t, u \in Threads : Changing(t) /\ Changing(u) => t = u
  /\ \A t \in Threads : Knows(t)
  /\ Kept \/ \E t \in Threads : Changing(t)

\* There is room for the code being sent.
SendKnown ==
  /\ codeSending # "no" => codes < MaxCodes
  /\ codeSending = "count" => otpSends <= SendLimit

\* What a guess under way has read was counted since the newest code came, if it
\* is of that code; and so are the attempts of the key.
CodeKnown ==
  /\ otpKey.code \in 0..codes
  /\ otpKey.code # 0 /\ otpKey.code = codes => otpKey.attempts <= misses
  /\ ~crossed => otpKey.code \in {0, codes}
  /\ thread["signIn"].at = "miss" =>
       /\ thread["signIn"].read < MaxAttempts /\ thread["signIn"].guess \in 0..codes
       /\ thread["signIn"].guess = codes => thread["signIn"].read <= misses

\* The threads that are not the sign-in guess nothing.
RequestsGuessNot ==
  \A t \in Threads : t # "signIn" => thread[t].at \notin {"guess", "miss", "take"}

\* The inductive invariant.
AsInv ==
  /\ AsTypeOK /\ faults \in Nat /\ SendKnown /\ CodeKnown /\ RequestsGuessNot
  /\ faults = 0 /\ ~contended => SessionKnown

-----------------------------------------------------------------------------
LEMMA RestingIsRow == Resting \in ThreadRow
  BY SessionAssumption DEF Resting, ThreadRow

LEMMA AsInitHolds == AsInit /\ faults = 0 => AsInv
  <1> SUFFICES ASSUME AsInit, faults = 0 PROVE AsInv
    OBVIOUS
  <1>1. thread \in [Threads -> ThreadRow] /\ \A t \in Threads : thread[t] = Resting
    BY RestingIsRow DEF AsInit
  <1>2. AsTypeOK
    <2>1. otpKey \in [code : 0..MaxCodes, attempts : 0..MaxAttempts]
      BY SessionAssumption DEF AsInit
    <2>2. /\ 0 \in 0..SendLimit + 1 /\ 0 \in 0..MaxCodes /\ 0 \in 0..MaxPairs
          /\ 0 \in 0..MaxAttempts
      BY SessionAssumption
    <2> QED
      BY <1>1, <2>1, <2>2 DEF AsInit, AsTypeOK, ThreadRow
  <1>3. SendKnown /\ CodeKnown
    BY <1>1 DEF AsInit, SendKnown, CodeKnown, Resting, Threads
  <1>4. RequestsGuessNot
    BY <1>1 DEF RequestsGuessNot, Resting
  <1>5. SessionKnown
    BY <1>1 DEF AsInit, SessionKnown, Changing, Knows, Kept, Resting
  <1> QED
    BY <1>2, <1>3, <1>4, <1>5 DEF AsInv

\* One thread moves.
LEMMA ThreadMoves ==
  ASSUME AsInv, NEW t \in Threads, NEW r \in ThreadRow, Does(t, r),
         t # "signIn" => r.at \notin {"guess", "miss", "take"}
  PROVE  /\ thread' \in [Threads -> ThreadRow] /\ thread'[t] = r
         /\ \A u \in Threads : u # t => thread'[u] = thread[u]
         /\ RequestsGuessNot'
  <1>1. thread \in [Threads -> ThreadRow]
    BY DEF AsInv, AsTypeOK, ThreadRow
  <1> QED
    BY <1>1 DEF AsInv, RequestsGuessNot, Does

\* What is known of the code only a guess and a new code disturb.
LEMMA CodeUnmoved ==
  ASSUME AsInv, UNCHANGED <<otpKey, codes, misses, crossed>>,
         thread'["signIn"] = thread["signIn"] \/ thread'["signIn"].at # "miss"
  PROVE  CodeKnown'
  BY DEF AsInv, CodeKnown

LEMMA SendUnmoved ==
  ASSUME AsInv, UNCHANGED <<codes, codeSending, otpSends>>
  PROVE  SendKnown'
  BY DEF AsInv, SendKnown

\* A thread that changes nothing knows nothing.
LEMMA OnlookerKnows ==
  ASSUME NEW t \in Threads, ~Changing(t)
  PROVE  Knows(t)
  BY DEF Changing, Knows

LEMMA OneChangesSession ==
  ASSUME NEW t \in Threads, \A u \in Threads : u # t => thread'[u] = thread[u] /\ ~Changing(u),
         Knows(t)', Kept' \/ Changing(t)'
  PROVE  SessionKnown'
  <1>1. \A u \in Threads : u # t => ~Changing(u)' /\ Knows(u)'
    BY DEF Changing, Knows
  <1> QED
    BY <1>1 DEF SessionKnown

LEMMA SessionRests ==
  ASSUME SessionKnown, NEW t \in Threads, \A u \in Threads : u # t => thread'[u] = thread[u],
         ~Changing(t), ~Changing(t)', UNCHANGED <<refreshKeys, held, disk>>
  PROVE  SessionKnown'
  <1>1. \A u \in Threads : u # t => (Changing(u)' <=> Changing(u)) /\ (Knows(u) => Knows(u)')
    BY DEF Changing, Knows, Kept
  <1>2. Knows(t)'
    BY DEF Changing, Knows
  <1>3. Kept' <=> Kept
    BY DEF Kept
  <1> QED
    BY <1>1, <1>2, <1>3 DEF SessionKnown

LEMMA OneThread ==
  ASSUME SessionKnown, NEW t \in Threads, Changing(t)
  PROVE  Knows(t) /\ \A u \in Threads : u # t => ~Changing(u)
  BY DEF SessionKnown

-----------------------------------------------------------------------------
\* The code: sending, and what expires.
LEMMA SendKeeps ==
  ASSUME AsInv,
         TapSend \/ CountSend \/ StoreCode \/ SendFails \/ SendWindowEnds \/ CodeExpires
         \/ AccessExpires \/ RefreshKeyLost
  PROVE  AsInv'
  <1>1. /\ UNCHANGED <<pairs, held, disk, thread, contended>>
        /\ faults' \in Nat /\ (faults' = 0 => faults = 0 /\ UNCHANGED refreshKeys)
    BY DEF TapSend, CountSend, StoreCode, SendFails, SendWindowEnds, CodeExpires, AccessExpires,
           RefreshKeyLost, otpVars, Fault, AsInv
  <1>2. AsTypeOK /\ SendKnown /\ CodeKnown
    BY DEF AsInv
  <1>3. AsTypeOK'
    <2>1. otpKey' \in [code : 0..MaxCodes, attempts : 0..MaxAttempts] /\ codes' \in 0..MaxCodes
      <3>1. CASE StoreCode
        <4>1. codes' \in 0..MaxCodes
          BY <1>2, <3>1, SessionAssumption DEF StoreCode, SendKnown, AsTypeOK
        <4>2. otpKey' = [code |-> codes', attempts |-> 0]
          BY <3>1 DEF StoreCode, NewKey
        <4> QED
          BY <4>1, <4>2, SessionAssumption
      <3>2. CASE ~StoreCode
        <4>1. otpKey' \in {otpKey, [code |-> 0, attempts |-> 0]} /\ codes' = codes
          BY <3>2
          DEF TapSend, CountSend, SendFails, SendWindowEnds, CodeExpires, AccessExpires,
              RefreshKeyLost, otpVars
        <4> QED
          BY <1>2, <4>1, SessionAssumption DEF AsTypeOK
      <3> QED
        BY <3>1, <3>2
    <2>2. otpSends' \in 0..SendLimit + 1 /\ codeSending' \in {"no", "count", "store"}
      <3>1. CASE CountSend
        BY <1>2, <3>1, SessionAssumption DEF CountSend, SendKnown, AsTypeOK
      <3>2. CASE SendWindowEnds
        BY <1>2, <3>2, SessionAssumption DEF SendWindowEnds, AsTypeOK
      <3> QED
        BY <1>2, <3>1, <3>2
        DEF TapSend, StoreCode, SendFails, CodeExpires, AccessExpires, RefreshKeyLost, otpVars,
            AsTypeOK
    <2>3. misses' \in 0..MaxAttempts /\ crossed' \in BOOLEAN
      <3>1. (misses' = misses \/ misses' = 0) /\ (crossed' = crossed \/ crossed' = FALSE)
        BY DEF TapSend, CountSend, StoreCode, SendFails, SendWindowEnds, CodeExpires,
               AccessExpires, RefreshKeyLost, otpVars
      <3>2. misses \in 0..MaxAttempts /\ crossed \in BOOLEAN
        BY <1>2 DEF AsTypeOK
      <3>3. misses' \in 0..MaxAttempts
        BY <3>1, <3>2, SessionAssumption
      <3>4. crossed' \in BOOLEAN
        BY <3>1, <3>2
      <3> QED
        BY <3>3, <3>4
    <2>4. stale' \subseteq Pairs /\ refreshKeys' \subseteq Pairs
      <3>1. held # 0 => held \in Pairs
        BY <1>2, SessionAssumption DEF AsTypeOK, Pairs
      <3>2. stale' \subseteq stale \cup ({held} \ {0}) /\ refreshKeys' \subseteq refreshKeys
        BY DEF TapSend, CountSend, StoreCode, SendFails, SendWindowEnds, CodeExpires,
               AccessExpires, RefreshKeyLost, otpVars
      <3> QED
        BY <1>2, <3>1, <3>2 DEF AsTypeOK
    <2> QED
      BY <1>1, <1>2, <2>1, <2>2, <2>3, <2>4 DEF AsTypeOK
  <1>4. CodeKnown'
    <2>1. CASE StoreCode
      BY <1>2, <2>1, SessionAssumption DEF StoreCode, NewKey, CodeKnown, AsTypeOK
    <2>2. CASE CodeExpires
      BY <1>1, <1>2, <2>2, SessionAssumption DEF CodeExpires, CodeKnown, AsTypeOK
    <2>3. CASE UNCHANGED <<otpKey, codes, misses, crossed>>
      BY <1>1, <2>3, CodeUnmoved
    <2> QED
      BY <2>1, <2>2, <2>3
      DEF TapSend, CountSend, SendFails, SendWindowEnds, AccessExpires, RefreshKeyLost, otpVars
  <1>5. RequestsGuessNot' /\ SendKnown'
    <2>1. RequestsGuessNot'
      BY <1>1 DEF AsInv, RequestsGuessNot
    <2>2. SendKnown'
      BY <1>2, SessionAssumption
      DEF TapSend, CountSend, StoreCode, SendFails, SendWindowEnds, CodeExpires, AccessExpires,
          RefreshKeyLost, otpVars, SendKnown, AsTypeOK
    <2> QED
      BY <2>1, <2>2
  <1>6. faults' = 0 /\ ~contended' => SessionKnown'
    BY <1>1 DEF AsInv, SessionKnown, Changing, Knows, Kept
  <1> QED
    BY <1>1, <1>3, <1>4, <1>5, <1>6 DEF AsInv

-----------------------------------------------------------------------------
\* A guess: what it reads, and what it writes back.
LEMMA GuessKeeps ==
  ASSUME AsInv, (\E guess \in 0..MaxCodes : TapVerify(guess)) \/ CheckCode \/ CountMiss
  PROVE  AsInv'
  <1>1. /\ AsTypeOK /\ CodeKnown /\ "signIn" \in Threads /\ thread["signIn"] \in ThreadRow
        /\ otpKey \in [code : 0..MaxCodes, attempts : 0..MaxAttempts]
    BY DEF AsInv, AsTypeOK, ThreadRow, Threads
  <1>2. UNCHANGED <<codes, codeSending, otpSends, pairs, stale, refreshKeys, held, disk, contended,
                    faults>>
    BY DEF TapVerify, CheckCode, CountMiss, otpVars
  <1>3. PICK r \in ThreadRow :
          /\ Does("signIn", r) /\ r.at \in {"idle", "guess", "miss", "take"}
          /\ r.at = "miss" => CheckCode /\ r.guess = otpKey.code /\ r.read = otpKey.attempts
                                        /\ otpKey.code # 0 /\ otpKey.attempts < MaxAttempts
    <2>1. ASSUME NEW guess \in 0..MaxCodes, TapVerify(guess)
          PROVE  \E r \in ThreadRow : Does("signIn", r) /\ r.at = "guess"
      <3>1. [Resting EXCEPT !.at = "guess", !.guess = guess] \in ThreadRow
        BY RestingIsRow DEF ThreadRow
      <3>2. [Resting EXCEPT !.at = "guess", !.guess = guess].at = "guess"
        BY DEF Resting
      <3> QED
        BY <2>1, <3>1, <3>2 DEF TapVerify
    <2>2. CASE CountMiss
      BY <2>2, RestingIsRow DEF CountMiss, Resting
    <2>3. ASSUME CheckCode
          PROVE  \E r \in ThreadRow :
                   /\ Does("signIn", r) /\ r.at \in {"idle", "miss", "take"}
                   /\ r.at = "miss" => /\ r.guess = otpKey.code /\ r.read = otpKey.attempts
                                       /\ otpKey.code # 0 /\ otpKey.attempts < MaxAttempts
      <3> DEFINE t == thread["signIn"]
                 spent == otpKey.code # 0 /\ otpKey.attempts >= MaxAttempts
                 taken == [t EXCEPT !.at = "take"]
                 missed == [t EXCEPT !.at = "miss", !.guess = otpKey.code,
                                     !.read = otpKey.attempts]
      <3>1. taken \in ThreadRow /\ taken.at = "take"
        BY <1>1 DEF ThreadRow
      <3>2. /\ missed \in ThreadRow /\ missed.at = "miss" /\ missed.guess = otpKey.code
            /\ missed.read = otpKey.attempts
        BY <1>1 DEF ThreadRow
      <3>3. CASE otpKey.code = 0 \/ spent
        <4>1. Does("signIn", Resting)
          BY <2>3, <3>3 DEF CheckCode
        <4> QED
          BY <4>1, RestingIsRow DEF Resting
      <3>4. CASE ~spent /\ otpKey.code # 0 /\ otpKey.code = t.guess
        <4>1. Does("signIn", taken)
          BY <2>3, <3>4 DEF CheckCode
        <4> HIDE DEF taken
        <4> QED
          BY <3>1, <4>1
      <3>5. CASE ~spent /\ otpKey.code # 0 /\ otpKey.code # t.guess
        <4>1. Does("signIn", missed)
          BY <2>3, <3>5 DEF CheckCode
        <4>2. otpKey.attempts < MaxAttempts
          BY <1>1, <3>5, SessionAssumption
        <4> HIDE DEF missed
        <4> QED
          BY <3>2, <3>5, <4>1, <4>2
      <3> QED
        BY <3>3, <3>4, <3>5
    <2> QED
      BY <2>1, <2>2, <2>3
  <1>4. /\ thread' \in [Threads -> ThreadRow] /\ thread'["signIn"] = r
        /\ \A u \in Threads : u # "signIn" => thread'[u] = thread[u]
        /\ RequestsGuessNot'
    BY <1>1, <1>3, ThreadMoves
  <1>5. /\ otpKey' \in [code : 0..MaxCodes, attempts : 0..MaxAttempts]
        /\ misses' \in 0..MaxAttempts /\ crossed' \in BOOLEAN
    <2>1. CASE CountMiss
      <3>1. otpKey' = [code |-> thread["signIn"].guess, attempts |-> thread["signIn"].read + 1]
            /\ thread["signIn"].read < MaxAttempts
        BY <1>1, <2>1 DEF CountMiss, CodeKnown
      <3>2. otpKey' \in [code : 0..MaxCodes, attempts : 0..MaxAttempts]
        BY <1>1, <3>1, SessionAssumption DEF ThreadRow
      <3>3. misses' \in 0..MaxAttempts
        BY <1>1, <2>1, SessionAssumption DEF CountMiss, AsTypeOK
      <3>4. crossed' \in BOOLEAN
        BY <1>1, <2>1 DEF CountMiss, AsTypeOK
      <3> QED
        BY <3>2, <3>3, <3>4
    <2>2. CASE CheckCode
      <3>1. otpKey' = otpKey \/ otpKey' = [code |-> 0, attempts |-> 0]
        BY <2>2 DEF CheckCode
      <3> QED
        BY <1>1, <2>2, <3>1, SessionAssumption DEF CheckCode, AsTypeOK
    <2>3. CASE \E guess \in 0..MaxCodes : TapVerify(guess)
      BY <1>1, <2>3 DEF TapVerify, otpVars, AsTypeOK
    <2> QED
      BY <2>1, <2>2, <2>3
  <1>6. AsTypeOK'
    BY <1>1, <1>2, <1>4, <1>5 DEF AsTypeOK, ThreadRow
  <1>7. CodeKnown'
    <2>1. CASE CountMiss
      <3>1. r.at # "miss"
        BY <1>3, <2>1 DEF CountMiss, CheckCode
      <3>2. /\ otpKey'.code = thread["signIn"].guess
            /\ otpKey'.attempts = thread["signIn"].read + 1
            /\ misses' = IF misses < MaxAttempts THEN misses + 1 ELSE misses
            /\ thread["signIn"].at = "miss"
        BY <2>1 DEF CountMiss
      <3>3. ~crossed' => thread["signIn"].guess = codes
        BY <2>1 DEF CountMiss
      <3>4. thread["signIn"].read \in Nat /\ misses \in Nat /\ misses <= MaxAttempts
        BY <1>1, SessionAssumption DEF AsTypeOK, ThreadRow
      <3>5. thread["signIn"].guess = codes => otpKey'.attempts <= misses'
        BY <1>1, <3>2, <3>4, SessionAssumption DEF CodeKnown
      <3>6. thread["signIn"].guess \in 0..codes
        BY <1>1, <3>2 DEF CodeKnown
      <3>7. UNCHANGED codes
        BY <1>2
      <3> QED
        BY <1>4, <3>1, <3>2, <3>3, <3>5, <3>6, <3>7 DEF CodeKnown
    <2>2. CASE CheckCode
      BY <1>1, <1>2, <1>3, <1>4, <2>2, SessionAssumption DEF CheckCode, CodeKnown, AsTypeOK
    <2>3. CASE \E guess \in 0..MaxCodes : TapVerify(guess)
      <3>1. r.at # "miss"
        BY <1>1, <1>3, <2>3 DEF TapVerify, CheckCode
      <3> QED
        BY <1>4, <2>3, <3>1, CodeUnmoved DEF TapVerify, otpVars
    <2> QED
      BY <2>1, <2>2, <2>3
  <1>8. ASSUME SessionKnown PROVE SessionKnown'
    <2>1. ~Changing("signIn") /\ ~Changing("signIn")'
      BY <1>1, <1>3, <1>4 DEF Changing, TapVerify, CheckCode, CountMiss
    <2> QED
      BY <1>1, <1>2, <1>4, <1>8, <2>1, SessionRests
  <1> QED
    BY <1>2, <1>4, <1>6, <1>7, <1>8, SendUnmoved DEF AsInv

-----------------------------------------------------------------------------
\* A step of a thread that touches neither the code nor its sending.
LEMMA ThreadKeeps ==
  ASSUME AsInv, NEW t \in Threads, NEW r \in ThreadRow, Does(t, r),
         r.at \notin {"guess", "miss", "take"},
         UNCHANGED <<codes, codeSending, otpSends, misses, crossed, stale>>,
         otpKey' \in {otpKey, [code |-> 0, attempts |-> 0]},
         pairs' \in 0..MaxPairs, refreshKeys' \subseteq Pairs, held' \in 0..MaxPairs,
         disk' \in 0..MaxPairs, contended' \in BOOLEAN, faults' \in Nat, faults' = 0 => faults = 0,
         faults' = 0 /\ ~contended' => SessionKnown'
  PROVE  AsInv'
  <1>1. /\ thread' \in [Threads -> ThreadRow] /\ thread'[t] = r
        /\ \A u \in Threads : u # t => thread'[u] = thread[u]
        /\ RequestsGuessNot'
    BY ThreadMoves
  <1>2. AsTypeOK
    BY DEF AsInv
  <1>3. AsTypeOK'
    <2>1. otpKey' \in [code : 0..MaxCodes, attempts : 0..MaxAttempts]
      BY <1>2, SessionAssumption DEF AsTypeOK
    <2> QED
      BY <1>1, <1>2, <2>1 DEF AsTypeOK, ThreadRow
  <1>4. thread'["signIn"] = thread["signIn"] \/ thread'["signIn"].at # "miss"
    BY <1>1 DEF Threads
  <1>5. CodeKnown'
    <2>1. CASE otpKey' = otpKey
      BY <1>4, <2>1, CodeUnmoved
    <2>2. CASE otpKey' = [code |-> 0, attempts |-> 0]
      <3>1. otpKey'.code = 0 /\ 0 \in 0..codes
        BY <1>2, <2>2, SessionAssumption DEF AsTypeOK
      <3> QED
        BY <1>4, <3>1 DEF AsInv, CodeKnown
    <2> QED
      BY <2>1, <2>2
  <1> QED
    BY <1>1, <1>3, <1>5, SendUnmoved DEF AsInv

\* Requests that do not change the session.
LEMMA RequestKeeps ==
  ASSUME AsInv, NEW t \in Requests, SendRequest(t) \/ RequestServed(t)
  PROVE  AsInv'
  <1>1. t \in Threads /\ AsTypeOK /\ UNCHANGED <<otpVars, pairs, stale, refreshKeys, held, disk,
                                                contended, faults>>
    BY DEF AsInv, Threads, SendRequest, RequestServed
  <1>2. PICK r \in ThreadRow : Does(t, r) /\ r.at \in {"idle", "sent"}
    <2>1. held \in 0..MaxPairs
      BY <1>1 DEF AsTypeOK
    <2>2. CASE SendRequest(t)
      <3>1. Does(t, [Resting EXCEPT !.at = "sent", !.pair = held])
        BY <2>2 DEF SendRequest
      <3>2. /\ [Resting EXCEPT !.at = "sent", !.pair = held] \in ThreadRow
            /\ [Resting EXCEPT !.at = "sent", !.pair = held].at = "sent"
        BY <2>1, RestingIsRow DEF ThreadRow
      <3> QED
        BY <3>1, <3>2
    <2>3. CASE RequestServed(t)
      BY <2>3, RestingIsRow DEF RequestServed, Resting
    <2> QED
      BY <2>2, <2>3
  <1>3. SessionKnown => SessionKnown'
    <2>1. thread'[t] = r /\ \A u \in Threads : u # t => thread'[u] = thread[u]
      BY <1>1, <1>2, ThreadMoves
    <2>2. ~Changing(t) /\ ~Changing(t)'
      BY <1>2, <2>1 DEF Changing, SendRequest, RequestServed
    <2> QED
      BY <1>1, <2>1, <2>2, SessionRests
  <1> QED
    BY <1>1, <1>2, <1>3, ThreadKeeps DEF AsInv, AsTypeOK, otpVars

\* A thread begins to change the session; a second one is noted.
LEMMA EnterSession ==
  ASSUME AsInv, NEW t \in Threads, NEW r \in ThreadRow, Does(t, r),
         ~Changing(t), Enters(t), r.at \in {"ask", "issue", "clear"},
         r.at = "ask" => r.pair = held /\ held # 0,
         UNCHANGED <<refreshKeys, held, disk, faults>>
  PROVE  faults' = 0 /\ ~contended' => SessionKnown'
  <1> SUFFICES ASSUME faults' = 0, ~contended' PROVE SessionKnown'
    OBVIOUS
  <1>1. ~contended /\ \A u \in Threads : u # t => ~Changing(u)
    BY DEF Enters
  <1>2. thread'[t] = r /\ \A u \in Threads : u # t => thread'[u] = thread[u]
    BY ThreadMoves
  <1>3. SessionKnown
    BY <1>1 DEF AsInv
  <1>4. Kept /\ Kept'
    BY <1>1, <1>3 DEF SessionKnown, Kept
  <1>5. Knows(t)'
    BY <1>2, <1>4 DEF Knows
  <1> QED
    BY <1>1, <1>2, <1>4, <1>5, OneChangesSession

LEMMA EntryKeeps ==
  ASSUME AsInv, NEW t \in Threads,
         \/ t = "signIn" /\ TakeCode
         \/ t = "signOut" /\ TapSignOut
         \/ t \in Requests /\ RequestRefused(t)
  PROVE  AsInv'
  <1>1. /\ AsTypeOK /\ faults \in Nat /\ held \in 0..MaxPairs
        /\ contended' \in BOOLEAN /\ ~Changing(t) /\ Enters(t)
        /\ UNCHANGED <<otpSends, codes, codeSending, misses, crossed, pairs, stale, refreshKeys,
                       held, disk, faults>>
        /\ otpKey' = otpKey \/ otpKey' = [code |-> 0, attempts |-> 0]
    <2>1. AsTypeOK /\ faults \in Nat /\ held \in 0..MaxPairs
      BY DEF AsInv, AsTypeOK
    <2>2. Enters(t) /\ contended' \in BOOLEAN
      BY <2>1 DEF TakeCode, TapSignOut, RequestRefused, Enters, AsTypeOK
    <2>3. ~Changing(t)
      BY SessionAssumption DEF TakeCode, TapSignOut, RequestRefused, Changing
    <2>4. /\ UNCHANGED <<otpSends, codes, codeSending, misses, crossed, pairs, stale, refreshKeys,
                         held, disk, faults>>
          /\ otpKey' = otpKey \/ otpKey' = [code |-> 0, attempts |-> 0]
      BY DEF TakeCode, TapSignOut, RequestRefused, otpVars
    <2> QED
      BY <2>1, <2>2, <2>3, <2>4
  <1>2. PICK r \in ThreadRow : /\ Does(t, r) /\ r.at \in {"ask", "issue", "clear"}
                               /\ r.at = "ask" => r.pair = held /\ held # 0
    <2>1. CASE t = "signIn" /\ TakeCode
      <3>1. Does(t, [Resting EXCEPT !.at = "issue"])
        BY <2>1 DEF TakeCode
      <3>2. /\ [Resting EXCEPT !.at = "issue"] \in ThreadRow
            /\ [Resting EXCEPT !.at = "issue"].at = "issue"
        BY RestingIsRow DEF ThreadRow
      <3> QED
        BY <3>1, <3>2
    <2>2. CASE t = "signOut" /\ TapSignOut
      <3>1. Does(t, [Resting EXCEPT !.at = "clear"])
        BY <2>2 DEF TapSignOut
      <3>2. /\ [Resting EXCEPT !.at = "clear"] \in ThreadRow
            /\ [Resting EXCEPT !.at = "clear"].at = "clear"
        BY RestingIsRow DEF ThreadRow
      <3> QED
        BY <3>1, <3>2
    <2>3. CASE t \in Requests /\ RequestRefused(t)
      <3> DEFINE at == IF held = 0 THEN "clear" ELSE "ask"
      <3>1. Does(t, [Resting EXCEPT !.at = at, !.pair = held])
        BY <2>3 DEF RequestRefused
      <3>2. at \in {"clear", "ask"} /\ (at = "ask" => held # 0)
        OBVIOUS
      <3> HIDE DEF at
      <3>3. /\ [Resting EXCEPT !.at = at, !.pair = held] \in ThreadRow
            /\ [Resting EXCEPT !.at = at, !.pair = held].at = at
            /\ [Resting EXCEPT !.at = at, !.pair = held].pair = held
        BY <1>1, <3>2, RestingIsRow DEF ThreadRow
      <3> QED
        BY <3>1, <3>2, <3>3
    <2> QED
      BY <2>1, <2>2, <2>3
  <1>3. faults' = 0 /\ ~contended' => SessionKnown'
    BY <1>1, <1>2, EnterSession
  <1> QED
    BY <1>1, <1>2, <1>3, ThreadKeeps DEF AsTypeOK

\* The thread that changes the session goes on.
LEMMA MoveSession ==
  ASSUME AsInv, NEW t \in Threads, NEW r \in ThreadRow, Does(t, r),
         r.at \notin {"guess", "miss", "take"}, Changing(t),
         Knows(t) => Knows(t)' /\ (Kept' \/ Changing(t)'),
         UNCHANGED <<otpVars, stale, contended, faults>>, pairs' \in 0..MaxPairs,
         refreshKeys' \subseteq Pairs, held' \in 0..MaxPairs, disk' \in 0..MaxPairs
  PROVE  AsInv'
  <1>1. faults \in Nat /\ contended \in BOOLEAN
    BY DEF AsInv, AsTypeOK
  <1>2. ASSUME faults' = 0, ~contended' PROVE SessionKnown'
    <2>1. SessionKnown
      BY <1>2 DEF AsInv
    <2>2. \A u \in Threads : u # t => thread'[u] = thread[u]
      BY ThreadMoves
    <2> QED
      BY <2>1, <2>2, OneThread, OneChangesSession
  <1> QED
    BY <1>1, <1>2, ThreadKeeps DEF otpVars

LEMMA RotateKeeps ==
  ASSUME AsInv, NEW t \in Requests, RotateRead(t) \/ RotateDelete(t)
  PROVE  AsInv'
  <1>1. /\ t \in Threads /\ AsTypeOK /\ thread[t] \in ThreadRow /\ Changing(t)
        /\ UNCHANGED <<otpVars, pairs, stale, held, disk, contended, faults>>
    BY DEF AsInv, AsTypeOK, ThreadRow, Threads, RotateRead, RotateDelete, Changing
  <1>2. refreshKeys' \subseteq Pairs
    BY <1>1 DEF RotateRead, RotateDelete, AsTypeOK
  <1> DEFINE at == IF RotateDelete(t) THEN "issue"
                   ELSE IF thread[t].pair \in refreshKeys THEN "delete" ELSE "clear"
             r == [thread[t] EXCEPT !.at = at]
  <1>3. Does(t, r)
    BY DEF RotateRead, RotateDelete
  <1>4. at \in {"issue", "delete", "clear"} /\ (at = "delete" => RotateRead(t))
    OBVIOUS
  <1> HIDE DEF at
  <1>5. r \in ThreadRow /\ r.at = at /\ r.pair = thread[t].pair
    BY <1>1, <1>4 DEF ThreadRow
  <1> HIDE DEF r
  <1>6. thread'[t] = r
    BY <1>1, <1>3, <1>4, <1>5, ThreadMoves
  <1>7. Changing(t)' /\ (Knows(t) => Knows(t)')
    <2>1. Changing(t)'
      BY <1>4, <1>5, <1>6 DEF Changing
    <2>2. CASE at = "delete"
      BY <1>1, <1>4, <1>5, <1>6, <2>1, <2>2 DEF RotateRead, Knows, Kept
    <2>3. CASE at # "delete"
      BY <1>4, <1>5, <1>6, <2>1, <2>3 DEF Knows
    <2> QED
      BY <2>1, <2>2, <2>3
  <1> QED
    BY <1>1, <1>2, <1>3, <1>4, <1>5, <1>7, MoveSession DEF AsTypeOK

LEMMA TokensKeep ==
  ASSUME AsInv, NEW t \in Threads,
         \/ IssuePair(t) \/ SaveTokens(t) \/ TokensSaved(t) \/ ClearTokens(t) \/ TokensCleared(t)
  PROVE  AsInv'
  <1>1. /\ AsTypeOK /\ thread[t] \in ThreadRow /\ Changing(t)
        /\ UNCHANGED <<otpVars, stale, contended, faults>>
    BY DEF AsInv, AsTypeOK, ThreadRow, IssuePair, SaveTokens, TokensSaved, ClearTokens,
           TokensCleared, Changing
  <1>2. CASE IssuePair(t)
    <2> DEFINE r == [Resting EXCEPT !.at = "save", !.pair = pairs']
    <2>1. /\ Does(t, r) /\ pairs' = pairs + 1 /\ refreshKeys' = refreshKeys \cup {pairs'}
          /\ UNCHANGED <<held, disk>>
      BY <1>2 DEF IssuePair, WithKey
    <2>2. pairs' \in 0..MaxPairs /\ pairs' \in Pairs
      BY <1>1, <1>2, SessionAssumption DEF IssuePair, AsTypeOK, Pairs
    <2>3. r \in ThreadRow /\ r.at = "save" /\ r.pair = pairs'
      BY <2>2, RestingIsRow DEF ThreadRow
    <2> HIDE DEF r
    <2>4. thread'[t] = r
      BY <2>1, <2>3, ThreadMoves
    <2>5. Knows(t)' /\ Changing(t)'
      BY <2>1, <2>3, <2>4 DEF Knows, Changing
    <2> QED
      BY <1>1, <2>1, <2>2, <2>3, <2>5, MoveSession DEF AsTypeOK
  <1>3. CASE SaveTokens(t) \/ ClearTokens(t)
    <2> DEFINE at == IF SaveTokens(t) THEN "saved" ELSE "cleared"
               r == [thread[t] EXCEPT !.at = at]
    <2>1. Does(t, r) /\ UNCHANGED <<pairs, refreshKeys, held>>
      BY <1>3 DEF SaveTokens, ClearTokens
    <2>2. /\ disk' = IF at = "saved" THEN thread[t].pair ELSE 0
          /\ at \in {"saved", "cleared"}
          /\ at = "saved" => thread[t].at = "save"
      BY <1>3 DEF SaveTokens, ClearTokens
    <2>3. disk' \in 0..MaxPairs
      BY <1>1, <2>2, SessionAssumption DEF ThreadRow
    <2> HIDE DEF at
    <2>4. r \in ThreadRow /\ r.at = at /\ r.pair = thread[t].pair
      BY <1>1, <2>2 DEF ThreadRow
    <2> HIDE DEF r
    <2>5. thread'[t] = r
      BY <2>1, <2>2, <2>4, ThreadMoves
    <2>6. Changing(t)' /\ (Knows(t) => Knows(t)')
      BY <2>1, <2>2, <2>4, <2>5 DEF Knows, Changing
    <2> QED
      BY <1>1, <2>1, <2>2, <2>3, <2>4, <2>6, MoveSession DEF AsTypeOK
  <1>4. CASE TokensSaved(t) \/ TokensCleared(t)
    <2> DEFINE r == IF TokensSaved(t) /\ t \in Requests THEN [thread[t] EXCEPT !.at = "sent"]
                    ELSE Resting
    <2>1. Does(t, r) /\ UNCHANGED <<pairs, refreshKeys, disk>>
      BY <1>4 DEF TokensSaved, TokensCleared
    <2>2. \/ held' = 0
          \/ thread[t].at = "saved" /\ held' = thread[t].pair
      BY <1>4 DEF TokensSaved, TokensCleared
    <2>3. held' \in 0..MaxPairs
      BY <1>1, <2>2, SessionAssumption DEF ThreadRow
    <2>4. r \in ThreadRow /\ r.at \in {"sent", "idle"}
      <3>1. [thread[t] EXCEPT !.at = "sent"] \in ThreadRow
            /\ [thread[t] EXCEPT !.at = "sent"].at = "sent"
        BY <1>1 DEF ThreadRow
      <3>2. Resting \in ThreadRow /\ Resting.at = "idle"
        BY RestingIsRow DEF Resting
      <3> QED
        BY <3>1, <3>2
    <2> HIDE DEF r
    <2>5. thread'[t] = r
      BY <2>1, <2>4, ThreadMoves
    <2>6. Knows(t) => Knows(t)' /\ Kept'
      BY <2>1, <2>2, <2>4, <2>5 DEF Knows, Kept
    <2> QED
      BY <1>1, <2>1, <2>3, <2>4, <2>6, MoveSession DEF AsTypeOK
  <1> QED
    BY <1>2, <1>3, <1>4

LEMMA LossKeeps ==
  ASSUME AsInv, AppRestarts \/ \E t \in Threads : AnswerLost(t)
  PROVE  AsInv'
  <1>1. /\ AsTypeOK /\ faults' \in Nat /\ faults' # 0
        /\ UNCHANGED <<otpVars, pairs, stale, refreshKeys, disk, contended>>
    BY DEF AsInv, AppRestarts, AnswerLost, Fault
  <1>2. CASE AppRestarts
    <2>1. thread' = [u \in Threads |-> Resting] /\ held' = disk
      BY <1>2 DEF AppRestarts
    <2>2. thread' \in [Threads -> ThreadRow] /\ \A u \in Threads : thread'[u].at = "idle"
      BY <2>1, RestingIsRow DEF Resting
    <2>3. AsTypeOK'
      BY <1>1, <2>1, <2>2 DEF AsTypeOK, ThreadRow, otpVars
    <2>4. CodeKnown' /\ RequestsGuessNot'
      BY <1>1, <2>2, CodeUnmoved DEF otpVars, Threads, RequestsGuessNot
    <2> QED
      BY <1>1, <2>3, <2>4, SendUnmoved DEF AsInv, otpVars
  <1>3. ASSUME NEW t \in Threads, AnswerLost(t) PROVE AsInv'
    <2>1. PICK r \in ThreadRow : Does(t, r) /\ r.at \in {"clear", "idle"}
      <3>1. Resting \in ThreadRow /\ Resting.at = "idle"
        BY RestingIsRow DEF Resting
      <3>2. [Resting EXCEPT !.at = "clear"] \in ThreadRow
            /\ [Resting EXCEPT !.at = "clear"].at = "clear"
        BY RestingIsRow DEF ThreadRow
      <3>3. Does(t, [Resting EXCEPT !.at = "clear"]) \/ Does(t, Resting)
        BY <1>3 DEF AnswerLost
      <3> QED
        BY <3>1, <3>2, <3>3
    <2>2. UNCHANGED held
      BY <1>3 DEF AnswerLost
    <2> QED
      BY <1>1, <2>1, <2>2, ThreadKeeps DEF otpVars, AsTypeOK
  <1> QED
    BY <1>2, <1>3

-----------------------------------------------------------------------------
LEMMA AsStepHolds ==
  ASSUME AsInv, [AsNext]_<<asVars, faults>>
  PROVE  AsInv'
  <1>1. CASE AsNext
    BY <1>1, SendKeeps, GuessKeeps, RequestKeeps, EntryKeeps, RotateKeeps, TokensKeep, LossKeeps
    DEF AsNext, Threads
  <1>2. CASE UNCHANGED <<asVars, faults>>
    BY <1>2
    DEF asVars, AsInv, AsTypeOK, SendKnown, CodeKnown, RequestsGuessNot, SessionKnown, Changing,
        Knows, Kept
  <1> QED
    BY <1>1, <1>2

THEOREM AsInvariantHolds == AsSpec => []AsInv
  <1> QED
    BY AsInitHolds, AsStepHolds, PTL DEF AsSpec

\* The code, the tokens, the store, the disk and the threads have their types.
THEOREM AsTypeCorrect == AsSpec => []AsTypeOK
  <1>1. AsInv => AsTypeOK
    BY DEF AsInv
  <1> QED
    BY <1>1, AsInvariantHolds, PTL

\* For any requests, pairs and codes: a session that one thread at a time changes,
\* with no call lost, is one the server will refresh and the disk will restore
\* (client.ts, token.service.ts).
THEOREM SessionStands == AsSpec => []SessionKept
  <1>1. AsInv => SessionKept
    BY DEF AsInv, SessionKnown, Kept, SessionKept
  <1> QED
    BY <1>1, AsInvariantHolds, PTL

\* For any limits: the newest code is accepted until it was guessed wrong
\* MAX_ATTEMPTS times, unless a guess at an older code was written over it
\* (otp.service.ts).
THEOREM NewestCodeAccepted == AsSpec => NewestCodeCounts
  <1> DEFINE Try == (/\ thread["signIn"].at = "guess" /\ thread["signIn"].guess = codes
                     /\ otpKey.code # 0 /\ ~crossed /\ faults' = 0 /\ misses < MaxAttempts
                     /\ thread'["signIn"] # thread["signIn"])
                    => thread'["signIn"].at = "take"
  <1>1. ASSUME AsInv, [AsNext]_<<asVars, faults>> PROVE [Try]_asVars
    <2> SUFFICES ASSUME thread["signIn"].at = "guess", thread["signIn"].guess = codes,
                        otpKey.code # 0, ~crossed, faults' = 0, misses < MaxAttempts,
                        thread'["signIn"] # thread["signIn"]
                 PROVE  thread'["signIn"].at = "take"
      OBVIOUS
    <2>1. /\ otpKey.code = codes /\ otpKey.attempts <= misses /\ faults \in Nat
          /\ otpKey.attempts \in Nat /\ misses \in Nat /\ "signIn" \in Threads
          /\ thread \in [Threads -> ThreadRow]
      BY <1>1, SessionAssumption DEF AsInv, CodeKnown, AsTypeOK, Threads, ThreadRow
    <2>2. CheckCode
      <3>1. faults' = faults + 1 => FALSE
        BY <2>1
      <3>2. \A t \in Threads : \A r : Does(t, r) => t = "signIn"
        BY <2>1 DEF Does
      <3>3. AsNext
        BY <1>1 DEF asVars
      <3>4. ~AppRestarts /\ \A t \in Threads : ~AnswerLost(t)
        BY <3>1 DEF AppRestarts, AnswerLost, Fault
      <3>5. ~\E guess \in 0..MaxCodes : TapVerify(guess)
        BY DEF TapVerify
      <3>6. ~(\/ TapSend \/ CountSend \/ StoreCode \/ SendFails \/ SendWindowEnds \/ CodeExpires
              \/ AccessExpires \/ RefreshKeyLost)
        BY DEF TapSend, CountSend, StoreCode, SendFails, SendWindowEnds, CodeExpires,
               AccessExpires, RefreshKeyLost
      <3>7. ~CountMiss /\ ~TakeCode
        BY DEF CountMiss, TakeCode
      <3>8. ~TapSignOut
        BY <3>2 DEF TapSignOut, Threads
      <3>9. \A t \in Requests : t \in Threads /\ t # "signIn"
        BY SessionAssumption DEF Threads
      <3>10. \A t \in Requests : ~(\/ SendRequest(t) \/ RequestServed(t) \/ RequestRefused(t)
                                   \/ RotateRead(t) \/ RotateDelete(t))
        BY <3>2, <3>9 DEF SendRequest, RequestServed, RequestRefused, RotateRead, RotateDelete
      <3>11. \A t \in Threads : ~(\/ IssuePair(t) \/ SaveTokens(t) \/ TokensSaved(t)
                                  \/ ClearTokens(t) \/ TokensCleared(t))
        BY <3>2 DEF IssuePair, SaveTokens, TokensSaved, ClearTokens, TokensCleared
      <3> QED
        BY <3>3, <3>4, <3>5, <3>6, <3>7, <3>8, <3>10, <3>11 DEF AsNext
    <2>3. Does("signIn", [thread["signIn"] EXCEPT !.at = "take"])
      BY <2>1, <2>2, SessionAssumption DEF CheckCode
    <2> QED
      BY <2>1, <2>3 DEF Does, ThreadRow
  <1>2. AsInv /\ [AsNext]_<<asVars, faults>> => [Try]_asVars
    BY <1>1
  <1> QED
    BY <1>2, AsInvariantHolds, PTL DEF AsSpec, NewestCodeCounts

-----------------------------------------------------------------------------
(***************************************************************************)
(* RiderCards, for any cards, customers, requests and faults               *)
(*                                                                         *)
(* As long as no two requests of the rider overlap, one request at a time  *)
(* changes the cards, and what it knows is all there is to know            *)
(* (FlowKnows): which card it found to be the default, which one it is     *)
(* about to name. The default is missing, or names a removed card, only    *)
(* while that request is on its way to set it right (Pending, Removed).    *)
(***************************************************************************)

FlowRow == [op : {"none", "load", "default", "remove", "add"},
            at : {"idle", "list", "owner", "row", "stripe", "detach", "unset", "customer",
                  "create", "link", "sheet", "check"},
            card : 0..MaxCards, owner : 0..MaxCards, was : BOOLEAN]

\* Which steps a request of each kind takes; only those on a card have one.
RowShape(r) ==
  /\ r.op = "none" => r = NoFlow
  /\ r.op = "load" => r.at = "list"
  /\ r.op = "default" => r.at \in {"owner", "row", "stripe"}
  /\ r.op = "remove" => r.at \in {"owner", "detach", "unset"}
  /\ r.op = "add" => r.at \in {"customer", "create", "link", "sheet", "check", "owner", "row",
                               "stripe", "list"}
  /\ r.at \in {"owner", "row", "stripe", "detach", "unset"} => r.card \in Cards
FlowShape(f) == RowShape(flow[f])
Changes(f) == flow[f].op \notin {"none", "load"}

\* A default whenever there is a card, and only a card there is.
HasDefault == Listed # {} /\ ~dropped => default # 0
DefaultListed == default # 0 => default \in Listed

\* What the one request that changes the cards knows.
Removed(f) == flow[f].at = "unset"
Pending(f) == flow[f].op = "add" /\ flow[f].at \in {"check", "owner", "row"}
FlowKnows(f) ==
  /\ Removed(f) => default # 0
  /\ flow[f].at = "detach" => (flow[f].was <=> default = flow[f].card)
  /\ flow[f].at = "row" \/ (flow[f].at = "owner" /\ flow[f].op = "add") => flow[f].card \in Listed
  /\ flow[f].at \in {"create", "link"} => customer = 0
  /\ flow[f].at \in {"link", "sheet"} => flow[f].owner # 0
  /\ flow[f].at = "sheet" => flow[f].owner = customer

CardsKnown ==
  /\ \A f, g \in CardFlows : Changes(f) /\ Changes(g) => f = g
  /\ \A f \in CardFlows : FlowKnows(f)
  /\ \A c \in Cards : attached[c] \in {0, customer}
  /\ HasDefault \/ \E f \in CardFlows : Pending(f)
  /\ DefaultListed \/ \E f \in CardFlows : Removed(f)

\* The inductive invariant.
RcInv ==
  /\ RcTypeOK /\ faults \in Nat /\ \A f \in CardFlows : FlowShape(f)
  /\ faults = 0 /\ ~overlapped => CardsKnown

-----------------------------------------------------------------------------
LEMMA NoFlowIsRow == NoFlow \in FlowRow /\ RowShape(NoFlow)
  BY CardsAssumption DEF NoFlow, FlowRow, RowShape

LEMMA RcInitHolds == RcInit /\ faults = 0 => RcInv
  <1> SUFFICES ASSUME RcInit, faults = 0 PROVE RcInv
    OBVIOUS
  <1>1. flow \in [CardFlows -> FlowRow] /\ \A f \in CardFlows : FlowShape(f)
    BY NoFlowIsRow DEF RcInit, FlowShape
  <1>2. shown \in [cards : SUBSET Cards, default : 0..MaxCards]
    BY CardsAssumption DEF RcInit
  <1>3. RcTypeOK
    BY <1>1, <1>2, CardsAssumption DEF RcInit, RcTypeOK, FlowRow
  <1>4. CardsKnown
    BY DEF RcInit, CardsKnown, FlowKnows, Changes, NoFlow, HasDefault, DefaultListed, Listed,
           Removed
  <1> QED
    BY <1>1, <1>3, <1>4 DEF RcInv

\* One request moves.
LEMMA FlowsMove ==
  ASSUME RcInv, NEW f \in CardFlows, NEW r \in FlowRow, RowShape(r),
         flow' = [flow EXCEPT ![f] = r]
  PROVE  /\ flow' \in [CardFlows -> FlowRow] /\ flow'[f] = r
         /\ \A g \in CardFlows : FlowShape(g)' /\ (g # f => flow'[g] = flow[g])
  <1>1. flow \in [CardFlows -> FlowRow]
    BY DEF RcInv, RcTypeOK, FlowRow
  <1> QED
    BY <1>1 DEF RcInv, FlowShape

\* A request that changes nothing knows nothing.
LEMMA OnlookersKnow ==
  ASSUME NEW f \in CardFlows, FlowShape(f), ~Changes(f)
  PROVE  FlowKnows(f) /\ ~Removed(f) /\ ~Pending(f)
  BY DEF FlowShape, RowShape, Changes, FlowKnows, Removed, Pending, NoFlow

\* While one request changes the cards, what it knows is all there is to know.
LEMMA OneChanges ==
  ASSUME NEW f \in CardFlows, \A g \in CardFlows : FlowShape(g)',
         \A g \in CardFlows : g # f => flow'[g] = flow[g] /\ ~Changes(g),
         FlowKnows(f)', \A c \in Cards : attached'[c] \in {0, customer'},
         HasDefault' \/ Pending(f)', DefaultListed' \/ Removed(f)'
  PROVE  CardsKnown'
  <1>1. \A g \in CardFlows : g # f => ~Changes(g)'
    BY DEF Changes
  <1>2. \A g \in CardFlows : g # f => FlowKnows(g)'
    BY <1>1 DEF FlowShape, RowShape, Changes, FlowKnows, Removed, NoFlow
  <1> QED
    BY <1>1, <1>2 DEF CardsKnown

\* A request that does not change the cards leaves what is known.
LEMMA NobodyChanges ==
  ASSUME RcInv, CardsKnown, NEW f \in CardFlows, \A g \in CardFlows : FlowShape(g)',
         \A g \in CardFlows : g # f => flow'[g] = flow[g], ~Changes(f), ~Changes(f)',
         UNCHANGED <<customer, default, attached, dropped>>
  PROVE  CardsKnown'
  <1>1. \A g \in CardFlows : g # f =>
          (Changes(g)' <=> Changes(g)) /\ (FlowKnows(g) => FlowKnows(g)')
          /\ (Pending(g)' <=> Pending(g)) /\ (Removed(g)' <=> Removed(g))
    BY DEF Changes, FlowKnows, Pending, Removed, Listed
  <1>2. FlowKnows(f)' /\ ~Removed(f) /\ ~Pending(f)
    <2>1. FlowShape(f)' /\ FlowShape(f)
      BY DEF RcInv
    <2> QED
      BY <2>1, OnlookersKnow DEF FlowShape, RowShape, Changes, FlowKnows, Removed, NoFlow
  <1>3. (HasDefault' <=> HasDefault) /\ (DefaultListed' <=> DefaultListed)
    BY DEF HasDefault, DefaultListed, Listed
  <1>4. \A g, h \in CardFlows : Changes(g)' /\ Changes(h)' => g = h
    BY <1>1 DEF CardsKnown
  <1>5. \A g \in CardFlows : FlowKnows(g)'
    BY <1>1, <1>2 DEF CardsKnown
  <1> QED
    BY <1>1, <1>2, <1>3, <1>4, <1>5 DEF CardsKnown

LEMMA Alone ==
  ASSUME RcInv, CardsKnown, NEW f \in CardFlows, Changes(f)
  PROVE  /\ \A g \in CardFlows : g # f => ~Changes(g)
         /\ HasDefault \/ Pending(f)
         /\ DefaultListed \/ Removed(f)
         /\ FlowKnows(f)
  <1>1. \A g \in CardFlows : g # f => ~Changes(g)
    BY DEF CardsKnown
  <1>2. \A g \in CardFlows : g # f => ~Removed(g) /\ ~Pending(g)
    BY <1>1, OnlookersKnow DEF RcInv
  <1> QED
    BY <1>1, <1>2 DEF CardsKnown

-----------------------------------------------------------------------------
\* A tap starts a request; a second one that changes the cards is noted.
LEMMA TapKeeps ==
  ASSUME RcInv, NEW f \in CardFlows, NEW op \in {"load", "default", "remove", "add"},
         NEW at \in {"list", "owner", "customer"}, NEW c \in 0..MaxCards,
         RowShape([op |-> op, at |-> at, card |-> c, owner |-> 0, was |-> FALSE]),
         at = "owner" => op # "add", Taps(f, op, at, c)
  PROVE  RcInv'
  <1> DEFINE r == [op |-> op, at |-> at, card |-> c, owner |-> 0, was |-> FALSE]
  <1>1. /\ r.op = op /\ r.at = at /\ r.card = c /\ RowShape(r)
    OBVIOUS
  <1>2. r \in FlowRow
    BY CardsAssumption DEF FlowRow
  <1> HIDE DEF r
  <1>3. flow' = [flow EXCEPT ![f] = r] /\ flow[f] = NoFlow
        /\ UNCHANGED <<customer, default, customers, attached, entered, shown, dropped, faults>>
    BY DEF Taps, r
  <1>4. /\ flow' \in [CardFlows -> FlowRow] /\ flow'[f] = r
        /\ \A g \in CardFlows : FlowShape(g)' /\ (g # f => flow'[g] = flow[g])
    BY <1>1, <1>2, <1>3, FlowsMove
  <1>5. RcTypeOK'
    BY <1>3, <1>4 DEF RcInv, RcTypeOK, Taps, FlowRow
  <1>6. ASSUME faults' = 0, ~overlapped' PROVE CardsKnown'
    <2>1. CardsKnown /\ ~Changes(f)
      <3>1. ~overlapped /\ faults = 0
        BY <1>3, <1>6 DEF Taps
      <3> QED
        BY <1>3, <3>1 DEF RcInv, Changes, NoFlow
    <2>2. CASE op = "load"
      <3>1. ~Changes(f)'
        BY <1>1, <1>4, <2>2 DEF Changes
      <3> QED
        BY <1>3, <1>4, <2>1, <3>1, NobodyChanges
    <2>3. CASE op # "load"
      <3>1. \A g \in CardFlows : g # f => ~Changes(g)
        BY <1>6, <2>3 DEF Taps, Changes
      <3>2. HasDefault /\ DefaultListed /\ \A d \in Cards : attached[d] \in {0, customer}
        BY <2>1, <3>1, OnlookersKnow DEF CardsKnown, RcInv
      <3>3. HasDefault' /\ DefaultListed' /\ \A d \in Cards : attached'[d] \in {0, customer'}
        BY <1>3, <3>2 DEF HasDefault, DefaultListed, Listed
      <3>4. FlowKnows(f)'
        BY <1>1, <1>4 DEF FlowKnows, Removed
      <3> QED
        BY <1>4, <3>1, <3>3, <3>4, OneChanges
    <2> QED
      BY <2>2, <2>3
  <1> QED
    BY <1>3, <1>4, <1>5, <1>6 DEF RcInv

\* The screen reads the list, or a request dies.
LEMMA EndKeeps ==
  ASSUME RcInv, NEW f \in CardFlows, ListCards(f) \/ CardFlowDies(f) \/ CancelSheet(f)
  PROVE  RcInv'
  <1>1. /\ flow' = [flow EXCEPT ![f] = NoFlow]
        /\ UNCHANGED <<customer, default, customers, attached, entered, dropped, overlapped>>
    BY DEF ListCards, CardFlowDies, CancelSheet, Stops
  <1>2. /\ flow' \in [CardFlows -> FlowRow] /\ flow'[f] = NoFlow
        /\ \A g \in CardFlows : FlowShape(g)' /\ (g # f => flow'[g] = flow[g])
    BY <1>1, NoFlowIsRow, FlowsMove
  <1>3. shown' \in [cards : SUBSET Cards, default : 0..MaxCards]
    <2>1. Listed \subseteq Cards /\ InList(default) \in 0..MaxCards
      BY CardsAssumption DEF Listed, InList, Cards
    <2> QED
      BY <2>1 DEF ListCards, CardFlowDies, CancelSheet, RcInv, RcTypeOK
  <1>4. RcTypeOK'
    BY <1>1, <1>2, <1>3 DEF RcInv, RcTypeOK, FlowRow
  <1>5. faults' \in Nat /\ (faults' = 0 => faults = 0 /\ ~CardFlowDies(f))
    BY DEF RcInv, ListCards, CardFlowDies, CancelSheet, Fault
  <1>6. ASSUME faults' = 0, ~overlapped' PROVE CardsKnown'
    <2>1. CardsKnown /\ (ListCards(f) \/ CancelSheet(f))
      BY <1>1, <1>5, <1>6 DEF RcInv
    <2>2. ~Changes(f)'
      BY <1>2 DEF Changes, NoFlow
    <2>3. CASE ~Changes(f)
      BY <1>1, <1>2, <2>1, <2>2, <2>3, NobodyChanges
    <2>4. CASE Changes(f)
      <3>1. HasDefault /\ DefaultListed /\ \A c \in Cards : attached[c] \in {0, customer}
        BY <2>1, <2>4, Alone DEF ListCards, CancelSheet, Pending, Removed, CardsKnown
      <3>2. HasDefault' /\ DefaultListed' /\ \A c \in Cards : attached'[c] \in {0, customer'}
        BY <1>1, <3>1 DEF HasDefault, DefaultListed, Listed
      <3>3. FlowKnows(f)'
        BY <1>2 DEF FlowKnows, Removed, NoFlow
      <3> QED
        BY <1>2, <2>1, <2>4, <3>2, <3>3, Alone, OneChanges
    <2> QED
      BY <2>3, <2>4
  <1> QED
    BY <1>2, <1>4, <1>5, <1>6 DEF RcInv

-----------------------------------------------------------------------------
\* What a request that changes the cards does next.
LEMMA MoveKeeps ==
  ASSUME RcInv, NEW f \in CardFlows, NEW r \in FlowRow, RowShape(r),
         flow' = [flow EXCEPT ![f] = r], Changes(f),
         customer' \in 0..MaxCards, default' \in 0..MaxCards, customers' \in 0..MaxCards,
         attached' \in [Cards -> 0..MaxCards], entered' \in 0..MaxCards,
         shown' \in [cards : SUBSET Cards, default : 0..MaxCards], dropped' \in BOOLEAN,
         UNCHANGED <<overlapped, faults>>,
         CardsKnown /\ FlowKnows(f) /\ (HasDefault \/ Pending(f)) /\ (DefaultListed \/ Removed(f))
           => /\ FlowKnows(f)' /\ \A c \in Cards : attached'[c] \in {0, customer'}
              /\ (HasDefault' \/ Pending(f)') /\ (DefaultListed' \/ Removed(f)')
  PROVE  RcInv'
  <1>1. /\ flow' \in [CardFlows -> FlowRow] /\ flow'[f] = r
        /\ \A g \in CardFlows : FlowShape(g)' /\ (g # f => flow'[g] = flow[g])
    BY FlowsMove
  <1>2. RcTypeOK'
    BY <1>1 DEF RcInv, RcTypeOK, FlowRow
  <1>3. ASSUME faults' = 0, ~overlapped' PROVE CardsKnown'
    <2>1. CardsKnown
      BY <1>3 DEF RcInv
    <2> QED
      BY <1>1, <2>1, Alone, OneChanges
  <1> QED
    BY <1>1, <1>2, <1>3 DEF RcInv

\* The flow of a request that changes the cards, and what the types say of it.
LEMMA ChangingRow ==
  ASSUME RcInv, NEW f \in CardFlows, flow[f].at \notin {"idle", "list"}
  PROVE  Changes(f) /\ flow[f] \in FlowRow /\ RowShape(flow[f]) /\ RcTypeOK
  BY DEF RcInv, RcTypeOK, FlowRow, FlowShape, RowShape, Changes, NoFlow

LEMMA OwnerKeeps ==
  ASSUME RcInv, NEW f \in CardFlows, CheckOwner(f)
  PROVE  RcInv'
  <1>1. Changes(f) /\ flow[f] \in FlowRow /\ RowShape(flow[f]) /\ RcTypeOK
    BY ChangingRow DEF CheckOwner
  <1>2. UNCHANGED <<customer, default, customers, attached, entered, shown, dropped, overlapped,
                    faults>>
    BY DEF CheckOwner
  <1>3. (HasDefault' <=> HasDefault) /\ (DefaultListed' <=> DefaultListed) /\ Listed' = Listed
    BY <1>2 DEF HasDefault, DefaultListed, Listed
  <1>4. CASE flow[f].card \notin Listed
    <2>1. flow' = [flow EXCEPT ![f] = NoFlow]
      BY <1>4 DEF CheckOwner, Stops
    <2>2. flow'[f] = NoFlow
      BY <1>1, <2>1 DEF RcTypeOK
    <2>3. CardsKnown /\ FlowKnows(f) => ~Pending(f)
      BY <1>4 DEF FlowKnows, Pending, CheckOwner
    <2>4. FlowKnows(f)' /\ ~Removed(f)
      BY <2>2 DEF FlowKnows, Removed, NoFlow, CheckOwner
    <2> QED
      BY <1>1, <1>2, <1>3, <2>1, <2>3, <2>4, NoFlowIsRow, MoveKeeps DEF CardsKnown, RcTypeOK
  <1>5. CASE flow[f].card \in Listed
    <2> DEFINE r == [flow[f] EXCEPT !.at = IF flow[f].op = "remove" THEN "detach" ELSE "row",
                                    !.was = (default = flow[f].card)]
    <2>1. flow' = [flow EXCEPT ![f] = r]
      BY <1>1, <1>5 DEF CheckOwner, RcTypeOK
    <2>2. /\ r \in FlowRow /\ r.op = flow[f].op /\ r.card = flow[f].card
          /\ r.at = IF r.op = "remove" THEN "detach" ELSE "row"
          /\ r.was = (default = flow[f].card)
      BY <1>1 DEF FlowRow
    <2>3. RowShape(r) /\ ~Removed(f)
      <3> HIDE DEF r
      <3> QED
        BY <1>1, <2>2 DEF RowShape, NoFlow, CheckOwner, Removed, FlowRow
    <2> HIDE DEF r
    <2>4. flow'[f] = r
      BY <1>1, <2>1 DEF RcTypeOK
    <2>5. FlowKnows(f)'
      BY <1>2, <1>3, <1>5, <2>2, <2>4 DEF FlowKnows, Removed
    <2>6. Pending(f) => Pending(f)'
      BY <2>2, <2>4 DEF Pending
    <2> QED
      BY <1>1, <1>2, <1>3, <2>1, <2>2, <2>3, <2>5, <2>6, MoveKeeps DEF CardsKnown, RcTypeOK
  <1> QED
    BY <1>4, <1>5

LEMMA DefaultKeeps ==
  ASSUME RcInv, NEW f \in CardFlows, WriteDefault(f) \/ DefaultSet(f)
  PROVE  RcInv'
  <1>1. Changes(f) /\ flow[f] \in FlowRow /\ RowShape(flow[f]) /\ RcTypeOK
    BY ChangingRow DEF WriteDefault, DefaultSet
  <1>2. flow[f].card \in Cards /\ flow[f].card # 0
    BY <1>1, CardsAssumption DEF RowShape, NoFlow, Cards, WriteDefault, DefaultSet
  <1>3. CASE WriteDefault(f)
    <2> DEFINE r == [flow[f] EXCEPT !.at = "stripe"]
    <2>1. flow' = [flow EXCEPT ![f] = r]
      BY <1>1, <1>3 DEF WriteDefault, Turns, RcTypeOK
    <2>2. r \in FlowRow /\ r.op = flow[f].op /\ r.card = flow[f].card /\ r.at = "stripe"
      BY <1>1 DEF FlowRow
    <2>3. RowShape(r)
      <3> HIDE DEF r
      <3> QED
        BY <1>1, <1>3, <2>2 DEF RowShape, NoFlow, WriteDefault
    <2> HIDE DEF r
    <2>4. flow'[f] = r
      BY <1>1, <2>1 DEF RcTypeOK
    <2>5. FlowKnows(f)'
      BY <2>2, <2>4 DEF FlowKnows, Removed
    <2>6. FlowKnows(f) => HasDefault' /\ DefaultListed'
      BY <1>2, <1>3 DEF FlowKnows, WriteDefault, HasDefault, DefaultListed, Listed
    <2>7. UNCHANGED <<customer, customers, attached, entered, shown, overlapped, faults>>
          /\ default' \in 0..MaxCards /\ dropped' \in BOOLEAN
      BY <1>1, <1>3 DEF WriteDefault, FlowRow
    <2> QED
      BY <1>1, <2>1, <2>2, <2>3, <2>5, <2>6, <2>7, MoveKeeps DEF CardsKnown, RcTypeOK
  <1>4. CASE DefaultSet(f)
    <2> DEFINE r == IF flow[f].op = "add" THEN [flow[f] EXCEPT !.at = "list"] ELSE NoFlow
    <2>1. flow' = [flow EXCEPT ![f] = r]
      BY <1>1, <1>4 DEF DefaultSet, Turns, Stops, RcTypeOK
    <2>2. /\ r \in FlowRow /\ (r = NoFlow \/ (r.at = "list" /\ r.op = "add"))
          /\ RowShape(r)
      <3>1. CASE flow[f].op = "add"
        BY <1>1, <3>1 DEF FlowRow, RowShape
      <3>2. CASE flow[f].op # "add"
        BY <3>2, NoFlowIsRow
      <3> QED
        BY <3>1, <3>2
    <2> HIDE DEF r
    <2>3. flow'[f] = r
      BY <1>1, <2>1 DEF RcTypeOK
    <2>4. FlowKnows(f)' /\ ~Removed(f) /\ ~Pending(f)
      BY <1>4, <2>2, <2>3 DEF FlowKnows, Removed, Pending, DefaultSet, NoFlow
    <2>5. UNCHANGED <<customer, default, customers, attached, entered, dropped, overlapped, faults>>
      BY <1>4 DEF DefaultSet
    <2>6. shown' \in [cards : SUBSET Cards, default : 0..MaxCards]
      BY <1>1, <1>4 DEF DefaultSet, RcTypeOK, FlowRow
    <2>7. (HasDefault' <=> HasDefault) /\ (DefaultListed' <=> DefaultListed)
      BY <2>5 DEF HasDefault, DefaultListed, Listed
    <2> QED
      BY <1>1, <2>1, <2>2, <2>4, <2>5, <2>6, <2>7, MoveKeeps DEF CardsKnown, RcTypeOK
  <1> QED
    BY <1>3, <1>4

LEMMA RemoveKeeps ==
  ASSUME RcInv, NEW f \in CardFlows, Detach(f) \/ UnsetDefault(f)
  PROVE  RcInv'
  <1>1. Changes(f) /\ flow[f] \in FlowRow /\ RowShape(flow[f]) /\ RcTypeOK
    BY ChangingRow DEF Detach, UnsetDefault
  <1>2. flow[f].card \in Cards /\ flow[f].card # 0 /\ flow[f].op = "remove"
    BY <1>1, CardsAssumption DEF RowShape, NoFlow, Cards, Detach, UnsetDefault, FlowRow
  <1>3. shown' \in [cards : SUBSET Cards, default : 0..MaxCards]
    <2>1. [cards |-> shown.cards \ {flow[f].card},
           default |-> IF shown.default = flow[f].card THEN 0 ELSE shown.default]
            \in [cards : SUBSET Cards, default : 0..MaxCards]
      BY <1>1, CardsAssumption DEF RcTypeOK
    <2> QED
      BY <1>1, <2>1 DEF Detach, UnsetDefault, Hide, RcTypeOK
  <1>4. CASE Detach(f)
    <2> DEFINE r == IF flow[f].was THEN [flow[f] EXCEPT !.at = "unset"] ELSE NoFlow
    <2>1. flow' = [flow EXCEPT ![f] = r]
      BY <1>1, <1>4 DEF Detach, Turns, Stops, RcTypeOK
    <2>2. /\ r \in FlowRow /\ RowShape(r)
          /\ IF flow[f].was THEN r.at = "unset" /\ r.op = "remove" ELSE r = NoFlow
      <3>1. CASE flow[f].was
        BY <1>1, <1>2, <3>1 DEF FlowRow, RowShape
      <3>2. CASE ~flow[f].was
        BY <3>2, NoFlowIsRow
      <3> QED
        BY <3>1, <3>2
    <2> HIDE DEF r
    <2>3. flow'[f] = r
      BY <1>1, <2>1 DEF RcTypeOK
    <2>4. /\ UNCHANGED <<customer, default, customers, entered, dropped, overlapped, faults>>
          /\ attached' = [attached EXCEPT ![flow[f].card] = 0]
      BY <1>4 DEF Detach
    <2>5. /\ attached' \in [Cards -> 0..MaxCards]
          /\ \A c \in Cards : attached'[c] = IF c = flow[f].card THEN 0 ELSE attached[c]
      BY <1>1, <1>2, <2>4, CardsAssumption DEF RcTypeOK
    <2>6. Listed' = Listed \ {flow[f].card}
      BY <2>4, <2>5 DEF Listed
    <2>7. ~Pending(f) /\ ~Removed(f)
      BY <1>4 DEF Pending, Removed, Detach
    <2>8. ASSUME FlowKnows(f), HasDefault, DefaultListed
          PROVE  FlowKnows(f)' /\ HasDefault' /\ (DefaultListed' \/ Removed(f)')
      <3>1. flow[f].was <=> default = flow[f].card
        BY <1>4, <2>8 DEF FlowKnows, Detach
      <3>2. HasDefault'
        BY <2>4, <2>6, <2>8 DEF HasDefault
      <3>3. CASE flow[f].was
        BY <1>2, <2>2, <2>3, <2>4, <3>1, <3>2, <3>3 DEF FlowKnows, Removed
      <3>4. CASE ~flow[f].was
        <4>1. DefaultListed'
          BY <2>4, <2>6, <2>8, <3>1, <3>4 DEF DefaultListed
        <4>2. FlowKnows(f)'
          BY <2>2, <2>3, <3>4 DEF FlowKnows, Removed, NoFlow
        <4> QED
          BY <3>2, <4>1, <4>2
      <3> QED
        BY <3>3, <3>4
    <2>9. CardsKnown => \A c \in Cards : attached'[c] \in {0, customer'}
      BY <2>4, <2>5 DEF CardsKnown
    <2> QED
      BY <1>1, <1>3, <2>1, <2>2, <2>4, <2>5, <2>7, <2>8, <2>9, MoveKeeps DEF RcTypeOK
  <1>5. CASE UnsetDefault(f)
    <2>1. /\ flow' = [flow EXCEPT ![f] = NoFlow] /\ default' = 0 /\ dropped' = TRUE
          /\ UNCHANGED <<customer, customers, attached, entered, overlapped, faults>>
      BY <1>5 DEF UnsetDefault, Stops
    <2>2. flow'[f] = NoFlow
      BY <1>1, <2>1 DEF RcTypeOK
    <2>3. FlowKnows(f)' /\ HasDefault' /\ DefaultListed'
      BY <2>1, <2>2 DEF FlowKnows, Removed, NoFlow, HasDefault, DefaultListed
    <2>4. default' \in 0..MaxCards /\ dropped' \in BOOLEAN
      BY <2>1, CardsAssumption
    <2> QED
      BY <1>1, <1>3, <2>1, <2>3, <2>4, NoFlowIsRow, MoveKeeps DEF CardsKnown, RcTypeOK
  <1> QED
    BY <1>4, <1>5

-----------------------------------------------------------------------------
\* A first card: until the customer is linked there is none, and no card of it.
LEMMA CustomerKeeps ==
  ASSUME RcInv, NEW f \in CardFlows, ReadCustomer(f) \/ CreateCustomer(f) \/ LinkCustomer(f)
  PROVE  RcInv'
  <1>1. Changes(f) /\ flow[f] \in FlowRow /\ RowShape(flow[f]) /\ RcTypeOK
    BY ChangingRow DEF ReadCustomer, CreateCustomer, LinkCustomer
  <1>2. flow[f].op = "add" /\ ~Pending(f) /\ ~Removed(f)
    BY <1>1 DEF RowShape, NoFlow, ReadCustomer, CreateCustomer, LinkCustomer, Pending, Removed,
                FlowRow
  <1>3. CASE ReadCustomer(f)
    <2> DEFINE r == [flow[f] EXCEPT !.at = IF customer = 0 THEN "create" ELSE "sheet",
                                    !.owner = customer]
    <2>1. flow' = [flow EXCEPT ![f] = r]
      BY <1>1, <1>3 DEF ReadCustomer, RcTypeOK
    <2>2. /\ r \in FlowRow /\ r.op = "add" /\ r.owner = customer
          /\ r.at = IF customer = 0 THEN "create" ELSE "sheet"
      BY <1>1, <1>2 DEF FlowRow, RcTypeOK
    <2> HIDE DEF r
    <2>3. RowShape(r)
      BY <2>2 DEF RowShape
    <2>4. flow'[f] = r
      BY <1>1, <2>1 DEF RcTypeOK
    <2>5. UNCHANGED <<customer, default, customers, attached, entered, shown, dropped, overlapped,
                      faults>>
      BY <1>3 DEF ReadCustomer
    <2>6. FlowKnows(f)'
      BY <2>2, <2>4, <2>5 DEF FlowKnows, Removed
    <2>7. (HasDefault' <=> HasDefault) /\ (DefaultListed' <=> DefaultListed)
      BY <2>5 DEF HasDefault, DefaultListed, Listed
    <2> QED
      BY <1>1, <1>2, <2>1, <2>2, <2>3, <2>5, <2>6, <2>7, MoveKeeps DEF CardsKnown, RcTypeOK
  <1>4. CASE CreateCustomer(f)
    <2> DEFINE r == [flow[f] EXCEPT !.at = "link", !.owner = customers']
    <2>1. /\ flow' = [flow EXCEPT ![f] = r] /\ customers' = customers + 1
          /\ UNCHANGED <<customer, default, attached, entered, shown, dropped, overlapped, faults>>
      BY <1>1, <1>4 DEF CreateCustomer, RcTypeOK
    <2>2. customers' \in 0..MaxCards /\ customers' # 0
      BY <1>1, <1>4, CardsAssumption DEF CreateCustomer, RcTypeOK
    <2>3. r \in FlowRow /\ r.op = "add" /\ r.owner = customers' /\ r.at = "link"
      BY <1>1, <1>2, <2>2 DEF FlowRow
    <2> HIDE DEF r
    <2>4. RowShape(r) /\ flow'[f] = r
      BY <1>1, <2>1, <2>3 DEF RowShape, RcTypeOK
    <2>5. FlowKnows(f) => FlowKnows(f)'
      BY <1>4, <2>1, <2>2, <2>3, <2>4 DEF FlowKnows, Removed, CreateCustomer
    <2>6. (HasDefault' <=> HasDefault) /\ (DefaultListed' <=> DefaultListed)
      BY <2>1 DEF HasDefault, DefaultListed, Listed
    <2> QED
      BY <1>1, <1>2, <2>1, <2>2, <2>3, <2>4, <2>5, <2>6, MoveKeeps DEF CardsKnown, RcTypeOK
  <1>5. CASE LinkCustomer(f)
    <2> DEFINE r == [flow[f] EXCEPT !.at = "sheet"]
    <2>1. /\ flow' = [flow EXCEPT ![f] = r] /\ customer' = flow[f].owner
          /\ UNCHANGED <<default, customers, attached, entered, shown, dropped, overlapped, faults>>
      BY <1>1, <1>5 DEF LinkCustomer, Turns, RcTypeOK
    <2>2. r \in FlowRow /\ r.op = "add" /\ r.owner = flow[f].owner /\ r.at = "sheet"
      BY <1>1, <1>2 DEF FlowRow
    <2> HIDE DEF r
    <2>3. RowShape(r) /\ flow'[f] = r
      BY <1>1, <2>1, <2>2 DEF RowShape, RcTypeOK
    <2>4. customer' \in 0..MaxCards
      BY <1>1, <2>1 DEF FlowRow
    <2>5. ASSUME CardsKnown, FlowKnows(f), DefaultListed
          PROVE  /\ FlowKnows(f)' /\ HasDefault' /\ DefaultListed'
                 /\ \A c \in Cards : attached'[c] \in {0, customer'}
      <3>1. customer = 0 /\ customer' # 0 /\ customer' = flow'[f].owner
        BY <1>5, <2>1, <2>2, <2>3, <2>5 DEF FlowKnows, LinkCustomer
      <3>2. \A c \in Cards : attached'[c] = 0
        BY <2>1, <2>5, <3>1 DEF CardsKnown
      <3>3. Listed = {} /\ Listed' = {}
        BY <3>1, <3>2 DEF Listed
      <3> QED
        BY <2>1, <2>2, <2>3, <2>5, <3>1, <3>2, <3>3
        DEF FlowKnows, Removed, HasDefault, DefaultListed
    <2> QED
      BY <1>1, <1>2, <2>1, <2>2, <2>3, <2>4, <2>5, MoveKeeps DEF RcTypeOK
  <1> QED
    BY <1>3, <1>4, <1>5

\* A card comes, and the screen asks whether it needs a default.
LEMMA EnterKeeps ==
  ASSUME RcInv, NEW f \in CardFlows, EnterCard(f) \/ CheckDefault(f)
  PROVE  RcInv'
  <1>1. Changes(f) /\ flow[f] \in FlowRow /\ RowShape(flow[f]) /\ RcTypeOK
    BY ChangingRow DEF EnterCard, CheckDefault
  <1>2. flow[f].op = "add" /\ ~Removed(f)
    BY <1>1 DEF RowShape, NoFlow, EnterCard, CheckDefault, Removed, FlowRow
  <1>3. CASE EnterCard(f)
    <2> DEFINE r == [flow[f] EXCEPT !.at = "check"]
    <2>1. /\ flow' = [flow EXCEPT ![f] = r] /\ entered' = entered + 1
          /\ attached' = [attached EXCEPT ![entered'] = flow[f].owner]
          /\ UNCHANGED <<customer, default, customers, shown, dropped, overlapped, faults>>
      BY <1>1, <1>3 DEF EnterCard, Turns, RcTypeOK
    <2>2. r \in FlowRow /\ r.op = "add" /\ r.at = "check"
      BY <1>1, <1>2 DEF FlowRow
    <2> HIDE DEF r
    <2>3. RowShape(r) /\ flow'[f] = r
      BY <1>1, <2>1, <2>2 DEF RowShape, RcTypeOK
    <2>4. entered' \in 0..MaxCards /\ entered' \in Cards
      BY <1>1, <1>3, CardsAssumption DEF EnterCard, RcTypeOK, Cards
    <2>5. /\ attached' \in [Cards -> 0..MaxCards]
          /\ \A c \in Cards : attached'[c] = IF c = entered' THEN flow[f].owner ELSE attached[c]
      BY <1>1, <2>1, <2>4 DEF RcTypeOK, FlowRow
    <2>6. ASSUME CardsKnown, FlowKnows(f), DefaultListed
          PROVE  DefaultListed' /\ \A c \in Cards : attached'[c] \in {0, customer'}
      <3>1. flow[f].owner = customer /\ customer # 0
        BY <1>3, <2>6 DEF FlowKnows, EnterCard
      <3>2. Listed \subseteq Listed'
        BY <2>1, <2>5, <3>1 DEF Listed
      <3> QED
        BY <2>1, <2>5, <2>6, <3>1, <3>2 DEF DefaultListed, CardsKnown
    <2>7. FlowKnows(f)' /\ Pending(f)'
      BY <2>2, <2>3 DEF FlowKnows, Removed, Pending
    <2> QED
      BY <1>1, <1>2, <2>1, <2>2, <2>3, <2>4, <2>5, <2>6, <2>7, MoveKeeps DEF RcTypeOK
  <1>4. CASE CheckDefault(f)
    <2>1. /\ UNCHANGED <<customer, default, customers, attached, entered, shown, dropped,
                         overlapped, faults>>
          /\ Listed' = Listed
      BY <1>4 DEF CheckDefault, Listed
    <2>2. (HasDefault' <=> HasDefault) /\ (DefaultListed' <=> DefaultListed)
      BY <2>1 DEF HasDefault, DefaultListed
    <2>3. CASE NeedsDefault
      <3>1. PICK c \in Listed : flow' = [flow EXCEPT ![f].at = "owner", ![f].card = c]
        BY <1>4, <2>3 DEF CheckDefault
      <3> DEFINE r == [flow[f] EXCEPT !.at = "owner", !.card = c]
      <3>2. flow' = [flow EXCEPT ![f] = r]
        BY <1>1, <3>1 DEF RcTypeOK
      <3>3. c \in Cards /\ c \in 0..MaxCards
        BY CardsAssumption DEF Listed, Cards
      <3>4. r \in FlowRow /\ r.op = "add" /\ r.at = "owner" /\ r.card = c
        BY <1>1, <1>2, <3>3 DEF FlowRow
      <3> HIDE DEF r
      <3>5. RowShape(r) /\ flow'[f] = r
        BY <1>1, <3>2, <3>3, <3>4 DEF RowShape, RcTypeOK
      <3>6. FlowKnows(f)' /\ Pending(f)'
        BY <2>1, <3>4, <3>5 DEF FlowKnows, Removed, Pending
      <3> QED
        BY <1>1, <1>2, <2>1, <2>2, <3>2, <3>4, <3>5, <3>6, MoveKeeps DEF CardsKnown, RcTypeOK
    <2>4. CASE ~NeedsDefault
      <3> DEFINE r == [flow[f] EXCEPT !.at = "list"]
      <3>1. flow' = [flow EXCEPT ![f] = r]
        BY <1>1, <1>4, <2>4 DEF CheckDefault, Turns, RcTypeOK
      <3>2. r \in FlowRow /\ r.op = "add" /\ r.at = "list"
        BY <1>1, <1>2 DEF FlowRow
      <3> HIDE DEF r
      <3>3. RowShape(r) /\ flow'[f] = r
        BY <1>1, <3>1, <3>2 DEF RowShape, RcTypeOK
      <3>4. HasDefault'
        BY <2>1, <2>4, CardsAssumption DEF HasDefault, NeedsDefault, Listed, Cards
      <3>5. FlowKnows(f)'
        BY <3>2, <3>3 DEF FlowKnows, Removed
      <3> QED
        BY <1>1, <1>2, <2>1, <2>2, <3>1, <3>2, <3>3, <3>4, <3>5, MoveKeeps
        DEF CardsKnown, RcTypeOK
    <2> QED
      BY <2>3, <2>4
  <1> QED
    BY <1>3, <1>4

-----------------------------------------------------------------------------
THEOREM RcInvariantHolds == RcSpec => []RcInv
  <1>1. ASSUME RcInv, RcNext PROVE RcInv'
    <2>1. PICK f \in CardFlows :
            \/ OpenCards(f) \/ TapAddCard(f) \/ EnterCard(f) \/ CancelSheet(f) \/ CardStep(f)
            \/ CardFlowDies(f) \/ \E c \in Cards : TapDefault(f, c) \/ TapRemove(f, c)
      BY <1>1 DEF RcNext
    <2>2. CASE OpenCards(f)
      BY <1>1, <2>2, TapKeeps, CardsAssumption DEF OpenCards, RowShape
    <2>3. CASE TapAddCard(f)
      BY <1>1, <2>3, TapKeeps, CardsAssumption DEF TapAddCard, RowShape
    <2>4. ASSUME NEW c \in Cards, TapDefault(f, c) \/ TapRemove(f, c) PROVE RcInv'
      BY <1>1, <2>4, TapKeeps, CardsAssumption DEF TapDefault, TapRemove, RowShape, Cards
    <2>5. CASE CancelSheet(f) \/ CardFlowDies(f)
      BY <1>1, <2>5, EndKeeps
    <2>6. CASE EnterCard(f)
      BY <1>1, <2>6, EnterKeeps
    <2>7. CASE CardStep(f)
      BY <1>1, <2>7, EndKeeps, OwnerKeeps, DefaultKeeps, RemoveKeeps, CustomerKeeps, EnterKeeps
      DEF CardStep
    <2> QED
      BY <2>1, <2>2, <2>3, <2>4, <2>5, <2>6, <2>7
  <1>2. ASSUME RcInv, UNCHANGED <<rcVars, faults>> PROVE RcInv'
    BY <1>2
    DEF rcVars, RcInv, RcTypeOK, FlowShape, CardsKnown, Changes, FlowKnows, Removed, Pending,
        HasDefault, DefaultListed, Listed
  <1> QED
    BY <1>1, <1>2, RcInitHolds, PTL DEF RcSpec

\* The rider's row, Stripe's cards, the screen and the requests have their types.
THEOREM RcTypeCorrect == RcSpec => []RcTypeOK
  <1>1. RcInv => RcTypeOK
    BY DEF RcInv
  <1> QED
    BY <1>1, RcInvariantHolds, PTL

\* For any requests and cards: between requests one card of the rider is the
\* default, and only a card the customer has is, unless the default was removed,
\* two requests overlapped or one died (PaymentMethodsService).
THEOREM CardIsReady == RcSpec => []DefaultIsUsable
  <1>1. RcInv => DefaultIsUsable
    <2> SUFFICES ASSUME RcInv, \A f \in CardFlows : flow[f] = NoFlow, faults = 0, ~overlapped
                 PROVE  HasDefault /\ DefaultListed
      BY DEF DefaultIsUsable, HasDefault, DefaultListed
    <2>1. \A f \in CardFlows : ~Pending(f) /\ ~Removed(f)
      BY DEF Pending, Removed, NoFlow
    <2> QED
      BY <2>1 DEF RcInv, CardsKnown
  <1> QED
    BY <1>1, RcInvariantHolds, PTL

-----------------------------------------------------------------------------
(***************************************************************************)
(* RiderProfile, for any contacts, phones, places and faults               *)
(*                                                                         *)
(* The limit on contacts is read before the contact is written: an add     *)
(* that has counted owes a contact, and the contacts and those that are    *)
(* owed exceed the limit together by no more than adds have overlapped     *)
(* (ContactsOwed). The home is right because the store, the request and    *)
(* the row pass on the last place saved, as long as no reading overlaps a  *)
(* save.                                                                   *)
(***************************************************************************)

\* Every add that has counted still owes a contact.
ContactsOwed ==
  /\ IsFiniteSet(contacts)
  /\ Cardinality(contacts) + Cardinality(Creating) <= ContactLimit + overlapping

\* As long as no call died: the home of the rider is the last one saved, a reading
\* that no save overlapped brings it, and the store has it or none.
SavedIsHome ==
  /\ saving.at # "write" => homeRow = saving.place
  /\ saving.at = "write" => saving.place > 0
  /\ homeRow = 0 => homePlace = 0 /\ hydrating.place = 0
HomeIsShown ==
  /\ hydrating.at # "no" => saving.at = "no"
  /\ hydrating.at = "back" => hydrating.place = homeRow
  /\ saving.at = "no" /\ hydrating.at = "no" => homePlace \in {0, homeRow}

\* The inductive invariant.
RpInv ==
  /\ RpTypeOK /\ faults \in Nat /\ ContactsOwed
  /\ faults = 0 => SavedIsHome /\ (~late => HomeIsShown)

-----------------------------------------------------------------------------
\* The adds that have counted are finitely many.
LEMMA CreatingIsFinite == IsFiniteSet(Phones) /\ IsFiniteSet(Creating) /\ Cardinality(Creating) \in Nat
  <1>1. IsFiniteSet(Phones)
    <2>1. IsFiniteSet(Elsewhere \cup {"here"})
      BY ProfileAssumption, FS_AddElement
    <2>2. Phones = Elsewhere \cup {"here"}
      BY DEF Phones
    <2> QED
      BY <2>1, <2>2
  <1> QED
    BY <1>1, FS_Subset, FS_CardinalityType DEF Creating

LEMMA CreatingIsFiniteNext == IsFiniteSet(Creating') /\ Cardinality(Creating') \in Nat
  BY CreatingIsFinite, FS_Subset, FS_CardinalityType DEF Creating

LEMMA RpInitHolds == RpInit /\ faults = 0 => RpInv
  <1> SUFFICES ASSUME RpInit, faults = 0 PROVE RpInv
    OBVIOUS
  <1>1. RpTypeOK
    <2>1. /\ fetching \in [at : {"no", "read", "back"}, got : SUBSET Ids]
          /\ adding \in [Phones -> {"no", "count", "create"}]
      BY DEF RpInit, NotFetching
    <2>2. 0 \in 0..MaxContacts /\ 0 \in 0..MaxPlaces
      BY ProfileAssumption
    <2> QED
      BY <2>1, <2>2 DEF RpInit, RpTypeOK
  <1>2. ContactsOwed
    <2>1. Creating = {}
      BY DEF RpInit, Creating
    <2> QED
      BY <2>1, ProfileAssumption, FS_EmptySet DEF RpInit, ContactsOwed
  <1>3. SavedIsHome /\ HomeIsShown
    BY DEF RpInit, SavedIsHome, HomeIsShown
  <1> QED
    BY <1>1, <1>2, <1>3 DEF RpInv

\* The contacts move and the places rest, ...
LEMMA ContactsKeep ==
  ASSUME RpInv, ContactsNext
  PROVE  RpInv'
  <1>1. RpTypeOK /\ ContactsOwed /\ faults \in Nat
    BY DEF RpInv
  <1>2. UNCHANGED placeVars /\ faults' \in Nat /\ (faults' = 0 => faults = 0)
    BY <1>1
    DEF ContactsNext, FetchContacts, ListContacts, ShowContacts, ContactCallDies, TapAddContact,
        CountContacts, CreateContact, TapRemoveContact, RemoveContact, Fault
  <1>3. faults' = 0 => SavedIsHome' /\ (~late' => HomeIsShown')
    BY <1>2 DEF RpInv, SavedIsHome, HomeIsShown, placeVars
  <1>4. RpTypeOK'
    <2>1. CASE \E p \in Phones : TapAddContact(p) \/ CountContacts(p) \/ CreateContact(p)
      <3>1. PICK p \in Phones : TapAddContact(p) \/ CountContacts(p) \/ CreateContact(p)
        BY <2>1
      <3>2. adding' \in [Phones -> {"no", "count", "create"}]
        BY <1>1, <3>1 DEF TapAddContact, CountContacts, CreateContact, RpTypeOK
      <3>3. added' \in 0..MaxContacts /\ contacts' \subseteq Ids
        BY <1>1, <3>1, ProfileAssumption
        DEF TapAddContact, CountContacts, CreateContact, RpTypeOK, Ids
      <3>4. overlapping' \in Nat
        BY <1>1, <3>1, CreatingIsFinite DEF TapAddContact, CountContacts, CreateContact, RpTypeOK
      <3> QED
        BY <1>1, <1>2, <3>1, <3>2, <3>3, <3>4
        DEF TapAddContact, CountContacts, CreateContact, RpTypeOK, placeVars, NotFetching
    <2>2. CASE \E c \in Ids : TapRemoveContact(c) \/ \E ok \in BOOLEAN : RemoveContact(c, ok)
      BY <1>1, <1>2, <2>2 DEF TapRemoveContact, RemoveContact, RpTypeOK, placeVars
    <2>3. CASE FetchContacts \/ ListContacts \/ ShowContacts \/ ContactCallDies
      BY <1>1, <1>2, <2>3
      DEF FetchContacts, ListContacts, ShowContacts, ContactCallDies, RpTypeOK, placeVars,
          NotFetching
    <2> QED
      BY <2>1, <2>2, <2>3 DEF ContactsNext
  <1>5. ContactsOwed'
    <2>1. /\ IsFiniteSet(contacts) /\ Cardinality(contacts) \in Nat
          /\ IsFiniteSet(Creating) /\ Cardinality(Creating) \in Nat /\ Cardinality(Creating') \in Nat
          /\ overlapping \in Nat /\ ContactLimit \in Nat
          /\ Cardinality(contacts) + Cardinality(Creating) <= ContactLimit + overlapping
      BY <1>1, FS_CardinalityType, CreatingIsFinite, CreatingIsFiniteNext, ProfileAssumption
      DEF ContactsOwed, RpTypeOK
    <2>2. ASSUME NEW p \in Phones, CountContacts(p) PROVE ContactsOwed'
      <3>1. CASE AtLimit
        <4>1. Creating' = Creating
          BY <1>1, <2>2, <3>1 DEF CountContacts, Creating, RpTypeOK
        <4> QED
          BY <2>1, <2>2, <3>1, <4>1 DEF CountContacts, ContactsOwed
      <3>2. CASE ~AtLimit
        <4>1. Creating' = Creating \cup {p} /\ p \notin Creating
          BY <1>1, <2>2, <3>2 DEF CountContacts, Creating, RpTypeOK
        <4>2. Cardinality(Creating') = Cardinality(Creating) + 1
          BY <2>1, <4>1, FS_AddElement
        <4>3. overlapping' \in Nat /\ overlapping' >= Cardinality(Creating)
          BY <2>1, <2>2, <3>2 DEF CountContacts
        <4>4. Cardinality(contacts) < ContactLimit /\ UNCHANGED contacts
          BY <2>1, <2>2, <3>2 DEF CountContacts, AtLimit
        <4> QED
          BY <2>1, <4>2, <4>3, <4>4 DEF ContactsOwed
      <3> QED
        BY <3>1, <3>2
    <2>3. ASSUME NEW p \in Phones, CreateContact(p) PROVE ContactsOwed'
      <3>1. contacts' = contacts \cup {added'} /\ UNCHANGED overlapping
        BY <2>3 DEF CreateContact
      <3>2. IsFiniteSet(contacts') /\ Cardinality(contacts') <= Cardinality(contacts) + 1
        <4>1. /\ IsFiniteSet(contacts \cup {added'})
              /\ \/ Cardinality(contacts \cup {added'}) = Cardinality(contacts)
                 \/ Cardinality(contacts \cup {added'}) = Cardinality(contacts) + 1
          BY <2>1, FS_AddElement
        <4> QED
          BY <2>1, <3>1, <4>1
      <3>3. Cardinality(contacts') \in Nat
        BY <3>2, FS_CardinalityType
      <3>4. Creating' = Creating \ {p} /\ p \in Creating
        BY <1>1, <2>3 DEF CreateContact, Creating, RpTypeOK
      <3>5. Cardinality(Creating') = Cardinality(Creating) - 1
        BY <2>1, <3>4, FS_RemoveElement
      <3> QED
        BY <2>1, <3>1, <3>2, <3>3, <3>5 DEF ContactsOwed
    <2>4. ASSUME contacts' \subseteq contacts, Creating' \subseteq Creating, UNCHANGED overlapping
          PROVE  ContactsOwed'
      <3>1. IsFiniteSet(contacts') /\ Cardinality(contacts') <= Cardinality(contacts)
        BY <2>1, <2>4, FS_Subset
      <3>2. Cardinality(Creating') <= Cardinality(Creating)
        BY <2>1, <2>4, FS_Subset
      <3>3. Cardinality(contacts') \in Nat
        BY <3>1, FS_CardinalityType
      <3> QED
        BY <2>1, <2>4, <3>1, <3>2, <3>3 DEF ContactsOwed
    <2>5. CASE \/ FetchContacts \/ ListContacts \/ ShowContacts \/ ContactCallDies
               \/ \E p \in Phones : TapAddContact(p)
               \/ \E c \in Ids : TapRemoveContact(c) \/ \E ok \in BOOLEAN : RemoveContact(c, ok)
      <3>1. contacts' \subseteq contacts /\ UNCHANGED overlapping
        BY <2>5
        DEF FetchContacts, ListContacts, ShowContacts, ContactCallDies, TapAddContact,
            TapRemoveContact, RemoveContact
      <3>2. \A p \in Phones : adding'[p] = "create" => adding[p] = "create"
        BY <1>1, <2>5
        DEF FetchContacts, ListContacts, ShowContacts, ContactCallDies, TapAddContact,
            TapRemoveContact, RemoveContact, RpTypeOK
      <3> QED
        BY <2>4, <3>1, <3>2 DEF Creating
    <2> QED
      BY <2>2, <2>3, <2>5 DEF ContactsNext
  <1> QED
    BY <1>2, <1>3, <1>4, <1>5 DEF RpInv

\* ... or the other way round.
LEMMA PlacesKeep ==
  ASSUME RpInv, PlacesNext
  PROVE  RpInv'
  <1>1. RpTypeOK /\ ContactsOwed /\ faults \in Nat
    BY DEF RpInv
  <1>2. UNCHANGED contactVars /\ faults' \in Nat /\ (faults' = 0 => faults = 0)
    BY <1>1
    DEF PlacesNext, OpenPlaces, ReadProfile, Hydrate, SavePlace, SaveAddress, PlaceSaved,
        PlaceCallDies, Fault
  <1>3. ContactsOwed'
    BY <1>1, <1>2 DEF ContactsOwed, Creating, contactVars
  <1>4. RpTypeOK'
    <2>1. homeRow' \in 0..MaxPlaces /\ homePlace' \in 0..MaxPlaces /\ late' \in BOOLEAN
      BY <1>1
      DEF PlacesNext, OpenPlaces, ReadProfile, Hydrate, SavePlace, SaveAddress, PlaceSaved,
          PlaceCallDies, RpTypeOK
    <2>2. saving' \in [at : {"no", "write", "back"}, place : 0..MaxPlaces]
      BY <1>1, ProfileAssumption
      DEF PlacesNext, OpenPlaces, ReadProfile, Hydrate, SavePlace, SaveAddress, PlaceSaved,
          PlaceCallDies, RpTypeOK
    <2>3. hydrating' \in [at : {"no", "read", "back"}, place : 0..MaxPlaces]
      BY <1>1, ProfileAssumption
      DEF PlacesNext, OpenPlaces, ReadProfile, Hydrate, SavePlace, SaveAddress, PlaceSaved,
          PlaceCallDies, RpTypeOK
    <2> QED
      BY <1>1, <1>2, <2>1, <2>2, <2>3 DEF RpTypeOK, contactVars
  <1>5. faults' = 0 => SavedIsHome' /\ (~late' => HomeIsShown')
    <2> SUFFICES ASSUME faults' = 0 PROVE SavedIsHome' /\ (~late' => HomeIsShown')
      OBVIOUS
    <2>1. SavedIsHome /\ (~late => HomeIsShown) /\ ~PlaceCallDies
      BY <1>1, <1>2 DEF RpInv, PlaceCallDies, Fault
    <2>2. CASE OpenPlaces
      BY <1>1, <2>1, <2>2 DEF OpenPlaces, RpTypeOK, SavedIsHome, HomeIsShown
    <2>3. CASE ReadProfile
      BY <1>1, <2>1, <2>3 DEF ReadProfile, RpTypeOK, SavedIsHome, HomeIsShown
    <2>4. CASE Hydrate
      BY <1>1, <2>1, <2>4 DEF Hydrate, RpTypeOK, SavedIsHome, HomeIsShown
    <2>5. CASE SavePlace
      <3>1. saving.place \in Nat /\ hydrating \in [at : {"no", "read", "back"}, place : 0..MaxPlaces]
        BY <1>1, ProfileAssumption DEF RpTypeOK
      <3>2. SavedIsHome'
        BY <2>1, <2>5, <3>1 DEF SavePlace, SavedIsHome
      <3>3. ~late' => hydrating.at = "no"
        BY <2>5 DEF SavePlace
      <3> QED
        BY <2>5, <3>2, <3>3 DEF SavePlace, HomeIsShown
    <2>6. CASE SaveAddress
      BY <1>1, <2>1, <2>6, ProfileAssumption DEF SaveAddress, RpTypeOK, SavedIsHome, HomeIsShown
    <2>7. CASE PlaceSaved
      BY <1>1, <2>1, <2>7, ProfileAssumption DEF PlaceSaved, RpTypeOK, SavedIsHome, HomeIsShown
    <2> QED
      BY <2>1, <2>2, <2>3, <2>4, <2>5, <2>6, <2>7 DEF PlacesNext
  <1> QED
    BY <1>2, <1>3, <1>4, <1>5 DEF RpInv

-----------------------------------------------------------------------------
THEOREM RpInvariantHolds == RpSpec => []RpInv
  <1>1. RpInv /\ [ContactsNext \/ PlacesNext]_<<rpVars, faults>> => RpInv'
    <2>1. ASSUME RpInv, UNCHANGED <<rpVars, faults>> PROVE RpInv'
      BY <2>1 DEF RpInv, RpTypeOK, ContactsOwed, Creating, SavedIsHome, HomeIsShown, rpVars
    <2> QED
      BY <2>1, ContactsKeep, PlacesKeep
  <1> QED
    BY <1>1, RpInitHolds, PTL DEF RpSpec

\* The contacts, their screen, the calls and the places have their types.
THEOREM RpTypeCorrect == RpSpec => []RpTypeOK
  <1>1. RpInv => RpTypeOK
    BY DEF RpInv
  <1> QED
    BY <1>1, RpInvariantHolds, PTL

\* For any limit and any number of phones, contacts and places: adds of contacts that
\* do not overlap keep the limit, and those that do pass it by as many as overlapped and
\* no more; and at rest the app shows the home the server has, or none yet, unless a
\* save overlapped a reading of the profile (trusted-contacts.service.ts,
\* SavedPlacesScreen).
THEOREM ProfileIsTrue == RpSpec => []ProfileHolds
  <1>1. RpInv => ContactsBounded
    <2> SUFFICES ASSUME RpInv PROVE ContactsBounded
      OBVIOUS
    <2>1. Cardinality(contacts) \in Nat /\ overlapping \in Nat
      BY FS_CardinalityType DEF RpInv, ContactsOwed, RpTypeOK
    <2> QED
      BY <2>1, CreatingIsFinite, ProfileAssumption DEF RpInv, ContactsOwed, ContactsBounded
  <1>2. RpInv => PlaceFollows
    BY DEF RpInv, HomeIsShown, PlaceFollows
  <1>3. RpInv => ProfileHolds
    BY <1>1, <1>2 DEF ProfileHolds
  <1> QED
    BY <1>3, RpInvariantHolds, PTL

=============================================================================
