-------------------------- MODULE DriverOnboarding --------------------------
(***************************************************************************)
(* One driver's application: the handlers of driver-service the driver app *)
(* calls, the administrators' page and the reports Checkr sends.           *)
(*                                                                         *)
(* A handler is one action per await.  What it read before an await is in  *)
(* obCall[c]: c is "app" (the driver's one call at a time), an             *)
(* administrator or a delivery of a Checkr event.                          *)
(***************************************************************************)
EXTENDS FaultBudget, FiniteSets

CONSTANTS
  Papers,        \* the documents every driver must upload
  Admins,        \* administrators at work on this driver
  Hooks,         \* deliveries of Checkr events in flight
  MaxReports,    \* bound: reports ordered at Checkr
  MaxEvents      \* bound: events Checkr sends about them all
ASSUME ReportsAssumption == MaxReports \in Nat

VARIABLES
  driverRow,     \* the drivers row
  papers,        \* documents.status by type
  car,           \* the driver's vehicle, active as soon as it is added
  reports,       \* reports ordered at Checkr
  sentReports,   \* the events Checkr sent
  claimedReports,\* those whose id is in Redis (checkr:event:<id>)
  obCall

obVars == <<driverRow, papers, car, reports, sentReports, claimedReports,
            obCall>>
driverSide == <<driverRow, papers, car>>
checkrSide == <<reports, sentReports>>

ObCallers == {"app"} \cup Admins \cup Hooks
ObSteps == {"personal_info", "document_upload", "background_check", "vehicle_info",
          "vehicle_inspection", "bank_account", "complete"}
DriverStatuses == {"pending", "under_review", "action_required", "approved",
             "declined", "suspended"}
Outcomes == {"clear", "consider", "suspended"}
CheckrEvent == [report : 1..MaxReports, outcome : Outcomes]
NoObCall == [op |-> "none"]
ObIdle(c) == obCall[c] = NoObCall
ObBegin(c, r) == obCall' = [obCall EXCEPT ![c] = r]
ObDone(c) == obCall' = [obCall EXCEPT ![c] = NoObCall]
ObAt(c, op) == obCall[c].op = op

\* A call, with what it read before the await it is in.
ObCalls ==
  [op : {"none", "info", "order", "upload", "advance", "approve", "inspected", "flag"}]
  \cup [op : {"confirm", "car", "carStep"}, due : BOOLEAN]
  \cup [op : {"store"}, report : 1..MaxReports]
  \cup [op : {"look"}, event : CheckrEvent]
  \cup [op : {"apply"}, event : CheckrEvent, mayClear : BOOLEAN]

ObTypeOK ==
  /\ driverRow \in [status : DriverStatuses, step : ObSteps, report : 0..MaxReports,
                    bg : {"not_started", "pending", "clear", "consider", "adverse_action"},
                    insured : BOOLEAN]
  /\ papers \in [Papers -> {"none", "pending", "approved", "rejected"}]
  /\ car \in {"none", "active"}
  /\ reports \in 0..MaxReports
  /\ sentReports \subseteq CheckrEvent /\ claimedReports \subseteq sentReports
  /\ obCall \in [ObCallers -> ObCalls]

ObInit ==
  /\ driverRow = [status |-> "pending", step |-> "personal_info", report |-> 0,
                  bg |-> "not_started", insured |-> FALSE]
  /\ papers = [p \in Papers |-> "none"]
  /\ car = "none"
  /\ reports = 0 /\ sentReports = {} /\ claimedReports = {}
  /\ obCall = [c \in ObCallers |-> NoObCall]

-----------------------------------------------------------------------------
(* The driver's calls                                                      *)

\* The screens in their order, by the step that resumes on them.
ScreenOf == [personal_info |-> 0, document_upload |-> 1, background_check |-> 2,
             vehicle_info |-> 3, vehicle_inspection |-> 4, bank_account |-> 4,
             complete |-> 5]

\* The app bounces a driver back from a screen ahead of the step on the server;
\* earlier screens may be visited again.
Reached(step) ==
  driverRow.status = "approved" \/ ScreenOf[step] <= ScreenOf[driverRow.step]

SubmitInfoRead ==
  /\ ObIdle("app") /\ driverRow.status = "pending"
  /\ ObBegin("app", [op |-> "info"])
  /\ UNCHANGED <<driverSide, checkrSide, claimedReports, faults>>

SubmitInfoWrite ==
  /\ ObAt("app", "info") /\ ObDone("app")
  /\ driverRow' = [driverRow EXCEPT !.step = "document_upload", !.insured = TRUE]
  /\ UNCHANGED <<papers, car, checkrSide, claimedReports, faults>>

\* Asking for an upload URL already makes the document pending again.
UploadUrl(p) ==
  /\ ObIdle("app") /\ Reached("document_upload")
  /\ papers' = [papers EXCEPT ![p] = "pending"]
  /\ ObBegin("app", [op |-> "upload"])
  /\ UNCHANGED <<driverRow, car, checkrSide, claimedReports, faults>>

\* A call dies at any of its awaits: S3, Checkr or the database fails.
AppDies ==
  /\ ~ObIdle("app") /\ ObDone("app") /\ Fault
  /\ UNCHANGED <<driverSide, checkrSide, claimedReports>>

ConfirmRead ==
  /\ ObAt("app", "upload")
  /\ ObBegin("app", [op |-> "confirm", due |-> driverRow.step = "document_upload"])
  /\ UNCHANGED <<driverSide, checkrSide, claimedReports, faults>>

AllSubmitted == \A p \in Papers : papers[p] \in {"pending", "approved"}

ConfirmCheck ==
  /\ ObAt("app", "confirm")
  /\ IF AllSubmitted /\ obCall["app"].due
       THEN ObBegin("app", [op |-> "advance"])
       ELSE ObDone("app")
  /\ UNCHANGED <<driverSide, checkrSide, claimedReports, faults>>

ConfirmWrite ==
  /\ ObAt("app", "advance") /\ ObDone("app")
  /\ driverRow' = [driverRow EXCEPT !.step = "background_check", !.status = "under_review"]
  /\ UNCHANGED <<papers, car, checkrSide, claimedReports, faults>>

RequestCheckRead ==
  /\ ObIdle("app") /\ Reached("background_check") /\ driverRow.bg = "not_started"
  /\ ObBegin("app", [op |-> "order"])
  /\ UNCHANGED <<driverSide, checkrSide, claimedReports, faults>>

\* Candidate and report are created at Checkr before anything is stored here.
OrderReport ==
  /\ ObAt("app", "order") /\ reports < MaxReports
  /\ reports' = reports + 1
  /\ ObBegin("app", [op |-> "store", report |-> reports + 1])
  /\ UNCHANGED <<driverSide, sentReports, claimedReports, faults>>

StoreReport ==
  /\ ObAt("app", "store") /\ ObDone("app")
  /\ driverRow' = [driverRow EXCEPT !.report = obCall["app"].report, !.bg = "pending",
                                    !.step = "vehicle_info"]
  /\ UNCHANGED <<papers, car, checkrSide, claimedReports, faults>>

AddVehicleRead ==
  /\ ObIdle("app") /\ Reached("vehicle_info") /\ car = "none"
  /\ ObBegin("app", [op |-> "car", due |-> driverRow.step = "vehicle_info"])
  /\ UNCHANGED <<driverSide, checkrSide, claimedReports, faults>>

\* A new vehicle is active before anybody inspected it.
AddVehicle ==
  /\ ObAt("app", "car") /\ ObBegin("app", [obCall["app"] EXCEPT !.op = "carStep"])
  /\ car' = "active"
  /\ UNCHANGED <<driverRow, papers, checkrSide, claimedReports, faults>>

AddVehicleStep ==
  /\ ObAt("app", "carStep") /\ ObDone("app")
  /\ driverRow' = IF ~obCall["app"].due THEN driverRow
                  ELSE [driverRow EXCEPT !.step = "vehicle_inspection"]
  /\ UNCHANGED <<papers, car, checkrSide, claimedReports, faults>>

-----------------------------------------------------------------------------
(* The administrators                                                      *)

(* mutant: the gate forgets the background check *)
LaxGate(row) ==
  /\ \A p \in Papers : papers[p] = "approved"
  /\ car = "active" /\ row.insured

\* computeMissingRequirements finds nothing missing.
RequirementsMet(row) ==
  /\ \A p \in Papers : papers[p] = "approved"
  /\ row.bg = "clear"
  /\ car = "active" /\ row.insured

ApproveRead(a) ==
  /\ ObIdle(a)
  /\ driverRow.status # "approved" /\ RequirementsMet(driverRow)
  /\ ObBegin(a, [op |-> "approve"])
  /\ UNCHANGED <<driverSide, checkrSide, claimedReports, faults>>

ApproveWrite(a) ==
  /\ ObAt(a, "approve") /\ ObDone(a)
  /\ driverRow' = [driverRow EXCEPT !.status = "approved", !.step = "complete"]
  /\ UNCHANGED <<papers, car, checkrSide, claimedReports, faults>>

DeclineDriver(a) ==
  /\ ObIdle(a)
  /\ driverRow' = [driverRow EXCEPT !.status = "declined"]
  /\ UNCHANGED <<papers, car, checkrSide, claimedReports, obCall, faults>>

\* Suspension is an endpoint without a button.
SuspendByAdmin(a) ==
  /\ ObIdle(a)
  /\ driverRow' = [driverRow EXCEPT !.status = "suspended"]
  /\ UNCHANGED <<papers, car, checkrSide, claimedReports, obCall, faults>>

\* A review writes the record of the type, whichever upload it now stands for.
ReviewDocument(a, p, decision) ==
  /\ ObIdle(a) /\ papers[p] # "none"
  /\ papers' = [papers EXCEPT ![p] = decision]
  /\ IF decision = "rejected" THEN ObBegin(a, [op |-> "flag"]) ELSE UNCHANGED obCall
  /\ UNCHANGED <<driverRow, car, checkrSide, claimedReports, faults>>

FlagDriver(a) ==
  /\ ObAt(a, "flag") /\ ObDone(a)
  /\ driverRow' = [driverRow EXCEPT !.status = "action_required"]
  /\ UNCHANGED <<papers, car, checkrSide, claimedReports, faults>>

\* An inspection, passed or failed, leaves the vehicle active.
ApproveInspection(a) ==
  /\ ObIdle(a) /\ car = "active"
  /\ ObBegin(a, [op |-> "inspected"])
  /\ UNCHANGED <<driverSide, checkrSide, claimedReports, faults>>

InspectionStep(a) ==
  /\ ObAt(a, "inspected") /\ ObDone(a)
  /\ driverRow' = IF driverRow.step # "vehicle_inspection" THEN driverRow
                  ELSE [driverRow EXCEPT !.step = "bank_account"]
  /\ UNCHANGED <<papers, car, checkrSide, claimedReports, faults>>

-----------------------------------------------------------------------------
(* Checkr                                                                  *)

\* A report completes, and may later be updated with another outcome.
ReportDecided(r, o) ==
  /\ r <= reports /\ [report |-> r, outcome |-> o] \notin sentReports
  /\ Cardinality(sentReports) < MaxEvents
  /\ \A e \in sentReports : e.report = r => e \in claimedReports
  /\ sentReports' = sentReports \cup {[report |-> r, outcome |-> o]}
  /\ UNCHANGED <<driverSide, reports, claimedReports, obCall, faults>>

\* An event is claimed before it is applied.
ClaimReport(h, e) ==
  /\ ObIdle(h) /\ e \in sentReports \ claimedReports
  /\ claimedReports' = claimedReports \cup {e}
  /\ ObBegin(h, [op |-> "look", event |-> e])
  /\ UNCHANGED <<driverSide, checkrSide, faults>>

(* mutant: a driver who was asked for another document cannot be approved  *)
FewApproveable == {"pending", "under_review"}
Approveable == {"pending", "under_review", "action_required"}

\* The driver is found by the report its row points to, if any.
FindDriver(h) ==
  /\ ObAt(h, "look")
  /\ IF driverRow.report = obCall[h].event.report
       THEN ObBegin(h, [op |-> "apply", event |-> obCall[h].event, mayClear |-> driverRow.status \in Approveable])
       ELSE ObDone(h)
  /\ UNCHANGED <<driverSide, checkrSide, claimedReports, faults>>

ApplyReport(h) ==
  /\ ObAt(h, "apply") /\ ObDone(h)
  /\ driverRow' =
       CASE obCall[h].event.outcome = "clear" ->
              IF obCall[h].mayClear
                THEN [driverRow EXCEPT !.bg = "clear", !.status = "approved", !.step = "complete"]
                ELSE driverRow
         [] obCall[h].event.outcome = "consider" -> [driverRow EXCEPT !.bg = "consider"]
         [] OTHER -> [driverRow EXCEPT !.bg = "adverse_action", !.status = "suspended"]
  /\ UNCHANGED <<papers, car, checkrSide, claimedReports, faults>>

HookDies(h) ==
  /\ ~ObIdle(h) /\ ObDone(h) /\ Fault
  /\ UNCHANGED <<driverSide, checkrSide, claimedReports>>

-----------------------------------------------------------------------------
ObAppStep ==
  \/ SubmitInfoWrite \/ ConfirmRead \/ ConfirmCheck \/ ConfirmWrite
  \/ OrderReport \/ StoreReport \/ AddVehicle \/ AddVehicleStep
HookStep(h) == FindDriver(h) \/ ApplyReport(h)
AdminStep(a) == ApproveWrite(a) \/ FlagDriver(a) \/ InspectionStep(a)
AdminDecides(a) == ApproveRead(a) \/ DeclineDriver(a)
AdminReviews(a) == \E p \in Papers, d \in {"approved", "rejected"} : ReviewDocument(a, p, d)
AdminBegins(a) ==
  AdminDecides(a) \/ AdminReviews(a) \/ SuspendByAdmin(a) \/ ApproveInspection(a)

ObNext ==
  \/ SubmitInfoRead \/ RequestCheckRead \/ AddVehicleRead \/ ObAppStep \/ AppDies
  \/ \E p \in Papers : UploadUrl(p)
  \/ \E a \in Admins : AdminBegins(a) \/ AdminStep(a)
  \/ \E r \in 1..MaxReports, o \in Outcomes : ReportDecided(r, o)
  \/ \E h \in Hooks : HookStep(h) \/ HookDies(h) \/ \E e \in CheckrEvent : ClaimReport(h, e)

\* The application by itself.
ObSpec == ObInit /\ faults = 0 /\ [][ObNext]_<<obVars, faults>>

-----------------------------------------------------------------------------
\* An approved driver was cleared: some report on them came back clear and was
\* taken up.  Approval comes from an administrator's reading of the row or from
\* the event itself, and nothing that happens in between undoes the clearance
\* that either relied on.
ApprovedWasCleared ==
  driverRow.status = "approved" => \E e \in claimedReports : e.outcome = "clear"

\* Unless a delivery dies, the outcome of the report the row points to reaches
\* the row, if it is sent while the row points to it: the claim is taken before
\* the driver is looked up, so an event is never heard twice.  A driver who was
\* declined or suspended meanwhile is left alone.
CheckIsHeard ==
  (driverRow.bg = "pending"
     /\ \E e \in sentReports \ claimedReports : e.report = driverRow.report)
    ~> (driverRow.bg # "pending" \/ driverRow.status \in {"declined", "suspended"}
          \/ faults > 0)
=============================================================================
