----------------------------- MODULE SafetyDesk -----------------------------
(***************************************************************************)
(* The Safety Incident Center of the admin app: the page polls three       *)
(* queues (SOS, panic, route deviations) through the admin app's routes    *)
(* and safety-admin.controller.ts, and the answers of overlapping polls    *)
(* are put on the page in any order.                                       *)
(*                                                                         *)
(* Of an SOS event only its row counts here; how it comes about is the     *)
(* module SosAlert.  A queue is the set of its rows.  The deviations only  *)
(* count as a request that may fail; the filter by risk, the SLA clock and *)
(* the layout of the page are left out.                                    *)
(***************************************************************************)
EXTENDS FaultBudget, FiniteSets

CONSTANTS
  QueueTake,     \* rows an answer holds
  MaxAlarms,     \* bound: SOS events, and panics
  Slots,         \* polls under way at a time
  MaxVisits      \* bound: times the page is opened

VARIABLES
  deskPage,     \* closed, loading (no poll has ended yet) or shown
  visits,       \* times it was opened
  polls,        \* per slot: whether a poll is under way, the queues still to be
                \* answered, the answers
  shown,        \* the queues the page shows
  detail,       \* the SOS in the detail panel, a copy; 0 when there is none
  sosStatus,    \* sos_events.status, in the order of their numbers
  panicked      \* panic_events so far, numbered

deskVars == <<deskPage, visits, polls, shown, detail, sosStatus, panicked>>
Alarms == 1..MaxAlarms
Queues == {"sos", "panic"}
NoRows == [q \in Queues |-> {}]
NoPoll == [on |-> FALSE, left |-> Queues, rows |-> NoRows]
NewPoll == [NoPoll EXCEPT !.on = TRUE]
NoPolls == [k \in Slots |-> NoPoll]
Begins(k) == ~polls[k].on /\ polls' = [polls EXCEPT ![k] = NewPoll]
PollOver(k) == polls[k].on /\ polls' = [polls EXCEPT ![k] = NoPoll]

DeskTypeOK ==
  /\ deskPage \in {"closed", "loading", "shown"} /\ visits \in 0..MaxVisits
  /\ \A k \in Slots : polls[k].left \subseteq Queues /\ DOMAIN polls[k].rows = Queues
  /\ DOMAIN shown = Queues /\ detail \in 0..MaxAlarms
  /\ sosStatus \in [Alarms -> {"none", "active", "false_alarm"}] /\ panicked \in 0..MaxAlarms

DeskInit ==
  /\ deskPage = "closed" /\ visits = 0 /\ polls = NoPolls /\ shown = NoRows /\ detail = 0
  /\ sosStatus = [s \in Alarms |-> "none"] /\ panicked = 0

-----------------------------------------------------------------------------
(* What the queues hold                                                     *)

\* The newest rows of a numbered table: orderBy createdAt desc, take.
NewestRows(ids) == {i \in ids : Cardinality({j \in ids : j > i}) < QueueTake}

ActiveSos == NewestRows({s \in Alarms : sosStatus[s] = "active"})

\* A panic is in the queue while no admin has it, and none can take it.
OpenPanics == NewestRows(1..panicked)

Queue(q) == IF q = "sos" THEN ActiveSos ELSE OpenPanics

deskScreen == <<deskPage, visits, polls, shown, detail>>

\* initiateSos, cancelSos and triggerPanic.
SosRaised(s) ==
  /\ sosStatus[s] = "none" /\ \A t \in Alarms : t < s => sosStatus[t] # "none"
  /\ sosStatus' = [sosStatus EXCEPT ![s] = "active"]
  /\ UNCHANGED <<deskScreen, panicked, faults>>

SosCalledOff(s) ==
  /\ sosStatus[s] = "active" /\ sosStatus' = [sosStatus EXCEPT ![s] = "false_alarm"]
  /\ UNCHANGED <<deskScreen, panicked, faults>>

TriggerPanic ==
  /\ panicked < MaxAlarms /\ panicked' = panicked + 1
  /\ UNCHANGED <<deskScreen, sosStatus, faults>>

-----------------------------------------------------------------------------
(* The page                                                                 *)

deskRest == <<sosStatus, panicked>>

OpenDesk ==
  /\ deskPage = "closed" /\ visits < MaxVisits /\ visits' = visits + 1
  /\ deskPage' = "loading" /\ shown' = NoRows /\ \E k \in Slots : Begins(k)
  /\ UNCHANGED <<deskRest, detail, faults>>

\* What is under way when the page goes changes nothing any more.
CloseDesk ==
  /\ deskPage # "closed" /\ deskPage' = "closed"
  /\ polls' = NoPolls /\ shown' = NoRows /\ detail' = 0
  /\ UNCHANGED <<deskRest, visits, faults>>

(* mutant: the page asks when it opens, and not again *)
PollsOnce == deskPage = "loading"
PollDue == deskPage # "closed"

Poll(k) ==
  /\ PollDue /\ Begins(k)
  /\ UNCHANGED <<deskRest, deskPage, visits, shown, detail, faults>>

\* The requests are answered one by one.  An error answer of the admin
\* app is no array, and the page takes it for an empty queue.
Answered(k, q, rows) ==
  /\ polls[k].on /\ q \in polls[k].left
  /\ polls' = [polls EXCEPT ![k].left = @ \ {q}, ![k].rows[q] = rows]
  /\ UNCHANGED <<deskRest, deskPage, visits, shown, detail>>

QueueRead(k, q) == Answered(k, q, Queue(q)) /\ NoFault
QueueRefused(k, q) == Answered(k, q, {}) /\ Fault

\* One request that fails outright ends the poll and leaves the page as it was.
PollFails(k) ==
  /\ PollOver(k) /\ deskPage' = "shown" /\ Fault
  /\ UNCHANGED <<deskRest, visits, shown, detail>>

ShowQueues(k) ==
  /\ PollOver(k) /\ polls[k].left = {} /\ shown' = polls[k].rows /\ deskPage' = "shown"
  /\ UNCHANGED <<deskRest, visits, detail, faults>>

OpenDetail(s) ==
  /\ s \in shown["sos"] /\ detail = 0 /\ detail' = s
  /\ UNCHANGED <<deskRest, deskPage, visits, polls, shown, faults>>

CloseDetail ==
  /\ detail # 0 /\ detail' = 0
  /\ UNCHANGED <<deskRest, deskPage, visits, polls, shown, faults>>

\* An assignment writes the id of the event where an admin's belongs: the
\* database refuses it for an SOS, and a panic is no SOS event.  A resolution
\* has no route.  The rows stay as they are, and once it is answered, whatever
\* the answer, the page reads them again.
Assign(k) ==
  /\ shown["sos"] \cup shown["panic"] # {} /\ Begins(k)
  /\ UNCHANGED <<deskRest, deskPage, visits, shown, detail, faults>>

Resolve(k) ==
  /\ detail # 0 /\ detail' = 0 /\ Begins(k)
  /\ UNCHANGED <<deskRest, deskPage, visits, shown, faults>>

-----------------------------------------------------------------------------
PollStep(k) == ShowQueues(k) \/ \E q \in Queues : QueueRead(k, q)

DeskNext ==
  \/ TriggerPanic \/ \E s \in Alarms : SosRaised(s) \/ SosCalledOff(s) \/ OpenDetail(s)
  \/ OpenDesk \/ CloseDesk \/ CloseDetail
  \/ \E k \in Slots : Poll(k) \/ PollStep(k) \/ PollFails(k)
                     \/ Assign(k) \/ Resolve(k)
                     \/ \E q \in Queues : QueueRefused(k, q)

-----------------------------------------------------------------------------
\* An admin who keeps the page open comes to see the alarms its queues answer, the
\* newest QueueTake active SOS and the newest QueueTake panics, and none that is called
\* off: neither a lost answer, nor one that reports an error, nor an old answer put up
\* after a newer one is there for good, however the polls overlap (safety/page.tsx,
\* fetchAll).
AlarmsStaySeen == <>[](deskPage # "closed" => \A q \in Queues : shown[q] = Queue(q))

\* "Panic Events Active (n)", "SOS Queue (n active)" (safety/page.tsx:131, :167): the
\* same for every alarm that is open. The lists are of the newest `take: 50` only
\* (safety-admin.controller.ts:18, :48), and nothing takes a panic off its list.
OpenAlarms == [sos |-> {s \in Alarms : sosStatus[s] = "active"}, panic |-> 1..panicked]
NoAlarmLeftOut ==
  <>[](deskPage # "closed" => \A q \in Queues : OpenAlarms[q] \subseteq shown[q])
=============================================================================
