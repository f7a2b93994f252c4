---------------------------- MODULE SupportDesk ----------------------------
(***************************************************************************)
(* Support in the admin console: tickets (support.service.ts behind        *)
(* support.controller.ts) and the refunds of one completed trip            *)
(* (refunds.service.ts, refunds/page.tsx).  The fare is in units of which  *)
(* an admin refunds one or more; the refunds table is kept as what its     *)
(* rows, which nothing changes or deletes, add up to.                      *)
(***************************************************************************)
EXTENDS FaultBudget, FiniteSets

CONSTANTS
  Clerks,       \* admins at work
  RefundCap,    \* REFUND_CAPS, by the role each of them has: zero for most
  FinalFare,    \* the fare of the trip
  MaxTickets,   \* bound: tickets written
  MaxTasks,     \* bound: what the admins do to tickets
  MaxRefunds    \* bound: refunds asked for

ASSUME SupportAssumption ==
  /\ FinalFare \in Nat /\ RefundCap \in [Clerks -> Nat]
  /\ MaxTickets \in Nat /\ MaxTasks \in Nat /\ MaxRefunds \in Nat

VARIABLES
  ticket,      \* support_tickets
  tasks,       \* handlers of an admin's request on a ticket, under way
  tasksBegun,  \* their number so far
  logged,      \* the tasks with a row in audit_logs
  ended,       \* the tasks that wrote the ticket and came to their end
  form,        \* per clerk, the refund form: closed, open, or sent
  issuing,     \* handlers of a refund under way, with the total they read
  refunds,     \* the refunds table: the total of its amounts
  refundsBegun,
  overlapped   \* one refund was decided while another was

sdVars == <<ticket, tasks, tasksBegun, logged, ended, form, issuing, refunds, refundsBegun,
            overlapped>>
Tickets == <<ticket, tasks, tasksBegun, logged, ended>>
Refunds == <<form, issuing, refunds, refundsBegun, overlapped>>
Statuses == {"open", "in_review", "waiting_on_user", "resolved", "escalated", "closed"}
NoTicket == [status |-> "none", safety |-> FALSE, urgent |-> FALSE]
Begun(t) == ticket[t].status # "none"

SdTypeOK ==
  /\ ticket \in [1..MaxTickets -> [status : {"none"} \cup Statuses, safety : BOOLEAN,
                                   urgent : BOOLEAN]]
  /\ tasks \subseteq [n : 1..MaxTasks, op : {"assign", "status", "escalate", "note"},
                      ticket : 1..MaxTickets, to : Statuses,
                      at : {"write", "note", "log"}]
  /\ tasksBegun \in 0..MaxTasks /\ logged \subseteq ended /\ ended \subseteq 1..MaxTasks
  /\ form \in [Clerks -> {"closed", "open", "sent"}]
  /\ issuing \subseteq [n : 1..MaxRefunds, clerk : Clerks, amount : 1..FinalFare,
                        at : {"read", "write", "done", "refused"}, total : Nat]
  /\ refunds \in Nat /\ refundsBegun \in 0..MaxRefunds
  /\ overlapped \in BOOLEAN

SdInit ==
  /\ ticket = [t \in 1..MaxTickets |-> NoTicket]
  /\ tasks = {} /\ tasksBegun = 0 /\ logged = {} /\ ended = {}
  /\ form = [a \in Clerks |-> "closed"] /\ issuing = {} /\ refundsBegun = 0
  /\ refunds = 0 /\ overlapped = FALSE

-----------------------------------------------------------------------------
(* Tickets                                                                  *)

\* createTicket: a safety ticket is escalated and urgent whatever was asked for.
CreateTicket(t, safety, urgent) ==
  /\ ~Begun(t) /\ (\A u \in 1..(t - 1) : Begun(u))
  /\ ticket' = [ticket EXCEPT ![t] =
       [status |-> IF safety THEN "escalated" ELSE "open", safety |-> safety,
        urgent |-> safety \/ urgent]]
  /\ UNCHANGED <<tasks, tasksBegun, logged, ended, Refunds, faults>>

\* requireTicket
Begin(op, t, to) ==
  /\ Begun(t) /\ tasksBegun < MaxTasks /\ tasksBegun' = tasksBegun + 1
  /\ tasks' = tasks \cup {[n |-> tasksBegun', op |-> op, ticket |-> t, to |-> to,
                           at |-> IF op = "note" THEN "note" ELSE "write"]}
  /\ UNCHANGED <<ticket, logged, ended, Refunds, faults>>

AssignTicket(t) == Begin("assign", t, "in_review")
UpdateStatus(t, to) == Begin("status", t, to)
EscalateTicket(t) == Begin("escalate", t, "escalated")
AddNote(t) == Begin("note", t, ticket[t].status)

TaskGoes(k, at) == tasks' = (tasks \ {k}) \cup {[k EXCEPT !.at = at]}
TaskEnds(k) ==
  tasks' = tasks \ {k} /\ ended' = IF k.op = "note" THEN ended ELSE ended \cup {k.n}

\* By id, whatever the status was.
WriteTicket(k) ==
  /\ k.at = "write" /\ TaskGoes(k, IF k.op = "escalate" THEN "note" ELSE "log")
  /\ ticket' = [ticket EXCEPT ![k.ticket].status = k.to,
                              ![k.ticket].urgent = @ \/ k.op = "escalate"]
  /\ UNCHANGED <<tasksBegun, logged, ended, Refunds, faults>>

\* What AdminSessionGuard attaches to the request, and the admin the controller
\* reads from it: a row without one is refused by the database.
TokenPayload == {"sub", "email", "role"}
KnowsAdmin == "id" \in TokenPayload

\* A note of its own, or the reason of an escalation.  An error ends the handler.
WriteNote(k) ==
  /\ k.at = "note"
  /\ IF KnowsAdmin /\ k.op = "escalate" THEN TaskGoes(k, "log") /\ UNCHANGED ended ELSE TaskEnds(k)
  /\ UNCHANGED <<ticket, tasksBegun, logged, Refunds, faults>>

WriteLog(k) ==
  /\ k.at = "log" /\ TaskEnds(k)
  /\ logged' = IF KnowsAdmin THEN logged \cup {k.n} ELSE logged
  /\ UNCHANGED <<ticket, tasksBegun, Refunds, faults>>

\* The process dies between two of them.
TaskDies(k) ==
  /\ tasks' = tasks \ {k} /\ Fault
  /\ UNCHANGED <<ticket, tasksBegun, logged, ended, Refunds>>

-----------------------------------------------------------------------------
(* Refunds                                                                  *)

OpenForm(a) ==
  /\ form[a] = "closed" /\ form' = [form EXCEPT ![a] = "open"]
  /\ UNCHANGED <<Tickets, issuing, refunds, refundsBegun, overlapped, faults>>

\* Cancel closes the form of a request under way too.
CloseForm(a) ==
  /\ form[a] # "closed" /\ form' = [form EXCEPT ![a] = "closed"]
  /\ UNCHANGED <<Tickets, issuing, refunds, refundsBegun, overlapped, faults>>

\* The button waits for its last request.
SendRefund(a, amount) ==
  /\ form[a] = "open" /\ ~(\E r \in issuing : r.clerk = a) /\ refundsBegun < MaxRefunds
  /\ refundsBegun' = refundsBegun + 1 /\ form' = [form EXCEPT ![a] = "sent"]
  /\ issuing' = issuing \cup {[n |-> refundsBegun', clerk |-> a, amount |-> amount,
                               at |-> "read", total |-> 0]}
  /\ UNCHANGED <<Tickets, refunds, overlapped, faults>>

\* The cap of the role, the trip, and what it was refunded before.
ReadRefunds(r) ==
  /\ r.at = "read"
  /\ issuing' = (issuing \ {r}) \cup
       {[r EXCEPT !.at = IF r.amount > RefundCap[r.clerk] THEN "refused" ELSE "write",
                  !.total = refunds]}
  /\ overlapped' = (overlapped \/ \E o \in issuing : o.at = "write")
  /\ UNCHANGED <<Tickets, form, refunds, refundsBegun, faults>>

(* mutant: what was refunded before does not count *)
AmountFits(r) == r.amount <= FinalFare
WithinFare(r) == r.total + r.amount <= FinalFare

CreateRefund(r) ==
  /\ r.at = "write"
  /\ issuing' = (issuing \ {r}) \cup {[r EXCEPT !.at = IF WithinFare(r) THEN "done" ELSE "refused"]}
  /\ refunds' = IF WithinFare(r) THEN refunds + r.amount ELSE refunds
  /\ UNCHANGED <<Tickets, form, refundsBegun, overlapped, faults>>

\* Done, the form closes; refused, it shows why.
RefundAnswered(r) ==
  /\ r.at \in {"done", "refused"} /\ issuing' = issuing \ {r}
  /\ form' = [form EXCEPT ![r.clerk] =
       IF r.at = "done" THEN "closed" ELSE IF @ = "sent" THEN "open" ELSE @]
  /\ UNCHANGED <<Tickets, refunds, refundsBegun, overlapped, faults>>

\* The request dies, or its answer is lost: the form is there to send again.
RefundLost(r) ==
  /\ issuing' = issuing \ {r} /\ Fault
  /\ form' = [form EXCEPT ![r.clerk] = IF @ = "sent" THEN "open" ELSE @]
  /\ UNCHANGED <<Tickets, refunds, refundsBegun, overlapped>>

-----------------------------------------------------------------------------
TicketsNext ==
  \/ \E t \in 1..MaxTickets, safety, urgent \in BOOLEAN : CreateTicket(t, safety, urgent)
  \/ \E t \in 1..MaxTickets : AssignTicket(t) \/ EscalateTicket(t) \/ AddNote(t)
  \/ \E t \in 1..MaxTickets, to \in Statuses : UpdateStatus(t, to)
  \/ \E k \in tasks : WriteTicket(k) \/ WriteNote(k) \/ WriteLog(k) \/ TaskDies(k)
RefundsNext ==
  \/ \E a \in Clerks : OpenForm(a) \/ CloseForm(a)
  \/ \E a \in Clerks, amount \in 1..FinalFare : SendRefund(a, amount)
  \/ \E r \in issuing : ReadRefunds(r) \/ CreateRefund(r) \/ RefundAnswered(r) \/ RefundLost(r)

SdSpec == SdInit /\ faults = 0 /\ [][TicketsNext \/ RefundsNext]_<<sdVars, faults>>

-----------------------------------------------------------------------------
\* What a trip is refunded stays within its fare, however often a lost answer makes
\* an admin send a refund again, unless one is decided while another is: the total
\* is read before the row is written (issueRefund).
RefundsWithinFare == ~overlapped => refunds <= FinalFare

\* What an admin changed on a ticket is in the audit log, once the handler came to its
\* end (design/07-admin-command-center-part1.md: every write action writes to audit_logs).
TicketActionsAudited == ended \subseteq logged
=============================================================================
