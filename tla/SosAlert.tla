------------------------------ MODULE SosAlert ------------------------------
(***************************************************************************)
(* Emergencies on one ride: the SOS screen of the rider app, the handlers  *)
(* of safety-service behind it (initiateSos, confirmSos, cancelSos).       *)
(* The requests of the screen are taken to reach the handlers of their     *)
(* name: the service has no route for them yet.                            *)
(*                                                                         *)
(* SOS events are numbered in the order the rider begins them.  The        *)
(* countdown of a screen goes on when the screen is closed.                *)
(***************************************************************************)
EXTENDS FaultBudget, FiniteSets

CONSTANT MaxSos     \* bound: SOS events begun

VARIABLES
  sosScreen,    \* the screen: closed, or its phase, and the event it began
  begun,        \* events begun so far
  ticking,      \* countdowns running on the phone
  sosKnown,     \* events whose id has reached the screen that began them
  sosCalls,     \* requests at safety-service, with what they read
  sosRow,       \* sos_events
  countdown,    \* sos:countdown:<id> exists
  sosState,     \* safety_sessions.current_state
  recorded,     \* events with a safety recording
  alerted,      \* events the administrators were told of
  contacted,    \* events the trusted contacts were told of
  sosCancelled, \* events the rider cancelled on the phone
  slaColumn     \* sos_events has a column for the deadline that initiateSos writes
                \* into it; schema.prisma gives one to safety_sessions alone

sosVars == <<sosScreen, begun, ticking, sosKnown, sosCalls, sosRow, countdown, sosState,
             recorded, alerted, contacted, sosCancelled, slaColumn>>
sosPhone == <<sosScreen, begun, ticking, sosKnown, sosCancelled>>
sosSide == <<recorded, alerted, contacted, slaColumn>>
SosIds == 1..MaxSos
SosCall(op, at, s) == [op |-> op, at |-> at, sos |-> s, confirmed |-> FALSE]
SosClosed == [phase |-> "closed", sos |-> 0]

SosTypeOK ==
  /\ sosScreen \in [phase : {"closed", "confirm", "countdown", "active"}, sos : 0..MaxSos]
  /\ begun \in 0..MaxSos
  /\ ticking \subseteq SosIds /\ sosKnown \subseteq SosIds /\ countdown \subseteq SosIds
  /\ recorded \subseteq SosIds /\ alerted \subseteq SosIds /\ contacted \subseteq SosIds
  /\ sosCancelled \subseteq SosIds
  /\ sosCalls \subseteq [op : {"initiate", "confirm", "cancel"}, sos : SosIds,
                         at : {"read", "check", "write", "session", "record", "clear", "answer"},
                         confirmed : BOOLEAN]
  /\ sosRow \in [SosIds -> [status : {"none", "active", "false_alarm"}, confirmed : BOOLEAN]]
  /\ sosState \in {"normal", "sos_active"} /\ slaColumn \in BOOLEAN

SosInit ==
  /\ sosScreen = SosClosed /\ begun = 0 /\ ticking = {} /\ sosKnown = {} /\ sosCalls = {}
  /\ sosRow = [s \in SosIds |-> [status |-> "none", confirmed |-> FALSE]]
  /\ countdown = {} /\ sosState = "normal" /\ sosCancelled = {}
  /\ recorded = {} /\ alerted = {} /\ contacted = {} /\ slaColumn \in BOOLEAN

SosGoes(c, at) == sosCalls' = (sosCalls \ {c}) \cup {[c EXCEPT !.at = at]}
SosEnds(c) == sosCalls' = sosCalls \ {c}

-----------------------------------------------------------------------------
(* The screen                                                               *)

OpenSos ==
  /\ sosScreen = SosClosed /\ sosScreen' = [phase |-> "confirm", sos |-> 0]
  /\ UNCHANGED <<begun, ticking, sosKnown, sosCalls, sosRow, countdown, sosState, sosSide,
                 sosCancelled, faults>>

CloseSos ==
  /\ sosScreen # SosClosed /\ sosScreen' = SosClosed
  /\ UNCHANGED <<begun, ticking, sosKnown, sosCalls, sosRow, countdown, sosState, sosSide,
                 sosCancelled, faults>>

BeginSos ==
  /\ sosScreen.phase = "confirm" /\ begun < MaxSos /\ begun' = begun + 1
  /\ sosScreen' = [phase |-> "countdown", sos |-> begun']
  /\ sosCalls' = sosCalls \cup {SosCall("initiate", "write", begun')}
  /\ UNCHANGED <<ticking, sosKnown, sosRow, countdown, sosState, sosSide, sosCancelled, faults>>

\* The answer starts the countdown, whether or not the screen is still there.
InitiateAnswered(c) ==
  /\ c.op = "initiate" /\ c.at = "answer" /\ SosEnds(c)
  /\ ticking' = ticking \cup {c.sos}
  /\ sosKnown' = IF sosScreen.sos = c.sos THEN sosKnown \cup {c.sos} ELSE sosKnown
  /\ UNCHANGED <<sosScreen, begun, sosRow, countdown, sosState, sosSide, sosCancelled, faults>>

CountdownEnds(s) ==
  /\ s \in ticking /\ ticking' = ticking \ {s}
  /\ sosCalls' = sosCalls \cup {SosCall("confirm", "read", s)}
  /\ UNCHANGED <<sosScreen, begun, sosKnown, sosRow, countdown, sosState, sosSide,
                 sosCancelled, faults>>

ConfirmAnswered(c) ==
  /\ c.op = "confirm" /\ c.at = "answer" /\ SosEnds(c)
  /\ sosScreen' = IF sosScreen.sos = c.sos THEN [sosScreen EXCEPT !.phase = "active"]
                  ELSE sosScreen
  /\ UNCHANGED <<begun, ticking, sosKnown, sosRow, countdown, sosState, sosSide,
                 sosCancelled, faults>>

\* CANCEL stops the countdown and asks the server, if it knows the event yet.
TapCancel ==
  LET s == sosScreen.sos IN
  /\ sosScreen.phase = "countdown" /\ s \notin sosCancelled
  /\ sosCancelled' = sosCancelled \cup {s}
  /\ IF s \in sosKnown
       THEN /\ ticking' = ticking \ {s}
            /\ sosCalls' = sosCalls \cup {SosCall("cancel", "read", s)}
            /\ UNCHANGED sosScreen
       ELSE sosScreen' = SosClosed /\ UNCHANGED <<ticking, sosCalls>>
  /\ UNCHANGED <<begun, sosKnown, sosRow, countdown, sosState, sosSide, faults>>

\* Answered or refused, the screen closes.
CancelAnswered(c) ==
  /\ c.op = "cancel" /\ c.at = "answer" /\ SosEnds(c)
  /\ sosScreen' = IF sosScreen.sos = c.sos THEN SosClosed ELSE sosScreen
  /\ UNCHANGED <<begun, ticking, sosKnown, sosRow, countdown, sosState, sosSide,
                 sosCancelled, faults>>

\* A request fails.  Only the first one brings the screen back; a confirmation
\* that failed leaves the countdown at zero.
SosFails(c) ==
  /\ SosEnds(c)
  /\ sosScreen' = IF sosScreen.sos # c.sos THEN sosScreen
                  ELSE CASE c.op = "initiate" -> [phase |-> "confirm", sos |-> 0]
                         [] c.op = "cancel" -> SosClosed
                         [] OTHER -> sosScreen

\* The process or the connection dies at one of the awaits.
SosRequestDies(c) ==
  /\ SosFails(c) /\ Fault
  /\ UNCHANGED <<begun, ticking, sosKnown, sosRow, countdown, sosState, sosSide, sosCancelled>>

-----------------------------------------------------------------------------
(* safety-service                                                           *)

\* initiateSos: the event, its countdown key, the session, the alert.
CreateSos(c) ==
  /\ c.op = "initiate" /\ c.at = "write" /\ slaColumn /\ SosGoes(c, "session")
  /\ sosRow' = [sosRow EXCEPT ![c.sos].status = "active"]
  /\ countdown' = countdown \cup {c.sos}
  /\ UNCHANGED <<sosPhone, sosState, sosSide, faults>>

\* The database client refuses a row with a field its schema does not have.
SosRefused(c) ==
  /\ c.op = "initiate" /\ c.at = "write" /\ ~slaColumn /\ SosFails(c)
  /\ UNCHANGED <<begun, ticking, sosKnown, sosRow, countdown, sosState, sosSide,
                 sosCancelled, faults>>

AlertAdmins(c) ==
  /\ c.op = "initiate" /\ c.at = "session" /\ SosGoes(c, "answer")
  /\ sosState' = "sos_active" /\ alerted' = alerted \cup {c.sos}
  /\ UNCHANGED <<sosPhone, sosRow, countdown, recorded, contacted, slaColumn, faults>>

(* mutant: an event whose countdown key is gone counts as given up *)
CountdownRuns(s) == sosRow[s].status = "active" /\ s \in countdown
Confirmable(s) == sosRow[s].status = "active"

ConfirmRead(c) ==
  /\ c.op = "confirm" /\ c.at = "read"
  /\ IF Confirmable(c.sos) THEN SosGoes(c, "write") ELSE SosEnds(c)
  /\ UNCHANGED <<sosPhone, sosRow, countdown, sosState, sosSide, faults>>

ConfirmWrite(c) ==
  /\ c.op = "confirm" /\ c.at = "write" /\ SosGoes(c, "record")
  /\ sosRow' = [sosRow EXCEPT ![c.sos].confirmed = TRUE]
  /\ UNCHANGED <<sosPhone, countdown, sosState, sosSide, faults>>

\* notifyTrustedContacts; failing to reach them is logged.
ReachContacts(s, reached) ==
  IF reached THEN contacted' = contacted \cup {s} /\ NoFault ELSE UNCHANGED contacted /\ Fault

\* A recording row, then the trusted contacts.
ConfirmRecord(c, reached) ==
  /\ c.op = "confirm" /\ c.at = "record" /\ SosGoes(c, "clear")
  /\ recorded' = recorded \cup {c.sos} /\ ReachContacts(c.sos, reached)
  /\ UNCHANGED <<sosPhone, sosRow, countdown, sosState, alerted, slaColumn>>

ConfirmClear(c) ==
  /\ c.op = "confirm" /\ c.at = "clear" /\ SosGoes(c, "answer")
  /\ countdown' = countdown \ {c.sos}
  /\ UNCHANGED <<sosPhone, sosRow, sosState, sosSide, faults>>

CancelRead(c) ==
  /\ c.op = "cancel" /\ c.at = "read"
  /\ sosCalls' = (sosCalls \ {c})
       \cup {[c EXCEPT !.at = "check", !.confirmed = sosRow[c.sos].confirmed]}
  /\ UNCHANGED <<sosPhone, sosRow, countdown, sosState, sosSide, faults>>

\* Refused only if the key is gone and the row read before was confirmed.
CancelCheck(c) ==
  /\ c.op = "cancel" /\ c.at = "check"
  /\ SosGoes(c, IF c.sos \notin countdown /\ c.confirmed THEN "answer" ELSE "write")
  /\ UNCHANGED <<sosPhone, sosRow, countdown, sosState, sosSide, faults>>

CancelWrite(c) ==
  /\ c.op = "cancel" /\ c.at = "write" /\ SosGoes(c, "session")
  /\ sosRow' = [sosRow EXCEPT ![c.sos].status = "false_alarm"]
  /\ UNCHANGED <<sosPhone, countdown, sosState, sosSide, faults>>

\* The session is normal again, whatever else is active on it.
CancelSession(c) ==
  /\ c.op = "cancel" /\ c.at = "session" /\ SosGoes(c, "answer")
  /\ sosState' = "normal" /\ countdown' = countdown \ {c.sos}
  /\ UNCHANGED <<sosPhone, sosRow, sosSide, faults>>

\* Two seconds after the countdown of the phone.
CountdownLapses(s) ==
  /\ s \in countdown /\ countdown' = countdown \ {s}
  /\ UNCHANGED <<sosPhone, sosCalls, sosRow, sosState, sosSide, faults>>

-----------------------------------------------------------------------------
SosStep(c) ==
  \/ CreateSos(c) \/ SosRefused(c) \/ AlertAdmins(c) \/ ConfirmRead(c) \/ ConfirmWrite(c)
  \/ (\E reached \in BOOLEAN : ConfirmRecord(c, reached)) \/ ConfirmClear(c)
  \/ CancelRead(c) \/ CancelCheck(c) \/ CancelWrite(c) \/ CancelSession(c)
  \/ InitiateAnswered(c) \/ ConfirmAnswered(c) \/ CancelAnswered(c)

SosNext ==
  \/ OpenSos \/ CloseSos \/ BeginSos \/ TapCancel
  \/ \E c \in sosCalls : SosStep(c) \/ SosRequestDies(c)
  \/ \E s \in SosIds : CountdownEnds(s) \/ CountdownLapses(s)

-----------------------------------------------------------------------------
HelpAwaited(s) == /\ sosRow[s].status = "active" /\ s \notin contacted
              /\ s \notin sosCancelled /\ faults = 0

\* An SOS the rider does not cancel ends with the trusted contacts told, even
\* if the screen is closed or the countdown key is gone when the confirmation
\* arrives, unless a request is lost (SosScreen.tsx, confirmSos).
HelpIsCalled ==
  (\E s \in SosIds : HelpAwaited(s)) ~> (\A s \in SosIds : ~HelpAwaited(s))

\* Every SOS a rider begins reaches the administrators, unless the rider cancels
\* it or a request is lost ("SOS overrides AI and goes directly to admin",
\* safety.service.ts).
Raised(s) == s \in alerted \cup sosCancelled \/ faults # 0
SosIsRaised == (\E s \in 1..begun : ~Raised(s)) ~> (\A s \in 1..begun : Raised(s))
=============================================================================
