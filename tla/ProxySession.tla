---------------------------- MODULE ProxySession ----------------------------
(***************************************************************************)
(* The masked line between rider and driver of one trip: a Twilio Proxy    *)
(* session, its row in proxy_sessions and its copy in Redis, which every   *)
(* message and call goes by (proxy.service.ts).  The routes that open,     *)
(* extend and close it and Twilio's webhook interleave at their awaits.    *)
(*                                                                         *)
(* Twilio sessions are numbered; Twilio lets one of a name, that is of the *)
(* trip, exist at a time.                                                  *)
(***************************************************************************)
EXTENDS FaultBudget

CONSTANTS
  Callers,       \* requests at the service at a time
  MaxProxies,    \* bound: Twilio sessions created
  RateMax        \* SMS_MAX_PER_MINUTE
ASSUME LimitsAssumption == MaxProxies \in Nat /\ RateMax \in Nat

VARIABLES
  twilio,      \* the session that exists at Twilio, 0 if there is none
  proxies,     \* Twilio sessions created so far
  members,     \* participants added, per session
  proxyRow,    \* proxy_sessions: the session of the trip's row, its status
  cached,      \* proxy:session:trip:<id>: the session, 0 if there is none
  webhooks,    \* sessions Twilio has still to report as expired
  caller,      \* what each request is doing, and the session it holds
  rate,        \* proxy:sms_rate:<participant>: the counter
  rateEnds     \* that key has a time to live

pxVars == <<twilio, proxies, members, proxyRow, cached, webhooks, caller, rate, rateEnds>>
Counting == <<rate, rateEnds>>
Proxies == 1..MaxProxies
Both == {"rider", "driver"}
Resting == [op |-> "none", at |-> "none", sid |-> 0]

\* What a request may be doing.
Handlers ==
  [op : {"none", "create", "close", "extend", "expired", "sms"}, sid : 0..MaxProxies,
   at : {"none", "get", "twilio", "rider", "driver", "row", "cache", "rate", "window"}]

PxTypeOK ==
  /\ twilio \in 0..MaxProxies /\ proxies \in 0..MaxProxies /\ cached \in 0..MaxProxies
  /\ members \in [Proxies -> SUBSET Both] /\ webhooks \subseteq Proxies
  /\ proxyRow \in [sid : 0..MaxProxies, status : {"none", "active", "closed", "expired"}]
  /\ caller \in [Callers -> Handlers]
  /\ rate \in 0..(RateMax + 1) /\ rateEnds \in BOOLEAN

PxInit ==
  /\ twilio = 0 /\ proxies = 0 /\ members = [n \in Proxies |-> {}]
  /\ proxyRow = [sid |-> 0, status |-> "none"] /\ cached = 0 /\ webhooks = {}
  /\ caller = [c \in Callers |-> Resting] /\ rate = 0 /\ rateEnds = FALSE

-----------------------------------------------------------------------------
(* Requests                                                                 *)

Call(c, op, at) == caller[c].op = op /\ caller[c].at = at
Moves(c, at) == caller' = [caller EXCEPT ![c].at = at]
Holds(c, at, sid) == caller' = [caller EXCEPT ![c].at = at, ![c].sid = sid]
Leaves(c) == caller' = [caller EXCEPT ![c] = Resting]

Arrives(c, op) ==
  /\ caller[c] = Resting /\ caller' = [caller EXCEPT ![c] = [op |-> op, at |-> "get", sid |-> 0]]
  /\ UNCHANGED <<twilio, proxies, members, proxyRow, cached, webhooks, Counting, faults>>

\* Twilio reports the end of a session, as often as it has to.
ReportExpiry(c) ==
  /\ \E n \in webhooks : /\ caller[c] = Resting
                         /\ caller' = [caller EXCEPT ![c] = [op |-> "expired", at |-> "get", sid |-> n]]
  /\ UNCHANGED <<twilio, proxies, members, proxyRow, cached, webhooks, Counting, faults>>

CallerDies(c) ==
  /\ caller[c] # Resting /\ Leaves(c) /\ Fault
  /\ UNCHANGED <<twilio, proxies, members, proxyRow, cached, webhooks, Counting>>

\* Where a cached session is wanted and there is none: nothing to close or extend, and a
\* message is refused; one that is there keeps a second from being opened.
NextStep(op) == CASE op = "create" -> "twilio" [] op = "close" -> "twilio"
                  [] op = "extend" -> "cache" [] op = "sms" -> "rate"
GetCached(c) ==
  /\ caller[c].at = "get" /\ caller[c].op # "expired"
  /\ IF (caller[c].op = "create") = (cached = 0)
       THEN Holds(c, NextStep(caller[c].op), cached) ELSE Leaves(c)
  /\ UNCHANGED <<twilio, proxies, members, proxyRow, cached, webhooks, Counting, faults>>

-----------------------------------------------------------------------------
(* createSession                                                            *)

\* Twilio refuses a second session of the same name.
OpenTwilio(c) ==
  /\ Call(c, "create", "twilio")
  /\ IF twilio # 0 THEN Leaves(c) /\ UNCHANGED <<twilio, proxies>>
     ELSE /\ proxies < MaxProxies /\ proxies' = proxies + 1 /\ twilio' = proxies'
          /\ Holds(c, "rider", proxies')
  /\ UNCHANGED <<members, proxyRow, cached, webhooks, Counting, faults>>

\* The rider, then the driver; a session that has gone takes no participant.
AddMember(c, who) ==
  /\ Call(c, "create", who)
  /\ IF twilio = caller[c].sid
       THEN /\ members' = [members EXCEPT ![twilio] = @ \cup {who}]
            /\ Moves(c, IF who = "rider" THEN "driver" ELSE "row")
       ELSE Leaves(c) /\ UNCHANGED members
  /\ UNCHANGED <<twilio, proxies, proxyRow, cached, webhooks, Counting, faults>>

(* mutant: the row of an earlier session is replaced *)
RowReplaced == FALSE
\* A trip has one row, ever: a second session stays at Twilio and nowhere else.
RowTaken == proxyRow.sid # 0

WriteRow(c) ==
  /\ Call(c, "create", "row")
  /\ IF RowTaken THEN Leaves(c) /\ UNCHANGED proxyRow
     ELSE proxyRow' = [sid |-> caller[c].sid, status |-> "active"] /\ Moves(c, "cache")
  /\ UNCHANGED <<twilio, proxies, members, cached, webhooks, Counting, faults>>

CacheNew(c) ==
  /\ Call(c, "create", "cache") /\ cached' = caller[c].sid /\ Leaves(c)
  /\ UNCHANGED <<twilio, proxies, members, proxyRow, webhooks, Counting, faults>>

-----------------------------------------------------------------------------
(* closeSession, scheduleExpiry                                             *)

RemoveTwilio(c) ==
  /\ Call(c, "close", "twilio")
  /\ IF twilio = caller[c].sid THEN twilio' = 0 /\ Moves(c, "cache")
                               ELSE Leaves(c) /\ UNCHANGED twilio
  /\ UNCHANGED <<proxies, members, proxyRow, cached, webhooks, Counting, faults>>

\* The key goes by the trip, whichever session it holds.
Forget(c) ==
  /\ caller[c].op \in {"close", "expired"} /\ caller[c].at = "cache"
  /\ cached' = 0 /\ Moves(c, "row")
  /\ UNCHANGED <<twilio, proxies, members, proxyRow, webhooks, Counting, faults>>

CloseRow(c) ==
  /\ Call(c, "close", "row") /\ Leaves(c)
  /\ proxyRow' = IF proxyRow.status = "active" THEN [proxyRow EXCEPT !.status = "closed"]
                 ELSE proxyRow
  /\ UNCHANGED <<twilio, proxies, members, cached, webhooks, Counting, faults>>

\* The copy it read is written back, with a later end.
CacheAgain(c) ==
  /\ Call(c, "extend", "cache") /\ cached' = caller[c].sid /\ Moves(c, "twilio")
  /\ UNCHANGED <<twilio, proxies, members, proxyRow, webhooks, Counting, faults>>

\* Twilio's session, then the row, get the later end: neither is told apart here.
ExtendTwilio(c) ==
  /\ Call(c, "extend", "twilio") /\ Leaves(c)
  /\ UNCHANGED <<twilio, proxies, members, proxyRow, cached, webhooks, Counting, faults>>

-----------------------------------------------------------------------------
(* Ends that come by themselves                                             *)

TwilioExpires ==
  /\ twilio # 0 /\ twilio' = 0 /\ webhooks' = webhooks \cup {twilio}
  /\ UNCHANGED <<proxies, members, proxyRow, cached, caller, Counting, faults>>

CacheExpires ==
  /\ cached # 0 /\ cached' = 0
  /\ UNCHANGED <<twilio, proxies, members, proxyRow, webhooks, caller, Counting, faults>>

\* handleSessionExpiredWebhook: the row of that session, if there is one.
FindRow(c) ==
  /\ Call(c, "expired", "get")
  /\ IF proxyRow.sid = caller[c].sid THEN Moves(c, "cache") ELSE Leaves(c)
  /\ UNCHANGED <<twilio, proxies, members, proxyRow, cached, webhooks, Counting, faults>>

ExpireRow(c) ==
  /\ Call(c, "expired", "row") /\ Leaves(c) /\ webhooks' = webhooks \ {caller[c].sid}
  /\ proxyRow' = [proxyRow EXCEPT !.status = "expired"]
  /\ UNCHANGED <<twilio, proxies, members, cached, Counting, faults>>

-----------------------------------------------------------------------------
(* sendMaskedSms, and initiateCall up to the limit                          *)

\* enforceRateLimit counts, and gives the first count of a window its end.
CountSms(c) ==
  /\ Call(c, "sms", "rate") /\ rate' = IF rate > RateMax THEN rate ELSE rate + 1
  /\ IF rate = 0 THEN Moves(c, "window")
     ELSE IF rate' > RateMax THEN Leaves(c) ELSE Moves(c, "twilio")
  /\ UNCHANGED <<twilio, proxies, members, proxyRow, cached, webhooks, rateEnds, faults>>

SetWindow(c) ==
  /\ Call(c, "sms", "window") /\ Moves(c, "twilio") /\ rateEnds' = (rate # 0)
  /\ UNCHANGED <<twilio, proxies, members, proxyRow, cached, webhooks, rate, faults>>

WindowEnds ==
  /\ rateEnds /\ rate' = 0 /\ rateEnds' = FALSE
  /\ UNCHANGED <<twilio, proxies, members, proxyRow, cached, webhooks, caller, faults>>

\* Twilio takes the message or refuses it; either way it is logged.
SendSms(c) ==
  /\ Call(c, "sms", "twilio") /\ Leaves(c)
  /\ UNCHANGED <<twilio, proxies, members, proxyRow, cached, webhooks, Counting, faults>>

-----------------------------------------------------------------------------
PxStep(c) ==
  \/ GetCached(c) \/ OpenTwilio(c) \/ (\E who \in Both : AddMember(c, who)) \/ WriteRow(c)
  \/ CacheNew(c) \/ RemoveTwilio(c) \/ Forget(c) \/ CloseRow(c) \/ CacheAgain(c)
  \/ ExtendTwilio(c) \/ FindRow(c) \/ ExpireRow(c) \/ CountSms(c) \/ SetWindow(c) \/ SendSms(c)

PxNext ==
  \/ \E c \in Callers : PxStep(c) \/ CallerDies(c) \/ ReportExpiry(c)
       \/ \E op \in {"create", "close", "extend", "sms"} : Arrives(c, op)
  \/ TwilioExpires \/ CacheExpires \/ WindowEnds

\* The line of one trip by itself.
PxSpec == PxInit /\ faults = 0 /\ [][PxNext]_<<pxVars, faults>>

-----------------------------------------------------------------------------
\* A session that messages go by has both people on it and is the one on
\* record, so that Twilio's webhook finds it and can take it down: however two
\* calls that open it overlap, and wherever one of them dies (createSession).
CachedIsRecorded ==
  cached # 0 => members[cached] = Both /\ proxyRow.sid = cached
=============================================================================
