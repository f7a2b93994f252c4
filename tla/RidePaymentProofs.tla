--------------------------- MODULE RidePaymentProofs ---------------------------
(***************************************************************************)
(* Machine-checked facts about RidePayment, for every fare, any number of  *)
(* calls in flight and any number of faults.                               *)
(*                                                                         *)
(* The safety properties follow from one inductive invariant, IInv:        *)
(* they hold because whatever is still on its way, an event Stripe emitted *)
(* or a call with an answer to write, already agrees with the intent       *)
(* (EventTrue, CallTrue), and because nothing Stripe does later takes that *)
(* truth back (Forward): a settled intent stays settled, a refund total    *)
(* only grows.                                                             *)
(***************************************************************************)
EXTENDS RidePayment, TLAPS

EventsTrue == \A e \in sent : EventTrue(e)
CallsTrue == \A c \in Calls : CallTrue(call[c])
RowTrue == StatusMatchesStripe /\ RefundNeverOverstated /\ RowSane
LedgerOnce == LedgerBookedOnce /\ LedgerTrue
Books == IntentSane /\ EventsTrue /\ CallsTrue /\ RowTrue /\ LedgerOnce

\* The inductive invariant in the parts the proofs work on.
LEMMA IInvParts == IInv <=> TypeOK /\ Books
  BY DEF IInv, Books, EventsTrue, CallsTrue, RowTrue, LedgerOnce

-----------------------------------------------------------------------------
(* How an intent may move: its money, once taken, stays; its refunds grow;  *)
(* a success, a refusal and a cancellation are final.                       *)
Forward ==
  /\ offer' = offer
  /\ intent'.refunded >= intent.refunded
  /\ intent.captured = Fare => intent'.captured = Fare
  /\ intent.status \in {"failed", "canceled"} => intent'.status = intent.status

(* What was true of an event stays true while Stripe moves forward.         *)
LEMMA EventsStayTrue ==
  ASSUME TypeOK, TypeOK', Forward, EventsTrue, NEW e \in sent
  PROVE  EventTrue(e)'
  BY DEF TypeOK, Forward, EventsTrue, EventTrue, Event, Amounts

(* So does what a call knows, in every call that does not move itself.      *)
LEMMA CallsStayTrue ==
  ASSUME TypeOK, TypeOK', Forward, CallsTrue, NEW c \in Calls, call'[c] = call[c]
  PROVE  CallTrue(call[c])'
  BY DEF TypeOK, Forward, CallsTrue, CallTrue

(* And what the row says, if the row is left alone: money can only arrive   *)
(* at an intent that has not been refused, and whose row shows no refund.   *)
LEMMA RowStaysTrue ==
  ASSUME TypeOK, TypeOK', IntentSane, IntentSane', Forward, RowTrue, row' = row
  PROVE  RowTrue'
  <1>1. row.status = "succeeded" => intent'.captured = Fare
    BY DEF RowTrue, StatusMatchesStripe, Forward
  <1>2. row.status = "failed" => intent'.status \in {"failed", "canceled"}
    BY DEF RowTrue, RowSane, Forward
  <1>3. row.status = "failed" => intent'.captured = 0
    BY <1>2 DEF IntentSane
  <1>4. row.refund <= intent'.refunded
    BY DEF TypeOK, RowTrue, RefundNeverOverstated, Forward
  <1>5. row.status = "refunded" => intent'.captured = Fare /\ intent'.refunded = intent'.captured
    BY FareAssumption DEF TypeOK, RowTrue, RowSane, RefundNeverOverstated, Forward, IntentSane
  <1> QED
    BY <1>1, <1>2, <1>3, <1>4, <1>5 DEF RowTrue, StatusMatchesStripe, RefundNeverOverstated,
       RowSane

-----------------------------------------------------------------------------
\* The events the model emits are events.
LEMMA EventTypes ==
  /\ Settled \in Event /\ Refused \in Event
  /\ \A n \in Amounts : RefundedTo(n) \in Event
  BY FareAssumption DEF Settled, Refused, RefundedTo, Event, Amounts

\* The invariant holds before anything is charged or captured.
LEMMA InitHolds == Init => IInv
  <1> SUFFICES ASSUME Init PROVE IInv
    OBVIOUS
  <1>1. intent \in [status : {"none", "requires_capture"}, reply : {"none"},
                    captured : {0}, refunded : {0}]
    BY DEF Init, NoIntent
  <1>2. TypeOK
    <2>1. call \in [Calls -> {Idle}] /\ row = NoRow
      BY DEF Init
    <2>2. call \in [Calls -> [at : Steps, got : {"none", "succeeded", "processing", "failed"},
                              seen : Nat, amount : Nat]]
      BY <2>1 DEF Idle, Steps
    <2>3. row \in [status : RowStatus, refund : Nat]
      BY <2>1 DEF NoRow, RowStatus
    <2>4. intent \in [status : IntentStatus,
                      reply : {"none", "succeeded", "processing", "failed"},
                      captured : Nat, refunded : Nat]
      BY <1>1 DEF IntentStatus
    <2>5. /\ offer \in BOOLEAN /\ audited \in BOOLEAN
          /\ sent \subseteq Event /\ claimed \subseteq sent /\ applying \subseteq claimed
      BY DEF Init
    <2>6. ledger \in Nat /\ faults \in 0..MaxFaults
      BY FaultsAssumption DEF Init
    <2> QED
      BY <2>2, <2>3, <2>4, <2>5, <2>6 DEF TypeOK
  <1>3. IntentSane /\ EventsTrue /\ CallsTrue
    BY <1>1, FareAssumption DEF Init, IntentSane, EventsTrue, CallsTrue, CallTrue, Idle
  <1>4. RowTrue /\ LedgerOnce
    BY <1>1 DEF Init, RowTrue, StatusMatchesStripe, RefundNeverOverstated, RowSane, LedgerOnce,
       LedgerBookedOnce, LedgerTrue, LedgerDue, NoRow, Idle
  <1> QED BY <1>2, <1>3, <1>4, IInvParts DEF Books

\* Every step keeps the types.
LEMMA TypeStep == IInv /\ [Next]_vars => TypeOK'
  <1> SUFFICES ASSUME TypeOK, IntentSane, RowTrue, [Next]_vars PROVE TypeOK'
    BY IInvParts DEF Books
  <1> USE FareAssumption, FaultsAssumption, EventTypes
  <1>1. ASSUME NEW c \in Calls, ChargeRefused(c) PROVE TypeOK'
    BY <1>1 DEF ChargeRefused, TypeOK, IntentStatus, RowStatus, Steps, Amounts, Idle,
       webhookVars
  <1>2. ASSUME NEW c \in Calls, ChargeChecks(c) PROVE TypeOK'
    BY <1>2 DEF ChargeChecks, DirectCharge, Starts, TypeOK, IntentStatus, RowStatus, Steps, Amounts, Idle,
       webhookVars
  <1>3. ASSUME NEW c \in Calls, ChargeStripe(c) PROVE TypeOK'
    <2>1. /\ intent' \in [status : IntentStatus,
                          reply : {"none", "succeeded", "processing", "failed"},
                          captured : Nat, refunded : Nat]
          /\ sent \subseteq sent' /\ sent' \subseteq Event
      <3>1. CASE intent.reply = "none"
        <4>1. PICK outcome \in {"succeeded", "processing", "failed"} :
                /\ intent' = [intent EXCEPT !.status = outcome, !.reply = outcome,
                                !.captured = IF outcome = "succeeded" THEN @ + Fare ELSE @]
                /\ sent' = sent \cup (CASE outcome = "succeeded" -> {Settled}
                                        [] outcome = "failed" -> {Refused}
                                        [] OTHER -> {})
          BY <1>3, <3>1 DEF ChargeStripe, FirstCharge
        <4>2. outcome \in IntentStatus
          BY DEF IntentStatus
        <4>3. sent' \in {sent, sent \cup {Settled}, sent \cup {Refused}}
          BY <4>1
        <4>4. intent.captured + Fare \in Nat
          BY DEF TypeOK
        <4> QED BY <4>1, <4>2, <4>3, <4>4 DEF TypeOK
      <3>2. CASE intent.reply # "none"
        BY <1>3, <3>2 DEF ChargeStripe, Replayed, TypeOK
      <3> QED BY <3>1, <3>2
    <2>2. call' \in [Calls -> [at : Steps, got : {"none", "succeeded", "processing", "failed"},
                               seen : Nat, amount : Nat]]
      BY <1>3, <2>1 DEF ChargeStripe, TypeOK, Idle, Steps
    <2> QED BY <1>3, <2>1, <2>2 DEF ChargeStripe, TypeOK
  <1>4. ASSUME NEW c \in Calls, ChargeBook(c) PROVE TypeOK'
    BY <1>4 DEF ChargeBook, At, Returns, TypeOK, IntentStatus, RowStatus, Steps, Amounts,
       Idle, webhookVars
  <1>5. ASSUME NEW c \in Calls, BookLedger(c) PROVE TypeOK'
    BY <1>5 DEF BookLedger, At, Returns, TypeOK, IntentStatus, RowStatus, Steps, Amounts,
       Idle, webhookVars
  <1>6. ASSUME NEW c \in Calls, CaptureCall(c) PROVE TypeOK'
    BY <1>6 DEF CaptureCall, Starts, TypeOK, IntentStatus, RowStatus, Steps, Amounts, Idle,
       webhookVars
  <1>7. ASSUME NEW c \in Calls, CaptureStripe(c) PROVE TypeOK'
    <2>1. /\ intent' \in [status : IntentStatus,
                          reply : {"none", "succeeded", "processing", "failed"},
                          captured : Nat, refunded : Nat]
          /\ sent \subseteq sent' /\ sent' \subseteq Event
      <3>1. intent.captured + Fare \in Nat
        BY DEF TypeOK
      <3>2. \/ intent' = intent /\ sent' = sent
            \/ /\ intent' = [intent EXCEPT !.status = "succeeded", !.captured = @ + Fare]
               /\ sent' = sent \cup {Settled}
        BY <1>7 DEF CaptureStripe, CaptureFails, Replayed
      <3> QED BY <3>1, <3>2 DEF TypeOK, IntentStatus
    <2>2. call' \in [Calls -> [at : Steps, got : {"none", "succeeded", "processing", "failed"},
                               seen : Nat, amount : Nat]]
      BY <1>7 DEF CaptureStripe, CaptureFails, Goes, Returns, TypeOK, Idle, Steps
    <2> QED BY <1>7, <2>1, <2>2 DEF CaptureStripe, CaptureFails, TypeOK
  <1>8. ASSUME NEW c \in Calls, CaptureUpdate(c) PROVE TypeOK'
    BY <1>8 DEF CaptureUpdate, At, Goes, Returns, TypeOK, IntentStatus, RowStatus, Steps,
       Amounts, Idle, webhookVars
  <1>9. ASSUME NEW c \in Calls, CaptureBook(c) PROVE TypeOK'
    BY <1>9 DEF CaptureBook, BookingLost, At, Goes, Returns, TypeOK, IntentStatus, RowStatus, Steps,
       Amounts, Idle, webhookVars
  <1>10. ASSUME NEW c \in Calls, VoidCall(c) PROVE TypeOK'
    BY <1>10 DEF VoidCall, Starts, TypeOK, IntentStatus, RowStatus, Steps, Amounts, Idle,
       webhookVars
  <1>11. ASSUME NEW c \in Calls, VoidStripe(c) PROVE TypeOK'
    BY <1>11 DEF VoidStripe, VoidFails, At, Goes, Returns, Replayed, TypeOK, IntentStatus, RowStatus,
       Steps, Amounts, Idle, webhookVars
  <1>12. ASSUME NEW c \in Calls, VoidMark(c) PROVE TypeOK'
    BY <1>12 DEF VoidMark, At, Returns, MarkRow, TypeOK, IntentStatus, RowStatus, Steps,
       Amounts, Idle, webhookVars
  <1>13. ASSUME NEW c \in Calls, RefundRead(c) PROVE TypeOK'
    BY <1>13 DEF RefundRead, TypeOK, IntentStatus, RowStatus, Steps, Amounts, Idle,
       webhookVars, RowTrue, RefundNeverOverstated, IntentSane
  <1>14. ASSUME NEW c \in Calls, RefundStripe(c) PROVE TypeOK'
    BY <1>14 DEF RefundStripe, RefundFails, At, Goes, Returns, Replayed, GiveBack, RefundAccepted, TypeOK,
       IntentStatus, RowStatus, Steps, Amounts, Idle, webhookVars, RowTrue,
       RefundNeverOverstated, IntentSane
  <1>15. ASSUME NEW c \in Calls, RefundBook(c) PROVE TypeOK'
    BY <1>15 DEF RefundBook, At, Returns, RefundStatus, TypeOK, IntentStatus, RowStatus,
       Steps, Amounts, Idle, webhookVars
  <1>16. ASSUME NEW c \in Calls, CallDies(c) PROVE TypeOK'
    BY <1>16 DEF CallDies, Returns, TypeOK, IntentStatus, RowStatus, Steps, Amounts, Idle,
       webhookVars
  <1>17. ASSUME NEW e \in Event, ClaimEvent(e) PROVE TypeOK'
    BY <1>17 DEF ClaimEvent, TypeOK, IntentStatus, RowStatus, Steps, Amounts, Idle, webhookVars
  <1>18. ASSUME NEW e \in Event, ApplyEvent(e) PROVE TypeOK'
    BY <1>18 DEF ApplyEvent, MarkRow, RefundStatus, TypeOK, IntentStatus, RowStatus, Steps,
       Event, Amounts, Idle, webhookVars
  <1>19. ASSUME NEW e \in Event, WebhookDies(e) PROVE TypeOK'
    BY <1>19 DEF WebhookDies, TypeOK, IntentStatus, RowStatus, Steps, Amounts, Idle, webhookVars
  <1>20. ASSUME IntentSettles PROVE TypeOK'
    BY <1>20 DEF IntentSettles, TypeOK, IntentStatus, RowStatus, Steps, Amounts, Idle,
       webhookVars
  <1>21. ASSUME HoldLapses PROVE TypeOK'
    BY <1>21 DEF HoldLapses, TypeOK, IntentStatus, RowStatus, Steps, Amounts, Idle, webhookVars
  <1>22. ASSUME DashboardRefund PROVE TypeOK'
    BY <1>22 DEF DashboardRefund, GiveBack, RefundAccepted, TypeOK, IntentStatus, RowStatus,
       Steps, Amounts, Idle, webhookVars, RowTrue, RefundNeverOverstated, IntentSane
  <1>23. CASE UNCHANGED vars
    BY <1>23 DEF vars, webhookVars, TypeOK, IntentStatus, RowStatus, Steps, Amounts, Idle
  <1> QED BY <1>1, <1>2, <1>3, <1>4, <1>5, <1>6, <1>7, <1>8, <1>9, <1>10, <1>11, <1>12,
         <1>13, <1>14, <1>15, <1>16, <1>17, <1>18, <1>19, <1>20, <1>21, <1>22, <1>23
      DEF Next, CallArrives, CallRuns, StripeActs

(* Every step keeps the books: Stripe moves forward, and what the events,   *)
(* the calls, the row and the ledger say stays true of the intent.          *)

(* Every step keeps the books: Stripe moves forward, and what the events,   *)
(* the calls, the row and the ledger say stays true of the intent.          *)
LEMMA BooksStep == IInv /\ [Next]_vars => Books'
  <1> SUFFICES ASSUME TypeOK, Books, TypeOK', [Next]_vars PROVE Books'
    BY IInvParts, TypeStep
  <1> USE FareAssumption
  <1>0. IntentSane /\ EventsTrue /\ CallsTrue /\ RowTrue /\ LedgerOnce
    BY DEF Books
  <1>1. ASSUME NEW c \in Calls, ChargeRefused(c) PROVE Books'
    <2>1. Forward /\ IntentSane'
      BY <1>1, <1>0 DEF ChargeRefused, Forward, IntentSane, TypeOK
    <2>2. EventsTrue'
      BY <1>1, <1>0, <2>1, EventsStayTrue DEF ChargeRefused, EventsTrue, webhookVars
    <2>3. CallsTrue'
      BY <1>1, <1>0, <2>1, CallsStayTrue DEF ChargeRefused, CallsTrue, TypeOK
    <2>4. RowTrue'
      BY <1>1, <1>0, <2>1, RowStaysTrue DEF ChargeRefused
    <2>5. LedgerOnce'
      BY <1>1, <1>0 DEF ChargeRefused, LedgerOnce, LedgerBookedOnce, LedgerTrue, LedgerDue,
         TypeOK, Idle
    <2> QED BY <2>1, <2>2, <2>3, <2>4, <2>5 DEF Books
  <1>2. ASSUME NEW c \in Calls, ChargeChecks(c) PROVE Books'
    <2>1. Forward /\ IntentSane'
      BY <1>2, <1>0 DEF ChargeChecks, DirectCharge, Starts, Forward, IntentSane, TypeOK
    <2>2. EventsTrue'
      BY <1>2, <1>0, <2>1, EventsStayTrue DEF ChargeChecks, DirectCharge, EventsTrue, webhookVars
    <2>3. CallsTrue'
      <3> SUFFICES ASSUME NEW b \in Calls PROVE CallTrue(call[b])'
        BY DEF CallsTrue
      <3>1. CASE b # c
        BY <1>2, <1>0, <2>1, <3>1, CallsStayTrue DEF ChargeChecks, DirectCharge, Starts, TypeOK
      <3>2. CASE b = c
        BY <1>2, <1>0, <2>1, <3>2 DEF ChargeChecks, DirectCharge, Starts, TypeOK, Steps, Idle, CallTrue,
           CallsTrue, Forward, IntentSane
      <3> QED BY <3>1, <3>2
    <2>4. RowTrue'
      BY <1>2, <1>0, <2>1, RowStaysTrue DEF ChargeChecks, DirectCharge
    <2>5. LedgerOnce'
      BY <1>2, <1>0 DEF ChargeChecks, DirectCharge, Starts, LedgerOnce, LedgerBookedOnce, LedgerTrue,
         LedgerDue, TypeOK, Idle
    <2> QED BY <2>1, <2>2, <2>3, <2>4, <2>5 DEF Books
  <1>3. ASSUME NEW c \in Calls, ChargeStripe(c) PROVE Books'
    <2>0. \/ intent' = intent /\ sent' = sent
          \/ /\ intent.status = "none" /\ intent'.refunded = intent.refunded
             /\ intent'.reply # "none"
             /\ \/ /\ intent'.status = "succeeded" /\ intent'.captured = Fare
                   /\ sent' = sent \cup {Settled}
                \/ /\ intent'.status \in {"processing", "failed"}
                   /\ intent'.captured = 0 /\ intent'.reply # "succeeded"
                   /\ sent' \subseteq sent \cup (IF intent'.status = "failed" THEN {Refused} ELSE {})
      <3>1. CASE intent.reply = "none"
        <4>1. PICK outcome \in {"succeeded", "processing", "failed"} :
                /\ intent' = [intent EXCEPT !.status = outcome, !.reply = outcome,
                                !.captured = IF outcome = "succeeded" THEN @ + Fare ELSE @]
                /\ sent' = sent \cup (CASE outcome = "succeeded" -> {Settled}
                                        [] outcome = "failed" -> {Refused}
                                        [] OTHER -> {})
          BY <1>3, <3>1 DEF ChargeStripe, FirstCharge
        <4>2. /\ intent'.status = outcome /\ intent'.reply = outcome
              /\ intent'.captured = IF outcome = "succeeded" THEN intent.captured + Fare ELSE intent.captured
              /\ intent'.refunded = intent.refunded
          BY <4>1 DEF TypeOK
        <4>3. intent.status = "none" /\ intent.captured = 0
          <5>1. ~offer
            BY <1>3, <1>0 DEF ChargeStripe, At, CallsTrue, CallTrue
          <5> QED BY <5>1, <3>1, <1>0 DEF IntentSane
        <4>4. intent'.captured = IF outcome = "succeeded" THEN Fare ELSE 0
          BY <4>2, <4>3
        <4> QED BY <4>1, <4>2, <4>3, <4>4
      <3>2. CASE intent.reply # "none"
        BY <1>3, <3>2 DEF ChargeStripe, Replayed
      <3> QED BY <3>1, <3>2
    <2>1. Forward /\ IntentSane'
      <3>1. offer' = offer
        BY <1>3 DEF ChargeStripe
      <3> QED BY <2>0, <3>1, <1>0 DEF Forward, IntentSane, TypeOK
    <2>2. EventsTrue'
      <3> SUFFICES ASSUME NEW e \in sent', e \notin sent PROVE EventTrue(e)'
        BY <1>0, <2>1, EventsStayTrue DEF EventsTrue
      <3> QED
        BY <2>0 DEF EventTrue, Settled, Refused
    <2>3. CallsTrue'
      <3> SUFFICES ASSUME NEW b \in Calls PROVE CallTrue(call[b])'
        BY DEF CallsTrue
      <3>1. CASE b # c
        BY <1>3, <1>0, <2>1, <3>1, CallsStayTrue DEF ChargeStripe, At, FirstCharge, Replayed,
           TypeOK
      <3>2. CASE b = c
        BY <1>3, <1>0, <2>1, <3>2 DEF ChargeStripe, At, FirstCharge, Replayed, TypeOK, Steps,
           Idle, CallTrue, CallsTrue, Forward, IntentSane, Idle
      <3> QED BY <3>1, <3>2
    <2>4. RowTrue'
      BY <1>3, <1>0, <2>1, RowStaysTrue DEF ChargeStripe
    <2>5. LedgerOnce'
      BY <1>3, <1>0 DEF ChargeStripe, At, FirstCharge, Replayed, LedgerOnce,
         LedgerBookedOnce, LedgerTrue, LedgerDue, TypeOK, Idle
    <2> QED BY <2>1, <2>2, <2>3, <2>4, <2>5 DEF Books
  <1>4. ASSUME NEW c \in Calls, ChargeBook(c) PROVE Books'
    <2>1. Forward /\ IntentSane'
      BY <1>4, <1>0 DEF ChargeBook, At, Returns, Forward, IntentSane, TypeOK
    <2>2. EventsTrue'
      BY <1>4, <1>0, <2>1, EventsStayTrue DEF ChargeBook, EventsTrue, webhookVars
    <2>3. CallsTrue'
      <3> SUFFICES ASSUME NEW b \in Calls PROVE CallTrue(call[b])'
        BY DEF CallsTrue
      <3>1. CASE b # c
        BY <1>4, <1>0, <2>1, <3>1, CallsStayTrue DEF ChargeBook, At, Returns, TypeOK
      <3>2. CASE b = c
        BY <1>4, <1>0, <2>1, <3>2 DEF ChargeBook, At, Returns, TypeOK, Steps, Idle, CallTrue,
           CallsTrue, Forward, IntentSane
      <3> QED BY <3>1, <3>2
    <2>4. RowTrue'
      BY <1>4, <1>0 DEF ChargeBook, At, Returns, RowTrue, StatusMatchesStripe,
         RefundNeverOverstated, RowSane, CallsTrue, CallTrue, EventsTrue, EventTrue,
         IntentSane, TypeOK, Event, Amounts
    <2>5. LedgerOnce'
      <3>1. CASE row.status = "none"
        <4>1. ledger = 0 /\ LedgerDue = {}
          BY <1>0, <3>1 DEF LedgerOnce, LedgerBookedOnce, LedgerTrue, TypeOK
        <4>2. LedgerDue' \subseteq {c}
          BY <1>4, <3>1, <4>1 DEF ChargeBook, LedgerDue, TypeOK
        <4>3. ledger' = 0 /\ row'.status # "none"
          BY <1>4, <3>1, <4>1 DEF ChargeBook, TypeOK
        <4> QED BY <4>2, <4>3 DEF LedgerOnce, LedgerBookedOnce, LedgerTrue
      <3>2. CASE row.status # "none"
        BY <1>4, <1>0, <3>2 DEF ChargeBook, At, Returns, LedgerOnce, LedgerBookedOnce,
           LedgerTrue, LedgerDue, TypeOK, Idle
      <3> QED BY <3>1, <3>2
    <2> QED BY <2>1, <2>2, <2>3, <2>4, <2>5 DEF Books
  <1>5. ASSUME NEW c \in Calls, BookLedger(c) PROVE Books'
    <2>1. Forward /\ IntentSane'
      BY <1>5, <1>0 DEF BookLedger, At, Returns, Forward, IntentSane, TypeOK
    <2>2. EventsTrue'
      BY <1>5, <1>0, <2>1, EventsStayTrue DEF BookLedger, EventsTrue, webhookVars
    <2>3. CallsTrue'
      <3> SUFFICES ASSUME NEW b \in Calls PROVE CallTrue(call[b])'
        BY DEF CallsTrue
      <3>1. CASE b # c
        BY <1>5, <1>0, <2>1, <3>1, CallsStayTrue DEF BookLedger, At, Returns, TypeOK
      <3>2. CASE b = c
        BY <1>5, <1>0, <2>1, <3>2 DEF BookLedger, At, Returns, TypeOK, Steps, Idle, CallTrue,
           CallsTrue, Forward, IntentSane
      <3> QED BY <3>1, <3>2
    <2>4. RowTrue'
      BY <1>5, <1>0, <2>1, RowStaysTrue DEF BookLedger
    <2>5. LedgerOnce'
      BY <1>5, <1>0 DEF BookLedger, At, Returns, LedgerOnce, LedgerBookedOnce, LedgerTrue,
         LedgerDue, TypeOK, Idle
    <2> QED BY <2>1, <2>2, <2>3, <2>4, <2>5 DEF Books
  <1>6. ASSUME NEW c \in Calls, CaptureCall(c) PROVE Books'
    <2>1. Forward /\ IntentSane'
      BY <1>6, <1>0 DEF CaptureCall, Starts, Forward, IntentSane, TypeOK
    <2>2. EventsTrue'
      BY <1>6, <1>0, <2>1, EventsStayTrue DEF CaptureCall, EventsTrue, webhookVars
    <2>3. CallsTrue'
      <3> SUFFICES ASSUME NEW b \in Calls PROVE CallTrue(call[b])'
        BY DEF CallsTrue
      <3>1. CASE b # c
        BY <1>6, <1>0, <2>1, <3>1, CallsStayTrue DEF CaptureCall, Starts, TypeOK
      <3>2. CASE b = c
        BY <1>6, <1>0, <2>1, <3>2 DEF CaptureCall, Starts, TypeOK, Steps, Idle, CallTrue,
           CallsTrue, Forward, IntentSane
      <3> QED BY <3>1, <3>2
    <2>4. RowTrue'
      BY <1>6, <1>0, <2>1, RowStaysTrue DEF CaptureCall
    <2>5. LedgerOnce'
      BY <1>6, <1>0 DEF CaptureCall, Starts, LedgerOnce, LedgerBookedOnce, LedgerTrue,
         LedgerDue, TypeOK, Idle
    <2> QED BY <2>1, <2>2, <2>3, <2>4, <2>5 DEF Books
  <1>7. ASSUME NEW c \in Calls, CaptureStripe(c) PROVE Books'
    <2>0. \/ intent' = intent /\ sent' = sent /\ intent.status \in {"succeeded", "canceled"}
          \/ /\ intent.status = "requires_capture" /\ intent'.refunded = intent.refunded
             /\ intent'.reply = intent.reply
             /\ intent'.status = "succeeded" /\ intent'.captured = Fare
             /\ sent' = sent \cup {Settled}
      <3>1. \/ intent' = intent /\ sent' = sent /\ intent.status \in {"succeeded", "canceled"}
            \/ /\ intent' = [intent EXCEPT !.status = "succeeded", !.captured = @ + Fare]
               /\ sent' = sent \cup {Settled} /\ intent.status = "requires_capture"
        BY <1>7 DEF CaptureStripe, CaptureFails, Replayed
      <3>2. intent.status = "requires_capture" => intent.captured = 0
        BY <1>0 DEF IntentSane
      <3>3. ASSUME intent' = [intent EXCEPT !.status = "succeeded", !.captured = @ + Fare]
            PROVE  /\ intent'.status = "succeeded" /\ intent'.captured = intent.captured + Fare
                   /\ intent'.refunded = intent.refunded /\ intent'.reply = intent.reply
        BY <3>3 DEF TypeOK
      <3>4. 0 + Fare = Fare
        OBVIOUS
      <3> QED BY <3>1, <3>2, <3>3, <3>4
    <2>1. Forward /\ IntentSane'
      <3>1. offer' = offer
        BY <1>7 DEF CaptureStripe
      <3> QED BY <2>0, <3>1, <1>0 DEF Forward, IntentSane, TypeOK
    <2>2. EventsTrue'
      <3> SUFFICES ASSUME NEW e \in sent', e \notin sent PROVE EventTrue(e)'
        BY <1>0, <2>1, EventsStayTrue DEF EventsTrue
      <3> QED
        BY <2>0 DEF EventTrue, Settled
    <2>3. CallsTrue'
      <3> SUFFICES ASSUME NEW b \in Calls PROVE CallTrue(call[b])'
        BY DEF CallsTrue
      <3>1. CASE b # c
        BY <1>7, <1>0, <2>1, <3>1, CallsStayTrue DEF CaptureStripe, CaptureFails, At, Goes, Returns,
           Replayed, TypeOK
      <3>2. CASE b = c
        <4>1. call'[c].at = "idle" \/ (call'[c].at = "bookCapture" /\ intent'.captured = Fare)
          <5>1. call'[c].at \in {"idle", "bookCapture"}
            BY <1>7 DEF CaptureStripe, CaptureFails, Goes, Returns, Idle, TypeOK
          <5>2. call'[c].at = "bookCapture" => intent.status # "canceled"
            BY <1>7 DEF CaptureStripe, CaptureFails, Returns, Idle, TypeOK
          <5>3. intent.status = "succeeded" => intent'.captured = Fare
            BY <1>0, <2>0 DEF IntentSane
          <5>4. intent.status \in {"requires_capture", "succeeded", "canceled"}
            BY <1>7 DEF CaptureStripe, CaptureFails
          <5> QED BY <2>0, <5>1, <5>2, <5>3, <5>4
        <4> QED BY <3>2, <4>1 DEF CallTrue
      <3> QED BY <3>1, <3>2
    <2>4. RowTrue'
      BY <1>7, <1>0, <2>1, RowStaysTrue DEF CaptureStripe, CaptureFails
    <2>5. LedgerOnce'
      BY <1>7, <1>0 DEF CaptureStripe, CaptureFails, At, Goes, Returns, Replayed, LedgerOnce,
         LedgerBookedOnce, LedgerTrue, LedgerDue, TypeOK, Idle
    <2> QED BY <2>1, <2>2, <2>3, <2>4, <2>5 DEF Books
  <1>8. ASSUME NEW c \in Calls, CaptureUpdate(c) PROVE Books'
    <2>1. Forward /\ IntentSane'
      BY <1>8, <1>0 DEF CaptureUpdate, At, Goes, Returns, Forward, IntentSane, TypeOK
    <2>2. EventsTrue'
      BY <1>8, <1>0, <2>1, EventsStayTrue DEF CaptureUpdate, EventsTrue, webhookVars
    <2>3. CallsTrue'
      <3> SUFFICES ASSUME NEW b \in Calls PROVE CallTrue(call[b])'
        BY DEF CallsTrue
      <3>1. CASE b # c
        BY <1>8, <1>0, <2>1, <3>1, CallsStayTrue DEF CaptureUpdate, At, Goes, Returns, TypeOK
      <3>2. CASE b = c
        BY <1>8, <1>0, <2>1, <3>2 DEF CaptureUpdate, At, Goes, Returns, TypeOK, Steps, Idle,
           CallTrue, CallsTrue, Forward, IntentSane
      <3> QED BY <3>1, <3>2
    <2>4. RowTrue'
      BY <1>8, <1>0 DEF CaptureUpdate, At, Goes, Returns, RowTrue, StatusMatchesStripe,
         RefundNeverOverstated, RowSane, CallsTrue, CallTrue, EventsTrue, EventTrue,
         IntentSane, TypeOK, Event, Amounts
    <2>5. LedgerOnce'
      BY <1>8, <1>0 DEF CaptureUpdate, At, Goes, Returns, LedgerOnce, LedgerBookedOnce,
         LedgerTrue, LedgerDue, TypeOK, Idle
    <2> QED BY <2>1, <2>2, <2>3, <2>4, <2>5 DEF Books
  <1>9. ASSUME NEW c \in Calls, CaptureBook(c) PROVE Books'
    <2>1. Forward /\ IntentSane'
      BY <1>9, <1>0 DEF CaptureBook, BookingLost, At, Goes, Returns, Forward, IntentSane, TypeOK
    <2>2. EventsTrue'
      BY <1>9, <1>0, <2>1, EventsStayTrue DEF CaptureBook, BookingLost, EventsTrue, webhookVars
    <2>3. CallsTrue'
      <3> SUFFICES ASSUME NEW b \in Calls PROVE CallTrue(call[b])'
        BY DEF CallsTrue
      <3>1. CASE b # c
        BY <1>9, <1>0, <2>1, <3>1, CallsStayTrue DEF CaptureBook, BookingLost, At, Goes, Returns, TypeOK
      <3>2. CASE b = c
        BY <1>9, <1>0, <2>1, <3>2 DEF CaptureBook, BookingLost, At, Goes, Returns, TypeOK, Steps, Idle,
           CallTrue, CallsTrue, Forward, IntentSane
      <3> QED BY <3>1, <3>2
    <2>4. RowTrue'
      BY <1>9, <1>0 DEF CaptureBook, BookingLost, At, Goes, Returns, RowTrue, StatusMatchesStripe,
         RefundNeverOverstated, RowSane, CallsTrue, CallTrue, EventsTrue, EventTrue,
         IntentSane, TypeOK, Event, Amounts
    <2>5. LedgerOnce'
      BY <1>9, <1>0 DEF CaptureBook, BookingLost, At, Goes, Returns, LedgerOnce, LedgerBookedOnce,
         LedgerTrue, LedgerDue, TypeOK, Idle
    <2> QED BY <2>1, <2>2, <2>3, <2>4, <2>5 DEF Books
  <1>10. ASSUME NEW c \in Calls, VoidCall(c) PROVE Books'
    <2>1. Forward /\ IntentSane'
      BY <1>10, <1>0 DEF VoidCall, Starts, Forward, IntentSane, TypeOK
    <2>2. EventsTrue'
      BY <1>10, <1>0, <2>1, EventsStayTrue DEF VoidCall, EventsTrue, webhookVars
    <2>3. CallsTrue'
      <3> SUFFICES ASSUME NEW b \in Calls PROVE CallTrue(call[b])'
        BY DEF CallsTrue
      <3>1. CASE b # c
        BY <1>10, <1>0, <2>1, <3>1, CallsStayTrue DEF VoidCall, Starts, TypeOK
      <3>2. CASE b = c
        BY <1>10, <1>0, <2>1, <3>2 DEF VoidCall, Starts, TypeOK, Steps, Idle, CallTrue,
           CallsTrue, Forward, IntentSane
      <3> QED BY <3>1, <3>2
    <2>4. RowTrue'
      BY <1>10, <1>0, <2>1, RowStaysTrue DEF VoidCall
    <2>5. LedgerOnce'
      BY <1>10, <1>0 DEF VoidCall, Starts, LedgerOnce, LedgerBookedOnce, LedgerTrue,
         LedgerDue, TypeOK, Idle
    <2> QED BY <2>1, <2>2, <2>3, <2>4, <2>5 DEF Books
  <1>11. ASSUME NEW c \in Calls, VoidStripe(c) PROVE Books'
    <2>1. Forward /\ IntentSane'
      BY <1>11, <1>0 DEF VoidStripe, VoidFails, At, Goes, Returns, Replayed, Forward, IntentSane,
         EventsTrue, CallsTrue, TypeOK
    <2>2. EventsTrue'
      <3> SUFFICES ASSUME NEW e \in sent', e \notin sent PROVE EventTrue(e)'
        BY <1>0, <2>1, EventsStayTrue DEF EventsTrue
      <3> QED
        BY <1>11, <2>1 DEF VoidStripe, VoidFails, At, Goes, Returns, Replayed, EventTrue, Settled,
           Refused, RefundedTo, TypeOK, Forward, IntentSane
    <2>3. CallsTrue'
      <3> SUFFICES ASSUME NEW b \in Calls PROVE CallTrue(call[b])'
        BY DEF CallsTrue
      <3>1. CASE b # c
        BY <1>11, <1>0, <2>1, <3>1, CallsStayTrue DEF VoidStripe, VoidFails, At, Goes, Returns,
           Replayed, TypeOK
      <3>2. CASE b = c
        BY <1>11, <1>0, <2>1, <3>2 DEF VoidStripe, VoidFails, At, Goes, Returns, Replayed, TypeOK,
           Steps, Idle, CallTrue, CallsTrue, Forward, IntentSane
      <3> QED BY <3>1, <3>2
    <2>4. RowTrue'
      BY <1>11, <1>0, <2>1, RowStaysTrue DEF VoidStripe, VoidFails
    <2>5. LedgerOnce'
      BY <1>11, <1>0 DEF VoidStripe, VoidFails, At, Goes, Returns, Replayed, LedgerOnce,
         LedgerBookedOnce, LedgerTrue, LedgerDue, TypeOK, Idle
    <2> QED BY <2>1, <2>2, <2>3, <2>4, <2>5 DEF Books
  <1>12. ASSUME NEW c \in Calls, VoidMark(c) PROVE Books'
    <2>1. Forward /\ IntentSane'
      BY <1>12, <1>0 DEF VoidMark, At, Returns, MarkRow, Forward, IntentSane, TypeOK
    <2>2. EventsTrue'
      BY <1>12, <1>0, <2>1, EventsStayTrue DEF VoidMark, EventsTrue, webhookVars
    <2>3. CallsTrue'
      <3> SUFFICES ASSUME NEW b \in Calls PROVE CallTrue(call[b])'
        BY DEF CallsTrue
      <3>1. CASE b # c
        BY <1>12, <1>0, <2>1, <3>1, CallsStayTrue DEF VoidMark, At, Returns, MarkRow, TypeOK
      <3>2. CASE b = c
        BY <1>12, <1>0, <2>1, <3>2 DEF VoidMark, At, Returns, MarkRow, TypeOK, Steps, Idle,
           CallTrue, CallsTrue, Forward, IntentSane
      <3> QED BY <3>1, <3>2
    <2>4. RowTrue'
      BY <1>12, <1>0 DEF VoidMark, At, Returns, MarkRow, RowTrue, StatusMatchesStripe,
         RefundNeverOverstated, RowSane, CallsTrue, CallTrue, EventsTrue, EventTrue,
         IntentSane, TypeOK, Event, Amounts
    <2>5. LedgerOnce'
      BY <1>12, <1>0 DEF VoidMark, At, Returns, MarkRow, LedgerOnce, LedgerBookedOnce,
         LedgerTrue, LedgerDue, TypeOK, Idle
    <2> QED BY <2>1, <2>2, <2>3, <2>4, <2>5 DEF Books
  <1>13. ASSUME NEW c \in Calls, RefundRead(c) PROVE Books'
    <2>1. Forward /\ IntentSane'
      BY <1>13, <1>0 DEF RefundRead, Forward, IntentSane, TypeOK
    <2>2. EventsTrue'
      BY <1>13, <1>0, <2>1, EventsStayTrue DEF RefundRead, EventsTrue, webhookVars
    <2>3. CallsTrue'
      <3> SUFFICES ASSUME NEW b \in Calls PROVE CallTrue(call[b])'
        BY DEF CallsTrue
      <3>1. CASE b # c
        BY <1>13, <1>0, <2>1, <3>1, CallsStayTrue DEF RefundRead, TypeOK
      <3>2. CASE b = c
        BY <1>13, <1>0, <2>1, <3>2 DEF RefundRead, TypeOK, Steps, Idle, CallTrue, CallsTrue,
           Forward, RowTrue, RefundNeverOverstated
      <3> QED BY <3>1, <3>2
    <2>4. RowTrue'
      BY <1>13, <1>0, <2>1, RowStaysTrue DEF RefundRead
    <2>5. LedgerOnce'
      BY <1>13, <1>0 DEF RefundRead, LedgerOnce, LedgerBookedOnce, LedgerTrue, LedgerDue,
         TypeOK, Idle
    <2> QED BY <2>1, <2>2, <2>3, <2>4, <2>5 DEF Books
  <1>14. ASSUME NEW c \in Calls, RefundStripe(c) PROVE Books'
    <2>1. Forward /\ IntentSane'
      BY <1>14, <1>0 DEF RefundStripe, RefundFails, At, Goes, Returns, Replayed, GiveBack, RefundAccepted,
         Forward, IntentSane, EventsTrue, CallsTrue, TypeOK
    <2>2. EventsTrue'
      <3> SUFFICES ASSUME NEW e \in sent', e \notin sent PROVE EventTrue(e)'
        BY <1>0, <2>1, EventsStayTrue DEF EventsTrue
      <3> QED
        BY <1>14, <2>1 DEF RefundStripe, RefundFails, At, Goes, Returns, Replayed, GiveBack,
           RefundAccepted, EventTrue, Settled, Refused, RefundedTo, TypeOK, Forward, IntentSane
    <2>3. CallsTrue'
      <3> SUFFICES ASSUME NEW b \in Calls PROVE CallTrue(call[b])'
        BY DEF CallsTrue
      <3>1. CASE b # c
        BY <1>14, <1>0, <2>1, <3>1, CallsStayTrue DEF RefundStripe, RefundFails, At, Goes, Returns,
           Replayed, GiveBack, RefundAccepted, TypeOK
      <3>2. CASE b = c
        BY <1>14, <1>0, <2>1, <3>2 DEF RefundStripe, RefundFails, At, Goes, Returns, Replayed, GiveBack,
           RefundAccepted, TypeOK, Steps, Idle, CallTrue, CallsTrue, Forward, IntentSane
      <3> QED BY <3>1, <3>2
    <2>4. RowTrue'
      BY <1>14, <1>0, <2>1, RowStaysTrue DEF RefundStripe, RefundFails
    <2>5. LedgerOnce'
      <3>1. LedgerDue' = LedgerDue
        BY <1>14 DEF RefundStripe, RefundFails, At, Goes, Returns, LedgerDue, TypeOK, Idle
      <3> QED BY <1>14, <1>0, <3>1 DEF RefundStripe, RefundFails, LedgerOnce, LedgerBookedOnce, LedgerTrue
    <2> QED BY <2>1, <2>2, <2>3, <2>4, <2>5 DEF Books
  <1>15. ASSUME NEW c \in Calls, RefundBook(c) PROVE Books'
    <2>1. Forward /\ IntentSane'
      BY <1>15, <1>0 DEF RefundBook, At, Returns, RefundStatus, Forward, IntentSane, TypeOK
    <2>2. EventsTrue'
      BY <1>15, <1>0, <2>1, EventsStayTrue DEF RefundBook, EventsTrue, webhookVars
    <2>3. CallsTrue'
      <3> SUFFICES ASSUME NEW b \in Calls PROVE CallTrue(call[b])'
        BY DEF CallsTrue
      <3>1. CASE b # c
        BY <1>15, <1>0, <2>1, <3>1, CallsStayTrue DEF RefundBook, At, Returns, RefundStatus,
           TypeOK
      <3>2. CASE b = c
        BY <1>15, <1>0, <2>1, <3>2 DEF RefundBook, At, Returns, RefundStatus, TypeOK, Steps,
           Idle, CallTrue, CallsTrue, Forward, IntentSane
      <3> QED BY <3>1, <3>2
    <2>4. RowTrue'
      <3> DEFINE total == call[c].seen + call[c].amount
      <3>1. total \in Nat /\ total <= intent.refunded
        BY <1>15, <1>0 DEF RefundBook, At, TypeOK, CallsTrue, CallTrue
      <3>2. /\ intent' = intent /\ row'.refund = total
            /\ row'.status = IF total >= Fare THEN "refunded" ELSE "partially_refunded"
        BY <1>15 DEF RefundBook, RefundStatus
      <3>3. total >= Fare => intent.captured = Fare /\ intent.refunded = intent.captured
        <4>1. intent.captured \in {0, Fare} /\ intent.refunded <= intent.captured
          BY <1>0 DEF IntentSane
        <4>2. intent.refunded \in Nat
          BY DEF TypeOK
        <4> HIDE DEF total
        <4> QED BY <3>1, <4>1, <4>2
      <3> HIDE DEF total
      <3> QED
        BY <3>1, <3>2, <3>3 DEF RowTrue, StatusMatchesStripe, RefundNeverOverstated, RowSane
    <2>5. LedgerOnce'
      BY <1>15, <1>0 DEF RefundBook, At, Returns, RefundStatus, LedgerOnce, LedgerBookedOnce,
         LedgerTrue, LedgerDue, TypeOK, Idle
    <2> QED BY <2>1, <2>2, <2>3, <2>4, <2>5 DEF Books
  <1>16. ASSUME NEW c \in Calls, CallDies(c) PROVE Books'
    <2>1. Forward /\ IntentSane'
      BY <1>16, <1>0 DEF CallDies, Returns, Forward, IntentSane, TypeOK
    <2>2. EventsTrue'
      BY <1>16, <1>0, <2>1, EventsStayTrue DEF CallDies, EventsTrue, webhookVars
    <2>3. CallsTrue'
      <3> SUFFICES ASSUME NEW b \in Calls PROVE CallTrue(call[b])'
        BY DEF CallsTrue
      <3>1. CASE b # c
        BY <1>16, <1>0, <2>1, <3>1, CallsStayTrue DEF CallDies, Returns, TypeOK
      <3>2. CASE b = c
        BY <1>16, <1>0, <2>1, <3>2 DEF CallDies, Returns, TypeOK, Steps, Idle, CallTrue,
           CallsTrue, Forward, IntentSane
      <3> QED BY <3>1, <3>2
    <2>4. RowTrue'
      BY <1>16, <1>0, <2>1, RowStaysTrue DEF CallDies
    <2>5. LedgerOnce'
      BY <1>16, <1>0 DEF CallDies, Returns, LedgerOnce, LedgerBookedOnce, LedgerTrue,
         LedgerDue, TypeOK, Idle
    <2> QED BY <2>1, <2>2, <2>3, <2>4, <2>5 DEF Books
  <1>17. ASSUME NEW e \in Event, ClaimEvent(e) PROVE Books'
    <2>1. Forward /\ IntentSane'
      BY <1>17, <1>0 DEF ClaimEvent, Forward, IntentSane, TypeOK
    <2>2. EventsTrue'
      BY <1>17, <1>0, <2>1, EventsStayTrue DEF ClaimEvent, EventsTrue, webhookVars
    <2>3. CallsTrue'
      BY <1>17, <1>0, <2>1, CallsStayTrue DEF ClaimEvent, CallsTrue, TypeOK
    <2>4. RowTrue'
      BY <1>17, <1>0, <2>1, RowStaysTrue DEF ClaimEvent
    <2>5. LedgerOnce'
      BY <1>17, <1>0 DEF ClaimEvent, LedgerOnce, LedgerBookedOnce, LedgerTrue, LedgerDue,
         TypeOK, Idle
    <2> QED BY <2>1, <2>2, <2>3, <2>4, <2>5 DEF Books
  <1>18. ASSUME NEW e \in Event, ApplyEvent(e) PROVE Books'
    <2>1. Forward /\ IntentSane'
      BY <1>18, <1>0 DEF ApplyEvent, MarkRow, RefundStatus, Forward, IntentSane, TypeOK
    <2>2. EventsTrue'
      BY <1>18, <1>0, <2>1, EventsStayTrue DEF ApplyEvent, EventsTrue, webhookVars
    <2>3. CallsTrue'
      BY <1>18, <1>0, <2>1, CallsStayTrue DEF ApplyEvent, CallsTrue, TypeOK
    <2>4. RowTrue'
      BY <1>18, <1>0 DEF ApplyEvent, MarkRow, RefundStatus, RowTrue, StatusMatchesStripe,
         RefundNeverOverstated, RowSane, CallsTrue, CallTrue, EventsTrue, EventTrue,
         IntentSane, TypeOK, Event, Amounts
    <2>5. LedgerOnce'
      BY <1>18, <1>0 DEF ApplyEvent, MarkRow, RefundStatus, LedgerOnce, LedgerBookedOnce,
         LedgerTrue, LedgerDue, TypeOK, Idle
    <2> QED BY <2>1, <2>2, <2>3, <2>4, <2>5 DEF Books
  <1>19. ASSUME NEW e \in Event, WebhookDies(e) PROVE Books'
    <2>1. Forward /\ IntentSane'
      BY <1>19, <1>0 DEF WebhookDies, Forward, IntentSane, TypeOK
    <2>2. EventsTrue'
      BY <1>19, <1>0, <2>1, EventsStayTrue DEF WebhookDies, EventsTrue, webhookVars
    <2>3. CallsTrue'
      BY <1>19, <1>0, <2>1, CallsStayTrue DEF WebhookDies, CallsTrue, TypeOK
    <2>4. RowTrue'
      BY <1>19, <1>0, <2>1, RowStaysTrue DEF WebhookDies
    <2>5. LedgerOnce'
      BY <1>19, <1>0 DEF WebhookDies, LedgerOnce, LedgerBookedOnce, LedgerTrue, LedgerDue,
         TypeOK, Idle
    <2> QED BY <2>1, <2>2, <2>3, <2>4, <2>5 DEF Books
  <1>20. ASSUME IntentSettles PROVE Books'
    <2>0. /\ intent.status = "processing" /\ intent'.refunded = intent.refunded
          /\ intent'.reply = intent.reply
          /\ \/ /\ intent'.status = "succeeded" /\ intent'.captured = Fare
                /\ sent' = sent \cup {Settled}
             \/ /\ intent'.status = "failed" /\ intent'.captured = intent.captured
                /\ sent' = sent \cup {Refused}
      BY <1>20 DEF IntentSettles, TypeOK
    <2>1. Forward /\ IntentSane'
      <3>1. offer' = offer
        BY <1>20 DEF IntentSettles
      <3> QED BY <2>0, <3>1, <1>0 DEF Forward, IntentSane, TypeOK
    <2>2. EventsTrue'
      <3> SUFFICES ASSUME NEW e \in sent', e \notin sent PROVE EventTrue(e)'
        BY <1>0, <2>1, EventsStayTrue DEF EventsTrue
      <3> QED
        BY <2>0 DEF EventTrue, Settled, Refused
    <2>3. CallsTrue'
      BY <1>20, <1>0, <2>1, CallsStayTrue DEF IntentSettles, CallsTrue, TypeOK
    <2>4. RowTrue'
      BY <1>20, <1>0, <2>1, RowStaysTrue DEF IntentSettles
    <2>5. LedgerOnce'
      BY <1>20, <1>0 DEF IntentSettles, LedgerOnce, LedgerBookedOnce, LedgerTrue, LedgerDue,
         TypeOK, Idle
    <2> QED BY <2>1, <2>2, <2>3, <2>4, <2>5 DEF Books
  <1>21. ASSUME HoldLapses PROVE Books'
    <2>1. Forward /\ IntentSane'
      BY <1>21, <1>0 DEF HoldLapses, Forward, IntentSane, EventsTrue, CallsTrue, TypeOK
    <2>2. EventsTrue'
      <3> SUFFICES ASSUME NEW e \in sent', e \notin sent PROVE EventTrue(e)'
        BY <1>0, <2>1, EventsStayTrue DEF EventsTrue
      <3> QED
        BY <1>21, <2>1 DEF HoldLapses, EventTrue, Settled, Refused, RefundedTo, TypeOK,
           Forward, IntentSane
    <2>3. CallsTrue'
      BY <1>21, <1>0, <2>1, CallsStayTrue DEF HoldLapses, CallsTrue, TypeOK
    <2>4. RowTrue'
      BY <1>21, <1>0, <2>1, RowStaysTrue DEF HoldLapses
    <2>5. LedgerOnce'
      BY <1>21, <1>0 DEF HoldLapses, LedgerOnce, LedgerBookedOnce, LedgerTrue, LedgerDue,
         TypeOK, Idle
    <2> QED BY <2>1, <2>2, <2>3, <2>4, <2>5 DEF Books
  <1>22. ASSUME DashboardRefund PROVE Books'
    <2>1. Forward /\ IntentSane'
      BY <1>22, <1>0 DEF DashboardRefund, GiveBack, RefundAccepted, Forward, IntentSane,
         EventsTrue, CallsTrue, TypeOK
    <2>2. EventsTrue'
      <3> SUFFICES ASSUME NEW e \in sent', e \notin sent PROVE EventTrue(e)'
        BY <1>0, <2>1, EventsStayTrue DEF EventsTrue
      <3> QED
        BY <1>22, <2>1 DEF DashboardRefund, GiveBack, RefundAccepted, EventTrue, Settled,
           Refused, RefundedTo, TypeOK, Forward, IntentSane
    <2>3. CallsTrue'
      BY <1>22, <1>0, <2>1, CallsStayTrue DEF DashboardRefund, CallsTrue, TypeOK
    <2>4. RowTrue'
      BY <1>22, <1>0, <2>1, RowStaysTrue DEF DashboardRefund
    <2>5. LedgerOnce'
      BY <1>22, <1>0 DEF DashboardRefund, GiveBack, RefundAccepted, LedgerOnce,
         LedgerBookedOnce, LedgerTrue, LedgerDue, TypeOK, Idle
    <2> QED BY <2>1, <2>2, <2>3, <2>4, <2>5 DEF Books
  <1>23. CASE UNCHANGED vars
    BY <1>23, <1>0 DEF vars, webhookVars, Books, IntentSane, EventsTrue, EventTrue, CallsTrue,
       CallTrue, RowTrue, StatusMatchesStripe, RefundNeverOverstated, RowSane, LedgerOnce,
       LedgerBookedOnce, LedgerTrue, LedgerDue
  <1> QED BY <1>1, <1>2, <1>3, <1>4, <1>5, <1>6, <1>7, <1>8, <1>9, <1>10, <1>11, <1>12,
         <1>13, <1>14, <1>15, <1>16, <1>17, <1>18, <1>19, <1>20, <1>21, <1>22, <1>23
      DEF Next, CallArrives, CallRuns, StripeActs

-----------------------------------------------------------------------------
(* Types, and all that the calls, the events, the row and the ledger know.  *)
THEOREM InvariantHolds == Spec => []IInv
  <1>1. Init => IInv
    BY InitHolds
  <1>2. IInv /\ [Next]_vars => IInv'
    <2>1. TypeOK' /\ Books' => IInv'
      BY DEF IInv, Books, EventsTrue, CallsTrue, RowTrue, LedgerOnce
    <2> QED BY <2>1, TypeStep, BooksStep
  <1> QED BY <1>1, <1>2, PTL DEF Spec

(* Every variable keeps its type. *)
THEOREM TypeCorrect == Spec => []TypeOK
  <1>1. IInv => TypeOK
    BY DEF IInv
  <1> QED BY <1>1, InvariantHolds, PTL

(* The rider pays the fare at most once (chargeTrip, captureAuthorizationHold).  *)
THEOREM FareTakenOnce == Spec => []ChargedOnce
  <1>1. IInv => ChargedOnce
    BY FareAssumption DEF IInv, IntentSane, ChargedOnce
  <1> QED BY <1>1, InvariantHolds, PTL

(* The payments row never says of a payment what Stripe did not do, nor of  *)
(* a refund that it gave back more.                                         *)
THEOREM RowIsTrue == Spec => []RowMatchesStripe
  <1>1. IInv => RowMatchesStripe
    BY DEF IInv, RowMatchesStripe
  <1> QED BY <1>1, InvariantHolds, PTL

(* One ledger pair at most, and only for a payment with a row.              *)
THEOREM BookedOnce == Spec => []LedgerBookedOnce
  <1>1. IInv => LedgerBookedOnce
    BY DEF IInv
  <1> QED BY <1>1, InvariantHolds, PTL
=============================================================================
