----------------------------- MODULE RidePayment -----------------------------
(***************************************************************************)
(* The money of one ride in payment-service (payment.service.ts): the      *)
(* Stripe payment intent, the payments row, the ledger pair and the        *)
(* webhooks that report what Stripe did.                                   *)
(*                                                                         *)
(* A standard ride is charged by chargeTrip; an offer ride is settled by   *)
(* capturing the hold placed when the bid was submitted.  A call c runs as *)
(* one step per await, with its locals in call[c]; any c can carry any     *)
(* operation, so two of them are a retry, a repeated end of the trip or    *)
(* two operators at once.  Stripe is external: it serialises what is asked *)
(* of one intent, replays the first answer given to an idempotency key and *)
(* delivers its events late, in any order and more than once.              *)
(*                                                                         *)
(* Abstractions.  The fare is one amount: chargeTrip refuses any amount    *)
(* but trip.finalFare, which the end of the trip writes before it charges. *)
(* "processing" is every answer that is neither success nor refusal.       *)
(* Idempotency keys and claimed event ids outlive the ride (24 hours).     *)
(***************************************************************************)
EXTENDS Integers

CONSTANTS
  Calls,     \* calls of payment-service in flight for this ride
  Fare,      \* the canonical fare
  MaxFaults  \* bound: handlers that die half-way

ASSUME FareAssumption == Fare \in Nat \ {0}
ASSUME FaultsAssumption == MaxFaults \in Nat

VARIABLES
  offer,    \* the ride has a bidId: settled by capture, never by a charge
  intent,   \* the ride's payment intent at Stripe
  row,      \* the payments row
  ledger,   \* rider_payment pairs in the ledger
  audited,  \* a fare_integrity_error was recorded for the ride
  call,     \* the locals of every call in flight
  sent,     \* the events Stripe emitted
  claimed,  \* the events whose id is in Redis
  applying, \* the events claimed by a handler that has not written yet
  faults    \* handlers that died so far

webhookVars == <<sent, claimed, applying>>
vars == <<offer, intent, row, ledger, audited, call, webhookVars, faults>>

Amounts == 0..Fare
IntentStatus == {"none", "processing", "succeeded", "failed", "requires_capture", "canceled"}
RowStatus == {"none", "pending", "succeeded", "failed", "refunded", "partially_refunded"}
Steps == {"idle", "charge", "bookCharge", "capture", "bookCapture", "createRow",
          "void", "markVoided", "refund", "bookRefund", "ledger"}

Event == [kind : {"succeeded", "failed", "refunded"}, total : Amounts]
Settled == [kind |-> "succeeded", total |-> 0]
Refused == [kind |-> "failed", total |-> 0]
RefundedTo(n) == [kind |-> "refunded", total |-> n]

\* reply: what Stripe answers to the key charge_<trip>; "none" before it saw it
\* captured, refunded: what the rider paid for the ride and what came back
NoIntent == [status |-> "none", reply |-> "none", captured |-> 0, refunded |-> 0]
NoRow == [status |-> "none", refund |-> 0]
\* got: Stripe's answer; seen, amount: the refund total read and the amount added
Idle == [at |-> "idle", got |-> "none", seen |-> 0, amount |-> 0]

-----------------------------------------------------------------------------
(* A hold exists before an offer ride does; a standard ride has no intent.  *)
Init ==
  /\ offer \in BOOLEAN
  /\ intent = [NoIntent EXCEPT !.status = IF offer THEN "requires_capture" ELSE "none"]
  /\ row = NoRow
  /\ ledger = 0
  /\ audited = FALSE
  /\ call = [c \in Calls |-> Idle]
  /\ sent = {} /\ claimed = {} /\ applying = {}
  /\ faults = 0

Starts(c, step) == call[c] = Idle /\ call' = [call EXCEPT ![c].at = step]
At(c, step) == call[c].at = step
Goes(c, step) == call' = [call EXCEPT ![c].at = step]
Returns(c) == call' = [call EXCEPT ![c] = Idle]

-----------------------------------------------------------------------------
(* chargeTrip: a ride with a bid is refused and the attempt recorded, and a *)
(* ride whose payment has succeeded returns without asking Stripe.          *)
ChargeRefused(c) ==
  /\ call[c] = Idle
  /\ offer
  /\ audited' = TRUE
  /\ UNCHANGED <<offer, intent, row, ledger, call, webhookVars, faults>>

ChargeAnyRide == TRUE \* mutant: a ride with a bid is not refused
DirectCharge == ~offer

ChargeChecks(c) ==
  /\ DirectCharge
  /\ row.status # "succeeded"
  /\ Starts(c, "charge")
  /\ UNCHANGED <<offer, intent, row, ledger, audited, webhookVars, faults>>

(* What Stripe does with the first request that carries the key: takes the  *)
(* fare, keeps processing, or refuses the card (the call throws).           *)
FirstCharge ==
  \E outcome \in {"succeeded", "processing", "failed"} :
    /\ intent' = [intent EXCEPT !.status = outcome, !.reply = outcome,
                     !.captured = IF outcome = "succeeded" THEN @ + Fare ELSE @]
    /\ sent' = sent \cup (CASE outcome = "succeeded" -> {Settled}
                            [] outcome = "failed" -> {Refused}
                            [] OTHER -> {})

Replayed == UNCHANGED <<intent, sent>>

(* paymentIntents.create, idempotency key charge_<trip>.                    *)
ChargeStripe(c) ==
  /\ At(c, "charge")
  /\ IF intent.reply = "none" THEN FirstCharge ELSE Replayed
  /\ call' = [call EXCEPT ![c] = IF intent'.reply = "failed" THEN Idle
                ELSE [Idle EXCEPT !.at = "bookCharge", !.got = intent'.reply]]
  /\ UNCHANGED <<offer, row, ledger, audited, claimed, applying, faults>>

(* payment.create; a second row for the trip violates its key and throws.   *)
ChargeBook(c) ==
  /\ At(c, "bookCharge")
  /\ IF row.status = "none"
       THEN /\ row' = [row EXCEPT !.status =
                         IF call[c].got = "succeeded" THEN "succeeded" ELSE "pending"]
            /\ call' = [call EXCEPT ![c] = [Idle EXCEPT !.at = "ledger"]]
       ELSE Returns(c) /\ UNCHANGED row
  /\ UNCHANGED <<offer, intent, ledger, audited, webhookVars, faults>>

(* recordRiderPayment, in the background of the charge or of the capture.   *)
BookLedger(c) ==
  /\ At(c, "ledger")
  /\ ledger' = ledger + 1
  /\ Returns(c)
  /\ UNCHANGED <<offer, intent, row, audited, webhookVars, faults>>

-----------------------------------------------------------------------------
(* captureAuthorizationHold                                                 *)
CaptureCall(c) ==
  /\ offer
  /\ Starts(c, "capture")
  /\ UNCHANGED <<offer, intent, row, ledger, audited, webhookVars, faults>>

CaptureFailureIgnored(c) == Replayed /\ Goes(c, "bookCapture") \* mutant: the error is swallowed
CaptureFails(c) == Replayed /\ Returns(c)

(* paymentIntents.capture, idempotency key capture_<intent>: the first      *)
(* capture takes the fare, a repeated one is answered alike, and a hold     *)
(* that is gone makes the call throw.                                       *)
CaptureStripe(c) ==
  /\ At(c, "capture")
  /\ \/ /\ intent.status = "requires_capture"
        /\ intent' = [intent EXCEPT !.status = "succeeded", !.captured = @ + Fare]
        /\ sent' = sent \cup {Settled}
        /\ Goes(c, "bookCapture")
     \/ intent.status = "succeeded" /\ Replayed /\ Goes(c, "bookCapture")
     \/ intent.status = "canceled" /\ CaptureFails(c)
  /\ UNCHANGED <<offer, row, ledger, audited, claimed, applying, faults>>

(* updateMany on the intent; only when it finds no row is this the first    *)
(* booking, and only the first booking writes the ledger.                   *)
CaptureUpdate(c) ==
  /\ At(c, "bookCapture")
  /\ \/ row.status # "none" /\ row' = [row EXCEPT !.status = "succeeded"] /\ Returns(c)
     \/ row.status = "none" /\ UNCHANGED row /\ Goes(c, "createRow")
  /\ UNCHANGED <<offer, intent, ledger, audited, webhookVars, faults>>

BookingLostBooksLedger(c) == \* mutant: firstBooking is not reset in the catch
  UNCHANGED row /\ Goes(c, "ledger")
BookingLost(c) == UNCHANGED row /\ Returns(c)

(* payment.create; losing to another capture is caught and books nothing.   *)
CaptureBook(c) ==
  /\ At(c, "createRow")
  /\ \/ row.status = "none" /\ row' = [row EXCEPT !.status = "succeeded"] /\ Goes(c, "ledger")
     \/ row.status # "none" /\ BookingLost(c)
  /\ UNCHANGED <<offer, intent, ledger, audited, webhookVars, faults>>

-----------------------------------------------------------------------------
(* voidAuthorizationHold: cancel, then mark the row of the intent, if any.  *)
VoidCall(c) ==
  /\ offer
  /\ Starts(c, "void")
  /\ UNCHANGED <<offer, intent, row, ledger, audited, webhookVars, faults>>

VoidFails(c) == Replayed /\ Returns(c)

VoidStripe(c) ==
  /\ At(c, "void")
  /\ \/ /\ intent.status = "requires_capture"
        /\ intent' = [intent EXCEPT !.status = "canceled"]
        /\ sent' = sent \cup {Refused}
        /\ Goes(c, "markVoided")
     \/ intent.status # "requires_capture" /\ VoidFails(c)
  /\ UNCHANGED <<offer, row, ledger, audited, claimed, applying, faults>>

MarkRow(status) == row' = IF row.status = "none" THEN row ELSE [row EXCEPT !.status = status]

VoidMark(c) ==
  /\ At(c, "markVoided")
  /\ MarkRow("failed")
  /\ Returns(c)
  /\ UNCHANGED <<offer, intent, ledger, audited, webhookVars, faults>>

-----------------------------------------------------------------------------
(* issueRefund: the total is read here and written after Stripe answered.   *)
(* "full" is what the row says is left.                                     *)
RefundRead(c) ==
  /\ call[c] = Idle
  /\ row.status \notin {"none", "refunded"}
  /\ \E amount \in (1..Fare) \cup {Fare - row.refund} :
       call' = [call EXCEPT ![c] = [at |-> "refund", got |-> "none",
                                    seen |-> row.refund, amount |-> amount]]
  /\ UNCHANGED <<offer, intent, row, ledger, audited, webhookVars, faults>>

(* Stripe gives back no more than it took, and never nothing.               *)
RefundAccepted(amount) == amount >= 1 /\ intent.refunded + amount <= intent.captured

GiveBack(amount) ==
  /\ intent' = [intent EXCEPT !.refunded = @ + amount]
  /\ sent' = sent \cup {RefundedTo(intent.refunded + amount)}

RefundFails(c) == Replayed /\ Returns(c)

RefundStripe(c) ==
  /\ At(c, "refund")
  /\ \/ /\ RefundAccepted(call[c].amount)
        /\ GiveBack(call[c].amount)
        /\ Goes(c, "bookRefund")
     \/ ~RefundAccepted(call[c].amount) /\ RefundFails(c)
  /\ UNCHANGED <<offer, row, ledger, audited, claimed, applying, faults>>

RefundStatus(total) == IF total >= Fare THEN "refunded" ELSE "partially_refunded"

RefundBook(c) ==
  /\ At(c, "bookRefund")
  /\ LET total == call[c].seen + call[c].amount
     IN  row' = [status |-> RefundStatus(total), refund |-> total]
  /\ Returns(c)
  /\ UNCHANGED <<offer, intent, ledger, audited, webhookVars, faults>>

-----------------------------------------------------------------------------
(* Stripe on its own: a processing payment settles, a hold lapses, and a    *)
(* refund is issued from Stripe's dashboard.                                *)
IntentSettles ==
  /\ intent.status = "processing"
  /\ \/ /\ intent' = [intent EXCEPT !.status = "succeeded", !.captured = Fare]
        /\ sent' = sent \cup {Settled}
     \/ /\ intent' = [intent EXCEPT !.status = "failed"]
        /\ sent' = sent \cup {Refused}
  /\ UNCHANGED <<offer, row, ledger, audited, call, claimed, applying, faults>>

HoldLapses ==
  /\ intent.status = "requires_capture"
  /\ intent' = [intent EXCEPT !.status = "canceled"]
  /\ sent' = sent \cup {Refused}
  /\ UNCHANGED <<offer, row, ledger, audited, call, claimed, applying, faults>>

DashboardRefund ==
  /\ \E amount \in 1..Fare : RefundAccepted(amount) /\ GiveBack(amount)
  /\ UNCHANGED <<offer, row, ledger, audited, call, claimed, applying, faults>>

-----------------------------------------------------------------------------
(* handleWebhookEvent: claim the event id in Redis, then write the row of   *)
(* the intent; an event that was claimed before is answered and dropped.    *)
ClaimEventInverted(e) == \* mutant: the event is dropped when the claim succeeds
  /\ e \in sent \ claimed
  /\ claimed' = claimed \cup {e}
  /\ UNCHANGED <<offer, intent, row, ledger, audited, call, sent, applying, faults>>

ClaimEvent(e) ==
  /\ e \in sent \ claimed
  /\ claimed' = claimed \cup {e}
  /\ applying' = applying \cup {e}
  /\ UNCHANGED <<offer, intent, row, ledger, audited, call, sent, faults>>

ApplyEvent(e) ==
  /\ e \in applying
  /\ applying' = applying \ {e}
  /\ \/ e.kind \in {"succeeded", "failed"} /\ MarkRow(e.kind)
     \/ /\ e.kind = "refunded"
        /\ row' = IF row.status = "none" THEN row
                  ELSE [status |-> RefundStatus(e.total), refund |-> e.total]
  /\ UNCHANGED <<offer, intent, ledger, audited, call, sent, claimed, faults>>

(* A task dies, or Stripe, the database or the network fails under it: the  *)
(* rest of the call, or of the webhook, never runs.                         *)
CallDies(c) ==
  /\ faults < MaxFaults /\ call[c] # Idle
  /\ faults' = faults + 1
  /\ Returns(c)
  /\ UNCHANGED <<offer, intent, row, ledger, audited, webhookVars>>

WebhookDies(e) ==
  /\ faults < MaxFaults /\ e \in applying
  /\ faults' = faults + 1
  /\ applying' = applying \ {e}
  /\ UNCHANGED <<offer, intent, row, ledger, audited, call, sent, claimed>>

-----------------------------------------------------------------------------
CallArrives(c) ==
  \/ ChargeRefused(c) \/ ChargeChecks(c) \/ CaptureCall(c) \/ VoidCall(c) \/ RefundRead(c)

CallRuns(c) ==
  \/ ChargeStripe(c) \/ ChargeBook(c) \/ BookLedger(c)
  \/ CaptureStripe(c) \/ CaptureUpdate(c) \/ CaptureBook(c)
  \/ VoidStripe(c) \/ VoidMark(c)
  \/ RefundStripe(c) \/ RefundBook(c)

StripeActs == IntentSettles \/ HoldLapses \/ DashboardRefund

Next ==
  \/ \E c \in Calls : CallArrives(c) \/ CallRuns(c) \/ CallDies(c)
  \/ \E e \in Event : ClaimEvent(e) \/ ApplyEvent(e) \/ WebhookDies(e)
  \/ StripeActs

(* Stripe delivers an event until it is answered, and a handler that has    *)
(* claimed one goes on.  Nothing makes a call run to its end.               *)
Fairness == \A e \in Event : WF_vars(ClaimEvent(e)) /\ WF_vars(ApplyEvent(e))

Spec == Init /\ [][Next]_vars /\ Fairness

-----------------------------------------------------------------------------
TypeOK ==
  /\ offer \in BOOLEAN
  /\ intent \in [status : IntentStatus, reply : {"none", "succeeded", "processing", "failed"},
                 captured : Nat, refunded : Nat]
  /\ row \in [status : RowStatus, refund : Nat]
  /\ ledger \in Nat
  /\ audited \in BOOLEAN
  /\ call \in [Calls -> [at : Steps, got : {"none", "succeeded", "processing", "failed"},
                         seen : Nat, amount : Nat]]
  /\ sent \subseteq Event /\ claimed \subseteq sent /\ applying \subseteq claimed
  /\ faults \in 0..MaxFaults

(* The rider pays the fare at most once, however many charges, captures,    *)
(* voids and retries run on the ride (the idempotency keys, and the refusal *)
(* of a direct charge on an offer ride).                                    *)
ChargedOnce == intent.captured <= Fare

(* The row says what Stripe did: a payment called succeeded was taken, one  *)
(* called failed was not, whatever the order of answers, webhooks, crashes. *)
StatusMatchesStripe ==
  /\ row.status = "succeeded" => intent.captured = Fare
  /\ row.status = "failed" => intent.captured = 0

(* The row never claims that more was given back than Stripe gave back, nor *)
(* that a fare was refunded in full when it was not, although issueRefund   *)
(* adds to a total it read before it called Stripe and events come late.    *)
RefundNeverOverstated ==
  /\ row.refund <= intent.refunded
  /\ row.status = "refunded" => intent.refunded = intent.captured

(* Both, for the payments row is what receipts and refunds are read from.   *)
RowMatchesStripe == StatusMatchesStripe /\ RefundNeverOverstated

(* The ledger has no idempotency of its own: retried charges and captures   *)
(* write one pair of entries at the most, for a payment that has a row.     *)
LedgerBookedOnce ==
  /\ ledger <= 1
  /\ ledger = 1 => row.status # "none"

(* What makes them inductive: the intent's own books, the truth of what     *)
(* an undelivered event and a call between two of its steps still know, and *)
(* that the ledger entry of the first booking is in one place.              *)
IntentSane ==
  /\ intent.captured \in {0, Fare}
  /\ intent.captured = Fare <=> intent.status = "succeeded"
  /\ intent.refunded <= intent.captured
  /\ intent.reply = "succeeded" => intent.captured = Fare
  /\ ~offer /\ intent.reply = "none" => intent.status = "none"

EventTrue(e) ==
  /\ e.kind = "succeeded" => intent.captured = Fare
  /\ e.kind = "failed" => intent.status \in {"failed", "canceled"}
  /\ e.kind = "refunded" => e.total <= intent.refunded

CallTrue(k) ==
  /\ k.at = "charge" => ~offer
  /\ k.at = "bookCharge" /\ k.got = "succeeded" => intent.captured = Fare
  /\ k.at \in {"bookCapture", "createRow"} => intent.captured = Fare
  /\ k.at = "markVoided" => intent.status = "canceled"
  /\ k.at = "refund" => k.seen <= intent.refunded
  /\ k.at = "bookRefund" => k.seen + k.amount <= intent.refunded

RowSane ==
  /\ row.status = "failed" => intent.status \in {"failed", "canceled"}
  /\ row.status = "refunded" => intent.captured = Fare

LedgerDue == {c \in Calls : call[c].at = "ledger"}

LedgerTrue ==
  /\ LedgerDue # {} => ledger = 0 /\ row.status # "none"
  /\ \A c, d \in LedgerDue : c = d

IInv ==
  /\ TypeOK
  /\ IntentSane
  /\ \A e \in sent : EventTrue(e)
  /\ \A c \in Calls : CallTrue(call[c])
  /\ StatusMatchesStripe /\ RefundNeverOverstated /\ RowSane
  /\ LedgerBookedOnce /\ LedgerTrue

(* A pending payment whose outcome Stripe still has to report does not stay *)
(* pending, unless the handler of the event dies once it claimed the event. *)
PendingPaymentSettles ==
  (row.status = "pending" /\ sent \cap {Settled, Refused} \cap (applying \cup (sent \ claimed)) # {})
    ~> (row.status # "pending" \/ faults > 0)
=============================================================================
