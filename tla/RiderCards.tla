----------------------------- MODULE RiderCards -----------------------------
(***************************************************************************)
(* The cards of one rider: PaymentMethodsScreen, PaymentMethodsService and *)
(* as much of Stripe as they use (customers, and cards attached to them).  *)
(* The screen may have two requests under way, on different cards or       *)
(* because it was left and opened again.                                   *)
(***************************************************************************)
EXTENDS FaultBudget, FiniteSets

CONSTANTS
  CardFlows,     \* requests of the screen under way at a time
  MaxCards       \* bound: cards entered; customers made

ASSUME CardsAssumption == MaxCards \in Nat

VARIABLES
  customer,      \* riders.stripeCustomerId, 0 if there is none
  default,       \* riders.defaultPaymentMethodId, 0 if there is none
  customers,     \* customers made at Stripe
  attached,      \* Stripe: the customer of each card, 0 if it has none
  entered,       \* cards entered so far
  shown,         \* the screen: the cards it lists, and which is the default
  flow,          \* what each request is doing
  dropped,       \* the rider removed the default card and has set none since
  overlapped     \* two requests changed the cards at the same time

rcVars == <<customer, default, customers, attached, entered, shown, flow, dropped, overlapped>>
Cards == 1..MaxCards
NoFlow == [op |-> "none", at |-> "idle", card |-> 0, owner |-> 0, was |-> FALSE]

RcTypeOK ==
  /\ customer \in 0..MaxCards /\ default \in 0..MaxCards /\ customers \in 0..MaxCards
  /\ attached \in [Cards -> 0..MaxCards] /\ entered \in 0..MaxCards
  /\ shown \in [cards : SUBSET Cards, default : 0..MaxCards]
  /\ flow \in [CardFlows -> [op : {"none", "load", "default", "remove", "add"},
                 at : {"idle", "list", "owner", "row", "stripe", "detach", "unset", "customer",
                       "create", "link", "sheet", "check"},
                 card : 0..MaxCards, owner : 0..MaxCards, was : BOOLEAN]]
  /\ dropped \in BOOLEAN /\ overlapped \in BOOLEAN

RcInit ==
  /\ customer = 0 /\ default = 0 /\ customers = 0 /\ attached = [c \in Cards |-> 0]
  /\ entered = 0 /\ shown = [cards |-> {}, default |-> 0]
  /\ flow = [f \in CardFlows |-> NoFlow] /\ dropped = FALSE /\ overlapped = FALSE

\* What the list shows of the customer the rider now has.
Listed == {c \in Cards : customer # 0 /\ attached[c] = customer}
InList(c) == IF c \in Listed THEN c ELSE 0

Turns(f, at) == flow' = [flow EXCEPT ![f].at = at]
Stops(f) == flow' = [flow EXCEPT ![f] = NoFlow]

-----------------------------------------------------------------------------
(* Taps                                                                     *)

Taps(f, op, at, c) ==
  /\ flow[f] = NoFlow
  /\ flow' = [flow EXCEPT ![f] = [op |-> op, at |-> at, card |-> c, owner |-> 0, was |-> FALSE]]
  /\ overlapped' = (overlapped \/ (op # "load" /\ \E g \in CardFlows \ {f} :
                                                    flow[g].op \notin {"none", "load"}))
  /\ UNCHANGED <<customer, default, customers, attached, entered, shown, dropped, faults>>

OpenCards(f) == Taps(f, "load", "list", 0)
TapDefault(f, c) == c \in shown.cards /\ c # shown.default /\ Taps(f, "default", "owner", c)
TapRemove(f, c) == c \in shown.cards /\ Taps(f, "remove", "owner", c)
TapAddCard(f) == entered < MaxCards /\ Taps(f, "add", "customer", 0)

-----------------------------------------------------------------------------
(* PaymentMethodsService                                                    *)

ListCards(f) ==
  /\ flow[f].at = "list" /\ Stops(f)
  /\ shown' = [cards |-> Listed, default |-> InList(default)]
  /\ UNCHANGED <<customer, default, customers, attached, entered, dropped, overlapped, faults>>

\* The card must belong to the customer; a removal keeps what it read.
CheckOwner(f) ==
  LET c == flow[f].card IN
  /\ flow[f].at = "owner"
  /\ IF c \notin Listed THEN Stops(f)
     ELSE flow' = [flow EXCEPT ![f].at = IF flow[f].op = "remove" THEN "detach" ELSE "row",
                               ![f].was = (default = c)]
  /\ UNCHANGED <<customer, default, customers, attached, entered, shown, dropped, overlapped, faults>>

WriteDefault(f) ==
  /\ flow[f].at = "row" /\ Turns(f, "stripe") /\ default' = flow[f].card /\ dropped' = FALSE
  /\ UNCHANGED <<customer, customers, attached, entered, shown, overlapped, faults>>

\* Stripe's own default is set too; a tap marks the card, an addition reloads.
DefaultSet(f) ==
  /\ flow[f].at = "stripe"
  /\ IF flow[f].op = "add" THEN Turns(f, "list") /\ UNCHANGED shown
                           ELSE Stops(f) /\ shown' = [shown EXCEPT !.default = flow[f].card]
  /\ UNCHANGED <<customer, default, customers, attached, entered, dropped, overlapped, faults>>

Hide(c) == shown' = [cards |-> shown.cards \ {c},
                     default |-> IF shown.default = c THEN 0 ELSE shown.default]

Detach(f) ==
  /\ flow[f].at = "detach" /\ attached' = [attached EXCEPT ![flow[f].card] = 0]
  /\ IF flow[f].was THEN Turns(f, "unset") /\ UNCHANGED shown
                    ELSE Stops(f) /\ Hide(flow[f].card)
  /\ UNCHANGED <<customer, default, customers, entered, dropped, overlapped, faults>>

UnsetDefault(f) ==
  /\ flow[f].at = "unset" /\ Stops(f) /\ Hide(flow[f].card) /\ default' = 0 /\ dropped' = TRUE
  /\ UNCHANGED <<customer, customers, attached, entered, overlapped, faults>>

\* createSetupIntent: a rider without a customer gets one first.
ReadCustomer(f) ==
  /\ flow[f].at = "customer"
  /\ flow' = [flow EXCEPT ![f].at = IF customer = 0 THEN "create" ELSE "sheet",
                          ![f].owner = customer]
  /\ UNCHANGED <<customer, default, customers, attached, entered, shown, dropped, overlapped, faults>>

CreateCustomer(f) ==
  /\ flow[f].at = "create" /\ customers < MaxCards /\ customers' = customers + 1
  /\ flow' = [flow EXCEPT ![f].at = "link", ![f].owner = customers']
  /\ UNCHANGED <<customer, default, attached, entered, shown, dropped, overlapped, faults>>

LinkCustomer(f) ==
  /\ flow[f].at = "link" /\ Turns(f, "sheet") /\ customer' = flow[f].owner
  /\ UNCHANGED <<default, customers, attached, entered, shown, dropped, overlapped, faults>>

\* The sheet of Stripe attaches the card, or the rider cancels.
EnterCard(f) ==
  /\ flow[f].at = "sheet" /\ entered < MaxCards /\ entered' = entered + 1
  /\ attached' = [attached EXCEPT ![entered'] = flow[f].owner] /\ Turns(f, "check")
  /\ UNCHANGED <<customer, default, customers, shown, dropped, overlapped, faults>>
CancelSheet(f) ==
  /\ flow[f].at = "sheet" /\ Stops(f)
  /\ UNCHANGED <<customer, default, customers, attached, entered, shown, dropped, overlapped, faults>>

(* mutant: an only card is taken for the default *)
OnlyIsDefault == default \notin Listed /\ Cardinality(Listed) > 1
NeedsDefault == Listed # {} /\ default \notin Listed

\* handleAddCard: without a default, the newest card becomes it.
CheckDefault(f) ==
  /\ flow[f].at = "check"
  /\ IF NeedsDefault
       THEN \E c \in Listed : /\ \A d \in Listed : d <= c
                              /\ flow' = [flow EXCEPT ![f].at = "owner", ![f].card = c]
       ELSE Turns(f, "list")
  /\ UNCHANGED <<customer, default, customers, attached, entered, shown, dropped, overlapped, faults>>

CardFlowDies(f) ==
  /\ flow[f] # NoFlow /\ Stops(f) /\ Fault
  /\ UNCHANGED <<customer, default, customers, attached, entered, shown, dropped, overlapped>>

-----------------------------------------------------------------------------
CardStep(f) ==
  \/ ListCards(f) \/ CheckOwner(f) \/ WriteDefault(f) \/ DefaultSet(f) \/ Detach(f)
  \/ UnsetDefault(f) \/ ReadCustomer(f) \/ CreateCustomer(f) \/ LinkCustomer(f)
  \/ CheckDefault(f)

RcNext == \E f \in CardFlows :
  \/ OpenCards(f) \/ TapAddCard(f) \/ EnterCard(f) \/ CancelSheet(f) \/ CardStep(f)
  \/ CardFlowDies(f) \/ \E c \in Cards : TapDefault(f, c) \/ TapRemove(f, c)
RcSpec == RcInit /\ faults = 0 /\ [][RcNext]_<<rcVars, faults>>

-----------------------------------------------------------------------------
\* Between requests a rider with a card can ask for a ride: one of the cards is
\* the default, unless the rider removed the default card or two requests
\* overlapped; and the default is a card the customer still has
\* (PaymentMethodsScreen, PaymentMethodsService).
DefaultIsUsable ==
  (\A f \in CardFlows : flow[f] = NoFlow) /\ faults = 0 /\ ~overlapped =>
     /\ Listed # {} /\ ~dropped => default # 0
     /\ default # 0 => default \in Listed
=============================================================================
