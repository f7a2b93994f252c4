------------------------------ MODULE MCOffice ------------------------------
(***************************************************************************)
(* What happens to a ride and its money behind the apps, for TLC: the      *)
(* fraud review that may hold it, the tickets and refunds of support, the  *)
(* wallet it pays into and the weekly batch, the advice the founder is     *)
(* given, the masked calls of its two parties, and the books of payment-   *)
(* service.  A behaviour lets one of them run and the others rest; they    *)
(* share the fault budget.                                                 *)
(***************************************************************************)
EXTENDS TrustHold, SupportDesk, DriverWallet, AdviceLedger, ProxySession, Books

\* Two of the roles may refund a whole fare, and the others nothing.
MCRefundCap == [c \in Clerks |-> IF c = "agent" THEN 0 ELSE FinalFare]

CONSTANTS pi                     \* the payment that is refunded
MCRefundOf == [r \in StripeRefunds |-> pi]

VARIABLE part   \* the component that runs

mcVars == <<part, faults, thVars, sdVars, dwVars, alVars, pxVars, booksVars>>
InReview == part = "review" /\ UNCHANGED <<part, sdVars, dwVars, alVars, pxVars, booksVars>>
AtSupport(p) == part = p /\ UNCHANGED <<part, thVars, dwVars, alVars, pxVars, booksVars>>
InWallet == part = "wallet" /\ UNCHANGED <<part, thVars, sdVars, alVars, pxVars, booksVars>>
InAdvice == part = "advice" /\ UNCHANGED <<part, thVars, sdVars, dwVars, pxVars, booksVars>>
OnCalls == part = "calls" /\ UNCHANGED <<part, thVars, sdVars, dwVars, alVars, booksVars>>
InBooks(p) == part = p /\ UNCHANGED <<part, thVars, sdVars, dwVars, alVars, pxVars>>

MCInit ==
  /\ part \in {"review", "tickets", "refunds", "wallet", "advice", "calls", "ledger",
               "reconciliation"}
  /\ faults = 0
  /\ ThInit /\ SdInit /\ DwInit /\ AlInit /\ PxInit /\ BooksInit
MCNext ==
  \/ InReview /\ ThNext
  \/ AtSupport("tickets") /\ TicketsNext
  \/ AtSupport("refunds") /\ RefundsNext
  \/ InWallet /\ DwNext
  \/ InAdvice /\ AlNext
  \/ OnCalls /\ PxNext
  \/ InBooks("ledger") /\ LedgerNext
  \/ InBooks("reconciliation") /\ ReconcileNext

Spec == MCInit /\ [][MCNext]_mcVars
=============================================================================
