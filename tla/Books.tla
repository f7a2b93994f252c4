------------------------------- MODULE Books -------------------------------
(***************************************************************************)
(* The books of payment-service: the double entries of ledger.service.ts   *)
(* and the comparison with Stripe of reconciliation.service.ts.            *)
(*                                                                         *)
(* Nothing in the repository asks for the entries of an earning, a tip, a  *)
(* refund, a bonus or an adjustment, reconciles a refund or resolves an    *)
(* entry yet; these are taken to be called at any time.  A payment is      *)
(* reconciled in the background of the charge or capture that wrote its    *)
(* row, a dispute is recorded when Stripe's event arrives.  When an entry  *)
(* is due, which RidePayment and InstantPayout say, is left open here.     *)
(*                                                                         *)
(* A payment takes Fare, a refund gives back one unit.  An account's       *)
(* balance is its credits less its debits.                                 *)
(***************************************************************************)
EXTENDS FaultBudget, FiniteSets, Integers

CONSTANTS
  Payments,    \* payment intents
  StripeRefunds, Disputes,
  RefundOf,    \* the intent a refund is of
  Fare,
  BookKeepers, \* calls of the reconciliation service under way
  MaxPostings  \* bound: pairs of ledger entries

ASSUME BooksAssumption ==
  /\ Payments # {} /\ Fare \in Nat \ {0} /\ MaxPostings \in Nat
  /\ IsFiniteSet(StripeRefunds) /\ RefundOf \in [StripeRefunds -> Payments]

VARIABLES
  balance,   \* the ledger, summed by type of account
  postings,  \* pairs of entries in it
  booked,    \* intents with a payments row
  refunded,  \* refundAmount of that row
  atStripe,  \* refunds and disputes Stripe made
  verdict,   \* the payment_reconciliation row of every object of Stripe
  keeper     \* where each call is, and what it read

booksVars == <<balance, postings, booked, refunded, atStripe, verdict, keeper>>
Ledger == <<balance, postings>>
Local == <<booked, refunded, atStripe>>

Accounts == {"rider", "driver", "platform"}
Objects == Payments \cup StripeRefunds \cup Disputes
Verdict == [status : {"none", "matched", "mismatch", "orphan", "resolved"}, local : Nat]
NoVerdict == [status |-> "none", local |-> 0]
IdleKeeper == [at |-> "idle", of |-> CHOOSE o \in Objects : TRUE, then |-> NoVerdict]
Keeper == [at : {"idle", "look", "compare", "create"}, of : Objects, then : Verdict]

BooksTypeOK ==
  /\ balance \in [Accounts -> Int] /\ postings \in 0..MaxPostings
  /\ booked \subseteq Payments /\ refunded \in [Payments -> Nat]
  /\ atStripe \subseteq StripeRefunds \cup Disputes
  /\ verdict \in [Objects -> Verdict]
  /\ keeper \in [BookKeepers -> Keeper]

BooksInit ==
  /\ balance = [a \in Accounts |-> 0] /\ postings = 0
  /\ booked = {} /\ refunded = [i \in Payments |-> 0] /\ atStripe = {}
  /\ verdict = [o \in Objects |-> NoVerdict]
  /\ keeper = [k \in BookKeepers |-> IdleKeeper]

-----------------------------------------------------------------------------
(* The ledger: who is debited and who is credited                           *)

Legs == [rider_payment  |-> <<"rider", "platform">>,
         driver_earning |-> <<"platform", "driver">>,
         tip            |-> <<"rider", "driver">>,
         payout         |-> <<"driver", "platform">>]
AdminLegs == [refund    |-> <<"platform", "rider">>,
              incentive |-> <<"platform", "driver">>]

\* recordAdjustment: against the platform, in either direction.
AdjustmentLegs(account, direction) ==
  IF direction = "debit" THEN <<account, "platform">> ELSE <<"platform", account>>

\* createEntries: refused unless the two amounts are the same, and one
\* transaction for both rows.
CreateEntries(legs, debit, credit) ==
  /\ debit = credit /\ postings < MaxPostings /\ postings' = postings + 1
  /\ balance' = [[balance EXCEPT ![legs[1]] = @ - debit] EXCEPT ![legs[2]] = @ + credit]
  /\ UNCHANGED <<Local, verdict, keeper, faults>>

RecordEntries(n) == \E k \in DOMAIN Legs : CreateEntries(Legs[k], n, n)
RecordByAdmin(n) == \E k \in DOMAIN AdminLegs : CreateEntries(AdminLegs[k], n, n)
RecordAdjustment(n) ==
  \E a \in Accounts, d \in {"debit", "credit"} : CreateEntries(AdjustmentLegs(a, d), n, n)

-----------------------------------------------------------------------------
(* What is reconciled                                                       *)

BookPayment(i) ==
  /\ i \notin booked /\ booked' = booked \cup {i}
  /\ UNCHANGED <<Ledger, refunded, atStripe, verdict, keeper, faults>>

\* Stripe makes a refund, or opens a dispute, and says so more than once.
AtStripe(o) ==
  /\ o \notin atStripe /\ atStripe' = atStripe \cup {o}
  /\ UNCHANGED <<Ledger, booked, refunded, verdict, keeper, faults>>

\* issueRefund and charge.refunded bring the row up to what was given back.
CountRefunds(i) ==
  /\ i \in booked
  /\ refunded' = [refunded EXCEPT ![i] =
                    Cardinality({r \in atStripe \cap StripeRefunds : RefundOf[r] = i})]
  /\ UNCHANGED <<Ledger, booked, atStripe, verdict, keeper, faults>>

-----------------------------------------------------------------------------
(* The reconciliation service                                               *)

Reconcile(k, o) ==
  /\ keeper[k].at = "idle" /\ o \in booked \cup atStripe
  /\ keeper' = [keeper EXCEPT ![k].at = "look", ![k].of = o]
  /\ UNCHANGED <<Ledger, Local, verdict, faults>>

Stops(k) == keeper' = [keeper EXCEPT ![k] = IdleKeeper]
HasVerdict(o) == verdict[o].status # "none"
Opened == [status |-> "mismatch", local |-> 0]   \* a dispute, nothing to compare

\* findUnique on the object: an entry that exists is left alone.
LookForVerdict(k) ==
  LET o == keeper[k].of IN
  /\ keeper[k].at = "look"
  /\ \/ HasVerdict(o) /\ Stops(k)
     \/ /\ ~HasVerdict(o) /\ o \in Disputes
        /\ keeper' = [keeper EXCEPT ![k].at = "create", ![k].then = Opened]
     \/ /\ ~HasVerdict(o) /\ o \notin Disputes
        /\ keeper' = [keeper EXCEPT ![k].at = "compare"]
  /\ UNCHANGED <<Ledger, Local, verdict, faults>>

\* The one amount of Stripe against the amount of the row; for a refund, against
\* all that was refunded.
Judged(o) ==
  LET i == IF o \in StripeRefunds THEN RefundOf[o] ELSE o
      here == IF o \in StripeRefunds THEN refunded[i] ELSE Fare
      there == IF o \in StripeRefunds THEN 1 ELSE Fare
  IN IF i \notin booked THEN [status |-> "orphan", local |-> 0]
     ELSE [status |-> IF here = there THEN "matched" ELSE "mismatch", local |-> here]

Compare(k) ==
  /\ keeper[k].at = "compare"
  /\ keeper' = [keeper EXCEPT ![k].at = "create", ![k].then = Judged(keeper[k].of)]
  /\ UNCHANGED <<Ledger, Local, verdict, faults>>

(* mutant: the object is not a unique key *)
NothingTaken(o) == FALSE
KeyTaken(o) == HasVerdict(o)

\* create: a second row for the object violates its key, and the error is dropped.
CreateVerdict(k) ==
  LET o == keeper[k].of IN
  /\ keeper[k].at = "create" /\ Stops(k)
  /\ verdict' = IF KeyTaken(o) THEN verdict ELSE [verdict EXCEPT ![o] = keeper[k].then]
  /\ UNCHANGED <<Ledger, Local, faults>>

KeeperDies(k) ==
  /\ keeper[k].at # "idle" /\ Stops(k) /\ Fault
  /\ UNCHANGED <<Ledger, Local, verdict>>

\* resolveEntry, by an admin.
ResolveEntry(o) ==
  /\ HasVerdict(o) /\ verdict' = [verdict EXCEPT ![o].status = "resolved"]
  /\ UNCHANGED <<Ledger, Local, keeper, faults>>

LedgerNext ==
  \E n \in 1..Fare : RecordEntries(n) \/ RecordByAdmin(n) \/ RecordAdjustment(n)
ReconcileNext ==
  \/ \E i \in Payments : BookPayment(i) \/ CountRefunds(i)
  \/ \E o \in StripeRefunds \cup Disputes : AtStripe(o)
  \/ \E k \in BookKeepers : \/ \E o \in Objects : Reconcile(k, o)
                            \/ LookForVerdict(k) \/ Compare(k) \/ CreateVerdict(k) \/ KeeperDies(k)
  \/ \E o \in Objects : ResolveEntry(o)
BooksNext == LedgerNext \/ ReconcileNext

BooksSpec == BooksInit /\ faults = 0 /\ [][BooksNext]_<<booksVars, faults>>

-----------------------------------------------------------------------------
(* The first entry about an object of Stripe stands: no repeated event and  *)
(* no call that was under way beside it replaces or reopens it; only an     *)
(* admin changes it, by resolving it (reconciliation.service.ts).           *)
Stands(o) ==
  HasVerdict(o) => verdict'[o] \in {verdict[o], [verdict[o] EXCEPT !.status = "resolved"]}
VerdictStands == [][\A o \in Objects : Stands(o)]_verdict

(* Every pair leaves the accounts balanced (createEntries).                 *)
BooksBalance == balance["rider"] + balance["driver"] + balance["platform"] = 0
=============================================================================
