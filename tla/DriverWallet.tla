---------------------------- MODULE DriverWallet ----------------------------
(***************************************************************************)
(* The wallet of one driver (wallet.service.ts), the scheduled payouts     *)
(* drawn on it (payout-batch.service.ts), and the wallet screen of the     *)
(* driver app.  Nothing in the repository calls getWallet, scheduleBatch,  *)
(* processBatch, retryFailedAttempts or applyAdjustment yet; they are      *)
(* taken to be called at any time.                                         *)
(*                                                                         *)
(* Amounts are in units of MIN_PAYOUT.  A transaction of the database is   *)
(* one step; between two of them any other handler may run.                *)
(***************************************************************************)
EXTENDS FaultBudget, FiniteSets, Integers

CONSTANTS
  WalletTrips,   \* trips that earn the driver one unit each
  WalletReads,   \* calls of getWallet that may run at once
  BatchRuns,     \* calls of processBatch, on one batch
  MaxRetries,    \* MAX_RETRY_ATTEMPTS
  MaxAttempts,   \* bound: payout attempts
  MaxInstant     \* bound: units instant payouts make

ASSUME WalletAssumption ==
  /\ IsFiniteSet(WalletTrips) /\ MaxRetries \in Nat \ {0}
  /\ MaxAttempts \in Nat /\ MaxInstant \in Nat

VARIABLES
  wallet,       \* the driver_wallets row
  adjusted,     \* what an admin added, on balance
  earningRows,  \* trips with a wallet transaction of type earning
  heldOver,     \* those whose transaction is older than two hours
  releaseRows,  \* trips with a transaction of type hold_release
  releasing,    \* calls of getWallet that found a trip without one, and the trip
  readsCrossed, \* two of them once held the same trip
  batchStatus,  \* the payout_batches row
  batchRun,     \* where each call of processBatch is
  attempt,      \* payout_attempts, each with the first one of its kind
  transferred,  \* units Stripe transferred for attempts
  debits,       \* calls of debitPayout, before or after their check: for an attempt, or
                \* for an instant payout and then the units paid before it
  instantPaid,  \* units paid by instant payouts
  screen        \* the wallet screen: the available balance it shows, and its button

dwVars == <<wallet, adjusted, earningRows, heldOver, releaseRows, releasing, readsCrossed,
            batchStatus, batchRun, attempt, transferred, debits, instantPaid, screen>>
Holding == <<adjusted, earningRows, heldOver, releaseRows, releasing, readsCrossed>>
Batching == <<batchStatus, batchRun, attempt, transferred>>
Paying == <<debits, instantPaid, screen>>
Attempts == 1..MaxAttempts
NoAttempt == [amount |-> 0, status |-> "none", number |-> 0, of |-> 0]
Tried(a) == attempt[a].status # "none"
UnderWay(a) == attempt[a].status \in {"pending", "sent"}

DwTypeOK ==
  /\ wallet \in [pending : Int, available : Int, earned : Nat, paid : Nat]
  /\ adjusted \in Int /\ earningRows \subseteq WalletTrips
  /\ heldOver \subseteq earningRows /\ releaseRows \subseteq earningRows
  /\ releasing \subseteq WalletReads \X WalletTrips /\ readsCrossed \in BOOLEAN
  /\ batchStatus \in {"none", "pending", "processing", "completed", "failed"}
  /\ batchRun \in [BatchRuns -> [at : {"idle", "claim", "wallets", "finish"}, try : 0..MaxAttempts]]
  /\ attempt \in [Attempts -> [amount : Nat, number : 0..MaxRetries, of : 0..MaxAttempts,
                      status : {"none", "pending", "sent", "succeeded", "retrying", "failed"}]]
  /\ transferred \in Nat /\ instantPaid \in 0..MaxInstant
  /\ debits \subseteq [for : 0..MaxAttempts, after : Nat, amount : Nat, at : {"check", "write"}]
  /\ screen \in [available : Int, busy : BOOLEAN]

DwInit ==
  /\ wallet = [pending |-> 0, available |-> 0, earned |-> 0, paid |-> 0] /\ adjusted = 0
  /\ earningRows = {} /\ heldOver = {} /\ releaseRows = {} /\ releasing = {}
  /\ readsCrossed = FALSE /\ batchStatus = "none"
  /\ batchRun = [b \in BatchRuns |-> [at |-> "idle", try |-> 0]]
  /\ attempt = [a \in Attempts |-> NoAttempt] /\ transferred = 0 /\ instantPaid = 0
  /\ debits = {} /\ screen = [available |-> 0, busy |-> FALSE]

-----------------------------------------------------------------------------
(* The wallet                                                               *)

\* Asked for once, when the trip is completed; the request may be lost.
NotCredited(t) == t \notin earningRows

CreditEarning(t) ==
  /\ NotCredited(t) /\ earningRows' = earningRows \cup {t}
  /\ wallet' = [wallet EXCEPT !.pending = @ + 1, !.earned = @ + 1]
  /\ UNCHANGED <<adjusted, heldOver, releaseRows, releasing, readsCrossed, Batching, Paying, faults>>

HoldElapses(t) ==
  /\ t \in earningRows \ heldOver /\ heldOver' = heldOver \cup {t}
  /\ UNCHANGED <<wallet, adjusted, earningRows, releaseRows, releasing, readsCrossed, Batching,
                 Paying, faults>>

(* mutant: the release of a trip is not looked for *)
AnyHeld(t) == t \in heldOver
StillHeld(t) == t \in heldOver \ releaseRows

\* getWallet goes through the trips one by one: find, then release.
FindHeld(g, t) ==
  /\ StillHeld(t) /\ (\A u \in WalletTrips : <<g, u>> \notin releasing)
  /\ releasing' = releasing \cup {<<g, t>>}
  /\ readsCrossed' = (readsCrossed \/ \E h \in WalletReads : <<h, t>> \in releasing)
  /\ UNCHANGED <<wallet, adjusted, earningRows, heldOver, releaseRows, Batching, Paying, faults>>

ReleaseHold(g, t) ==
  /\ <<g, t>> \in releasing /\ releasing' = releasing \ {<<g, t>>}
  /\ wallet' = [wallet EXCEPT !.pending = @ - 1, !.available = @ + 1]
  /\ releaseRows' = releaseRows \cup {t}
  /\ UNCHANGED <<adjusted, earningRows, heldOver, readsCrossed, Batching, Paying, faults>>

\* applyAdjustment: an admin may take more than there is.
ApplyAdjustment(n) ==
  /\ adjusted = 0 /\ adjusted' = n /\ wallet' = [wallet EXCEPT !.available = @ + n]
  /\ UNCHANGED <<earningRows, heldOver, releaseRows, releasing, readsCrossed, Batching, Paying,
                 faults>>

\* debitPayout: the balance is read before the transaction.  Its refusal is dropped.
CheckDebit(d) ==
  /\ d.at = "check"
  /\ debits' = (debits \ {d}) \cup
       (IF wallet.available < d.amount THEN {} ELSE {[d EXCEPT !.at = "write"]})
  /\ UNCHANGED <<wallet, Holding, Batching, instantPaid, screen, faults>>

DebitPayout(d) ==
  /\ d.at = "write" /\ debits' = debits \ {d}
  /\ wallet' = [wallet EXCEPT !.available = @ - d.amount, !.paid = @ + d.amount]
  /\ UNCHANGED <<Holding, Batching, instantPaid, screen, faults>>

\* The process dies: what was paid stays in the balance.
DebitDies(d) ==
  /\ debits' = debits \ {d} /\ Fault
  /\ UNCHANGED <<wallet, Holding, Batching, instantPaid, screen>>

-----------------------------------------------------------------------------
(* The screen, and the instant payout behind its button, whose amount is    *)
(* that of the driver's trips and not the one shown                         *)

\* buildSummary of driver-service reads the row as it is: it releases no hold.
AvailableWallet == wallet.available

LoadWallet ==
  /\ screen' = [screen EXCEPT !.available = AvailableWallet]
  /\ UNCHANGED <<wallet, Holding, Batching, debits, instantPaid, faults>>

TapTransfer ==
  /\ ~screen.busy /\ screen.available >= 1 /\ screen' = [screen EXCEPT !.busy = TRUE]
  /\ UNCHANGED <<wallet, Holding, Batching, debits, instantPaid, faults>>

PayInstantly(n) ==
  /\ screen.busy /\ instantPaid + n <= MaxInstant /\ instantPaid' = instantPaid + n
  /\ debits' = debits \cup {[for |-> 0, after |-> instantPaid, amount |-> n, at |-> "check"]}
  /\ screen' = [available |-> AvailableWallet, busy |-> FALSE]
  /\ UNCHANGED <<wallet, Holding, Batching, faults>>

\* Refused, or not answered.
TransferFails ==
  /\ screen.busy /\ screen' = [screen EXCEPT !.busy = FALSE]
  /\ UNCHANGED <<wallet, Holding, Batching, debits, instantPaid, faults>>

-----------------------------------------------------------------------------
(* Scheduled payouts                                                        *)

ScheduleBatch ==
  /\ batchStatus = "none" /\ batchStatus' = "pending"
  /\ UNCHANGED <<wallet, Holding, batchRun, attempt, transferred, Paying, faults>>

ReadBatch(b) ==
  /\ batchRun[b].at = "idle" /\ batchStatus = "pending"
  /\ batchRun' = [batchRun EXCEPT ![b].at = "claim"]
  /\ UNCHANGED <<wallet, Holding, batchStatus, attempt, transferred, Paying, faults>>

ClaimBatch(b) ==
  /\ batchRun[b].at = "claim" /\ batchRun' = [batchRun EXCEPT ![b].at = "wallets"]
  /\ batchStatus' = "processing"
  /\ UNCHANGED <<wallet, Holding, attempt, transferred, Paying, faults>>

NextAttempt(a) == ~Tried(a) /\ \A c \in 1..(a - 1) : Tried(c)

\* The wallets with the minimum, and an attempt for each that has a bank.
PayWallet(b, a, banked) ==
  /\ batchRun[b].at = "wallets" /\ NextAttempt(a)
  /\ IF wallet.available >= 1 /\ banked
       THEN /\ attempt' = [attempt EXCEPT ![a] = [amount |-> wallet.available, of |-> a,
                                                  status |-> "pending", number |-> 1]]
            /\ batchRun' = [batchRun EXCEPT ![b] = [at |-> "finish", try |-> a]]
       ELSE UNCHANGED attempt /\ batchRun' = [batchRun EXCEPT ![b].at = "finish"]
  /\ UNCHANGED <<wallet, Holding, batchStatus, transferred, Paying, faults>>

\* A batch that paid nobody has failed.
FinishBatch(b) ==
  LET a == batchRun[b].try IN
  /\ batchRun[b].at = "finish" /\ (a # 0 => ~UnderWay(a) /\ ~\E d \in debits : d.for = a)
  /\ batchRun' = [batchRun EXCEPT ![b] = [at |-> "idle", try |-> 0]]
  /\ batchStatus' = IF a = 0 THEN "failed" ELSE "completed"
  /\ UNCHANGED <<wallet, Holding, attempt, transferred, Paying, faults>>

Retried(r) == IF r.number < MaxRetries THEN "retrying" ELSE "failed"
Outcome(r, made, answered) == IF made /\ answered THEN "sent" ELSE Retried(r)

\* Stripe makes the transfer, refuses it, or makes it and the answer is lost.
Transfer(a, made, answered) ==
  /\ attempt[a].status = "pending"
  /\ transferred' = IF made THEN transferred + attempt[a].amount ELSE transferred
  /\ IF answered THEN NoFault ELSE made /\ Fault
  /\ attempt' = [attempt EXCEPT ![a].status = Outcome(attempt[a], made, answered)]
  /\ UNCHANGED <<wallet, Holding, batchStatus, batchRun, Paying>>

\* The row, then the debit; an error of the first is taken for one of the transfer.
RecordTransfer(a, written) ==
  /\ attempt[a].status = "sent" /\ IF written THEN NoFault ELSE Fault
  /\ attempt' = [attempt EXCEPT ![a].status = IF written THEN "succeeded" ELSE Retried(attempt[a])]
  /\ debits' = IF written
                 THEN debits \cup {[for |-> a, after |-> 0, amount |-> attempt[a].amount,
                                      at |-> "check"]}
                 ELSE debits
  /\ UNCHANGED <<wallet, Holding, batchStatus, batchRun, transferred, instantPaid, screen>>

\* retryFailedAttempts: a new row with the next number; the old one stays due.
Retry(a, c) ==
  /\ attempt[a].status = "retrying" /\ attempt[a].number < MaxRetries /\ NextAttempt(c)
  /\ attempt' = [attempt EXCEPT ![c] = [attempt[a] EXCEPT !.status = "pending", !.number = @ + 1]]
  /\ UNCHANGED <<wallet, Holding, batchStatus, batchRun, transferred, Paying, faults>>

-----------------------------------------------------------------------------
WalletNext ==
  \/ \E t \in WalletTrips : CreditEarning(t) \/ HoldElapses(t)
  \/ \E g \in WalletReads, t \in WalletTrips : FindHeld(g, t) \/ ReleaseHold(g, t)
  \/ ApplyAdjustment(1) \/ ApplyAdjustment(-1)
  \/ \E d \in debits : CheckDebit(d) \/ DebitPayout(d) \/ DebitDies(d)
  \/ LoadWallet \/ TapTransfer \/ TransferFails \/ \E n \in 1..MaxInstant : PayInstantly(n)
BatchNext ==
  \/ ScheduleBatch
  \/ \E b \in BatchRuns : ReadBatch(b) \/ ClaimBatch(b) \/ FinishBatch(b)
  \/ \E b \in BatchRuns, a \in Attempts, banked \in BOOLEAN : PayWallet(b, a, banked)
  \/ \E a \in Attempts, made, answered \in BOOLEAN : Transfer(a, made, answered)
  \/ \E a \in Attempts, written \in BOOLEAN : RecordTransfer(a, written)
  \/ \E a, c \in Attempts : Retry(a, c)
DwNext == WalletNext \/ BatchNext

DwSpec == DwInit /\ faults = 0 /\ [][DwNext]_<<dwVars, faults>>

-----------------------------------------------------------------------------
\* The pending balance is what the transactions say is still held, unless two calls of
\* getWallet once released the same trip (getWallet, releaseHold).
PendingIsHeld == ~readsCrossed => wallet.pending = Cardinality(earningRows \ releaseRows)

\* What the wallet says was paid went to the driver's bank (attemptPayout, debitPayout).
PaidWasTransferred == wallet.paid <= transferred + instantPaid

\* The wallet agrees with its transactions and with what Stripe moved, whichever reads,
\* credits, debits, retries and batches overlap or die.
WalletAddsUp == PendingIsHeld /\ PaidWasTransferred

\* One payout is tried MAX_RETRY_ATTEMPTS times at most (payout-batch.service.ts).
RetriesBounded ==
  \A a \in Attempts : Cardinality({c \in Attempts : Tried(c) /\ attempt[c].of = a}) <= MaxRetries
=============================================================================
