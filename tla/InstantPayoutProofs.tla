-------------------------- MODULE InstantPayoutProofs --------------------------
(***************************************************************************)
(* Machine-checked facts about InstantPayout, for any number of calls,     *)
(* rides, days and faults and any amounts.                                 *)
(*                                                                         *)
(* The invariant is inductive because a call carries what it learnt past   *)
(* each await (CallTrue) and nothing takes it back: rides only become      *)
(* ready, a transfer once made keeps its amount, a payouts row stays.      *)
(***************************************************************************)
EXTENDS InstantPayout, TLAPS

CallsTrue == \A c \in Calls : CallTrue(call[c])
CallOK == call \in [Calls -> Call]
Others(c) == \A b \in Calls \ {c} : call'[b] = call[b]
Payouts == DailyCapRespected /\ HeldEarningsStay
Books == Payouts /\ LedgerMatchesTransfers /\ CallsTrue /\ OneLedgerDue

\* The inductive invariant in the parts the proofs work on.
LEMMA IInvParts == IInv <=> TypeOK /\ Books
  BY DEF IInv, Books, Payouts, CallsTrue

\* One more ride past the hold never lowers the balance.
LEMMA ReadyGrows ==
  /\ \A r \in Nat : r * Earning \in Nat
  /\ \A r \in Nat : r * Earning <= (r + 1) * Earning
  BY AmountsAssumption

-----------------------------------------------------------------------------
(* What a step does to the locals of the call that makes it.                *)
LEMMA IdleType == Idle \in Call
  <1>1. 1 \in Days
    BY BoundsAssumption DEF Days
  <1> QED BY <1>1 DEF Idle, Call, Steps

\* A call moves on, returns or notes its transfer, and leaves the others alone.
LEMMA CallEffect ==
  ASSUME CallOK, today \in Days, NEW c \in Calls
  PROVE  /\ Returns(c) => CallOK' /\ Others(c) /\ call'[c].at = "idle"
         /\ \A s \in Steps : Goes(c, s) =>
              /\ CallOK' /\ Others(c) /\ call'[c].at = s
              /\ call'[c].balance = call[c].balance /\ call'[c].sent = call[c].sent
         /\ Sent(c) =>
              /\ CallOK' /\ Others(c) /\ call'[c].at = "count"
              /\ call'[c].balance = call[c].balance /\ call'[c].sent = today
  <1>1. Returns(c) => CallOK' /\ Others(c) /\ call'[c].at = "idle"
    <2>1. Returns(c) => CallOK' /\ Others(c) /\ call'[c] = Idle
      BY IdleType DEF Returns, CallOK, Others
    <2> QED BY <2>1 DEF Idle
  <1>2. ASSUME NEW s \in Steps, Goes(c, s)
        PROVE  /\ CallOK' /\ Others(c) /\ call'[c].at = s
               /\ call'[c].balance = call[c].balance /\ call'[c].sent = call[c].sent
    BY <1>2 DEF Goes, CallOK, Others, Call
  <1>3. ASSUME Sent(c)
        PROVE  /\ CallOK' /\ Others(c) /\ call'[c].at = "count"
               /\ call'[c].balance = call[c].balance /\ call'[c].sent = today
    BY <1>3 DEF Sent, CallOK, Others, Call, Steps
  <1> QED BY <1>1, <1>2, <1>3

\* The invariant holds before the first ride and the first call.
LEMMA InitHolds == Init => IInv
  <1> SUFFICES ASSUME Init PROVE IInv
    OBVIOUS
  <1>1. 1 \in Days /\ 0 * Earning = 0
    BY AmountsAssumption, BoundsAssumption DEF Days
  <1>2. TypeOK
    <2>1. call \in [Calls -> Call]
      BY IdleType DEF Init
    <2>2. verified \in BOOLEAN /\ payouts \subseteq Days
      BY DEF Init
    <2>3. held \in Nat /\ ready \in Nat /\ held + ready <= MaxRides /\ faults \in 0..MaxFaults
      BY BoundsAssumption DEF Init
    <2>4. capKey \in [Days -> Nat] /\ paid \in [Days -> Nat] /\ booked \in [Days -> Nat]
      BY DEF Init
    <2> QED BY <1>1, <2>1, <2>2, <2>3, <2>4 DEF TypeOK, Init
  <1>3. Books
    BY <1>1, AmountsAssumption DEF Init, Books, Payouts, DailyCapRespected, HeldEarningsStay,
       LedgerMatchesTransfers, CallsTrue, CallTrue, OneLedgerDue, At, Idle
  <1> QED BY <1>2, <1>3, IInvParts

(* A call step: what it does to its own locals, by the lemma above.         *)
LEMMA CallSteps ==
  ASSUME TypeOK, NEW c \in Calls
  PROVE  /\ PayoutRead(c) => /\ CallOK' /\ Others(c) /\ call'[c].at = "cap"
                             /\ call'[c].balance = AvailableBalance
         /\ PayoutCap(c) =>
              /\ CallOK' /\ Others(c)
              /\ \/ call'[c].at = "idle"
                 \/ /\ call'[c].at = "transfer" /\ call'[c].balance = call[c].balance
                    /\ WithinCap(c)
         /\ PayoutTransfer(c) =>
              /\ CallOK' /\ Others(c)
              /\ \/ call'[c].at = "idle" /\ paid' = paid
                 \/ /\ call'[c].at = "count" /\ call'[c].balance = call[c].balance
                    /\ call'[c].sent = today
                    /\ \/ ~KeyUsed /\ paid' = [paid EXCEPT ![today] = @ + call[c].balance]
                       \/ KeyUsed /\ paid[today] = call[c].balance /\ paid' = paid
         /\ PayoutCount(c) => /\ CallOK' /\ Others(c) /\ call'[c].at = "row"
                              /\ call'[c].balance = call[c].balance /\ call'[c].sent = call[c].sent
         /\ PayoutRow(c) =>
              /\ CallOK' /\ Others(c)
              /\ \/ call'[c].at = "idle" /\ payouts' = payouts
                 \/ /\ call'[c].at = "ledger"
                    /\ call'[c].balance = call[c].balance /\ call'[c].sent = call[c].sent
                    /\ call[c].sent \notin payouts /\ payouts' = payouts \cup {call[c].sent}
         /\ PayoutLedger(c) \/ CallDies(c) => CallOK' /\ Others(c) /\ call'[c].at = "idle"
  <1>1. CallOK /\ today \in Days /\ AvailableBalance \in Nat
    BY ReadyGrows DEF TypeOK, CallOK, AvailableBalance
  <1>2. {"idle", "cap", "transfer", "count", "row", "ledger"} \subseteq Steps
    BY DEF Steps
  <1>3. ASSUME PayoutRead(c)
        PROVE  /\ CallOK' /\ Others(c) /\ call'[c].at = "cap"
               /\ call'[c].balance = AvailableBalance
    BY <1>1, <1>2, <1>3 DEF PayoutRead, CallOK, Others, Call
  <1>4. ASSUME PayoutCap(c)
        PROVE  /\ CallOK' /\ Others(c)
               /\ \/ call'[c].at = "idle"
                  \/ /\ call'[c].at = "transfer" /\ call'[c].balance = call[c].balance
                     /\ WithinCap(c)
    <2>1. CASE WithinCap(c) /\ call' = [call EXCEPT ![c].at = "transfer", ![c].day = today]
      BY <1>1, <1>2, <2>1 DEF CallOK, Others, Call
    <2>2. CASE Returns(c)
      BY <1>1, <2>2, CallEffect
    <2> QED BY <1>4, <2>1, <2>2 DEF PayoutCap
  <1>5. ASSUME PayoutTransfer(c)
        PROVE  /\ CallOK' /\ Others(c)
               /\ \/ call'[c].at = "idle" /\ paid' = paid
                  \/ /\ call'[c].at = "count" /\ call'[c].balance = call[c].balance
                     /\ call'[c].sent = today
                     /\ \/ ~KeyUsed /\ paid' = [paid EXCEPT ![today] = @ + call[c].balance]
                        \/ KeyUsed /\ paid[today] = call[c].balance /\ paid' = paid
    <2>1. CASE Sent(c)
      BY <1>1, <1>5, <2>1, CallEffect DEF PayoutTransfer
    <2>2. CASE Returns(c) /\ UNCHANGED paid
      BY <1>1, <2>2, CallEffect
    <2> QED BY <1>5, <2>1, <2>2 DEF PayoutTransfer
  <1>6. ASSUME PayoutCount(c)
        PROVE  /\ CallOK' /\ Others(c) /\ call'[c].at = "row"
               /\ call'[c].balance = call[c].balance /\ call'[c].sent = call[c].sent
    BY <1>1, <1>2, <1>6, CallEffect DEF PayoutCount
  <1>7. ASSUME PayoutRow(c)
        PROVE  /\ CallOK' /\ Others(c)
               /\ \/ call'[c].at = "idle" /\ payouts' = payouts
                  \/ /\ call'[c].at = "ledger"
                     /\ call'[c].balance = call[c].balance /\ call'[c].sent = call[c].sent
                     /\ call[c].sent \notin payouts /\ payouts' = payouts \cup {call[c].sent}
    <2>1. CASE DuplicateRow(c)
      BY <1>1, <2>1, CallEffect DEF DuplicateRow
    <2>2. CASE ~DuplicateRow(c)
      BY <1>1, <1>2, <1>7, <2>2, CallEffect DEF PayoutRow
    <2> QED BY <2>1, <2>2
  <1>8. ASSUME PayoutLedger(c) \/ CallDies(c)
        PROVE  CallOK' /\ Others(c) /\ call'[c].at = "idle"
    BY <1>1, <1>8, CallEffect DEF PayoutLedger, CallDies
  <1> QED BY <1>3, <1>4, <1>5, <1>6, <1>7, <1>8

\* Every step keeps the types.
LEMMA TypeStep == TypeOK /\ [Next]_vars => TypeOK'
  <1> SUFFICES ASSUME TypeOK, [Next]_vars PROVE TypeOK'
    OBVIOUS
  <1> USE AmountsAssumption, BoundsAssumption
  <1>1. ASSUME LinkBank PROVE TypeOK'
    BY <1>1 DEF LinkBank, TypeOK
  <1>2. ASSUME AccountUpdated PROVE TypeOK'
    BY <1>2 DEF AccountUpdated, TypeOK
  <1>3. ASSUME EndRide PROVE TypeOK'
    BY <1>3 DEF EndRide, TypeOK
  <1>4. ASSUME HoldPasses PROVE TypeOK'
    BY <1>4 DEF HoldPasses, TypeOK
  <1>5. ASSUME NextDay PROVE TypeOK'
    BY <1>5 DEF NextDay, Days, TypeOK
  <1>6. ASSUME NEW c \in Calls, PayoutRead(c) PROVE TypeOK'
    <2>1. CallOK'
      BY <1>6, CallSteps
    <2> QED BY <1>6, <2>1 DEF PayoutRead, TypeOK, CallOK, driverVars
  <1>7. ASSUME NEW c \in Calls, PayoutCap(c) PROVE TypeOK'
    <2>1. CallOK'
      BY <1>7, CallSteps
    <2> QED BY <1>7, <2>1 DEF PayoutCap, TypeOK, CallOK, driverVars
  <1>8. ASSUME NEW c \in Calls, PayoutTransfer(c) PROVE TypeOK'
    <2>1. CallOK'
      BY <1>8, CallSteps
    <2> QED BY <1>8, <2>1 DEF PayoutTransfer, Call, TypeOK, CallOK, driverVars
  <1>9. ASSUME NEW c \in Calls, PayoutCount(c) PROVE TypeOK'
    <2>1. CallOK'
      BY <1>9, CallSteps
    <2> QED BY <1>9, <2>1 DEF PayoutCount, CapCharge, Cents, At, Call, TypeOK, CallOK, driverVars
  <1>10. ASSUME NEW c \in Calls, PayoutRow(c) PROVE TypeOK'
    <2>1. CallOK'
      BY <1>10, CallSteps
    <2>2. call[c].sent \in Days
      BY DEF TypeOK, Call
    <2>3. payouts' \subseteq Days
      BY <1>10, <2>2, CallSteps DEF TypeOK
    <2> QED BY <1>10, <2>1, <2>3 DEF PayoutRow, TypeOK, CallOK, driverVars
  <1>11. ASSUME NEW c \in Calls, PayoutLedger(c) PROVE TypeOK'
    <2>1. CallOK'
      BY <1>11, CallSteps
    <2> QED BY <1>11, <2>1 DEF PayoutLedger, Call, TypeOK, CallOK, driverVars
  <1>12. ASSUME NEW c \in Calls, CallDies(c) PROVE TypeOK'
    <2>1. CallOK'
      BY <1>12, CallSteps
    <2> QED BY <1>12, <2>1 DEF CallDies, TypeOK, CallOK, driverVars
  <1>13. CASE UNCHANGED vars
    BY <1>13 DEF vars, driverVars, TypeOK
  <1> QED BY <1>1, <1>2, <1>3, <1>4, <1>5, <1>6, <1>7, <1>8, <1>9, <1>10, <1>11, <1>12, <1>13
             DEF Next, CallRuns

(* Where no ledger entry falls due, none falls due twice.                   *)
LEMMA NoNewLedger ==
  ASSUME OneLedgerDue,
         \A b \in Calls : call'[b].at = "ledger" => call[b].at = "ledger" /\ call'[b].sent = call[b].sent
  PROVE  OneLedgerDue'
  BY DEF OneLedgerDue, At

(* What a call that does not move knows stays true.                         *)
LEMMA CallsStayTrue ==
  ASSUME TypeOK, TypeOK', CallsTrue, NEW b \in Calls, call'[b] = call[b],
         ready * Earning <= ready' * Earning,
         call[b].at \in {"count", "row", "ledger"} => paid'[call[b].sent] = paid[call[b].sent],
         payouts \subseteq payouts',
         call[b].at = "ledger" => booked'[call[b].sent] = booked[call[b].sent]
  PROVE  CallTrue(call[b])'
  <1>1. ready * Earning \in Nat /\ ready' * Earning \in Nat /\ call[b] \in Call
    BY ReadyGrows DEF TypeOK
  <1> QED BY <1>1 DEF CallsTrue, CallTrue, Call

\* Every step keeps the money properties and what the calls know.
LEMMA BooksStep == IInv /\ [Next]_vars => Books'
  <1> SUFFICES ASSUME TypeOK, TypeOK', Books, [Next]_vars PROVE Books'
    BY IInvParts, TypeStep
  <1>0. Payouts /\ LedgerMatchesTransfers /\ CallsTrue /\ OneLedgerDue
    BY DEF Books
  <1> USE AmountsAssumption
  <1>00. /\ \A b \in Calls : call[b] \in Call
         /\ ready \in Nat /\ ready * Earning \in Nat /\ today \in Days
         /\ paid \in [Days -> Nat] /\ booked \in [Days -> Nat]
    BY ReadyGrows DEF TypeOK
  \* Rides end and ripen, days pass, the bank account changes: no call moves.
  <1>1. ASSUME UNCHANGED <<paid, payouts, booked, call>>, ready' \in {ready, ready + 1}
        PROVE  Books'
    <2>1. ready * Earning <= ready' * Earning /\ ready' * Earning \in Nat
      <3>1. CASE ready' = ready
        BY <1>00, <3>1
      <3>2. CASE ready' = ready + 1
        <4>1. ready + 1 \in Nat
          BY <1>00
        <4> QED BY <1>00, <3>2, <4>1, ReadyGrows
      <3> QED BY <1>1, <3>1, <3>2
    <2>2. Payouts'
      BY <1>0, <1>1, <1>00, <2>1 DEF Payouts, DailyCapRespected, HeldEarningsStay
    <2>3. CallsTrue'
      BY <1>0, <1>1, <1>00, <2>1, CallsStayTrue DEF CallsTrue
    <2> QED BY <1>0, <1>1, <2>2, <2>3 DEF Books, LedgerMatchesTransfers, OneLedgerDue, At
  <1>2. ASSUME NEW c \in Calls, PayoutRead(c) PROVE Books'
    <2>1. UNCHANGED <<paid, payouts, booked, ready>>
      BY <1>2 DEF PayoutRead, driverVars
    <2>2. Others(c) /\ call'[c].at = "cap" /\ call'[c].balance = ready * Earning
      BY <1>2, CallSteps DEF AvailableBalance
    <2>3. ready * Earning > 0
      BY <1>2, <1>00 DEF PayoutRead, AvailableBalance
    <2>4. CallTrue(call[c])'
      BY <1>00, <2>1, <2>2, <2>3 DEF CallTrue
    <2>5. CallsTrue'
      BY <1>0, <1>00, <2>1, <2>2, <2>4, CallsStayTrue DEF CallsTrue, Others
    <2>6. OneLedgerDue'
      BY <1>0, <2>2, NoNewLedger DEF Others
    <2> QED BY <1>0, <2>1, <2>5, <2>6 DEF Books, Payouts, DailyCapRespected, HeldEarningsStay,
               LedgerMatchesTransfers
  <1>3. ASSUME NEW c \in Calls, PayoutCap(c) PROVE Books'
    <2>1. UNCHANGED <<paid, payouts, booked, ready>> /\ At(c, "cap")
      BY <1>3 DEF PayoutCap, driverVars
    <2>2. /\ Others(c)
          /\ \/ call'[c].at = "idle"
             \/ /\ call'[c].at = "transfer" /\ call'[c].balance = call[c].balance
                /\ WithinCap(c)
      BY <1>3, CallSteps
    <2>3. WithinCap(c) => call[c].balance <= DailyCap
      BY <1>00 DEF WithinCap, TypeOK, Call
    <2>4. CallTrue(call[c])'
      BY <1>0, <2>1, <2>2, <2>3 DEF CallTrue, CallsTrue, At
    <2>5. CallsTrue'
      BY <1>0, <1>00, <2>1, <2>2, <2>4, CallsStayTrue DEF CallsTrue, Others
    <2>6. OneLedgerDue'
      BY <1>0, <2>2, NoNewLedger DEF Others
    <2> QED BY <1>0, <2>1, <2>5, <2>6 DEF Books, Payouts, DailyCapRespected, HeldEarningsStay,
               LedgerMatchesTransfers
  \* The first transfer of the day is within the cap and made of ready rides; a
  \* repeated one changes nothing.
  <1>4. ASSUME NEW c \in Calls, PayoutTransfer(c) PROVE Books'
    <2>1. UNCHANGED <<payouts, booked, ready>> /\ At(c, "transfer")
      BY <1>4 DEF PayoutTransfer, driverVars
    <2>2. /\ Others(c)
          /\ \/ call'[c].at = "idle" /\ paid' = paid
             \/ /\ call'[c].at = "count" /\ call'[c].balance = call[c].balance
                /\ call'[c].sent = today
                /\ \/ ~KeyUsed /\ paid' = [paid EXCEPT ![today] = @ + call[c].balance]
                   \/ KeyUsed /\ paid[today] = call[c].balance /\ paid' = paid
      BY <1>4, CallSteps
    <2>3. /\ call[c].balance \in Nat /\ call[c].balance > 0
          /\ call[c].balance <= DailyCap /\ call[c].balance <= ready * Earning
      BY <1>0, <1>00, <2>1 DEF CallsTrue, CallTrue, At, Call
    <2>4. paid' = paid \/ (paid[today] = 0 /\ paid' = [paid EXCEPT ![today] = call[c].balance])
      BY <1>00, <2>2, <2>3 DEF KeyUsed
    <2>5. \A d \in Days : paid[d] # 0 => paid'[d] = paid[d]
      BY <1>00, <2>4
    <2>6. Payouts'
      BY <1>0, <1>00, <2>1, <2>3, <2>4 DEF Payouts, DailyCapRespected, HeldEarningsStay
    <2>7. LedgerMatchesTransfers'
      BY <1>0, <1>00, <2>1, <2>5 DEF LedgerMatchesTransfers
    <2>8. CallTrue(call[c])'
      <3>1. call'[c].at = "count" => paid'[today] = call[c].balance
        BY <1>00, <2>2, <2>3, <2>4 DEF KeyUsed
      <3> QED BY <2>1, <2>2, <2>3, <3>1 DEF CallTrue
    <2>9. CallsTrue'
      <3> SUFFICES ASSUME NEW b \in Calls PROVE CallTrue(call[b])'
        BY DEF CallsTrue
      <3>1. CASE b = c
        BY <2>8, <3>1
      <3>2. CASE b # c
        <4>1. call'[b] = call[b]
          BY <2>2, <3>2 DEF Others
        <4>2. call[b].at \in {"count", "row", "ledger"} => paid'[call[b].sent] = paid[call[b].sent]
          BY <1>0, <1>00, <2>5 DEF CallsTrue, CallTrue, Call
        <4> QED BY <1>0, <1>00, <2>1, <4>1, <4>2, CallsStayTrue
      <3> QED BY <3>1, <3>2
    <2>10. OneLedgerDue'
      BY <1>0, <2>2, NoNewLedger DEF Others
    <2> QED BY <2>6, <2>7, <2>9, <2>10 DEF Books
  <1>5. ASSUME NEW c \in Calls, PayoutCount(c) PROVE Books'
    <2>1. UNCHANGED <<paid, payouts, booked, ready>> /\ At(c, "count")
      BY <1>5 DEF PayoutCount, driverVars
    <2>2. /\ Others(c) /\ call'[c].at = "row"
          /\ call'[c].balance = call[c].balance /\ call'[c].sent = call[c].sent
      BY <1>5, CallSteps
    <2>4. CallTrue(call[c])'
      BY <1>0, <2>1, <2>2 DEF CallTrue, CallsTrue, At
    <2>5. CallsTrue'
      BY <1>0, <1>00, <2>1, <2>2, <2>4, CallsStayTrue DEF CallsTrue, Others
    <2>6. OneLedgerDue'
      BY <1>0, <2>2, NoNewLedger DEF Others
    <2> QED BY <1>0, <2>1, <2>5, <2>6 DEF Books, Payouts, DailyCapRespected, HeldEarningsStay,
               LedgerMatchesTransfers
  \* The unique key of the row lets one call through to the ledger.
  <1>6. ASSUME NEW c \in Calls, PayoutRow(c) PROVE Books'
    <2>1. UNCHANGED <<paid, booked, ready>> /\ At(c, "row")
      BY <1>6 DEF PayoutRow, driverVars
    <2>2. /\ Others(c)
          /\ \/ call'[c].at = "idle" /\ payouts' = payouts
             \/ /\ call'[c].at = "ledger"
                /\ call'[c].balance = call[c].balance /\ call'[c].sent = call[c].sent
                /\ call[c].sent \notin payouts /\ payouts' = payouts \cup {call[c].sent}
      BY <1>6, CallSteps
    <2>3. LedgerMatchesTransfers'
      BY <1>0, <2>1, <2>2 DEF LedgerMatchesTransfers
    <2>4. CallTrue(call[c])'
      <3>1. call[c].sent \notin payouts => booked[call[c].sent] = 0
        BY <1>0, <1>00 DEF LedgerMatchesTransfers, Call
      <3> QED BY <1>0, <2>1, <2>2, <3>1 DEF CallTrue, CallsTrue, At
    <2>5. CallsTrue'
      BY <1>0, <1>00, <2>1, <2>2, <2>4, CallsStayTrue DEF CallsTrue, Others
    <2>6. OneLedgerDue'
      <3>1. \A b \in Calls \ {c} : call[b].at = "ledger" /\ call'[c].at = "ledger"
                                    => call[b].sent # call[c].sent
        BY <1>0, <2>2 DEF CallsTrue, CallTrue
      <3> QED BY <1>0, <2>2, <3>1 DEF OneLedgerDue, At, Others
    <2> QED BY <1>0, <2>1, <2>3, <2>5, <2>6 DEF Books, Payouts, DailyCapRespected, HeldEarningsStay
  <1>7. ASSUME NEW c \in Calls, PayoutLedger(c) PROVE Books'
    <2>1. UNCHANGED <<paid, payouts, ready>> /\ At(c, "ledger")
      BY <1>7 DEF PayoutLedger, driverVars
    <2>2. Others(c) /\ call'[c].at = "idle"
      BY <1>7, CallSteps
    <2>3. /\ call[c].sent \in payouts /\ booked[call[c].sent] = 0
          /\ call[c].sent \in Days /\ call[c].balance \in Nat
          /\ paid[call[c].sent] = call[c].balance
      BY <1>0, <1>00, <2>1 DEF CallsTrue, CallTrue, At, Call
    <2>4. booked' = [booked EXCEPT ![call[c].sent] = call[c].balance]
      <3>1. booked' = [booked EXCEPT ![call[c].sent] = @ + call[c].balance]
        BY <1>7 DEF PayoutLedger
      <3>2. booked[call[c].sent] + call[c].balance = call[c].balance
        BY <2>3
      <3> QED BY <3>1, <3>2
    <2>5. LedgerMatchesTransfers'
      BY <1>0, <1>00, <2>1, <2>3, <2>4 DEF LedgerMatchesTransfers
    <2>6. CallTrue(call[c])'
      BY <2>2 DEF CallTrue
    <2>7. ASSUME NEW b \in Calls, b # c PROVE CallTrue(call[b])'
      <3>1. call'[b] = call[b]
        BY <2>2, <2>7 DEF Others
      <3>2. call[b].at = "ledger" => call[b].sent # call[c].sent
        BY <1>0, <2>1, <2>7 DEF OneLedgerDue, At
      <3>3. call[b].at = "ledger" => booked'[call[b].sent] = booked[call[b].sent]
        BY <1>00, <2>4, <3>2 DEF Call
      <3> QED BY <1>0, <1>00, <2>1, <3>1, <3>3, CallsStayTrue
    <2>8. CallsTrue'
      BY <2>6, <2>7 DEF CallsTrue
    <2>9. OneLedgerDue'
      BY <1>0, <2>2, NoNewLedger DEF Others
    <2> QED BY <1>0, <2>1, <2>5, <2>8, <2>9 DEF Books, Payouts, DailyCapRespected, HeldEarningsStay
  <1>8. ASSUME NEW c \in Calls, CallDies(c) PROVE Books'
    <2>1. UNCHANGED <<paid, payouts, booked, ready>>
      BY <1>8 DEF CallDies, driverVars
    <2>2. Others(c) /\ call'[c].at = "idle"
      BY <1>8, CallSteps
    <2>3. CallTrue(call[c])'
      BY <2>2 DEF CallTrue
    <2>4. CallsTrue'
      BY <1>0, <1>00, <2>1, <2>2, <2>3, CallsStayTrue DEF CallsTrue, Others
    <2>5. OneLedgerDue'
      BY <1>0, <2>2, NoNewLedger DEF Others
    <2> QED BY <1>0, <2>1, <2>4, <2>5 DEF Books, Payouts, DailyCapRespected, HeldEarningsStay,
               LedgerMatchesTransfers
  <1>9. CASE LinkBank \/ AccountUpdated \/ EndRide \/ HoldPasses \/ NextDay \/ UNCHANGED vars
    <2>1. UNCHANGED <<paid, payouts, booked, call>> /\ ready' \in {ready, ready + 1}
      BY <1>9 DEF LinkBank, AccountUpdated, EndRide, HoldPasses, NextDay, vars, driverVars
    <2> QED BY <1>1, <2>1
  <1> QED
    BY <1>2, <1>3, <1>4, <1>5, <1>6, <1>7, <1>8, <1>9 DEF Next, CallRuns

-----------------------------------------------------------------------------
(* Types, and what a call knows past each of its awaits.                    *)
THEOREM InvariantHolds == Spec => []IInv
  <1>1. Init => IInv
    BY InitHolds
  <1>2. IInv /\ [Next]_vars => IInv'
    <2>1. TypeOK' /\ Books' => IInv'
      BY DEF IInv, Books, Payouts, CallsTrue
    <2>2. IInv => TypeOK
      BY DEF IInv
    <2> QED BY <2>1, <2>2, TypeStep, BooksStep
  <1> QED BY <1>1, <1>2, PTL DEF Spec

(* Every variable keeps its type. *)
THEOREM TypeCorrect == Spec => []TypeOK
  <1>1. IInv => TypeOK
    BY DEF IInv
  <1> QED BY <1>1, InvariantHolds, PTL

(* No day moves more than the cap, by concurrent calls of instantPayout.    *)
THEOREM CapHolds == Spec => []DailyCapRespected
  <1>1. IInv => DailyCapRespected
    BY DEF IInv
  <1> QED BY <1>1, InvariantHolds, PTL

(* No transfer draws on rides still within the two-hour hold.              *)
THEOREM HeldEarningsAreSafe == Spec => []HeldEarningsStay
  <1>1. IInv => HeldEarningsStay
    BY DEF IInv
  <1> QED BY <1>1, InvariantHolds, PTL

(* The ledger books each transfer at most once, for what Stripe moved.      *)
THEOREM LedgerIsTrue == Spec => []LedgerMatchesTransfers
  <1>1. IInv => LedgerMatchesTransfers
    BY DEF IInv
  <1> QED BY <1>1, InvariantHolds, PTL
=============================================================================
