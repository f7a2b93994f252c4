# BidiRide verification project

TLA+ models of BidiRide: the back-end handlers, timers, tasks and external
providers that touch the same ride and the same money, and the three apps whose
screens follow them; TLC configurations that check the models on small instances;
theorems proved with TLAPS for every value of the constants.

Paths below are relative to the repository. `trips.service.ts` and the other
files of trip-service are in `services/trip-service/src/`, `payment.service.ts`
is in `services/payment-service/src/payments/`; a file of another service is
named as that service has it.

Contents: [the system](#1-the-system) · [the modules](#2-the-modules) ·
[the runs](#3-the-runs) · [what is proved](#4-what-is-proved) ·
[where code and documentation disagree](#5-where-the-code-and-its-own-documentation-disagree) ·
[what is not modelled](#6-what-is-not-modelled) · [the plan](#7-the-plan)

## 1. The system

BidiRide is a ride-hailing back end: a dozen NestJS services over one PostgreSQL
database (Prisma), one Redis, Stripe, Twilio, Checkr and FCM, and three client
applications. Two kinds of ride exist: a *standard ride* (created, broadcast,
accepted at the quoted fare, charged when it ends) and an *offer ride* (the
rider bids, drivers accept or counter, the fare is held on the card beforehand
and captured when the deal is struck).

What makes it hard is the same everywhere. A handler is a chain of awaits: it
reads a row, waits, claims a Redis key (`SET NX EX`), waits, and then *updates the
row by its primary key*, whatever the row has become. Timers (`setInterval`
sweeps) run the same code from every task, and `infrastructure/terraform/
ecs-services.tf` runs two tasks of the auth, trip, driver, rider, safety and
payment services. Calls between services are HTTP with a short timeout, many of
them fire-and-forget. Stripe, Checkr and Twilio report by webhooks that repeat
and arrive late and out of order. A screen is the same story on the phone: an
answer comes back to a component that has moved on, and a socket event falls into
a reconnection.

### Inventory

| component | state | operations | interacts with | what is hard | what makes it correct | modelled in |
|---|---|---|---|---|---|---|
| Offer negotiation (`bids/`) | `bids` and `trips` rows, Redis `bid:<id>:claimed`, `:declined:<driver>`, `:pi` | submit, accept, decline, counter, answer a counter, withdraw, expiry sweep | payment-service (hold, capture, void); the dispatch sweep and cancelTrip write the same trip | several drivers, the rider and a sweep decide at once; the claims expire; money is settled after the decision | one deal with one driver and one fare; the hold covers it and is used once; every bid ends | `BidNegotiation` |
| Trip lifecycle and dispatch (`trips/`) | `trips` row, `earnings_floor_log`, Redis `trip:<id>:claimed`, `:dispatch`, `:state` | create, accept, arrive, start, end, cancel, no-show, sweep of stale searches | payment-service, gateway by pub/sub | stale reads, overlapping sweeps, lost keys, repeated end calls | one driver; a search ends; an accepted ride is not swept away; paid once | `TripDispatch` (ratings left out) |
| Ride payment | intent at Stripe, `payments` row, `financialLedger`, Redis `stripe:event:<id>` | charge, capture, void, refund, webhook events | trip-service, admin, Stripe | retries, lost answers, duplicated, late and reordered events | charged once; row agrees with Stripe; ledger booked once | `RidePayment` |
| Instant payouts | completed trips, Redis `instant_payout:daily:…`, `payouts`, ledger | wallet, instantPayout, bank verification | Stripe transfers | overlapping calls, midnight, money moves before it is recorded | daily cap, hold, each transfer booked once, nothing paid twice | `InstantPayout` |
| Ledger, reconciliation | `financialLedger` rows, `payment_reconciliations` | record a payment, an earning, a tip, a payout, a refund, a bonus, an adjustment; compare a payment, refund or dispute with Stripe, resolve | written by the two above; Stripe's events | no idempotency of its own; a comparison reads, reads and writes | accounts balance; the first verdict stands | `Books`; when an entry is due in the two above |
| Ratings | `trips` columns, `ratings` row, `avgRating` | rate the driver, rate the rider | screens of both apps | two writes and an average one after the other | row, column and average agree | `Ratings` |
| Driver wallet, payout batch | `driver_wallets`, `wallet_transactions`, `payout_batches`, `payout_attempts` | credit, release hold, debit, adjust; schedule, process, retry | ends of rides, Stripe | checks outside the transaction; two batches at once; a retried attempt stays due | pending is what is held; what counts as paid was transferred | `DriverWallet` |
| Codes and sessions (auth-service, `api/client.ts`) | Redis codes, attempts, refresh tokens; the tokens on the phone | request and verify a code, rotate, sign out | Twilio, SecureStore | read-then-write of counter and token; requests refresh at once | the session survives refreshes; the newest code counts | `AuthSession` |
| Gateway and presence | sockets per task, Redis location keys, the driver's switch | connect, disconnect, locate, go online, suspend, find drivers, broadcast a standard ride, answer it | pub/sub from every service | a reconnection overtakes the clean-up of the old socket; duty changes between a key and a row | an offer ride is matched to nobody off duty; a suspended driver's answer gets no further; who is online is found | `DriverPresence` |
| Driver onboarding | `drivers` row, documents, vehicle, reports | submit, review, approve, suspend, Checkr events | Checkr, admin | two routes to approval; events claimed before they are applied | nobody is approved without clearance; a report is heard | `DriverOnboarding`, `DriverSignup` |
| Driver earnings | – | reads | wallet screen | – | – | the balance only, `DriverWallet` |
| Rider accounts | `riders`, cards at Stripe, `saved_addresses`, `trusted_contacts` | add, remove, make default; contacts; places | Stripe, geocoding | lists read before they are written, screens hydrated late | a default card exists and is attached; limits; the screen shows what is saved | `RiderCards`, `RiderProfile` |
| Booking and pricing | quote on the phone, fare of the trip | search, pick, estimate, hail; surge, AI adjustment, airport premium | geocoding, ai-service | answers about addresses that have changed | what was quoted is charged | `Booking`, `FareEngine` |
| Rider app | active trip, screen, rooms of the socket | hail, bid, answer a counter, cancel, rate, restart | trip-service, gateway | events lost in a reconnection | a ride that ended is not shown as live | `RiderApp` |
| Driver app | screen, cards, request in flight | accept, counter, arrive, start, end, restart | trip-service, gateway | answers after the screen moved on | a ride the driver took is on screen | `DriverApp` |
| Safety | `sos_events`, `safety_sessions`, panics, check-ins, Redis countdown, `trip_routes`, off-route clock | SOS, confirm, cancel; poll, assign; check a position | notifications, admin, gateway | countdown against cancellation; polls overlap; checks share a clock | help is called; alarms stay in view; a detour is heard | `SosAlert`, `SafetyDesk`, `RouteWatch` |
| Airport queue | Redis sorted set, `airport_queue_entries` | join, leave, dispatch next | trips, screen | set and table are written separately; requests of one driver overlap | first in, first out; no more entries than requests that overlap | `AirportQueue` |
| Trust and fraud review | `trust_scores`, `fraud_alerts` | recalculate, place a hold; mark, clear, escalate | ai-service, admin, trips | two admins and a recalculation write one alert | a held account waits for its review | `TrustHold` |
| Support and refunds (admin-service) | `support_tickets`, `refunds`, `audit_logs` | assign, escalate, note; issue a refund | admin app | the total is read before the row is written | refunds stay within the fare | `SupportDesk` |
| AI advice | `ai_recommendations`, scheduler state and locks | propose, show, decide, expire, score | admin app | a decision against a sweep that listed earlier | a decision stands | `AdviceLedger` |
| Masked calls | Twilio session, `proxy_sessions`, cache, rate keys | open, extend, close, expire | Twilio | three copies of one session | messages go by the session on record | `ProxySession` |
| Chat, notifications, resilience helpers, infrastructure | – | – | – | – | – | not modelled, [section 6](#6-what-is-not-modelled) |

`PROJECT.json` gives every component its sources, its status and the reason for
it, and lists the hazards, each at its line, with the properties that cover it.

## 2. The modules

| module | what it is | composed with |
|---|---|---|
| `BidContract` | the abstract promise of an offer ride | implemented by `BidNegotiation` |
| `BidNegotiation` | one offer ride, its handlers, keys, sweeps and hold | instantiates `BidContract` |
| `TripDispatch` | one standard ride, its handlers and sweeps | |
| `RidePayment` | the money of one ride at Stripe and in the database | |
| `InstantPayout` | one driver's instant payouts | |
| `DriverOnboarding`, `DriverSignup`, `AuthSession`, `RiderCards`, `RiderProfile` | accounts: a driver's application and its screens, codes and tokens, a rider's cards, contacts and places | `MCOnboarding` |
| `DriverPresence`, `AirportQueue`, `DriverApp` | being on the road | `MCDriving` |
| `RiderApp`, `Booking`, `FareEngine`, `Ratings` | asking for a ride, following it and rating it; fares in whole cents | `MCRider`; `Booking` uses `FareEngine` |
| `SosAlert`, `SafetyDesk`, `RouteWatch` | an SOS, the desk that looks out for it, the watch over a route | `MCSafety` |
| `TrustHold`, `SupportDesk`, `DriverWallet`, `AdviceLedger`, `ProxySession`, `Books` | what happens to a ride and its money behind the apps | `MCOffice` |
| `FaultBudget` | the count of faults the modules of one MC module share | |
| `BidNegotiationProofs`, `TripDispatchProofs`, `RidePaymentProofs`, `InstantPayoutProofs` | the theorems and proofs of the module named | extend it and `TLAPS` |
| `AccountProofs`, `OfficeProofs`, `RideProofs` | theorems and proofs about accounts, about what runs behind the apps, and about the rest of a ride, a section per module | extend those modules and `TLAPS` |
| `MC…` | the finite instances | extends the modules |

**Conventions.** A handler is one action per await; what survives an await is in
the record of the call (`job[...]`, `call[...]`, `obCall[...]`, a member of
`reviews`, `jobs`, `asks`, ...), and a transaction is one action. A transaction writes what
its handler decided when it *read* the row; whether it re-checks the row is copied
from its `where` clause. A failed call, a crashed handler or a lost key is an
action that takes one `Fault` of the budget, bounded by `MaxFaults`; people may
do, or leave, anything their screen offers. A definition that is not used by its
specification and stands just before one with the same parameters is a plausible
wrong version of it.

`MCOnboarding`, `MCDriving`, `MCRider`, `MCSafety` and `MCOffice` let one of their modules
run in a behaviour while the others rest: their states do not touch, and interleaving them
would multiply the states and show nothing. Four modules are split further where their
halves are independent (tickets and refunds, contacts and places, ledger and
reconciliation, and the two ways to a driver, which read the road and change nothing of it). Cut down to one module, such a behaviour is one of that module's own
specification (`ObSpec`, `AsSpec`, `DwSpec`, `BkSpec`, `AqSpec`, ...), in which the halves
do interleave; that is what its theorems are about.

### BidNegotiation

| variable | code |
|---|---|
| `submit` | where `submitBid` is between the hold, the transaction and the `pi` key |
| `bid`, `trip` | the rows; a fare is an integer, `bidSet` says the trip has `bidFare` |
| `claimed`, `declined`, `intent` | Redis `bid:<id>:claimed`, `bid:<id>:declined:<driver>`, `bid:<id>:pi` |
| `hold` | the payment intent behind the hold, at Stripe |
| `tripStale`, `due` | the two questions the sweeps ask of the age of the bid |
| `job[p]` | the operation of actor `p`, its step and the driver and amount it read |

| actions | code |
|---|---|
| `SubmitHold`, `SubmitStore`, `SubmitRemember`, `SubmitAborts` | `submitBid` |
| `AcceptRead`, `Claim`, `AcceptCommit` | `driverAcceptBid` |
| `DeclineRead`, `ClaimDecline`, `DeclineCommit` | `driverDeclineBid` |
| `CounterRead`, `Claim`, `CounterCommit` | `driverCounterBid` |
| `AcceptCounterRead/Commit`, `DeclineCounterRead/Commit` | `riderAcceptCounter`, `riderDeclineCounter` |
| `WithdrawRead/Commit` | `withdrawBid` |
| `ExpireRead/Commit` | `sweepExpiredBids` |
| `LookUpIntent`, `CallPayment`, `CallPaymentFails`, `ForgetIntent` | `captureStripeHold` and `voidStripeHold`: read the key, call payment-service, delete the key |
| `CancelTripRead/Commit`, `DispatchSweepFails` | what `cancelTrip` and `failTripNoDrivers` do to a trip with a bid |

*Timing assumed:* a handler is through its transaction before the claim it took
expires (60 s to accept, 120 s to counter, 30 s to decline); `bid:<id>:pi` (420 s)
may still expire, as a fault. Without the first assumption two drivers strike a
deal; it is a guard of the model.

`BidContract` says the same with two variables: a deal is struck at most once, in
the negotiable range, and the money put on hold is used once, for exactly the
agreed fare or to give it back. `KeepsContract` maps `trip` to `deal` and `hold` to
`money`; nothing else of the handlers is visible in it.

### TripDispatch

| variable | code |
|---|---|
| `create` | where `createTrip` is between the row, the broadcast and the dispatch key |
| `trip`, `claimed` | the row, Redis `trip:<id>:claimed` |
| `attempts`, `fresh` | Redis `trip:<id>:dispatch`: its attempt count, and whether `lastDispatchAt` is inside the 75 s window |
| `tripStale` | `createdAt` is before the window |
| `broadcasts` | how often the request went out |
| `belowFloor`, `floorLog`, `credits` | the earnings floor, its log row, the wallet credits sent |
| `waited`, `noShow` | five minutes since the arrival, the answer to the driver's report |
| `job[r]`, `sweep[s]` | the calls and the sweeps in flight |

| actions | code |
|---|---|
| `CreateStore`, `CreateBroadcast`, `CreateRemember`, `CreateAborts` | `createTrip` |
| `AcceptRead/Claim/Commit` | `acceptTrip` |
| `ArriveRead/Commit`, `StartRead/Commit` | `markArrived`, `startTrip` |
| `EndRead`, `EndFloor`, `EndCommit` | `endTrip` with `earnings-floor.service.ts` and the credit of the wallet |
| `CancelRead/Commit`, `MarkNoShow` | `cancelTrip`, `markNoShow` |
| `SweepList`, `SweepDecide`, `SweepRedispatch`, `SweepMark`, `SweepFail` | `sweepStaleSearchingTrips`, `redispatchTrip`, `failTripNoDrivers` |

A request slot can carry any call, so two slots are a double tap, a client's
retry, or the rider and the driver at once. *Timing assumed:* an acceptance takes
less than the 30 s its claim lives; a sweep that decided to re-broadcast marks the
key within the 75 s window; nobody drives a ride to its end while an acceptance
read before it is still in flight.

### RidePayment

| variable | code |
|---|---|
| `offer` | the ride has a `bidId` |
| `intent` | the payment intent at Stripe, with the first answer given under the idempotency key |
| `row`, `ledger`, `audited` | the `payments` row, the `rider_payment` pairs in the ledger, the `fare_integrity_error` record |
| `call[c]` | a call and what it has heard or read so far |
| `sent`, `claimed`, `applying` | the events Stripe emitted, those whose id is in Redis, those claimed and not yet applied |

| actions | code |
|---|---|
| `ChargeRefused`, `ChargeChecks`, `ChargeStripe`, `ChargeBook`, `BookLedger` | `chargeTrip` |
| `CaptureCall/Stripe/Update/Book` | `captureAuthorizationHold` |
| `VoidCall/Stripe/Mark` | `voidAuthorizationHold` |
| `RefundRead/Stripe/Book` | `issueRefund` |
| `ClaimEvent`, `ApplyEvent` | `handleWebhookEvent` |
| `IntentSettles`, `HoldLapses`, `DashboardRefund` | Stripe: external, as the code relies on it |

Stripe serialises the operations on one intent, replays the first answer to an
idempotency key, and delivers its events in any order. A redelivered event is
the claim that fails. *Timing assumed:* idempotency keys and claimed event ids
live for 24 hours and the money of a ride is settled within them.

### InstantPayout

| variable | code |
|---|---|
| `verified` | `payoutBankVerified` |
| `held`, `ready` | rides completed within the two-hour hold, and before it |
| `today`, `capKey` | the day, and Redis `instant_payout:daily:<driver>:<day>` in cents |
| `paid` | what Stripe transferred under the idempotency key of a day |
| `payouts`, `booked` | the `payouts` rows and the ledger entries, by transfer |
| `call[c]` | a call: the balance it summed, the day of its cap, the day of its transfer |

| actions | code |
|---|---|
| `PayoutRead`, `PayoutCap`, `PayoutTransfer`, `PayoutCount`, `PayoutRow`, `PayoutLedger` | `getDriverWallet` and `instantPayout`, one action per await |
| `LinkBank`, `AccountUpdated` | `payout.driver.controller.ts` and the event `account.updated` |
| `EndRide`, `HoldPasses`, `NextDay` | rides complete and time passes |

The cap is kept in cents and compared with dollars (`Cents`): the model keeps both
units, so that the comparison is the code's. *Assumed:* a completed ride stays
completed, which section 5 shows is not always so.

### Accounts (`MCOnboarding`)

| module | variables and the code they stand for | actions and the code they stand for |
|---|---|---|
| `DriverOnboarding` | `driverRow`, `papers`, `car` (the rows), `reports`, `sentReports` (Checkr), `claimedReports` (`checkr:event:<id>`), `obCall` (calls in flight) | `SubmitInfoRead/Write`, `UploadUrl`, `ConfirmRead/Check/Write`, `RequestCheckRead`, `OrderReport`, `StoreReport`, `AddVehicle…` (`drivers.service.ts`, `documents.service.ts`, `vehicles.service.ts`, `checkr.service.ts`); `ApproveRead/Write`, `DeclineDriver`, `SuspendByAdmin`, `ReviewDocument`, `FlagDriver`, `ApproveInspection` (admin); `ClaimReport`, `FindDriver`, `ApplyReport` (the webhook) |
| `DriverSignup` | `place` (the screen), `checking` (the guard's fetch, given up when the guard is left), `sending` (a request of each form, which goes on when its screen is left), `tokens`, `uploaded`, `connected`, `account` (the server's view) | `Submit`, `FormAnswered`, `FormLost`, `FormDone`, `LeaveUploads`, `ConnectBank`, `FinishSetup`, `CheckStatus` (the screens), `GuardAnswers`, `GuardFails`, `DeepLink`, `ColdStart` (`onboarding/_layout.tsx`, `app/_layout.tsx`) |
| `AuthSession` | `otpKey`, `otpSends`, `refreshKeys` (Redis), `held`, `disk` (the token store and SecureStore), `thread` | `TapSend`, `CountSend`, `StoreCode`, `TapVerify`, `CheckCode`, `CountMiss`, `TakeCode` (`otp.service.ts`), `RotateRead`, `RotateDelete`, `IssuePair` (`token.service.ts`), `SendRequest`, `SaveTokens`, `ClearTokens` (`client.ts`) |
| `RiderCards` | `customer`, `default` (the row), `customers`, `attached` (Stripe), `shown` (the screen), `flow` | `ListCards`, `CheckOwner`, `WriteDefault`, `Detach`, `UnsetDefault`, `ReadCustomer`, `CreateCustomer`, `LinkCustomer`, `CheckDefault` |
| `RiderProfile` | `contacts`, `homeRow` (the rows), `rows`, `homePlace` (the screens and the store), `adding` (an addition per phone: the screen and the sessions `Elsewhere`), `overlapping` (a history: additions that counted while another was under way), other requests under way | `CountContacts`, `CreateContact`, `RemoveContact`, `ListContacts`, `ReadProfile`, `Hydrate`, `SavePlace`, `SaveAddress` |

`AuthSession` keeps two histories, `contended` and `crossed`: the promises hold for an
app that does one thing at a time, and say exactly when they stop to.

### On the road (`MCDriving`)

| module | variables | actions |
|---|---|---|
| `DriverPresence` | `roadApp`, `sock` (the app), `userSockets`, `cleaning` (each task's map, and clean-ups under way), `dutyRow`, `location` (`driver:<id>:location`), `match`, `offered` (an offer ride looking for drivers), `incomingRequest` (a standard ride on the phone), `reply` (the driver's answer at trip-service) | `Toggle`, `WriteAvailable`, `WriteLocation`, `ToggleAnswered` (`updateAvailability` and the switch), `Beat`, `PositionArrives`, `ConnectSocket`, `LoseSocket`, `HubSignOut`, `SocketCloses`, `CloseLog`, `EvictLocation` (`websocket.gateway.ts`), `SuspendDriver`, `ClearSuspended`, `ApproveAgain` (admin), `FindNearby`, `SendOffers` (`findNearbyDriverUserIds` of `bids.service.ts`), `BroadcastRequest` (`dispatch.service.ts:51`, `websocket.gateway.ts:280`), `RequestGone`, `TapReply` (the app), `ResolveDriver`, `WriteReply` (`acceptTrip`, the bids) |
| `AirportQueue` | `queue`, `ahead` (the members of the sorted set and which of two has the lower score), `waiting` (rows), `calls` (joins and leaves under way: whose, how far, still awaited by a screen?), `inQueue` (the screen), `popped` | `JoinQueue`, `AddToSet`, `CreateEntry`, `JoinAnswered`, `JoinFails`, `LeaveQueue`, `RemoveFromSet`, `ClearEntries`, `LeaveAnswered`, `LeaveFails`, `Remount`, `PopNext`, `EntryDispatched` |
| `DriverApp` | `ride` (the server's trips), `screen`, `cards`, `cancelledTripId`, `request`, `up` | `OfferArrives`, `RiderCancels`, `RiderAcceptsCounter`, `OtherDriverTakes`, `ShowCancelled`, the taps (`Ask`), `ServerAnswers`, `AppReads`, `Launch`, `RestoreActiveTrip` |

There are two ways to a driver. An offer ride is matched: location keys and the airport
queue name candidates, whose rows are read. A standard ride is broadcast to every open
socket, and the driver's row is read when the driver answers. `DriverPresence` has both, for
one driver. `riderAcceptCounter` reads no driver's row, so one who is suspended after
a counter offer may still get the ride; that answer is the rider's, and in `BidNegotiation`.

### The rider (`MCRider`)

| module | variables | actions |
|---|---|---|
| `RiderApp` | `hail` (the trips), `app` (screen, active trip, status), `pending` (the counter), `wire` (socket and room), `inbox` (events on their way), `deaf` (an event nobody could hear) | `RideMoves` and the handlers of the service with what they publish, `Hear`, `RoomJoined`, `SocketDrops`, `SocketReturns`, the taps, `Navigate`, `Restart`, `RestoreRide` |
| `Booking` | `pickup`, `dropoff`, `field`, `suggesting`, `lookups`, `placed`, `estimates`, `fare`, `sheet`, `order` | `Type`, `FetchSuggestions`, `TapSuggestion`, `GetPlaceCoordinates`, `SelectTerminal`, `LocationArrives`, `EstimateArrives`, `RequestRideFromSheet`, `PriceRide`. The terminal picker opens for a place *named* like the airport (`NamedEwr`), the premium is charged for one *within* it (`Airports`) |
| `Ratings` | `stars` (columns of the trip), `rated` (rows), `average`, `screen` | `OpenRating`, `LeaveRating`, `SubmitRating` (the screens), `CheckRated`, `WriteTripRating`, `UpsertRating`, `AggregateStars`, `WriteAverage` (`rateDriver`, `rateRider`) |
| `FareEngine` | (operators) | `FareOf`: base, distance, time, surge, airport and night premium, minimum, and the AI adjustment with its cap of $2 |

### Safety (`MCSafety`)

| module | variables | actions |
|---|---|---|
| `SosAlert` | `sosScreen`, `ticking`, `sosKnown` (the phone), `sosRow`, `sosState`, `recorded` (rows), `countdown` (Redis), `sosCalls`, `alerted`, `contacted`, `slaColumn` | `BeginSos`, `CountdownEnds`, `TapCancel` (the screen), `CreateSos`, `SosRefused`, `AlertAdmins`, `ConfirmRead/Write/Record/Clear`, `CancelRead/Check/Write/Session` |
| `SafetyDesk` | `deskPage`, `polls`, `shown`, `detail` (the page), `sosStatus`, `panicked` (rows); a queue answers the newest `QueueTake` alarms (the code: 50) | `Poll`, `QueueRead`, `QueueRefused`, `PollFails`, `ShowQueues`, `Assign`, `Resolve` |
| `RouteWatch` | `route`, `risk`, `since` (the clock in Redis), `check`, `checkIn` | `StoreRoute`, `StoreRisk`, `PositionPublished`, `ReadTrip`, `ReadRoute`, `ReadClock`, `SetClock`, `ClearClock`, `Escalate`, `RespondCheckIn` |

`initiateSos` writes a column that `sos_events` does not have, which Prisma refuses
([section 5](#5-where-the-code-and-its-own-documentation-disagree)): with the schema as
it is no SOS exists and nothing could be said of the rest of the handlers. So
`slaColumn` is chosen at first: `HelpIsCalled` is about a database that takes the row,
`SosIsRaised` fails on the one the repository has.

### Behind the apps (`MCOffice`)

| module | variables | actions |
|---|---|---|
| `TrustHold` | `facts` (what the score counts), `alerts`, `refreshes`, `ride`, `page`, `reviews` | `CountFlags`, `ScoreByRules`, `ScoreByModel`, `PlaceHold` (`trust.service.ts`), `CheckedRide` (`assertNoActiveFraudHold`), `MarkAlert`, `ReviewAlert` (`fraud.service.ts`) |
| `SupportDesk` | `ticket`, `tasks`, `logged`, `form`, `issuing`, `refunds` | `AssignTicket`, `UpdateStatus`, `EscalateTicket`, `AddNote`, `WriteTicket`, `WriteNote`, `WriteLog` (`support.service.ts`), `ReadRefunds`, `CreateRefund` (`refunds.service.ts`) |
| `DriverWallet` | `wallet`, `earningRows`, `releaseRows`, `batchStatus`, `batchRun`, `attempt`, `transferred`, `debits`, `screen` | `CreditEarning`, `FindHeld`, `ReleaseHold`, `ApplyAdjustment`, `CheckDebit`, `DebitPayout` (`wallet.service.ts`), `ScheduleBatch`, `ReadBatch`, `ClaimBatch`, `PayWallet`, `Transfer`, `RecordTransfer`, `Retry` (`payout-batch.service.ts`) |
| `AdviceLedger` | `advice`, `day`, `due`, `lock`, `jobs`, `adviceOn`, `asks` | `TakeLock`, `DueAgain`, `ReadState`, `RecordRun` (`scheduler.service.ts`), `LookForStanding`, `CreateAdvice` (the analyzer), `ListStale`, `ExpireAdvice`, `SnapshotOne`, `ShowAdvice`, `DecideAdvice`, `ReadAdvice`, `WriteAdvice` (`recommendation-ledger.service.ts`) |
| `ProxySession` | `twilio`, `members`, `proxyRow`, `cached`, `webhooks`, `caller`, `rate`, `rateEnds` | `GetCached`, `OpenTwilio`, `AddMember`, `WriteRow`, `CacheNew`, `RemoveTwilio`, `CloseRow`, `CacheAgain`, `ExtendTwilio`, `FindRow`, `ExpireRow`, `CountSms`, `SetWindow` |
| `Books` | `balance`, `postings` (the ledger), `booked`, `refunded` (rows of payments), `atStripe`, `verdict`, `keeper` | `RecordEntries`, `RecordByAdmin`, `RecordAdjustment` (`ledger.service.ts`), `Reconcile`, `LookForVerdict`, `Compare`, `CreateVerdict`, `ResolveEntry` (`reconciliation.service.ts`) |

Several of these calls have no caller yet (the batch, wallet debits, masked calls, the
airport queue). The models let them be made at any time by anybody the code would
allow, so what is shown holds when they are wired up.

## 3. The runs

| run | instance | distinct states | what it shows |
|---|---|---|---|
| `bid_safety` | 2 drivers, 2 rider requests, 1 sweep, no faults, symmetry | 671,377 | the hold covers the deal; no hold lost between two handlers |
| `bid_live` | 1 driver, 1 rider request, 1 sweep, 1 fault, fairness | 35,344 | the negotiation implements `BidContract`; bids and holds end |
| `dispatch` | 2 drivers, 2 requests, 2 sweeps, 1 re-broadcast, 1 fault, fairness | 923,888 | one driver, no accepted ride swept away, one completion below the floor, every search ends |
| `ride_payment` | 2 calls, a fare of 2, 1 fault, fairness | 188,049 | one fare taken, a truthful row, one ledger pair, pending payments settle |
| `instant_payout` | 2 calls, 3 rides of 2, cap 5, 2 days, 1 fault, fairness | 86,208 | cap, hold and ledger respected, transfers recorded |
| `payout_repeat` | as `instant_payout` | violation | section 5 |
| `onboarding` | 1 document, 1 admin, 1 delivery at a time, 2 reports; 2 requests, 2 token pairs, 2 codes; 2 cards; 3 contacts added at once from 3 phones, limited to 1; 1 fault, fairness | 576,984 | clearance behind every approval, reports heard, no skipping of steps, sessions and codes hold, a default card, profile limits |
| `driving` | 2 tasks, 2 sockets, one ride of either kind at a time; 2 drivers in the queue, 2 requests under way; 2 rides, 1 restart; 1 fault, fairness | 758,904 | duty is read, location, queue order, the ride on screen |
| `rider` | 2 hails, 1 event on its way; 3 places (one at the airport, one only named like it), 2 picks, 1 text; 2 rides, 3 rating screens, 2 stars; 1 fault, fairness | 1,057,660 | an ended ride leaves the screen; the quote is what is charged; the three copies of a rating agree |
| `safety` | 2 SOS; 2 polls, 2 alarms, queues of the newest 1; 2 checks, 1 detour; 1 fault, fairness | 348,324 | help is called, the newest alarms stay in view, a detour is heard |
| `sos_refused` | as `safety` | violation | section 5 |
| `office` | 2 alerts, 2 reviewers, 2 recalculations; 1 ticket, 3 refunds of a fare of 2; 1 ride, 2 wallet reads, 2 batch runs, 2 attempts; 2 recommendations, 2 jobs, 2 days; 2 callers, 2 sessions; 1 payment, 1 refund, 1 dispute, 2 reconciliations at a time; 1 fault | 2,965,054 | holds wait for their review, refunds stay within the fare, the wallet adds up, decisions stand, messages go by the session on record, the first verdict stands |

The properties:

- `HoldCoversDeal` – the agreed fare is negotiable, the hold covers it, and only it
  is captured. `NoHoldLeaked` – without faults, when the `pi` key is gone the hold
  is captured or cancelled. `KeepsContract` – the refinement. `BidEventuallyResolved`,
  `HoldEventuallySettled` – no bid and, but for a fault, no hold stays open.
- `OneDriver` – a ride never changes hands. `SweepSparesAccepted` – only a
  `cancelTrip` call cancels a ride that has its driver. `FlooredRidePaidOnce` – the
  unique key of the floor log is the lock on a completion below the floor.
  `SearchEnds` – no rider is left searching.
- `ChargedOnce`, `RowMatchesStripe`, `LedgerBookedOnce` – what the ride took, what the
  row says of it and of what was given back, what was booked.
  `PendingPaymentSettles` – a payment whose outcome Stripe reports, in an event that
  comes after the row, does not stay pending unless the handler dies.
- `DailyCapRespected`, `HeldEarningsStay`, `LedgerMatchesTransfers`,
  `TransferRecorded`. The cap holds although it is counted only after the money
  moved, because the daily idempotency key lets one amount through per day.
- `ApprovedWasCleared` – two routes lead to approval, and both rest on a clear report
  that was taken up. `CheckIsHeard` – the report the row points to reaches the row,
  unless a delivery dies after the claim. `NoSkippingAhead` – the guard of the
  onboarding screens brings a driver who is signed in back to the server's step.
- `SessionKept` – however many requests had to refresh one after the other, the app
  holds a pair the server rotates. `NewestCodeCounts` – the newest code is refused
  only after the allowed wrong guesses at it. `DefaultIsUsable`, `ProfileHolds` – the
  default card is attached, and set as long as there is a card; the place on the screen is the
  one saved; contacts exceed their limit by no more than the additions that overlapped (that they
  exceed it at all is `ContactsWithinLimit` in section 5).
- `DutyIsRead` – location keys outlive the duty: who is matched to an offer ride is decided by
  the row read afterwards. A standard ride reaches everyone connected (`StaysInZone` in section
  5); an answer of a driver who was suspended before it gets no further than the row.
  `OnlineStaysLocated` – clean-ups of older sockets may evict a driver, heartbeats
  put them back. `KeepsPlace` – first come, first served, but for a driver's own requests. `LiveRideIsShown` – the
  driver's app ends up on a screen of a ride it took.
- `EndIsShown` – the rider's app hears of an end, across reconnections and restarts.
  `QuoteHonoured` – the trip's fare is the quoted one, as long as demand and hour are
  the same and no address changed under an estimate. `RatingsAgree` – the stars on the trip,
  in the rating row and in the average of the driver are the same, unless a request died
  or two found the column empty.
- `HelpIsCalled` – an SOS nobody cancels reaches the trusted contacts.
  `AlarmsStaySeen` – no overlap of polls hides an alarm for good that the queues answer; what
  they leave out is `NoAlarmLeftOut` in section 5. `OffRouteIsHeard` –
  checks that share a clock do not keep resetting it.
- `OnlyTheClearedRide` – a ride begins only if the last review of every alert cleared
  it. `RefundsWithinFare` – unless two decisions overlap. `WalletAddsUp` – pending is what is
  held, and what the wallet counts as paid was transferred. `DecisionWins`, `CachedIsRecorded` –
  see the comments at the definitions. `VerdictStands` – reconciling again, or twice at once,
  does not change what was found first.

`PROJECT.json` names for every property of a passing run a wrong version of the code's
translation that breaks it under the same configuration.

Three more configurations are kept for use by hand: `MCTripDispatch_safety.cfg` (3
requests, `BroadcastsBounded` and the inductive invariant: each re-broadcast the code
allows goes out at most once per overlapping sweep, plus one per fault; no error), and
the two of section 5.

**Why the bounds are enough.** The races of a negotiation are between two drivers,
a driver and the rider, two requests of the rider, and any of these and a sweep:
the safety instance has all the pairs at once, and two sweeps of one bid differ
from a sweep and a withdrawal only in the status they write. Fares 0..4 with a
floor of 2 leave two negotiable amounts, enough for an offer and a different
counter. In `dispatch` the two calls of a ride, two sweeps and a re-broadcast overlap. A
fare of 2 can be refunded in two parts. Payouts need balances at the minimum (2),
within the cap (4) and beyond it (6), and one midnight. In the composed runs every
collision is between two of a kind, and two of a kind are there: two reports, of which the row
points to the newer; two requests and two token pairs; two card flows; two tasks with
two sockets; two requests at the airport, which may be one driver's; additions of contacts from
the screen and two other sessions, so that more than one can be over the limit; two alarms over
queues that answer one; a place named like the airport that is not there; two hails, so that
the answer about one ride comes under the next; two polls of two queues; two checks of
one clock; two desks and two alerts; two jobs; two callers; two
passes over one payment; three rating screens, so that one ride is rated twice while the
other is averaged. One delivery at a time is
enough for Checkr because the claim is taken in one step: a second delivery of the same event
only fails to take it. One fault per behaviour is a crash at any step; the theorems
of section 4 hold for every `MaxFaults`.

**Fairness** is what the runtime gives: a handler that has started is resumed after each
await, the sweeps and polls recur on their timers (the safety page polls every ten seconds,
the driver's heartbeat beats), time passes, Stripe and Checkr deliver an event until it is
answered, positions arrive while the car is out, the socket reconnects. All of it is weak
fairness, with one exception: the guard of the onboarding screens answers *strongly* fairly,
since a driver may leave a screen while its fetch is under way but does not do so every time
just before it returns. Nobody is obliged to answer an offer, accept, drive, confirm or
cancel. `RidePayment` assumes nothing of the calls, only of the events; crashes are the
counted faults. Where only one module of an MC module runs, one fairness condition takes an
action of each: the actions of the resting modules are disabled, so it is the condition of
the one that runs.

**Deadlock** is checked in the runs of the first four components: `Ended` is the explicit
stutter of a negotiation or ride that is over with nobody at work on it; a state that
stops anywhere else is an error. In the composed runs people may stop using the app
and every bound may be used up, so there a state without a successor is no error.

## 4. What is proved

All obligations are discharged by SMT (Z3), Zenon and, for the temporal steps,
LS4. Nothing is assumed but the named assumptions on constants: the sets of
actors are disjoint and the null values outside them, the floor is between 1 and
the standard fare, amounts and bounds are naturals, the sweeps are finitely many,
the threshold of a fraud hold is above 80 (the code has 90) and reviewers have desks.

| module | section | theorem | property |
|---|---|---|---|
| `BidNegotiationProofs` | | `DealIsCovered`, `OneDeal`, `ContractKept`, `NoHoldIsLost` | `HoldCoversDeal`, `DealTermsFixed`, `KeepsContract`, `NoHoldLeaked` |
| `TripDispatchProofs` | | `RideKeepsDriver`, `SweepSpares`, `FloorPaysOnce` | `OneDriver`, `SweepSparesAccepted`, `FlooredRidePaidOnce` |
| `RidePaymentProofs` | | `FareTakenOnce`, `RowIsTrue`, `BookedOnce` | `ChargedOnce`, `RowMatchesStripe`, `LedgerBookedOnce` |
| `InstantPayoutProofs` | | `CapHolds`, `HeldEarningsAreSafe`, `LedgerIsTrue` | `DailyCapRespected`, `HeldEarningsStay`, `LedgerMatchesTransfers` |
| `AccountProofs` | `DriverOnboarding` | `ApprovalRestsOnClearance` | `ApprovedWasCleared` |
| | `AuthSession` | `SessionStands`, `NewestCodeAccepted` | `SessionKept`, `NewestCodeCounts` |
| | `RiderCards` | `CardIsReady` | `DefaultIsUsable` |
| | `RiderProfile` | `ProfileIsTrue` | `ProfileHolds` |
| `RideProofs` | `DriverPresence` | `DutyDecides` | `DutyIsRead` |
| | `Booking` | `QuotesAreKept` | `QuoteHonoured` |
| | `Ratings` | `StarsAreCounted` | `RatingsAgree` |
| | `AirportQueue` | `FirstComeFirstServed`, `OverlapLimitsEntries` | `KeepsPlace`, `FewEntries` |
| `OfficeProofs` | `TrustHold` | `HeldAccountsWait`, `RulesNeverHold` | `OnlyTheClearedRide`, `HoldStartsWithModel` |
| | `SupportDesk` | `FareCoversRefunds` | `RefundsWithinFare` |
| | `DriverWallet` | `WalletIsTrue` | `WalletAddsUp` |
| | `AdviceLedger` | `FounderDecides` | `DecisionWins` |
| | `ProxySession` | `MessagesAreOnRecord` | `CachedIsRecorded` |
| | `Books` | `LedgerBalances`, `FirstVerdictStands` | `BooksBalance`, `VerdictStands` |

Each section also has the theorem that its inductive invariant always holds
(`InvariantHolds`, `ObInvariantHolds`, ...; for the negotiation it is the `IInv` that the
other theorems cite) and, where it is not part of that invariant, type correctness (`TypeCorrect`, `ObTypeCorrect`, ...). Every
theorem holds for every value of the constants its assumptions allow: any sets of drivers,
requests, sweeps, callers, desks, tasks and documents, any amounts, limits and numbers of
faults (and, for `FewEntries`, finitely many requests). With this table every safety property of a passing run is a theorem.

Each proof has the same frame: `Init => Inv`; one lemma per action (or per group
of actions that change the same variables) for `Inv /\ [Next]_vars => Inv'`; and
the property from the invariant. Why the invariants are what they are:

- **Negotiation.** `DealTermsFixed` is not inductive: a handler that read the bid
  long ago may still commit. What saves it is that while a driver can still win
  (`Undecided`: the bid is pending, or somebody is between claim and transaction, or
  the claim is free and somebody has read a pending bid) there is no deal and no
  counter, and that whoever is between the two owns the claim (`ClaimOwned`). After
  a counter, the acceptances of the rider in flight are all of the same counter
  (`AcceptancesAgree`). `AmountsNegotiable` and `HoldBacksDeal` carry the amounts from
  the read to Stripe. The refinement follows: a step strikes a deal only out of
  `Undecided` or with an acceptance of the one counter, and Stripe lets the hold be
  used once.
- **Dispatch.** `ClaimOwned` again, and `AssignedIsClaimed`: once the trip has its
  driver nobody stands between claim and update, and while old acceptances are in
  flight the claim is taken. `JobsHaveShape` is needed because `endTrip` deletes the
  claim: an end call is read only when no acceptance is in flight. `FloorLogIsTicket`
  says the floor log is a ticket held by one end call or spent.
- **Payment.** Stripe never forgets: a set of facts about the intent only grows
  (`Forward` in the proofs). So what a call or an event knew when it was formed is
  still true when it is written (`CallTrue`, `EventTrue`), however late that is.
  `LedgerTrue` says that the one booking due is in the hands of one call.
- **Payout.** A call past the cap has a balance within the cap and made of rides
  past their hold; a call past Stripe has the amount of its transfer
  (`CallTrue`); the ledger entry of a transfer is due in one call (`OneLedgerDue`).
- **Onboarding.** An approval is written long after the row was read. A claimed event
  stays claimed (`ClearanceStays`), so the clearance a call relied on (`CallKnows`) is
  there when it writes.
- **Fraud hold.** The check reads `holdReleasedAt`, the promise is about the decision:
  they agree because only `reviewAlert` writes either, and it writes both
  (`ReleaseIsDecision`). That the rules never hold an account by themselves is an induction over
  the flags (`FlagsFromModel`), since an open alert itself counts towards the next score.
- **Advice.** Requests and the expiry sweep compare again when they write, so it matters
  that they read something they may leave (`RequestsLegal`, `SweepsStanding`); a
  snapshot writes by id and is right because what was once adopted stays adopted or
  moves on (`OnceTaken`).
- **Masked calls.** The cache is written by a request that read or made its session long
  before; a session on record with both people on it stays so (`Recorded`).
- **The hold of an offer.** `pi` may be deleted by a handler that is not the one that
  settled the hold. Without a fault a handler comes to delete it (`KeyKept`) only through
  its own call to payment-service, and when that call returns the hold is captured or
  cancelled, whoever was there before (`CallSettles`): Stripe refuses a second settlement
  and the code goes on.
- **Codes and sessions.** While no call failed and no two threads changed the session at
  once, at most one is changing it, and what that one knows is how the session stands
  (`Knows`). A guess under way has read a count of the newest code, made since that came, or
  is at an older code (`CodeKnown`).
- **Cards.** The default is missing, or names a card that is gone, only while the one
  request that changes the cards is on its way to set it right (`Pending`, `Removed`);
  `FlowKnows` is what it has read and nobody else changes. Two requests that overlap are
  noted, and promised nothing.
- **Contacts and places.** An addition that has counted owes a contact. Contacts and owed ones
  together exceed the limit by no more than an addition ever found owed when it counted
  (`ContactsOwed`, with the history `overlapping`), for any number of sessions. The home passes from the form
  to the request to the row and back (`SavedIsHome`, `HomeIsShown`).
- **Presence.** The location key may name somebody off duty. An offer ride still rests on the
  row: while a match counts a driver as off duty, they are (`MatchKnows`), as a write
  that puts them on duty is seen by the match under way. The same holds of an answer and a
  suspension (`ReplyKnows`); nothing is claimed of who hears of a standard ride.
- **Booking.** The quote and the fare are `FareOf` of one ride in one world, each with an
  answer of ai-service of its own (`QuoteRight`, `OrderPriced`); two of those differ by
  twice the cap at most (`FaresNear`, with the arithmetic of the cap in `AdjustmentCapped`).
  That it is the same ride is `OnScreen`.
- **Ratings.** A column keeps its stars unless two requests found it empty (`StarsStand`),
  so the request that writes the row or the average still has what is in the column
  (`ScreenTrue`).
- **Airport.** The members stand in a line, a total order (`InLine`). A step adds one at the
  end, or takes one out and leaves the order of the rest (`LineStep`, `ZaddKeeps`,
  `ZremKeeps`). A join adds an entry long after it found none: the entries of a driver and the
  joins that are still to add one share the requests under way (`EntriesHaveRoom`), so there
  are never more entries than requests under way at once, and one at most if none overlap.
- **Refunds.** The total that was read is the total there is, until the row is written
  (`TotalStillHolds`), since a second decision in between is noted.
- **Wallet.** Units of money are counted: each unit that left Stripe is owed by the wallet
  until it is debited (`OwedCovered`: paid and owed together are at most what was
  transferred), and no unit is in two debits (`DebitsApart`). Pending is the number of
  earnings without a release, and nobody else releases what a read of the wallet found,
  unless two reads crossed (`HoldsCounted`). The lemmas `OwedShrinks`, `OwedGrows` and
  `OwedPaid` are about cardinalities of these sets.
- **Books.** A pair takes from one account what it gives another; the key of a verdict is
  unique, so a pass that read "none" long ago writes nothing over an earlier one.

Two models were changed by their proofs. The airport queue was a sequence from which members
were filtered out; what a filter keeps is an induction over the sequence, which these
provers cannot do, so the sorted set is now its members and their order, which is also what
it is in Redis. In `AuthSession` the type of a thread was too wide to prove anything of a
wrong guess: a miss keeps the code it was made at, as `otp.service.ts` does in its closure.

**Only model-checked:** `BroadcastsBounded`, and all liveness (`BidEventuallyResolved`,
`HoldEventuallySettled`, `SearchEnds`, `PendingPaymentSettles`, `TransferRecorded`,
`CheckIsHeard`, `NoSkippingAhead`, `OnlineStaysLocated`, `LiveRideIsShown`, `EndIsShown`,
`HelpIsCalled`, `AlarmsStaySeen`, `OffRouteIsHeard`), since reasoning with `ENABLED`
and fairness is beyond the provers used. A theorem about a model says nothing of the
timing assumptions of section 2, which are guards of the models.

## 5. Where the code and its own documentation disagree

Two disagreements are runs: their property is what a comment or test of the repository says, and
the counterexample is what the code does.

| run | the code | what it says |
|---|---|---|
| `payout_repeat` | the balance sums every completed ride again on every day (`payment.service.ts:233`) | "Exclude already paid out" (`:228`) |
| `sos_refused` | `initiateSos` writes `slaDeadline` (`safety.service.ts:62`), which `sos_events` does not have (`schema.prisma:609`; `safety_sessions` has it, `:593`): Prisma refuses the row, and the SOS reaches nobody | "SOS overrides AI and goes directly to admin" (`:80`); the test of it passes over a mocked client (`safety.service.spec.ts:91`) |

The following are stated too, and TLC finds them violated when they are named in the
configuration given (a copy of it where the property is not in it):

| property | configuration | the code | what it says |
|---|---|---|---|
| `DeclineNeverOverridesAccept` | `MCBidNegotiation_decline_race.cfg` | `driverDeclineBid` claims another key than an acceptance and writes by id, so it turns an accepted bid into a declined one (`bids.service.ts:279`) | "prevents race where another driver is accepting" (`:278`) |
| `OpenOfferKeepsTrip` | the same, 1 driver | the sweep of searching trips fails offer trips after 75 s although the offer lives 120 s (`trips.service.ts:859`) | "Standard-ride redispatch / no-drivers timeout" (`:854`) |
| `AgreedRideIsCaptured` | the same, 1 rider request | a withdrawal, decline or expiry around an acceptance cancels the hold before the capture; the failed capture is logged and the ride goes on | "Bid trips were already settled on Stripe" (`trips.service.ts:410`) |
| `CompletedIsFinal` | `MCTripDispatch_completed.cfg` | `cancelTrip` writes by id over a ride completed since it read it (`trips.service.ts:451`) | "blocks completed → cancelled (terminal state)" (`trip-state-machine.spec.ts:34`) |
| `NoShowAfterWait` | the same | `markNoShow` waits for a `driver_arrived` event nobody writes (`trips.service.ts:559`) | "Must wait … minutes after arrival before marking no-show." (`:570`) |
| `CounteredRideIsShown` | `MCDriving.cfg` | the answer to a counter is published under `drivers.id`, while sockets join rooms of `users.id` (`dispatch.service.ts:317`) | "Notify driver that rider accepted their counter" (`:316`), "Navigate away when a counter offer is accepted by the rider" (`DriverHomeScreen.tsx:83`) |
| `StaysInZone` | `MCDriving.cfg` | a standard ride is published once and emitted to every open socket, whoever has it and wherever they are (`dispatch.service.ts:51`, `websocket.gateway.ts:280`) | "fans out to drivers in the pickup zone based on their subscribed location" (`dispatch.service.ts:49`) |
| `JoinedOnce` | `MCDriving.cfg` | `joinQueue` looks for a waiting entry, then creates one, without a lock; the screen forgets that it asked when it is left (`airport.service.ts:44`) | "Already in EWR queue." (`:50`) |
| `ContactsWithinLimit` | `MCOnboarding.cfg` | `addContact` counts, then creates (`trusted-contacts.service.ts:32`) | "Maximum of 5 trusted contacts allowed" (`:40`) |
| `NoAlarmLeftOut` | `MCSafety.cfg` | the queues answer the newest 50; nothing resolves an SOS or takes a panic off the list, so older ones that are open drop out (`safety-admin.controller.ts:18`, `:48`) | "SOS Queue ({sosQueue.length} active)" (`safety/page.tsx:167`) |
| `CancelledIsShown` | `MCRider.cfg` | a driver's cancellation is published to nobody (`dispatch.service.ts:162`) | "`trip:cancelled` – Driver/system cancelled" (`design/08-technical-architecture-part3.md:248`) |
| `PremiumIsQuoted` | `MCRider.cfg` | an answer about older endpoints, or a late position, leaves a quote for another route (`HomeScreen.tsx`) | the quote includes the premium "exactly when the created trip will be charged it" (`HomeScreen.tsx:28`) |
| `DecidedStaysDecided` | `MCOffice.cfg` | `markUnderReview` reads the status and then writes by id, over a decision | "already under_review or terminal — no-op" (`fraud.service.ts:104`) |
| `TicketActionsAudited` | `MCOffice.cfg` | the support controller takes the admin from `req.adminUser.id`; the guard attaches the token, which has `sub` (`support.controller.ts:113`) | "Every write action writes to `audit_logs`" (`design/07-admin-command-center-part1.md:311`) |
| `RetriesBounded` | `MCOffice.cfg`, 3 attempts, 2 retries, no faults | a retry leaves the attempt it repeats `retrying` and due, to be repeated again (`payout-batch.service.ts:156`) | `MAX_RETRY_ATTEMPTS` (`:9`) |
| `OnlyLegalTransitions` | `MCOffice.cfg`, 1 recommendation, 3 jobs, 1 day, no faults | a snapshot writes `outcome_pending` by id over a recommendation scored since it was listed (`outcome-snapshot.service.ts:165`) | "Legal lifecycle transitions. Anything not listed is rejected." (`recommendation.types.ts:17`) |

Met while modelling, without a property of their own. Most are steps of the models.

*Rides and money.*
- An acceptance of an offer brings a trip its rider has cancelled back to
  `accepted` (`bids.service.ts:238`); `acceptTrip` does the same to a trip the sweep has
  failed (`trips.service.ts:238`). `cancelTrip` allows `driver_arrived → cancelled`, which
  `TRANSITIONS` does not. Two tasks that sweep at once broadcast one attempt twice,
  beyond `MAX_REDISPATCHES`. The floor log is created outside the transaction
  that completes the ride: a call that dies in between makes every later end call throw
  (`earnings-floor.service.ts:44`).
- Two ratings that cross leave the average of the later mean computed first
  (`trips.service.ts:497`). A second refund of a payment is compared, cumulative against
  single, and flagged although it is right (`reconciliation.service.ts:74`). `payout.paid`
  and `payout.failed` are received and change nothing.
- A payment event that comes before `payment.create` finds no row and is not repeated;
  a late `succeeded` overwrites `refunded`; the ledger books a pending payment.
- The admin `issueRefund` only writes its row (`refunds.service.ts:85`); two
  overlapping admins exceed the fare; `REFUND_CAPS` is keyed by roles `AdminRole` does
  not have, so only the founder and super admins can refund.
- Wallet and batch: nothing calls `releaseHold` by trip, so `availableBalance` never rises;
  a lost Stripe answer is retried under a new idempotency key; two `processBatch` calls
  both pay; two `getWallet` calls release one earning twice; `debitPayout` checks before its
  transaction and can go below zero.

*Accounts.*
- Two requests that refresh at once: the loser clears the tokens of the winner. A
  sign-out during a refresh signs back in. A slow wrong guess writes an old code back
  over a new one. A code complete at its sixth digit is not verified by itself.
- A clear report approves a driver past the gate of `approve` (`checkr.service.ts:135`); a
  vehicle is active before its inspection. The end of the sign-up is bounced to the bank
  screen unless the driver is approved, against the comment of `onboarding/_layout.tsx:13`.
- Two setup intents make two Stripe customers; setting a default while it is removed
  leaves it on a detached card. `TrustedContactsScreen` ignores a refused removal.

*On the road and riding.*
- `trip:cancelled` clears the cards of the driver whatever trip it names; a lost answer to
  an acceptance strands the driver; `TRIP_INVALID_STATE` is always read as "already
  advanced"; one of two sign-out buttons leaves the socket connected. No route exposes the
  airport service; a join that loses to a dispatch leaves a waiting row that refuses every
  later join; joins that overlap leave several, and a leave that overtakes a join leaves its row.
- The rider's app has no handler for `bid:accepted`, `bid:declined` and `bid:expired`; an
  expired counter cancels the ride on the phone only; the view of a sent offer joins no
  room; the push for a driver is sent under another type than the app reads.
- Booking: a pickup chosen after the estimate clears the fare and asks for none; a
  drop-off chosen before the position came never gets one; a cancelled search still
  resolves; any answer ends the loading state; the quote leaves out the number of the
  rider's trips, which the fare uses.

*Safety and office.*
- SOS, panic and check-in handlers have no route, and overdue check-ins are never escalated.
  `cancelSos` sets the session to normal whatever else is active; a cancellation before the
  id arrives does not stop the activation. An overrun is acted on at every position. On the
  safety page an error reads as "All clear" (`safety/page.tsx:176`), no route resolves an
  SOS, and *Assign* writes an SOS id where an admin's belongs.
- Rules alone reach 80 of the 90 that hold an account; a held driver may still accept
  offers; an open alert counts towards the next. Escalating a ticket by its status leaves
  its priority, so that it is on no tab. Deactivating an admin does not end a session.
- Advice: two analyses of a window write it twice; a lock survives a failed run until it
  expires; the state of all jobs is one JSON value read and written whole.
- Masked calls: a racing `scheduleExpiry` caches a closed session again; a trip's row is
  unique, so a re-created session is an orphan at Twilio; a crash between `incr` and
  `expire` leaves a rate key for ever.

## 6. What is not modelled

- *Chat* refuses every
  participant (it compares row ids with a user id) and no app uses it. *Notifications*
  are fire-and-forget: whether one arrives is a fault of the models of the apps. The
  *resilience helpers* of `packages/observability` are constructed by no service.
  *Infrastructure* decides how many tasks run; the models take it from there.
- *Within the modelled services:* the flag a low rating leaves, which nothing reads; lists
  and other reads; the order in which drivers are offered a ride (scores over distance and
  history); the weights of the trust score; check-ins that nobody requests and their
  escalation; the cache of flights and the airport surge, which have no caller;
  subscriptions and Connect onboarding; the engines, forecasts and briefs of ai-service,
  which compute texts and numbers; single-row edits of profiles, settings and the platform
  configuration, where the last write wins.
- *Within the apps:* histories, dashboards, charts, settings and layout. The hub sheet and
  the booking sheet count where they act on a ride, a socket or a session.
- *Compositions:* the calls of one service to another appear on both sides (`CallPayment` in
  `BidNegotiation`, capture and void in `RidePayment`; the credit in `TripDispatch` and
  `CreditEarning` in `DriverWallet`; `CheckedRide` in `TrustHold`), but only the modules of
  an MC module are run together, and those side by side.

## 7. The plan

1. `RideSettlement` – compose the end of a ride and the answer to an offer with
   `RidePayment` and `DriverWallet`: every completed ride is charged or captured and
   credited, or a fault says why. Abstract specification of a payment: *owed, taken once,
   given back at most once*.
2. An abstract session (a token that is replaced by its successor) and an abstract wallet
   (money is held, released and paid out), and the refinements of `AuthSession` and
   `DriverWallet` to them.
3. `RiderApp` and `DriverApp` together over one trip, with the events of one as the
   inbox of the other.
4. Theorems: `BroadcastsBounded`, with the cardinality lemmas (each attempt number is
   re-broadcast at most once per sweep); type correctness of the modules of `MCSafety`, of
   `DriverSignup` and of the two apps, whose properties are liveness.
