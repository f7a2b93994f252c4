----------------------------- MODULE FareEngine -----------------------------
(***************************************************************************)
(* The fare of pricing-service (FareEngineService.estimateFare) in cents.  *)
(* Distances are whole miles and the surge score is counted in halves, so  *)
(* the multiplier is 10, 12 or 14 tenths and every sum stays whole.        *)
(***************************************************************************)
EXTENDS Integers

BaseFare == 250
PerMile == 110
PerMinute == 22
AirportPremium == 350
NightPremium == 100
MinimumFare == 500
AdjustmentCap == 200

Minutes(miles) == 3 * miles   \* AVG_SPEED_MPH = 20
HalfScores == 0..2            \* min(1, requests of the zone / threshold)

\* 1 + 0.4 * score, in tenths.
SurgeTenths(half) == 10 + 2 * half

\* An answer of ai-service is a sequence: empty when there is none or it is not
\* a finite number.
Adjustment(answer) ==
  IF answer = <<>> THEN 0
  ELSE CASE answer[1] > AdjustmentCap -> AdjustmentCap
         [] answer[1] < -AdjustmentCap -> -AdjustmentCap
         [] OTHER -> answer[1]

RawFare(miles, airport, night, half) ==
  ((BaseFare + PerMile * miles + PerMinute * Minutes(miles)
    + (IF airport THEN AirportPremium ELSE 0) + (IF night THEN NightPremium ELSE 0))
   * SurgeTenths(half) + 5) \div 10

FareOf(miles, airport, night, half, answer) ==
  LET adjusted == RawFare(miles, airport, night, half) + Adjustment(answer) IN
  IF adjusted < MinimumFare THEN MinimumFare ELSE adjusted
=============================================================================
