----------------------------- MODULE BidContract ------------------------------
(***************************************************************************)
(* What an offer ride promises, with no handlers, keys or stale rows in    *)
(* sight: money is put on hold once; at most one deal is struck, with one  *)
(* driver and one fare in the negotiable range, and it is never renegoti-  *)
(* ated; the hold is used once, either to charge exactly the agreed fare   *)
(* or to give the money back.  BidNegotiation implements it.               *)
(***************************************************************************)
EXTENDS Integers

CONSTANTS Drivers, NoDriver, BidFloor, StandardFare

VARIABLES
  deal,   \* [made, driver, fare]
  money   \* [status, captured]

Init ==
  /\ deal = [made |-> FALSE, driver |-> NoDriver, fare |-> 0]
  /\ money = [status |-> "none", captured |-> 0]

Authorize ==
  /\ money.status = "none"
  /\ money' = [money EXCEPT !.status = "authorized"]
  /\ UNCHANGED deal

Strike ==
  /\ ~deal.made
  /\ \E d \in Drivers, fare \in BidFloor .. StandardFare - 1 :
       deal' = [made |-> TRUE, driver |-> d, fare |-> fare]
  /\ UNCHANGED money

Charge ==
  /\ deal.made
  /\ money.status = "authorized"
  /\ money' = [status |-> "captured", captured |-> deal.fare]
  /\ UNCHANGED deal

Release ==
  /\ money.status = "authorized"
  /\ money' = [money EXCEPT !.status = "cancelled"]
  /\ UNCHANGED deal

Next == Authorize \/ Strike \/ Charge \/ Release

Spec == Init /\ [][Next]_<<deal, money>>
=============================================================================
