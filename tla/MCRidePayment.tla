---------------------------- MODULE MCRidePayment ----------------------------
(* A finite instance of RidePayment: two calls in flight, a fare that can    *)
(* be refunded in two parts.                                                 *)
EXTENDS RidePayment
=============================================================================
