--------------------------- MODULE MCBidNegotiation ---------------------------
(* Finite instances of BidNegotiation: the fares, and the symmetry of the    *)
(* drivers and of the rider's requests (safety runs only).                   *)
EXTENDS BidNegotiation, TLC

MCStandardFare == 4
MCBidFloor == 2
Symmetry == Permutations(Drivers) \cup Permutations(RiderRequests)
=============================================================================
