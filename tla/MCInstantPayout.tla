--------------------------- MODULE MCInstantPayout ---------------------------
(* Finite instances of InstantPayout: rides worth more than the daily cap,   *)
(* two days, calls that overlap each other and midnight.                     *)
EXTENDS InstantPayout
=============================================================================
