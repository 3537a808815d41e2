--------------------------- MODULE MCBookingGuard ---------------------------
(* An instance of BookingGuard.                                              *)
EXTENDS BookingGuardProps, TLC

CONSTANTS r1, r2
=============================================================================
