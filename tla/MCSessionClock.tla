--------------------------- MODULE MCSessionClock ---------------------------
(* A clock with a short catch-up for TLC.                                   *)
EXTENDS SessionClock

Slow == {0, 1}
Long == {0, 1, 4, 6, 7, 9}
=============================================================================
