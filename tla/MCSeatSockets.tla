--------------------------- MODULE MCSeatSockets ---------------------------
(* Three sockets on two seats for TLC.                                      *)
EXTENDS SeatSockets

CONSTANTS k1, k2, k3

MCSockets == {k1, k2, k3}
=============================================================================
