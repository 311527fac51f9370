--------------------------- MODULE MCGameService ---------------------------
(* One match of two seats for TLC.                                          *)
EXTENDS GameService

CONSTANTS u1, u2

MCSeats == {1, 2}

(* The Lobby reserves the first seat; the second is open to anybody.        *)
MCReserved == <<u1, NoUser>>

(* Each user has a token for a seat, and one has another's seat on a token. *)
MCTokens == {<<u1, 1>>, <<u2, 2>>, <<u2, 1>>}
=============================================================================
