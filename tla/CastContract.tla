---------------------------- MODULE CastContract ----------------------------
(* What the match promises about casts: a command is decided once; whatever *)
(* is said of it afterwards repeats that decision; and it is charged for    *)
(* exactly when it is accepted.                                             *)
EXTENDS Naturals

CONSTANT Commands  \* a command is a seat and the id the seat gave it

VARIABLES
  decided,  \* what was decided of each command
  heard,    \* everything a seat has been told
  charges   \* how often each command was charged for

contractVars == <<decided, heard, charges>>

Verdict == {"accepted", "refused"}

Init ==
  /\ decided = [c \in Commands |-> "undecided"]
  /\ heard = {}
  /\ charges = [c \in Commands |-> 0]

Decide(c, v) ==
  /\ decided[c] = "undecided"
  /\ decided' = [decided EXCEPT ![c] = v]
  /\ heard' = heard \cup {<<c, v>>}
  /\ charges' = IF v = "accepted" THEN [charges EXCEPT ![c] = @ + 1] ELSE charges

Repeat(c) ==
  /\ decided[c] # "undecided"
  /\ heard' = heard \cup {<<c, decided[c]>>}
  /\ UNCHANGED <<decided, charges>>

Next == \E c \in Commands : Repeat(c) \/ \E v \in Verdict : Decide(c, v)

Spec == Init /\ [][Next]_contractVars
=============================================================================
