------------------------ MODULE MCAuthoritativeRound ------------------------
(* A small round for TLC: one legal and one off-map place, a cheap and a    *)
(* dear spell, and a pool that can pay for some combinations only.          *)
EXTENDS AuthoritativeRound

MCCost == [sp \in Spell |-> sp]

(* One seat brought both spells, the other the cheap one only.              *)
MCLoadouts ==
  {[s \in Side |-> IF s = "north" THEN Spell ELSE {1}]}


=============================================================================
