--------------------------- MODULE MCMatchSession ---------------------------
(* Small matches for TLC.                                                   *)
EXTENDS MatchSession

MCCost == [sp \in Spell |-> sp]

(* The default plan brings every spell, any other only the cheapest.        *)
MCLoadoutOf ==
  [p \in Plan |-> IF p = DefaultPlan THEN Spell ELSE Spell \cap {1}]

(* The round's own Init is not used here, and its loadouts come from plans. *)
MCLoadouts == {}
=============================================================================
