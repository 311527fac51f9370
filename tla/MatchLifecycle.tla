--------------------------- MODULE MatchLifecycle ---------------------------
(* The life of a match as its players see it: plan, fight, see the result,  *)
(* plan again, until a base falls, the count is reached or it is given up.  *)
EXTENDS Naturals

CONSTANTS
  Players,      \* the two sides
  Nobody,       \* the winner of a drawn round, and of a match nobody won
  Demo,         \* is this a test profile, which counts rounds played
  Target,       \* the count that decides the match
  FullHp,       \* what a base starts the match with
  Unended       \* the ending of a match that has none yet

VARIABLES
  stage,   \* planning, battle, roundOver or matchOver
  played,  \* rounds that came to an ending
  wins,    \* rounds each side has won
  bases,   \* the hit points each base is shown with
  ended    \* how the match ended: its kind and its winner

lifeVars == <<stage, played, wins, bases, ended>>

Ending(kind, winner) == [kind |-> kind, winner |-> winner]

Init ==
  /\ stage = "planning"
  /\ played = 0
  /\ wins = [p \in Players |-> 0]
  /\ bases = [p \in Players |-> FullHp]
  /\ ended = Unended

Fight == stage = "planning" /\ stage' = "battle" /\ UNCHANGED <<played, wins, bases, ended>>

(* Bases are only ever worn down, and only while the armies fight.          *)
Wear == \A p \in Players : bases'[p] \in 0..bases[p]
Fallen == {p \in Players : bases'[p] = 0}

(* The fight goes on for as long as both bases stand.                       *)
Batter ==
  /\ stage = "battle"
  /\ Wear /\ Fallen = {}
  /\ UNCHANGED <<stage, played, wins, ended>>

Count(winner) ==
  /\ played' = played + 1
  /\ wins' = IF winner = Nobody THEN wins ELSE [wins EXCEPT ![winner] = @ + 1]

(* A base that fell ends the match there and then, whatever the count says: *)
(* for the side still standing, if one is.                                  *)
Storm(winner) ==
  /\ stage = "battle"
  /\ Wear /\ Fallen # {}
  /\ winner = IF Fallen = Players THEN Nobody ELSE CHOOSE p \in Players : p \notin Fallen
  /\ Count(winner)
  /\ stage' = "matchOver" /\ ended' = Ending("baseDestroyed", winner)

(* A round that ends on standing bases ends the match when it is the last a *)
(* demo plays, or the one that gives a side its wins; otherwise there is    *)
(* another.                                                                 *)
EndRound(winner) ==
  /\ stage = "battle"
  /\ Wear /\ Fallen = {}
  /\ Count(winner)
  /\ LET last == IF Demo THEN played' >= Target
                 ELSE winner # Nobody /\ wins'[winner] >= Target
     IN  /\ stage' = IF last THEN "matchOver" ELSE "roundOver"
         /\ ended' = IF ~last THEN ended
                     ELSE Ending(IF Demo THEN "testComplete" ELSE "roundsWon", winner)

Replan == stage = "roundOver" /\ stage' = "planning" /\ UNCHANGED <<played, wins, bases, ended>>

(* Nothing comes after the end, a second ending least of all.               *)
GiveUp ==
  /\ stage # "matchOver"
  /\ stage' = "matchOver" /\ ended' = Ending("abandoned", Nobody)
  /\ UNCHANGED <<played, wins, bases>>

Next ==
  \/ Fight \/ Batter \/ Replan \/ GiveUp
  \/ \E winner \in Players \cup {Nobody} : Storm(winner) \/ EndRound(winner)

Spec == Init /\ [][Next]_lifeVars
=============================================================================
