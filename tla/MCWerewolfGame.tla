-------------------------- MODULE MCWerewolfGame --------------------------
(* The board for model checking WerewolfGame.                              *)
EXTENDS WerewolfGame

(* A guard against a witch and a seer, and two hunters, one of them human, *)
(* so that a shot can set off another shot.                                *)
Board == <<"werewolf", "guard", "witch", "hunter", "hunter", "seer">>
===========================================================================
