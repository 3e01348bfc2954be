---------------------------- MODULE MCGameAudit ----------------------------
(* The board, and the seats its players ever name, for model checking the  *)
(* log and those who read it.                                              *)
EXTENDS GameReport, Projection

(* Two wolves against a guard, a witch, a seer and a hunter.               *)
Board == <<"werewolf", "werewolf", "guard", "witch", "hunter", "seer">>

(* A guard who may stand by the victim, wolves that propose one target or  *)
(* two, a witch and a hunter after the first wolf, votes that tie or are   *)
(* decided by one.                                                         *)
Names == <<{3, 5, 6}, {5}, {4, 5}, {1}, {1}, {2}>>

(* The first wolf may fail to propose anybody.                             *)
FailingWolf == <<{5, NoOne}, {5}, {4, 5}, {1}, {1}, {2}>>
===========================================================================
