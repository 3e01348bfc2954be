-------------------------- MODULE ActionOutcomes --------------------------
(***************************************************************************)
(* What the participant's action windows promise, without threads, locks,  *)
(* retries or clocks: a window is decided once, either by one answer or by *)
(* its timeout; the client is told of no other answer, and the game acts   *)
(* on that decision and on nothing else.                                   *)
(***************************************************************************)
EXTENDS Naturals, Sequences

CONSTANT Answers        \* what a participant may answer

VARIABLES outcome,      \* outcome[w]: open, timed out, or the answer of window w
          told,         \* the answers acknowledged to the client, with their window
          acted         \* the decisions the game acted upon, with their window

vars == <<outcome, told, acted>>

Open     == "open"
TimedOut == "timed_out"

Init == outcome = <<>> /\ told = {} /\ acted = {}

OpenWindow == /\ outcome' = Append(outcome, Open)
              /\ UNCHANGED <<told, acted>>

Decide(w, decision) == /\ outcome[w] = Open
                       /\ outcome' = [outcome EXCEPT ![w] = decision]
                       /\ UNCHANGED told

Answered(w) == \E answer \in Answers :
  Decide(w, answer) /\ UNCHANGED acted

(* The timeout is decided and acted upon by the same thread at once.       *)
Expired(w) == Decide(w, TimedOut) /\ acted' = acted \cup {<<w, TimedOut>>}

Tell(w) == /\ outcome[w] \in Answers
           /\ told' = told \cup {<<w, outcome[w]>>}
           /\ UNCHANGED <<outcome, acted>>

Act(w) == /\ outcome[w] \in Answers
          /\ acted' = acted \cup {<<w, outcome[w]>>}
          /\ UNCHANGED <<outcome, told>>

Next == \/ OpenWindow
        \/ \E w \in DOMAIN outcome : Answered(w) \/ Expired(w) \/ Tell(w) \/ Act(w)

Spec == Init /\ [][Next]_vars

(* No answer is acknowledged to the client while the game acts on a        *)
(* different one, or on a timeout, for the same window.                    *)
Agreement == \A t \in told, a \in acted : t[1] = a[1] => t[2] = a[2]
===========================================================================
