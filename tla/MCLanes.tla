------------------------------- MODULE MCLanes -------------------------------
(***************************************************************************)
(* A small instance of LaneScheduler for TLC: two intents for the window w *)
(* and, in the generic lane, an urgent intent submitted again and again    *)
(* beside a less urgent one.                                               *)
(***************************************************************************)
EXTENDS LaneScheduler

CONSTANTS click, type, urgent, modest, w, generic, s1, s2

TwoLanes ==
  [i \in Intents |-> IF i \in {click, type} THEN w ELSE generic]

Urgency ==
  [i \in Intents |-> IF i = urgent THEN 0 ELSE 1]
===============================================================================
