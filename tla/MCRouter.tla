------------------------------- MODULE MCRouter ------------------------------
(***************************************************************************)
(* A small instance of ModelRouter for TLC: groq, which also takes images, *)
(* and together, of equal priority, so that the order of the two changes   *)
(* with what they have left.                                               *)
(***************************************************************************)
EXTENDS ModelRouter

CONSTANTS c1, c2, groq, together

Keyed == <<groq, together>>
Eyes  == <<groq>>
Equal == [p \in Providers |-> 1]
Limits == [p \in Providers |-> IF p = groq THEN 1 ELSE 2]
===============================================================================
