------------------------------- MODULE MCIntent -------------------------------
(***************************************************************************)
(* Small instances of IntentRuntime for TLC: the intents a and b over one  *)
(* file.  A cfg picks the intents, what they write and the faults.         *)
(***************************************************************************)
EXTENDS IntentRuntime

CONSTANTS a, b, p, x, y, old

OnePath == [i \in Intents |-> p]

(* a and b write different contents; b's content may equal a's instead.    *)
Different == [i \in Intents |-> IF i = a THEN x ELSE y]
Same      == [i \in Intents |-> x]

NoFileYet == {<<>>}
AnyFile   == {<<>>, <<old>>}
===============================================================================
