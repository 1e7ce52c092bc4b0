--------------------------- MODULE MCTaskScheduler ---------------------------
(***************************************************************************)
(* Small instances of TaskScheduler: a is a delayed task that recurs, b and *)
(* c run once.                                                             *)
(***************************************************************************)
EXTENDS TaskScheduler

CONSTANTS a, b, c

TwiceA == [t \in Tasks |-> IF t = a THEN 2 ELSE 1]
==============================================================================
