------------------------------ MODULE MCCausal ------------------------------
(* Small instances of CausalScheduler.                                     *)
EXTENDS CausalScheduler
CONSTANTS a, b, c, d
(* c needs a and b, d needs itself; b and c have the older clocks.         *)
Graph == [e \in Events |-> CASE e = c -> {a, b} [] e = d -> {d} [] OTHER -> {}]
Clocks == [e \in Events |-> CASE e = a -> 2 [] OTHER -> 1]
=============================================================================
