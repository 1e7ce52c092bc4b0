------------------------------ MODULE MCEffects ------------------------------
(***************************************************************************)
(* The log of effects with a reversible and an irreversible transaction.   *)
(***************************************************************************)
EXTENDS EffectLog

CONSTANTS mail, tmp

OnlyTmp == [t \in Txs |-> t = tmp]
===============================================================================
