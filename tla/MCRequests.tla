----------------------------- MODULE MCRequests -----------------------------
(* Small instances of RequestPipeline: a DAG and a request whose steps run *)
(* one after the other have one place between them.                        *)
EXTENDS RequestPipeline
CONSTANTS dag, seq
Plans == [r \in Requests |-> IF r = dag THEN 4 ELSE 2]
(* 3 needs 1 and 2, 4 needs 3.                                            *)
Graph == [r \in Requests |-> [s \in 1 .. Plans[r] |->
            IF r = dag THEN <<{}, {}, {1, 2}, {3}>>[s] ELSE {}]]
Dangerous == {<<seq, 1>>}
Limits == <<0, 0, 1, 0>>

-----------------------------------------------------------------------------
(* The steps whose agents move the cursor.                                 *)
Screen == {<<dag, 1>>, <<seq, 1>>}

(* "Agents that touch the physical screen - must serialise via GUI_LOCK"   *)
(* is not kept (README, section 7): two of their calls run at once.        *)
OneAtTheScreen ==
  Cardinality({c \in Screen : \E k \in DOMAIN calls[c[1]][c[2]] :
                                calls[c[1]][c[2]][k] = "running"}) <= 1
=============================================================================
