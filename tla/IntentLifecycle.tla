--------------------------- MODULE IntentLifecycle ---------------------------
(***************************************************************************)
(* The life cycle of one ExecutionIntent: the states, the table of legal   *)
(* transitions and the two readings of it the rest of the kernel relies on *)
(* (core/execution/intent_execution_state.py).  A lineage is the sequence  *)
(* of the states journaled for one intent; it does not hold CREATED, which *)
(* is only ever an in-memory state.                                        *)
(***************************************************************************)
EXTENDS Naturals, Sequences

CONSTANT Intents   \* the intent ids

LEGAL_TRANSITIONS ==
  [ CREATED      |-> {"QUEUED", "REJECTED", "ABORTED"},
    QUEUED       |-> {"DISPATCHED", "ABORTED"},
    DISPATCHED   |-> {"RUNNING", "FAILED", "ABORTED"},
    RUNNING      |-> {"VERIFYING", "FAILED", "ORPHANED"},
    ORPHANED     |-> {"RECOVERING", "FAILED"},
    RECOVERING   |-> {"RECONCILED", "FAILED"},
    VERIFYING    |-> {"COMPLETED", "FAILED"},
    COMPLETED    |-> {},
    FAILED       |-> {"COMPENSATING", "ABORTED"},
    COMPENSATING |-> {"COMPENSATED", "FAILED"},
    COMPENSATED  |-> {},
    ABORTED      |-> {},
    REJECTED     |-> {},
    RECONCILED   |-> {} ]

IntentExecutionState ==
  {"CREATED", "QUEUED", "DISPATCHED", "RUNNING", "VERIFYING", "COMPLETED",
   "FAILED", "COMPENSATING", "COMPENSATED", "ABORTED", "REJECTED",
   "ORPHANED", "RECOVERING", "RECONCILED"}

TERMINAL_STATES ==
  {"COMPLETED", "COMPENSATED", "ABORTED", "REJECTED", "RECONCILED"}

(* The guard of IntentStateMachine.transition and of both _transition()s.  *)
CanGo(from, to) == to \in LEGAL_TRANSITIONS[from]

(* The state a lineage ends in; an intent without records is CREATED.      *)
Current(lineage) ==
  IF lineage = <<>> THEN "CREATED" ELSE lineage[Len(lineage)]

(* A lineage that replays from CREATED without an illegal step.            *)
LegalLineage(lineage) ==
  \A k \in DOMAIN lineage :
     CanGo(IF k = 1 THEN "CREATED" ELSE lineage[k - 1], lineage[k])

HasRecord(lineage, state) == \E k \in DOMAIN lineage : lineage[k] = state
==============================================================================
