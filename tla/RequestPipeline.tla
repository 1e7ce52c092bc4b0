--------------------------- MODULE RequestPipeline ---------------------------
(***************************************************************************)
(* The request pipeline of the Brain (core/runtime/brain.py): one thread   *)
(* per request, at most MAX_CONCURRENT of them at work, each running its   *)
(* steps one after the other or, when a step has dependencies, as a DAG in *)
(* the ParallelExecutionEngine (core/orchestration/parallel_engine.py);    *)
(* agents run in threads of their own that a timeout abandons but cannot   *)
(* stop.  GUI_LOCK is left out: no agent has one of the names that take it *)
(* (README, section 7), so that no call ever waits for it.                 *)
(*                                                                         *)
(* _transition() checks and then assigns without a lock, so that the two   *)
(* are steps of their own.  The engine and its bus do not suspend between  *)
(* two awaits of asyncio.wait(): collecting a finished node is one step.   *)
(* What the engine reports to, its bus and its state manager, may raise at *)
(* every report, and so may the verifier of a sequential step; nothing     *)
(* catches the latter, and of the former only what fails at the report of  *)
(* a success.                                                              *)
(***************************************************************************)
EXTENDS Naturals, FiniteSets, Sequences

CONSTANTS Requests,
          Dags,       \* the requests with dependencies between their steps
          Plan,       \* Plan[r]: the number of steps
          Deps,       \* Deps[r][s]: depends_on
          Risky,      \* the steps <<r, s>> of HIGH or CRITICAL risk
          MaxRetries,
          RetryLimit, \* RetryLimit[s]: retry_limit of node s
          MaxConcurrent

Steps(r) == 1 .. Plan[r]

(* How often a step may be called.                                         *)
Calls(r, s) == IF r \in Dags THEN RetryLimit[s] + 1 ELSE MaxRetries

(* At most one DAG: two would share the engine's _running_tasks.           *)
ASSUME PipelineAssumption ==
  /\ IsFiniteSet(Requests)
  /\ Dags \subseteq Requests /\ Cardinality(Dags) <= 1
  /\ Plan \in [Requests -> Nat \ {0}]
  /\ \A r \in Requests : Deps[r] \in [Steps(r) -> SUBSET Steps(r)]
  /\ {MaxRetries, MaxConcurrent} \subseteq Nat \ {0}
  /\ \A r \in Dags : RetryLimit \in [Steps(r) -> Nat]

VARIABLES status,     \* status[r]: ExecutionStatus, "NONE" before process_request()
          pc,         \* pc[r]: where the thread of the request is
          writing,    \* writing[r]: the status it has checked and not yet assigned
          cancelling, \* cancelling[r]: cancel_task() has checked, not yet assigned
          step,       \* step[r]: the step a sequential request is at
          outcome,    \* outcome[r][s]: the result of a step, the status of a node
          calls,      \* calls[r][s]: its agent calls so far and how they ended
          engine,     \* engine[r]: execute_dag(): "off", "on", "ended" or "broken" off
          completed,  \* completed[r], failed[r]: the sets by which execute_dag() counts
          failed

worker == <<pc, writing, step>>
counted == <<completed, failed>>
vars == <<status, worker, cancelling, outcome, calls, engine, counted>>

Terminal == {"SUCCESS", "FAILED", "CANCELLED"}
Status == {"PENDING", "RUNNING", "RETRYING"} \cup Terminal

(* Mutant: a request does not come back from RETRYING.                     *)
StaysRetrying(from) ==
  CASE from = "PENDING"  -> {"RUNNING", "CANCELLED"}
    [] from = "RUNNING"  -> {"SUCCESS", "FAILED", "RETRYING", "CANCELLED"}
    [] from = "RETRYING" -> {"FAILED", "CANCELLED"}
    [] OTHER             -> {}

(* VALID_TRANSITIONS.  Nothing asks for NEEDS_CONFIRMATION.                *)
ValidTransitions(from) ==
  CASE from = "PENDING"  -> {"RUNNING", "CANCELLED"}
    [] from = "RUNNING"  -> {"SUCCESS", "FAILED", "RETRYING", "CANCELLED"}
    [] from = "RETRYING" -> {"RUNNING", "FAILED", "CANCELLED"}
    [] OTHER             -> {}

Init ==
  /\ status = [r \in Requests |-> "NONE"]
  /\ pc = [r \in Requests |-> "none"]
  /\ writing = [r \in Requests |-> "NONE"]
  /\ cancelling = [r \in Requests |-> FALSE]
  /\ step = [r \in Requests |-> 1]
  /\ outcome = [r \in Requests |-> [s \in Steps(r) |-> "pending"]]
  /\ calls = [r \in Requests |-> [s \in Steps(r) |-> <<>>]]
  /\ engine = [r \in Requests |-> "off"]
  /\ completed = [r \in Requests |-> {}]
  /\ failed = [r \in Requests |-> {}]

TypeOK ==
  /\ status \in [Requests -> Status \cup {"NONE"}]
  /\ pc \in [Requests -> {"none", "queued", "steps", "attempt", "retrying", "resuming",
                          "calling", "dag", "ending", "done", "died"}]
  /\ writing \in [Requests -> Status \cup {"NONE"}]
  /\ cancelling \in [Requests -> BOOLEAN]
  /\ \A r \in Requests :
       /\ step[r] \in 1 .. Plan[r] + 1
       /\ outcome[r] \in [Steps(r) -> {"pending", "running", "ok", "failed", "cancelled"}]
       /\ \A s \in Steps(r) :
            /\ calls[r][s] \in Seq({"running", "ok", "failed"})
            /\ Len(calls[r][s]) <= Calls(r, s)
       /\ completed[r] \cup failed[r] \subseteq Steps(r)
  /\ engine \in [Requests -> {"off", "on", "ended", "broken"}]

-------------------------------------------------------------------------------
(* _transition()                                                            *)

(* The check; the thread goes on at `next` once the status is assigned.    *)
Check(r, target, next) ==
  /\ writing' = [writing EXCEPT ![r] = IF target \in ValidTransitions(status[r])
                                       THEN target ELSE "NONE"]
  /\ pc' = [pc EXCEPT ![r] = next]

Assign(r) ==
  /\ writing[r] # "NONE"
  /\ status' = [status EXCEPT ![r] = writing[r]]
  /\ writing' = [writing EXCEPT ![r] = "NONE"]
  /\ UNCHANGED <<pc, step, cancelling, outcome, calls, engine, counted>>

At(r, place) == pc[r] = place /\ writing[r] = "NONE"

-------------------------------------------------------------------------------
(* process_request() and cancel_task()                                      *)

(* The security check and the screening of the plan may turn a request     *)
(* away.                                                                   *)
Submit(r, blocked) ==
  /\ status[r] = "NONE"
  /\ status' = [status EXCEPT ![r] = IF blocked THEN "FAILED" ELSE "PENDING"]
  /\ pc' = [pc EXCEPT ![r] = IF blocked THEN "done" ELSE "queued"]
  /\ UNCHANGED <<writing, step, cancelling, outcome, calls, engine, counted>>

CancelCheck(r) ==
  /\ ~cancelling[r]
  /\ status[r] \in {"PENDING", "RUNNING"}
  /\ cancelling' = [cancelling EXCEPT ![r] = TRUE]
  /\ UNCHANGED <<status, worker, outcome, calls, engine, counted>>

CancelAssign(r) ==
  /\ cancelling[r]
  /\ status' = [status EXCEPT ![r] = "CANCELLED"]
  /\ cancelling' = [cancelling EXCEPT ![r] = FALSE]
  /\ UNCHANGED <<worker, outcome, calls, engine, counted>>

-------------------------------------------------------------------------------
(* Agent calls of both paths                                                *)

Begin(r, S) ==
  calls' = [calls EXCEPT ![r] = [s \in Steps(r) |->
    IF s \in S THEN Append(@[s], "running") ELSE @[s]]]

LastCall(r, s) == Len(calls[r][s])

(* The awaited call is over: the agent answers or fails, or its time is up *)
(* and it is left to itself.                                               *)
Answer(r, s, ok) ==
  /\ calls[r][s] # <<>> /\ calls[r][s][LastCall(r, s)] = "running"
  /\ calls' = [calls EXCEPT ![r][s][LastCall(r, s)] = IF ok THEN "ok" ELSE "failed"]

-------------------------------------------------------------------------------
(* Requests whose steps run one after the other                             *)

(* Mutant: a thread that dies keeps its place.                             *)
HoldingDead == {q \in Requests : pc[q] \notin {"none", "queued", "done"} \/ writing[q] # "NONE"}

(* The threads inside the semaphore.                                       *)
Holding == {q \in Requests : pc[q] \notin {"none", "queued", "done", "died"} \/ writing[q] # "NONE"}

Acquire(r) ==
  /\ At(r, "queued")
  /\ Cardinality(Holding) < MaxConcurrent
  /\ Check(r, "RUNNING", IF r \in Dags THEN "dag" ELSE "steps")
  /\ UNCHANGED <<status, step, cancelling, outcome, calls, engine, counted>>

(* The loop of the request: over, or a step begins.                        *)
NextStep(r) ==
  /\ At(r, "steps")
  /\ pc' = [pc EXCEPT ![r] =
       IF step[r] > Plan[r] \/ status[r] = "CANCELLED" THEN "ending" ELSE "attempt"]
  /\ UNCHANGED <<status, writing, step, cancelling, outcome, calls, engine, counted>>

(* A failed step of high risk ends the request.                            *)
Grave(r, s, result) == result # "ok" /\ <<r, s>> \in Risky

Settle(r, s, result) ==
  /\ outcome' = [outcome EXCEPT ![r][s] = result]
  /\ step' = [step EXCEPT ![r] = s + 1]
  /\ pc' = [pc EXCEPT ![r] = IF Grave(r, s, result) THEN "ending" ELSE "steps"]

Exhausted(r, s) == Len(calls[r][s]) = MaxRetries

(* The head of the retry loop: a first attempt, another one behind a wait  *)
(* in RETRYING, or none any more.                                          *)
Attempt(r) ==
  LET s == step[r] IN
  /\ At(r, "attempt")
  /\ IF Exhausted(r, s)
     THEN Settle(r, s, "failed") /\ UNCHANGED <<writing, calls>>
     ELSE IF status[r] = "CANCELLED"
     THEN Settle(r, s, "cancelled") /\ UNCHANGED <<writing, calls>>
     ELSE IF calls[r][s] # <<>>
     THEN Check(r, "RETRYING", "retrying") /\ UNCHANGED <<step, outcome, calls>>
     ELSE /\ Begin(r, {s})
          /\ pc' = [pc EXCEPT ![r] = "calling"]
          /\ UNCHANGED <<writing, step, outcome>>
  /\ UNCHANGED <<status, cancelling, engine, counted>>

Retry(r) ==
  /\ At(r, "retrying")
  /\ Check(r, "RUNNING", "resuming")
  /\ UNCHANGED <<status, step, cancelling, outcome, calls, engine, counted>>

Resume(r) ==
  /\ At(r, "resuming")
  /\ Begin(r, {step[r]})
  /\ pc' = [pc EXCEPT ![r] = "calling"]
  /\ UNCHANGED <<status, writing, step, cancelling, outcome, engine, counted>>

(* The answer is a success that the verifier accepts, or it is none: then  *)
(* the recovery agent may change the step before the next attempt.         *)
Return(r, ok) ==
  LET s == step[r] IN
  /\ At(r, "calling")
  /\ Answer(r, s, ok)
  /\ IF ok THEN Settle(r, s, "ok")
     ELSE pc' = [pc EXCEPT ![r] = "attempt"] /\ UNCHANGED <<step, outcome>>
  /\ UNCHANGED <<status, writing, cancelling, engine, counted>>

(* The answer is no dictionary, or the verifier raises: nothing catches it,*)
(* and the thread dies with the status as it is.                           *)
Die(r) ==
  /\ At(r, "calling")
  /\ Answer(r, step[r], FALSE)
  /\ pc' = [pc EXCEPT ![r] = "died"]
  /\ UNCHANGED <<status, writing, step, cancelling, outcome, engine, counted>>

-------------------------------------------------------------------------------
(* execute_dag()                                                            *)

(* The engine is through: the request, if it still waits, takes a status   *)
(* and is not finalized.                                                   *)
EngineStops(r, how, target) ==
  /\ engine' = [engine EXCEPT ![r] = how]
  /\ IF pc[r] = "dag" THEN Check(r, target, "done") ELSE UNCHANGED <<pc, writing>>

(* A report raises that nothing in the engine catches.                     *)
Break(r) == EngineStops(r, "broken", "FAILED")

Start(r) ==
  /\ At(r, "dag") /\ engine[r] = "off"
  /\ \/ engine' = [engine EXCEPT ![r] = "on"] /\ UNCHANGED <<pc, writing>>
     \/ Break(r)
  /\ UNCHANGED <<status, step, cancelling, outcome, calls, counted>>

(* The loop goes by the number of nodes that are counted in one of its sets.*)
More(r) == Cardinality(completed[r]) + Cardinality(failed[r]) < Plan[r]

(* Mutant: one completed dependency is enough.                             *)
AnyCompleted(r, D) == D = {} \/ D \cap completed[r] # {}

AllCompleted(r, D) == D \subseteq completed[r]

Ready(r) == {s \in Steps(r) : outcome[r][s] = "pending" /\ AllCompleted(r, Deps[r][s])}
Running(r) == {s \in Steps(r) : outcome[r][s] = "running"}

MarkRunning(r, S) ==
  outcome' = [outcome EXCEPT ![r] = [s \in Steps(r) |-> IF s \in S THEN "running" ELSE @[s]]]

(* The tasks of all ready nodes are created, then the nodes are marked and *)
(* reported one by one; behind a report that raises they stay unmarked.    *)
Launch(r) ==
  /\ engine[r] = "on" /\ More(r) /\ Ready(r) # {}
  /\ Begin(r, Ready(r))
  /\ \/ MarkRunning(r, Ready(r)) /\ UNCHANGED <<engine, pc, writing>>
     \/ \E last \in Ready(r) : MarkRunning(r, {s \in Ready(r) : s <= last}) /\ Break(r)
  /\ UNCHANGED <<status, step, cancelling, counted>>

(* The node has a result, and its report passes.                           *)
Complete(r, s) ==
  /\ outcome' = [outcome EXCEPT ![r][s] = "ok"]
  /\ completed' = [completed EXCEPT ![r] = @ \cup {s}]
  /\ UNCHANGED <<failed, engine, pc, writing>>

Retried(r, s) == LastCall(r, s) < Calls(r, s)

Dependents(r, s) == {d \in Steps(r) : s \in Deps[r][d] /\ outcome[r][d] = "pending"}

Fail(r, S) ==
  /\ outcome' = [outcome EXCEPT ![r] = [n \in Steps(r) |-> IF n \in S THEN "failed" ELSE @[n]]]
  /\ failed' = [failed EXCEPT ![r] = @ \cup S]

(* The node has raised, or the report of its success has, behind its being *)
(* counted: it is pending again for a retry, or failed with the nodes that *)
(* directly depend on it, up to a report that raises.                      *)
Miss(r, s, counts) ==
  /\ completed' = [completed EXCEPT ![r] = IF counts THEN @ \cup {s} ELSE @]
  /\ IF Retried(r, s)
     THEN /\ outcome' = [outcome EXCEPT ![r][s] = "pending"]
          /\ UNCHANGED failed
          /\ Break(r) \/ UNCHANGED <<engine, pc, writing>>
     ELSE \/ Fail(r, {s} \cup Dependents(r, s)) /\ UNCHANGED <<engine, pc, writing>>
          \/ \E last \in 0 .. Plan[r] :
               Fail(r, {s} \cup {d \in Dependents(r, s) : d <= last}) /\ Break(r)

(* A task is done: with what its agent returned, whatever that says, or    *)
(* with an exception.                                                      *)
Collect(r, s, ok) ==
  /\ engine[r] = "on" /\ outcome[r][s] = "running"
  /\ Answer(r, s, ok)
  /\ \/ ok /\ Complete(r, s)
     \/ Miss(r, s, ok)
  /\ UNCHANGED <<status, step, cancelling>>

(* Mutant: it returns when no node is ready, running or not.               *)
IdleEarly(r) == Ready(r) = {}

Idle(r) == Ready(r) = {} /\ Running(r) = {}

Succeeded(r) == \E s \in Steps(r) : outcome[r][s] = "ok"

(* The loop is over; any completed node makes a success, unless the last   *)
(* report raises.                                                          *)
ReturnDag(r) ==
  /\ engine[r] = "on"
  /\ ~More(r) \/ Idle(r)
  /\ \E target \in {IF Succeeded(r) THEN "SUCCESS" ELSE "FAILED", "FAILED"} :
       EngineStops(r, "ended", target)
  /\ UNCHANGED <<status, step, cancelling, outcome, calls, counted>>

(* _run_coro() waits no longer; the engine runs on.                        *)
GiveUp(r) ==
  /\ At(r, "dag") /\ engine[r] = "on"
  /\ Check(r, "FAILED", "done")
  /\ UNCHANGED <<status, step, cancelling, outcome, calls, engine, counted>>

-------------------------------------------------------------------------------
(* The final status: one successful step makes a success.                   *)
End(r) ==
  /\ At(r, "ending")
  /\ IF status[r] = "CANCELLED"
     THEN pc' = [pc EXCEPT ![r] = "done"] /\ UNCHANGED writing
     ELSE Check(r, IF Succeeded(r) THEN "SUCCESS" ELSE "FAILED", "done")
  /\ UNCHANGED <<status, step, cancelling, outcome, calls, engine, counted>>

Work(r) ==
  \/ Assign(r) \/ Acquire(r) \/ NextStep(r) \/ Attempt(r) \/ Retry(r) \/ Resume(r) \/ End(r)
  \/ Die(r) \/ Start(r)
  \/ \E ok \in BOOLEAN : Return(r, ok)

Dispatch(r) ==
  \/ Launch(r) \/ ReturnDag(r)
  \/ \E s \in Steps(r), ok \in BOOLEAN : Collect(r, s, ok)

Next ==
  \E r \in Requests :
    \/ \E blocked \in BOOLEAN : Submit(r, blocked)
    \/ CancelCheck(r) \/ CancelAssign(r)
    \/ Work(r) \/ Dispatch(r) \/ GiveUp(r)

(* Threads and the event loop are scheduled, and every wait for an agent   *)
(* has a timeout; no agent has to come to an end.                          *)
Fairness == \A r \in Requests : WF_vars(Work(r)) /\ SF_vars(Acquire(r)) /\ WF_vars(Dispatch(r))

Spec == Init /\ [][Next]_vars /\ Fairness

-------------------------------------------------------------------------------
(* Correctness                                                              *)

(* A node is called only behind a success of every node it depends on,     *)
(* whatever is retried, fails or is reported in vain.                      *)
DependenciesFirst ==
  \A r \in Dags : \A s \in Steps(r) : calls[r][s] # <<>> =>
    \A d \in Deps[r][s] : \E k \in DOMAIN calls[r][d] : calls[r][d][k] = "ok"

(* A loop that comes to its end leaves out no node it could have run, as   *)
(* long as no node that is counted as completed was taken back.  Without   *)
(* the condition it does (README, section 7).                              *)
NothingRunnableIsLeft ==
  \A r \in Dags : engine[r] = "ended" /\ (\A s \in completed[r] : outcome[r][s] = "ok") =>
    \A s \in Steps(r) : outcome[r][s] \in {"ok", "failed"}
                          \/ \E d \in Deps[r][s] : outcome[r][d] # "ok"

(* A thread that is through leaves a final status, whatever a concurrent   *)
(* cancel_task() overwrote and was overwritten by; one that died leaves no *)
(* success or failure that nobody decided.                                 *)
DoneIsFinal ==
  \A r \in Requests :
    /\ pc[r] = "done" /\ writing[r] = "NONE" => status[r] \in Terminal
    /\ pc[r] = "died" => status[r] \in {"RUNNING", "CANCELLED"}

(* Every request that was accepted gets its turn and comes to its end or   *)
(* dies, even if agents hang and the threads of other requests die.        *)
RequestsEnd == \A r \in Requests : status[r] = "PENDING" ~> pc[r] \in {"done", "died"}

(* "Returns False if transition is invalid (already terminal)" is not kept *)
(* (README, section 7): a cancellation that was answered with True may be  *)
(* overwritten.                                                            *)
CancelSticks ==
  [][\A r \in Requests : status[r] = "CANCELLED" => status'[r] = "CANCELLED"]_vars

(* Not kept either: a node that succeeded runs again if its report raised, *)
RunsOnce ==
  \A r \in Dags : \A s \in Steps(r) : \A k \in DOMAIN calls[r][s] :
    calls[r][s][k] = "ok" => k = LastCall(r, s)

(* the loop then ends with nodes left that could run,                      *)
LoopRunsAll ==
  \A r \in Dags : engine[r] = "ended" =>
    \A s \in Steps(r) : outcome[r][s] \in {"ok", "failed"}
                          \/ \E d \in Deps[r][s] : outcome[r][d] # "ok"

(* and a request whose thread died is never settled.                       *)
RequestsSettle == \A r \in Requests : status[r] = "PENDING" ~> status[r] \in Terminal
===============================================================================
