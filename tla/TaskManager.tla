----------------------------- MODULE TaskManager -----------------------------
(***************************************************************************)
(* TaskManager (core/orchestration/task_manager.py): a queue of tasks and  *)
(* one worker coroutine that runs them one after the other as asyncio      *)
(* tasks.  cancel() of an asyncio task makes its coroutine raise           *)
(* CancelledError when it is resumed next, and what awaits it with it; the *)
(* coroutines of the tasks do not swallow that error.                      *)
(***************************************************************************)
EXTENDS Naturals, Sequences, SequencesExt

CONSTANTS Tasks, NoTask,
          MaxStops    \* bound on stop()

ASSUME ManagerAssumption == NoTask \notin Tasks /\ MaxStops \in Nat

VARIABLES state,      \* state[t]: TaskState, "NONE" before submit()
          queue,      \* _queue
          isRunning,  \* is_running
          worker,     \* the worker loop: "off", "get", "await" or "over"
          current,    \* the task the worker awaits
          body,       \* body[t]: its asyncio task
          stops

manager == <<state, queue, isRunning, worker, current, body, stops>>

TaskState == {"PENDING", "RUNNING", "COMPLETED", "FAILED", "CANCELLED"}

ManagerInit ==
  /\ state = [t \in Tasks |-> "NONE"]
  /\ queue = <<>>
  /\ isRunning = FALSE
  /\ worker = "off"
  /\ current = NoTask
  /\ body = [t \in Tasks |-> "none"]
  /\ stops = 0

ManagerTypeOK ==
  /\ state \in [Tasks -> TaskState \cup {"NONE"}]
  /\ queue \in Seq(Tasks) /\ IsInjective(queue)
  /\ isRunning \in BOOLEAN
  /\ worker \in {"off", "get", "await", "over"}
  /\ current \in Tasks \cup {NoTask}
  /\ body \in [Tasks -> {"none", "created", "active", "cancelling", "done"}]
  /\ stops \in 0 .. MaxStops

(* start() asks is_running, not whether the worker lives; it follows the   *)
(* end of a stop().                                                        *)
Start ==
  /\ ~isRunning /\ worker # "await"
  /\ isRunning' = TRUE
  /\ worker' = "get"
  /\ UNCHANGED <<state, queue, current, body, stops>>

Submit(t) ==
  /\ state[t] = "NONE"
  /\ state' = [state EXCEPT ![t] = "PENDING"]
  /\ queue' = Append(queue, t)
  /\ UNCHANGED <<isRunning, worker, current, body, stops>>

(* Mutant: the worker is not told that what it awaited was cancelled.      *)
AwaitsResult(t) == state[t] \in {"COMPLETED", "FAILED"}

Skipped(t) == state[t] = "CANCELLED"

(* What the worker awaits is over, whether it returned or was cancelled.   *)
Over(t) == body[t] = "done"

(* stop() is held up by the task the worker awaits.                        *)
Held == worker = "await" /\ body[current] # "done"

(* The worker takes a task; a cancelled one is passed over.                *)
Take ==
  /\ worker = "get" /\ queue # <<>>
  /\ queue' = Tail(queue)
  /\ LET t == Head(queue) IN
     IF Skipped(t)
     THEN UNCHANGED <<worker, current, body>>
     ELSE /\ body' = [body EXCEPT ![t] = "created"]
          /\ worker' = "await"
          /\ current' = t
  /\ UNCHANGED <<state, isRunning, stops>>

(* execute() starts in a later turn of the event loop.                     *)
Execute(t) ==
  /\ body[t] = "created"
  /\ body' = [body EXCEPT ![t] = "active"]
  /\ state' = [state EXCEPT ![t] = "RUNNING"]
  /\ UNCHANGED <<queue, isRunning, worker, current, stops>>

Finish(t, ok) ==
  /\ body[t] = "active"
  /\ body' = [body EXCEPT ![t] = "done"]
  /\ state' = [state EXCEPT ![t] = IF ok THEN "COMPLETED" ELSE "FAILED"]
  /\ UNCHANGED <<queue, isRunning, worker, current, stops>>

(* The coroutine raises CancelledError; one not yet started just ends.     *)
Unwind(t) ==
  /\ body[t] = "cancelling"
  /\ body' = [body EXCEPT ![t] = "done"]
  /\ state' = [state EXCEPT ![t] = IF @ = "RUNNING" THEN "CANCELLED" ELSE @]
  /\ UNCHANGED <<queue, isRunning, worker, current, stops>>

(* The worker is resumed: after a result it goes on, after a CancelledError *)
(* it leaves its loop.                                                     *)
Resume ==
  /\ worker = "await" /\ Over(current)
  /\ worker' = IF state[current] \in {"COMPLETED", "FAILED"} THEN "get" ELSE "over"
  /\ current' = NoTask
  /\ UNCHANGED <<state, queue, isRunning, body, stops>>

CancelTask(t) ==
  /\ state[t] \in {"PENDING", "RUNNING"}
  /\ state' = [state EXCEPT ![t] = "CANCELLED"]
  /\ body' = [body EXCEPT ![t] = IF @ \in {"created", "active"} THEN "cancelling" ELSE @]
  /\ UNCHANGED <<queue, isRunning, worker, current, stops>>

(* stop() cancels the worker, and through it the task it awaits, and waits *)
(* for it (the next Start follows the end of the worker).                  *)
Stop ==
  /\ isRunning /\ stops < MaxStops
  /\ stops' = stops + 1
  /\ isRunning' = FALSE
  /\ IF Held
     THEN body' = [body EXCEPT ![current] = "cancelling"] /\ UNCHANGED <<worker, current>>
     ELSE worker' = "over" /\ current' = NoTask /\ UNCHANGED body
  /\ UNCHANGED <<state, queue>>
===============================================================================
