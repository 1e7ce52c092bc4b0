----------------------------- MODULE StateRuntime -----------------------------
(***************************************************************************)
(* The task manager over the snapshot barrier.  The mutators are agents:   *)
(* those the coroutines of tasks run, one at a time, and those that run    *)
(* beside the task manager.  Each mutates inside mutation_window(), as the *)
(* barrier asks of agents, and whoever cancels one unwinds its window.     *)
(***************************************************************************)
EXTENDS SnapshotBarrier, TaskManager

ASSUME StateAssumption == Tasks \subseteq Mutators

vars == <<manager, barrier>>

Init == ManagerInit /\ BarrierInit

Agents == Mutators \ Tasks

(* A mutation of a running task, and of an agent beside it, which may be   *)
(* cancelled at the gate.                                                  *)
Mutate(m) ==
  /\ m \in Tasks => body[m] = "active"
  /\ \/ Enter(m) \/ Admit(m)
     \/ mut[m] = "inside" /\ Exit(m)
     \/ m \in Agents /\ mut[m] = "waiting" /\ Exit(m)
  /\ UNCHANGED manager

End(t) ==
  /\ mut[t] = "idle"
  /\ \E ok \in BOOLEAN : Finish(t, ok)
  /\ UNCHANGED barrier

Unwound(t) == Unwind(t) /\ Exit(t)

Manage ==
  /\ \/ Start \/ Stop \/ Take \/ Resume
     \/ \E t \in Tasks : Submit(t) \/ Execute(t) \/ CancelTask(t)
  /\ UNCHANGED barrier

Guard == BarrierNext /\ UNCHANGED manager

Next ==
  \/ Manage \/ Guard
  \/ \E m \in Mutators : Mutate(m)
  \/ \E t \in Tasks : End(t) \/ Unwound(t)

Spec == Init /\ [][Next]_vars

(* The event loop runs what is ready; an agent leaves its windows, and     *)
(* makes finitely many of them (SF); the opener of a window closes it.     *)
Fairness ==
  /\ WF_vars((Take \/ Resume \/ \E t \in Tasks : Execute(t)) /\ UNCHANGED barrier)
  /\ \A t \in Tasks :
       /\ WF_vars(Unwound(t))
       /\ SF_vars(End(t))
  /\ \A m \in Mutators : WF_vars(mut[m] # "idle" /\ Mutate(m))
  /\ \A w \in Triggers : WF_vars(Drained(w) /\ UNCHANGED manager)
  /\ \A w \in Windows :
       WF_vars((WindowDrained(w) \/ \E ok \in BOOLEAN : CloseWindow(w, ok)) /\ UNCHANGED manager)

FairSpec == Spec /\ Fairness

-------------------------------------------------------------------------------
(* Correctness                                                              *)

TypeOK == ManagerTypeOK /\ BarrierTypeOK

(* Whoever waits at the gate leaves it, unless a cancelled drain has left  *)
(* the gate shut.                                                          *)
WaitersPass == \A m \in Mutators : mut[m] = "waiting" ~> (mut[m] # "waiting" \/ LeftFrozen)

(* A submitted task is served, unless stop() struck its coroutine before   *)
(* the first step, the worker is gone, or a task before it waits at a gate *)
(* that was left shut.                                                     *)
TasksServed ==
  \A t \in Tasks :
    state[t] = "PENDING" ~>
      (state[t] # "PENDING" \/ body[t] = "done" \/ worker \in {"off", "over"} \/ LeftFrozen)
===============================================================================
