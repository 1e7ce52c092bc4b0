---------------------------- MODULE TaskScheduler ----------------------------
(***************************************************************************)
(* TaskScheduler (core/orchestration/scheduler.py): a heap of tasks, a     *)
(* dispatcher thread that starts a thread per due run, MAX_WORKERS slots,  *)
(* and observers that are given a snapshot of all statuses.                *)
(*                                                                         *)
(* A thread is a client inside submit() or cancel(), or the k-th run of a  *)
(* task.  What one critical section of the lock does is one step; the lock *)
(* is modelled as such because it is not reentrant and cancel() keeps it   *)
(* while it notifies.  Time is whether a queued task is due.  What the     *)
(* observers make of a snapshot, and the order by priority, which decides  *)
(* nothing once the due tasks have their threads, are left out.            *)
(***************************************************************************)
EXTENDS Naturals, FiniteSets

CONSTANTS Tasks,
          MaxRuns,      \* MaxRuns[t]: how often t may run
          Recurring,    \* tasks with recur_every
          Delayed,      \* tasks submitted with run_at or delay_secs
          Cancelled,    \* tasks that a client cancels
          MaxWorkers    \* MAX_WORKERS

ASSUME SchedulerAssumption ==
  /\ IsFiniteSet(Tasks)
  /\ MaxRuns \in [Tasks -> Nat \ {0}]
  /\ Recurring \subseteq Tasks
  /\ Delayed \subseteq Tasks
  /\ Cancelled \subseteq Tasks
  /\ MaxWorkers \in Nat \ {0}

VARIABLES running,    \* the dispatcher loop runs
          status,     \* status[t], "none" before it is submitted
          heap,       \* the queued tasks
          due,        \* those of them whose run_at has passed
          runsDone,   \* runsDone[t]: runs_done
          pc,         \* pc[th]: what thread th does next
          lock        \* the thread that keeps the lock, or Nobody

vars == <<running, status, heap, due, runsDone, pc, lock>>

Runs == UNION {{<<"run", t, k>> : k \in 1 .. MaxRuns[t]} : t \in Tasks}
Clients == {"submit", "cancel"} \X Tasks
Threads == Runs \cup Clients

ScheduledTaskStatus ==
  {"queued", "waiting", "running", "done", "failed", "cancelled", "recurring"}

Waiting == {"queued", "waiting", "recurring"}

Nobody == <<>>

Init ==
  /\ running = FALSE
  /\ status = [t \in Tasks |-> "none"]
  /\ heap = {}
  /\ due = {}
  /\ runsDone = [t \in Tasks |-> 0]
  /\ pc = [th \in Threads |-> "idle"]
  /\ lock = Nobody

TypeOK ==
  /\ running \in BOOLEAN
  /\ status \in [Tasks -> ScheduledTaskStatus \cup {"none"}]
  /\ heap \subseteq Tasks
  /\ due \subseteq heap
  /\ runsDone \in [Tasks -> Nat]
  /\ pc \in [Threads -> {"idle", "slot", "brain", "notify", "deliver", "ended"}]
  /\ lock \in Threads \cup {Nobody}

Goto(th, from, to) == pc[th] = from /\ pc' = [pc EXCEPT ![th] = to]

(* threading.Lock: whoever holds it waits for itself like anybody else.    *)
LockIsFree == lock = Nobody

-------------------------------------------------------------------------------
(* start(), and stop() once it has joined the dispatcher; the runs go on    *)

Start ==
  /\ ~running
  /\ running' = TRUE
  /\ UNCHANGED <<status, heap, due, runsDone, pc, lock>>

Stop ==
  /\ running
  /\ running' = FALSE
  /\ UNCHANGED <<status, heap, due, runsDone, pc, lock>>

-------------------------------------------------------------------------------
(* Clients *)

Submit(t) ==
  /\ Goto(<<"submit", t>>, "idle", "notify")
  /\ LockIsFree
  /\ heap' = heap \cup {t}
  /\ due' = IF t \in Delayed THEN due ELSE due \cup {t}
  /\ status' = [status EXCEPT ![t] = IF t \in Delayed THEN "waiting" ELSE "queued"]
  /\ UNCHANGED <<running, runsDone, lock>>

(* cancel() that finds the task waiting; otherwise it only returns False.  *)
Cancel(t) ==
  LET me == <<"cancel", t>> IN
  /\ t \in Cancelled
  /\ Goto(me, "idle", "notify")
  /\ LockIsFree
  /\ lock' = me
  /\ status[t] \in Waiting
  /\ status' = [status EXCEPT ![t] = "cancelled"]
  /\ UNCHANGED <<running, heap, due, runsDone>>

(* _notify_all(): get_all_tasks() takes the lock, the callbacks are called *)
(* outside of it.                                                          *)
TakeSnapshot(th) ==
  /\ Goto(th, "notify", "deliver")
  /\ LockIsFree
  /\ UNCHANGED <<running, status, heap, due, runsDone, lock>>

(* The callbacks return, and with them submit(), cancel() or the run, which *)
(* gives back what it holds.                                               *)
Deliver(th) ==
  /\ Goto(th, "deliver", "ended")
  /\ lock' = IF lock = th THEN Nobody ELSE lock
  /\ UNCHANGED <<running, status, heap, due, runsDone>>

-------------------------------------------------------------------------------
(* The dispatcher *)

BecomesDue(t) ==
  /\ t \in heap \ due
  /\ due' = due \cup {t}
  /\ UNCHANGED <<running, status, heap, runsDone, pc, lock>>

(* _tick(): every due task leaves the heap; the cancelled ones are dropped, *)
(* the others marked as running and given a thread.                        *)
TickStarting(started) ==
  /\ running
  /\ due # {}
  /\ LockIsFree
  /\ heap' = heap \ due
  /\ due' = {}
  /\ status' = [t \in Tasks |-> IF t \in started THEN "running" ELSE status[t]]
  /\ pc' = [th \in Threads |->
              IF \E t \in started : th = <<"run", t, runsDone[t] + 1>>
                THEN "slot" ELSE pc[th]]
  /\ UNCHANGED <<running, runsDone, lock>>

(* Mutant: only one task is started although all due ones are popped.      *)
TickOne ==
  \E t \in due : status[t] \notin {"cancelled", "running"} /\ TickStarting({t})

Tick == TickStarting({t \in due : status[t] \notin {"cancelled", "running"}})

-------------------------------------------------------------------------------
(* _run_task() *)

HoldsSlot(th) == th \in Runs /\ pc[th] \in {"brain", "notify", "deliver"}

GetSlot(th) ==
  /\ th \in Runs
  /\ Goto(th, "slot", "brain")
  /\ Cardinality({other \in Runs : HoldsSlot(other)}) < MaxWorkers
  /\ runsDone' = [runsDone EXCEPT ![th[2]] = @ + 1]
  /\ UNCHANGED <<running, status, heap, due, lock>>

(* The brain's task has ended, or was given up after five minutes; a task  *)
(* with runs left and a period goes back to the heap, whatever the result. *)
FinishRun(th, again, outcomes) ==
  LET t == th[2] IN
  /\ th \in Runs
  /\ Goto(th, "brain", "notify")
  /\ LockIsFree
  /\ \/ /\ again
        /\ status' = [status EXCEPT ![t] = "recurring"]
        /\ heap' = heap \cup {t}
     \/ /\ ~again
        /\ \E s \in outcomes : status' = [status EXCEPT ![t] = s]
        /\ UNCHANGED heap
  /\ UNCHANGED <<running, due, runsDone, lock>>

RunsAgain(th) == runsDone[th[2]] < MaxRuns[th[2]] /\ th[2] \in Recurring

(* Mutant: the number of runs is compared with > instead of >=.            *)
FinishLate(th) ==
  FinishRun(th, runsDone[th[2]] <= MaxRuns[th[2]] /\ th[2] \in Recurring,
            {"done", "failed"})

(* Mutant: the status that the brain reports is taken over as it is.       *)
FinishVerbatim(th) ==
  FinishRun(th, RunsAgain(th), {"success", "failed", "timeout"})

Finish(th) == FinishRun(th, RunsAgain(th), {"done", "failed"})

-------------------------------------------------------------------------------
Step(th) == TakeSnapshot(th) \/ Deliver(th) \/ GetSlot(th) \/ Finish(th)

Next ==
  \/ Start \/ Stop \/ Tick
  \/ \E t \in Tasks : Submit(t) \/ Cancel(t) \/ BecomesDue(t)
  \/ \E th \in Threads : Step(th)

Spec == Init /\ [][Next]_vars

(* Threads keep running, the brain's tasks end and time passes.  Nothing   *)
(* is assumed of the order in which slots and lock are handed on, and      *)
(* nobody has to submit or cancel anything.                                *)
Fairness ==
  /\ WF_vars(Tick)
  /\ \A t \in Tasks : WF_vars(BecomesDue(t))
  /\ \A th \in Threads : WF_vars(Step(th))

(* The scheduler is started, and not stopped again for good.              *)
FairSpec == Spec /\ Fairness /\ <>[]running

-------------------------------------------------------------------------------
(* Properties *)

(* No task is lost or run twice at once: a waiting task is in the heap,    *)
(* a cancelled one may still be there, and a running one is in the hands   *)
(* of exactly one thread that has yet to settle it.                        *)
Active(t) == {th \in Runs : th[2] = t /\ pc[th] \in {"slot", "brain"}}

NothingIsLost ==
  \A t \in Tasks :
    /\ status[t] \in Waiting => t \in heap
    /\ t \in heap => status[t] \in Waiting \cup {"cancelled"}
    /\ status[t] = "running" <=> Active(t) # {}
    /\ \A u, v \in Active(t) : u = v

(* The runs of a task are counted: a task that waits has runs left, its    *)
(* next run is the one in a slot's queue and its last one the one at work. *)
(* With NothingIsLost this is inductive.                                   *)
RunsAreCounted ==
  \A t \in Tasks :
    /\ pc[<<"submit", t>>] = "idle" => status[t] = "none"
    /\ status[t] = "none" => runsDone[t] = 0
    /\ status[t] \in Waiting => runsDone[t] < MaxRuns[t]
    /\ \A th \in Active(t) :
          th[3] = IF pc[th] = "slot" THEN runsDone[t] + 1 ELSE runsDone[t]

(* A submitted task is run to its end, whatever else waits for a slot; the *)
(* one thing that may keep it is a cancel() that does not return.          *)
EveryTaskEnds ==
  \A t \in Tasks :
    status[t] # "none" ~>
      status[t] \in {"done", "failed", "cancelled"} \/ lock # Nobody

(* "Cancel a queued or waiting task" is not kept (README, section 7):      *)
(* cancel() need not return.                                               *)
CancelReturns ==
  \A t \in Tasks : pc[<<"cancel", t>>] = "notify" ~> pc[<<"cancel", t>>] = "ended"
===============================================================================
