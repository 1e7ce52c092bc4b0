------------------------ MODULE TaskSchedulerProofs ------------------------
(***************************************************************************)
(* No task is lost, for any number of tasks, runs, workers and clients.    *)
(***************************************************************************)
EXTENDS TaskScheduler, TLAPS

(* A run is named by its task and its number; no client has such a name.   *)
LEMMA RunNames ==
  /\ \A th \in Runs : /\ th = <<"run", th[2], th[3]>>
                      /\ th[2] \in Tasks
                      /\ th[3] \in 1 .. MaxRuns[th[2]]
  /\ \A t \in Tasks : \A k \in 1 .. MaxRuns[t] : <<"run", t, k>> \in Runs
<1>1. ASSUME NEW th \in Runs
      PROVE  /\ th = <<"run", th[2], th[3]>>
             /\ th[2] \in Tasks
             /\ th[3] \in 1 .. MaxRuns[th[2]]
  <2>1. PICK t \in Tasks : \E k \in 1 .. MaxRuns[t] : th = <<"run", t, k>>
    BY DEF Runs
  <2>2. PICK k \in 1 .. MaxRuns[t] : th = <<"run", t, k>>
    BY <2>1
  <2>3. th[2] = t /\ th[3] = k
    BY <2>2
  <2> QED
    BY <2>2, <2>3
<1>2. ASSUME NEW t \in Tasks, NEW k \in 1 .. MaxRuns[t]
      PROVE  <<"run", t, k>> \in Runs
  BY DEF Runs
<1> QED
  BY <1>1, <1>2

(* A client is neither a thread of a run nor nobody.                       *)
LEMMA ClientNames ==
  ASSUME NEW c \in Clients
  PROVE  c \notin Runs /\ c # Nobody /\ c \in Threads
<1>1. PICK name \in {"submit", "cancel"}, t \in Tasks : c = <<name, t>>
  BY DEF Clients
<1>2. \A th \in Runs : th # c
  <2> SUFFICES ASSUME NEW th \in Runs PROVE th # c
    OBVIOUS
  <2>1. th[1] = "run"
    BY RunNames
  <2>2. c[1] \in {"submit", "cancel"}
    BY <1>1
  <2> QED
    BY <2>1, <2>2
<1>3. c # <<>>
  BY <1>1
<1> QED
  BY <1>2, <1>3 DEF Nobody, Threads

(* The runs in the hands of a thread depend on two program counters only.  *)
LEMMA SameActive ==
  ASSUME \A th \in Runs : pc'[th] \in {"slot", "brain"} <=> pc[th] \in {"slot", "brain"}
  PROVE  \A t \in Tasks : Active(t)' = Active(t)
BY DEF Active

-----------------------------------------------------------------------------
(* The invariant: TypeOK, NothingIsLost and RunsAreCounted together are     *)
(* inductive.  A waiting task has a run left for Tick to start; that the   *)
(* run to be started is the next one keeps its threads apart.              *)
Kept == TypeOK /\ NothingIsLost /\ RunsAreCounted

(* At first every task is unknown and in nobody's hands.                   *)
LEMMA InitKept == ASSUME SchedulerAssumption, Init PROVE Kept
<1>1. \A t \in Tasks : <<"submit", t>> \in Threads
  BY DEF Threads, Clients
<1>2. \A t \in Tasks : Active(t) = {}
  BY DEF Init, Active, Threads
<1>3. TypeOK
  BY DEF Init, TypeOK, ScheduledTaskStatus
<1>4. NothingIsLost
  BY <1>2 DEF Init, NothingIsLost, Waiting
<1>5. RunsAreCounted
  BY <1>1, <1>2 DEF Init, RunsAreCounted, Waiting
<1> QED
  BY <1>3, <1>4, <1>5 DEF Kept

(* start(), stop() and the passing of time.                                *)
LEMMA QuietKept ==
  ASSUME Kept, Start \/ Stop \/ (\E t \in Tasks : BecomesDue(t)) \/ UNCHANGED vars
  PROVE  Kept'
<1>1. /\ UNCHANGED <<status, heap, runsDone, pc, lock>>
      /\ running' \in BOOLEAN
      /\ due' \subseteq heap
  BY DEF Kept, TypeOK, Start, Stop, BecomesDue, vars
<1>2. \A t \in Tasks : Active(t)' = Active(t)
  BY <1>1, SameActive
<1>3. TypeOK'
  BY <1>1 DEF Kept, TypeOK
<1>4. NothingIsLost'
  BY <1>1, <1>2 DEF Kept, NothingIsLost
<1>5. RunsAreCounted'
  BY <1>1, <1>2 DEF Kept, RunsAreCounted
<1> QED
  BY <1>3, <1>4, <1>5 DEF Kept

(* A submitted task is new, so that no thread has it.                      *)
LEMMA SubmitKept ==
  ASSUME SchedulerAssumption, Kept, NEW t \in Tasks, Submit(t)
  PROVE  Kept'
<1> DEFINE me == <<"submit", t>>
<1>1. me \in Clients /\ me \in Threads /\ me \notin Runs
  BY ClientNames DEF Clients
<1>2. /\ pc[me] = "idle" /\ pc' = [pc EXCEPT ![me] = "notify"]
      /\ heap' = heap \cup {t}
      /\ due' = due \/ due' = due \cup {t}
      /\ \E s \in {"queued", "waiting"} : status' = [status EXCEPT ![t] = s]
      /\ UNCHANGED <<running, runsDone, lock>>
  BY DEF Submit, Goto
<1>3. \A u \in Tasks : Active(u)' = Active(u)
  BY <1>1, <1>2, SameActive DEF Kept, TypeOK
<1>4. status[t] = "none" /\ runsDone[t] = 0 /\ Active(t) = {}
  BY <1>2 DEF Kept, NothingIsLost, RunsAreCounted
<1>5. TypeOK'
  BY <1>1, <1>2 DEF Kept, TypeOK, ScheduledTaskStatus
<1>6. NothingIsLost'
  BY <1>2, <1>3, <1>4 DEF Kept, TypeOK, NothingIsLost, Waiting
<1>7. RunsAreCounted'
  <2>1. ASSUME NEW u \in Tasks
        PROVE  /\ pc'[<<"submit", u>>] = "idle" => status'[u] = "none"
               /\ status'[u] = "none" => runsDone'[u] = 0
               /\ status'[u] \in Waiting => runsDone'[u] < MaxRuns[u]
    BY <1>1, <1>2, <1>4 DEF SchedulerAssumption, Kept, TypeOK, RunsAreCounted, Waiting
  <2>2. ASSUME NEW u \in Tasks, NEW th \in Active(u)'
        PROVE  th[3] = IF pc'[th] = "slot" THEN runsDone'[u] + 1 ELSE runsDone'[u]
    <3>1. th \in Active(u) /\ th \in Runs
      BY <1>3, <2>2 DEF Active
    <3>2. pc'[th] = pc[th]
      BY <1>1, <1>2, <3>1 DEF Kept, TypeOK
    <3> QED
      BY <1>2, <3>1, <3>2 DEF Kept, RunsAreCounted
  <2> QED
    BY <2>1, <2>2 DEF RunsAreCounted
<1> QED
  BY <1>5, <1>6, <1>7 DEF Kept

(* cancel() changes the status of a waiting task, which stays in the heap.  *)
LEMMA CancelKept ==
  ASSUME Kept, NEW t \in Tasks, Cancel(t)
  PROVE  Kept'
<1> DEFINE me == <<"cancel", t>>
<1>1. me \in Clients /\ me \in Threads /\ me \notin Runs
  BY ClientNames DEF Clients
<1>2. \A u \in Tasks : <<"submit", u>> # me
  BY SMT
<1>3. /\ pc[me] = "idle" /\ pc' = [pc EXCEPT ![me] = "notify"]
      /\ status[t] \in Waiting
      /\ status' = [status EXCEPT ![t] = "cancelled"]
      /\ lock' = me
      /\ UNCHANGED <<running, heap, due, runsDone>>
  BY DEF Cancel, Goto
<1>4. \A u \in Tasks : Active(u)' = Active(u)
  BY <1>1, <1>3, SameActive DEF Kept, TypeOK
<1>5. t \in heap /\ Active(t) = {}
  BY <1>3 DEF Kept, NothingIsLost, Waiting
<1>6. TypeOK'
  BY <1>1, <1>3 DEF Kept, TypeOK, ScheduledTaskStatus
<1>7. NothingIsLost'
  BY <1>3, <1>4, <1>5 DEF Kept, TypeOK, NothingIsLost, Waiting
<1>8. RunsAreCounted'
  <2>1. ASSUME NEW u \in Tasks
        PROVE  /\ pc'[<<"submit", u>>] = "idle" => status'[u] = "none"
               /\ status'[u] = "none" => runsDone'[u] = 0
               /\ status'[u] \in Waiting => runsDone'[u] < MaxRuns[u]
    <3>1. <<"submit", u>> \in Threads
      BY DEF Threads, Clients
    <3>2. pc'[<<"submit", u>>] = pc[<<"submit", u>>]
      BY <1>1, <1>2, <1>3, <3>1 DEF Kept, TypeOK
    <3>3. u = t => pc[<<"submit", u>>] # "idle"
      BY <1>3 DEF Kept, RunsAreCounted, Waiting
    <3> QED
      BY <1>3, <3>2, <3>3 DEF Kept, TypeOK, RunsAreCounted, Waiting
  <2>2. ASSUME NEW u \in Tasks, NEW th \in Active(u)'
        PROVE  th[3] = IF pc'[th] = "slot" THEN runsDone'[u] + 1 ELSE runsDone'[u]
    <3>1. th \in Active(u) /\ th \in Runs
      BY <1>4, <2>2 DEF Active
    <3>2. pc'[th] = pc[th]
      BY <1>1, <1>3, <3>1 DEF Kept, TypeOK
    <3> QED
      BY <1>3, <3>1, <3>2 DEF Kept, RunsAreCounted
  <2> QED
    BY <2>1, <2>2 DEF RunsAreCounted
<1> QED
  BY <1>6, <1>7, <1>8 DEF Kept

(* A thread on its way out has no run in its hands any more.               *)
LEMMA LeaveKept ==
  ASSUME Kept, NEW th \in Threads, TakeSnapshot(th) \/ Deliver(th)
  PROVE  Kept'
<1>1. PICK to \in {"deliver", "ended"} : pc' = [pc EXCEPT ![th] = to]
  BY DEF TakeSnapshot, Deliver, Goto
<1>2. /\ pc[th] \in {"notify", "deliver"}
      /\ UNCHANGED <<running, status, heap, due, runsDone>>
      /\ lock' = lock \/ lock' = Nobody
  BY DEF TakeSnapshot, Deliver, Goto
<1>3. \A other \in Threads : pc'[other] = IF other = th THEN to ELSE pc[other]
  BY <1>1 DEF Kept, TypeOK
<1>4. \A u \in Tasks : Active(u)' = Active(u)
  BY <1>2, <1>3, SameActive DEF Threads
<1>5. TypeOK'
  BY <1>1, <1>2 DEF Kept, TypeOK
<1>6. NothingIsLost'
  BY <1>2, <1>4 DEF Kept, NothingIsLost
<1>7. RunsAreCounted'
  <2>1. \A u \in Tasks : <<"submit", u>> \in Threads
    BY DEF Threads, Clients
  <2>2. \A u \in Tasks : \A other \in Active(u) :
          other \in Threads /\ pc'[other] = pc[other]
    BY <1>2, <1>3 DEF Active, Threads
  <2>3. \A u \in Tasks : pc'[<<"submit", u>>] = "idle" => pc[<<"submit", u>>] = "idle"
    BY <1>3, <2>1
  <2> QED
    BY <1>2, <1>4, <2>2, <2>3 DEF Kept, RunsAreCounted
<1> QED
  BY <1>5, <1>6, <1>7 DEF Kept

(* A thread that gets its slot has the next run of its task.               *)
LEMMA GetSlotKept ==
  ASSUME Kept, NEW th \in Threads, GetSlot(th)
  PROVE  Kept'
<1> DEFINE t == th[2]
<1>1. th \in Runs /\ t \in Tasks
  BY RunNames DEF GetSlot
<1>2. /\ pc[th] = "slot" /\ pc' = [pc EXCEPT ![th] = "brain"]
      /\ runsDone' = [runsDone EXCEPT ![t] = @ + 1]
      /\ UNCHANGED <<running, status, heap, due, lock>>
  BY DEF GetSlot, Goto
<1>3. \A other \in Threads : pc'[other] = IF other = th THEN "brain" ELSE pc[other]
  BY <1>2 DEF Kept, TypeOK
<1>4. \A u \in Tasks : Active(u)' = Active(u)
  BY <1>1, <1>2, <1>3, SameActive DEF Threads
<1>5. th \in Active(t) /\ status[t] = "running" /\ th[3] = runsDone[t] + 1
  <2>1. th \in Active(t)
    BY <1>1, <1>2 DEF Active
  <2>2. th[3] = IF pc[th] = "slot" THEN runsDone[t] + 1 ELSE runsDone[t]
    BY <1>1, <2>1 DEF Kept, RunsAreCounted
  <2>3. status[t] = "running"
    BY <1>1, <2>1 DEF Kept, NothingIsLost
  <2> QED
    BY <1>2, <2>1, <2>2, <2>3
<1>6. TypeOK'
  BY <1>1, <1>2 DEF Kept, TypeOK
<1>7. NothingIsLost'
  BY <1>2, <1>4 DEF Kept, NothingIsLost
<1>8. RunsAreCounted'
  <2>1. \A u \in Tasks : runsDone'[u] = IF u = t THEN runsDone[u] + 1 ELSE runsDone[u]
    BY <1>2 DEF Kept, TypeOK
  <2>2. ASSUME NEW u \in Tasks
        PROVE  /\ pc'[<<"submit", u>>] = "idle" => status'[u] = "none"
               /\ status'[u] = "none" => runsDone'[u] = 0
               /\ status'[u] \in Waiting => runsDone'[u] < MaxRuns[u]
    <3>1. <<"submit", u>> \in Threads
      BY DEF Threads, Clients
    <3>2. pc'[<<"submit", u>>] = "idle" => pc[<<"submit", u>>] = "idle"
      BY <1>3, <3>1
    <3>3. CASE u = t
      BY <1>2, <1>5, <2>1, <3>2, <3>3 DEF Kept, RunsAreCounted, Waiting
    <3>4. CASE u # t
      BY <1>2, <2>1, <3>2, <3>4 DEF Kept, RunsAreCounted
    <3> QED
      BY <3>3, <3>4
  <2>3. ASSUME NEW u \in Tasks, NEW other \in Active(u)'
        PROVE  other[3] = IF pc'[other] = "slot" THEN runsDone'[u] + 1 ELSE runsDone'[u]
    <3>1. other \in Active(u) /\ other \in Threads
      BY <1>4, <2>3 DEF Active, Threads
    <3>2. CASE u = t
      <4>1. other = th
        BY <1>5, <3>1, <3>2 DEF Kept, NothingIsLost
      <4> QED
        BY <1>3, <1>5, <2>1, <3>1, <3>2, <4>1
    <3>3. CASE u # t
      <4>1. other # th
        BY <3>1, <3>3 DEF Active
      <4>2. other[3] = IF pc[other] = "slot" THEN runsDone[u] + 1 ELSE runsDone[u]
        BY <3>1 DEF Kept, RunsAreCounted
      <4> QED
        BY <1>3, <2>1, <3>1, <3>3, <4>1, <4>2
    <3> QED
      BY <3>2, <3>3
  <2> QED
    BY <2>2, <2>3 DEF RunsAreCounted
<1> QED
  BY <1>6, <1>7, <1>8 DEF Kept

(* The thread whose run ends was the only one with its task.               *)
LEMMA FinishKept ==
  ASSUME SchedulerAssumption, Kept, NEW th \in Threads, Finish(th)
  PROVE  Kept'
<1> DEFINE t == th[2]
<1>1. th \in Runs /\ t \in Tasks
  BY RunNames DEF Finish, FinishRun
<1>2. /\ pc[th] = "brain" /\ pc' = [pc EXCEPT ![th] = "notify"]
      /\ UNCHANGED <<running, due, runsDone, lock>>
  BY DEF Finish, FinishRun, Goto
<1>3. \/ /\ RunsAgain(th)
         /\ status' = [status EXCEPT ![t] = "recurring"]
         /\ heap' = heap \cup {t}
      \/ /\ \E s \in {"done", "failed"} : status' = [status EXCEPT ![t] = s]
         /\ heap' = heap
  BY DEF Finish, FinishRun
<1>4. PICK s \in {"recurring", "done", "failed"} :
        /\ status' = [status EXCEPT ![t] = s]
        /\ s = "recurring" => runsDone[t] < MaxRuns[t] /\ heap' = heap \cup {t}
        /\ s # "recurring" => heap' = heap
  BY <1>3 DEF RunsAgain
<1>5. \A u \in Tasks : status'[u] = IF u = t THEN s ELSE status[u]
  BY <1>4 DEF Kept, TypeOK
<1>6. \A other \in Threads : pc'[other] = IF other = th THEN "notify" ELSE pc[other]
  BY <1>2 DEF Kept, TypeOK
<1>7. th \in Active(t) /\ status[t] = "running"
  BY <1>1, <1>2 DEF Active, Kept, NothingIsLost
<1>8. Active(t)' = {} /\ t \notin heap
  <2>1. Active(t) = {th}
    BY <1>1, <1>7 DEF Kept, NothingIsLost
  <2> QED
    BY <1>1, <1>6, <1>7, <2>1 DEF Active, Threads, Kept, NothingIsLost, Waiting
<1>9. \A u \in Tasks \ {t} : Active(u)' = Active(u)
  BY <1>1, <1>6 DEF Active, Threads
<1>10. TypeOK'
  BY <1>1, <1>2, <1>4, <1>5 DEF Kept, TypeOK, ScheduledTaskStatus
<1>11. NothingIsLost'
  <2>1. \A u \in Tasks \ {t} : u \in heap' <=> u \in heap
    BY <1>4
  <2>2. t \in heap' <=> s = "recurring"
    BY <1>4, <1>8
  <2> QED
    BY <1>5, <1>8, <1>9, <2>1, <2>2 DEF Kept, NothingIsLost, Waiting
<1>12. RunsAreCounted'
  <2>1. ASSUME NEW u \in Tasks
        PROVE  /\ pc'[<<"submit", u>>] = "idle" => status'[u] = "none"
               /\ status'[u] = "none" => runsDone'[u] = 0
               /\ status'[u] \in Waiting => runsDone'[u] < MaxRuns[u]
    <3>1. <<"submit", u>> \in Threads
      BY DEF Threads, Clients
    <3>2. pc'[<<"submit", u>>] = "idle" => pc[<<"submit", u>>] = "idle"
      BY <1>6, <3>1
    <3>3. CASE u = t
      BY <1>2, <1>4, <1>5, <1>7, <3>2, <3>3 DEF Kept, RunsAreCounted, Waiting
    <3>4. CASE u # t
      BY <1>2, <1>5, <3>2, <3>4 DEF Kept, RunsAreCounted
    <3> QED
      BY <3>3, <3>4
  <2>2. ASSUME NEW u \in Tasks, NEW other \in Active(u)'
        PROVE  other[3] = IF pc'[other] = "slot" THEN runsDone'[u] + 1 ELSE runsDone'[u]
    <3>1. u # t /\ other \in Active(u) /\ other \in Threads /\ other # th
      BY <1>8, <1>9, <2>2 DEF Active, Threads
    <3>2. other[3] = IF pc[other] = "slot" THEN runsDone[u] + 1 ELSE runsDone[u]
      BY <3>1 DEF Kept, RunsAreCounted
    <3> QED
      BY <1>2, <1>6, <3>1, <3>2
  <2> QED
    BY <2>1, <2>2 DEF RunsAreCounted
<1> QED
  BY <1>10, <1>11, <1>12 DEF Kept

(* The tick takes the due tasks from the heap.  Those it starts were        *)
(* waiting: nobody had them, and their next run exists.                    *)
LEMMA TickKept ==
  ASSUME SchedulerAssumption, Kept, Tick
  PROVE  Kept'
<1> DEFINE started == {t \in due : status[t] \notin {"cancelled", "running"}}
           next(t) == <<"run", t, runsDone[t] + 1>>
<1>1. /\ heap' = heap \ due
      /\ due' = {}
      /\ status' = [t \in Tasks |-> IF t \in started THEN "running" ELSE status[t]]
      /\ pc' = [th \in Threads |->
                  IF \E t \in started : th = next(t) THEN "slot" ELSE pc[th]]
      /\ UNCHANGED <<running, runsDone, lock>>
  BY DEF Tick, TickStarting
<1>2. \A t \in Tasks : status'[t] = IF t \in started THEN "running" ELSE status[t]
  BY <1>1
<1>3. ASSUME NEW t \in started
      PROVE  /\ t \in Tasks /\ status[t] \in Waiting /\ Active(t) = {}
             /\ next(t) \in Runs
  <2>1. t \in Tasks /\ t \in heap
    BY DEF Kept, TypeOK
  <2>2. status[t] \in Waiting
    BY <2>1 DEF Kept, NothingIsLost
  <2>3. Active(t) = {}
    BY <2>1, <2>2 DEF Kept, NothingIsLost, Waiting
  <2>4. runsDone[t] + 1 \in 1 .. MaxRuns[t]
    <3>1. runsDone[t] \in Nat /\ MaxRuns[t] \in Nat
      BY <2>1 DEF SchedulerAssumption, Kept, TypeOK
    <3>2. runsDone[t] < MaxRuns[t]
      BY <2>1, <2>2 DEF Kept, RunsAreCounted
    <3> QED
      BY <3>1, <3>2
  <2> QED
    BY <2>1, <2>2, <2>3, <2>4, RunNames
<1>4. ASSUME NEW th \in Threads
      PROVE  \/ th \in Runs /\ th[2] \in started /\ th = next(th[2]) /\ pc'[th] = "slot"
             \/ (\A t \in started : th # next(t)) /\ pc'[th] = pc[th]
  <2>1. CASE \E t \in started : th = next(t)
    <3>1. PICK t \in started : th = next(t)
      BY <2>1
    <3>2. th[2] = t
      BY <3>1
    <3> QED
      BY <1>1, <1>3, <3>1, <3>2
  <2>2. CASE \A t \in started : th # next(t)
    BY <1>1, <2>2
  <2> QED
    BY <2>1, <2>2
<1>5. ASSUME NEW t \in started
      PROVE  Active(t)' = {next(t)}
  <2>1. next(t) \in Active(t)'
    BY <1>1, <1>3 DEF Active, Threads
  <2>2. ASSUME NEW th \in Active(t)'
        PROVE  th = next(t)
    <3>1. th \in Runs /\ th \in Threads /\ th[2] = t /\ pc'[th] \in {"slot", "brain"}
      BY <2>2 DEF Active, Threads
    <3>2. pc'[th] # pc[th]
      BY <1>3, <3>1 DEF Active
    <3> QED
      BY <1>4, <3>1, <3>2
  <2> QED
    BY <2>1, <2>2
<1>6. ASSUME NEW t \in Tasks \ started
      PROVE  /\ Active(t)' = Active(t)
             /\ \A th \in Active(t) : pc'[th] = pc[th]
  <2>1. \A th \in Runs : th[2] = t => pc'[th] = pc[th]
    BY <1>4 DEF Threads
  <2> QED
    BY <2>1 DEF Active
<1>7. TypeOK'
  <2>1. pc' \in [Threads -> {"idle", "slot", "brain", "notify", "deliver", "ended"}]
    BY <1>1 DEF Kept, TypeOK
  <2> QED
    BY <1>1, <2>1 DEF Kept, TypeOK, ScheduledTaskStatus
<1>8. NothingIsLost'
  <2>1. ASSUME NEW t \in started
        PROVE  /\ status'[t] = "running" /\ t \notin heap' /\ Active(t)' # {}
               /\ \A u, v \in Active(t)' : u = v
    BY <1>1, <1>2, <1>3, <1>5
  <2>2. ASSUME NEW t \in Tasks \ started
        PROVE  /\ status'[t] = status[t] /\ Active(t)' = Active(t)
               /\ t \in heap' => t \in heap
               /\ status[t] \in Waiting => t \in heap'
    <3>1. status[t] \in Waiting => t \in heap /\ t \notin due
      BY DEF Kept, NothingIsLost, Waiting
    <3> QED
      BY <1>1, <1>6, <1>2, <3>1
  <2> QED
    BY <2>1, <2>2 DEF Kept, NothingIsLost, Waiting
<1>9. RunsAreCounted'
  <2>1. ASSUME NEW t \in Tasks
        PROVE  /\ pc'[<<"submit", t>>] = "idle" => status'[t] = "none"
               /\ status'[t] = "none" => runsDone'[t] = 0
               /\ status'[t] \in Waiting => runsDone'[t] < MaxRuns[t]
    <3>1. <<"submit", t>> \in Clients
      BY DEF Clients
    <3>2. pc'[<<"submit", t>>] = pc[<<"submit", t>>]
      BY <1>4, <3>1, ClientNames
    <3>3. t \in started => pc[<<"submit", t>>] # "idle"
      BY <1>3 DEF Kept, RunsAreCounted, Waiting
    <3> QED
      BY <1>1, <1>2, <3>2, <3>3 DEF Kept, RunsAreCounted, Waiting
  <2>2. ASSUME NEW t \in Tasks, NEW th \in Active(t)'
        PROVE  th[3] = IF pc'[th] = "slot" THEN runsDone'[t] + 1 ELSE runsDone'[t]
    <3>1. CASE t \in started
      <4>1. th = next(t) /\ th \in Threads
        BY <1>3, <1>5, <3>1 DEF Threads
      <4>2. pc'[th] = "slot" /\ th[3] = runsDone[t] + 1
        BY <1>1, <3>1, <4>1
      <4> QED
        BY <1>1, <4>2
    <3>2. CASE t \notin started
      <4>1. th \in Active(t) /\ pc'[th] = pc[th]
        BY <1>6, <3>2
      <4>2. th[3] = IF pc[th] = "slot" THEN runsDone[t] + 1 ELSE runsDone[t]
        BY <4>1 DEF Kept, RunsAreCounted
      <4> QED
        BY <1>1, <4>1, <4>2
    <3> QED
      BY <3>1, <3>2
  <2> QED
    BY <2>1, <2>2 DEF RunsAreCounted
<1> QED
  BY <1>7, <1>8, <1>9 DEF Kept

(* Every step keeps the invariant.                                         *)
LEMMA NextKept ==
  ASSUME SchedulerAssumption, Kept, [Next]_vars
  PROVE  Kept'
<1>1. CASE Start \/ Stop \/ (\E t \in Tasks : BecomesDue(t)) \/ UNCHANGED vars
  BY <1>1, QuietKept
<1>2. CASE Tick
  BY <1>2, TickKept
<1>3. CASE \E t \in Tasks : Submit(t)
  BY <1>3, SubmitKept
<1>4. CASE \E t \in Tasks : Cancel(t)
  BY <1>4, CancelKept
<1>5. CASE \E th \in Threads : Step(th)
  BY <1>5, LeaveKept, GetSlotKept, FinishKept DEF Step
<1> QED
  BY <1>1, <1>2, <1>3, <1>4, <1>5 DEF Next

-----------------------------------------------------------------------------
(* Every reachable state of the scheduler satisfies the invariant.         *)
THEOREM SchedulerInvariant == Spec => []Kept
<1>1. Init => Kept
  BY SchedulerAssumption, InitKept
<1>2. Kept /\ [Next]_vars => Kept'
  BY SchedulerAssumption, NextKept
<1> QED
  BY <1>1, <1>2, PTL DEF Spec

(* Every variable keeps its type, for any tasks, runs, slots and stops.    *)
THEOREM TypesKept == Spec => []TypeOK
<1>1. Kept => TypeOK
  BY DEF Kept
<1> QED
  BY <1>1, SchedulerInvariant, PTL

(* A waiting task is in the heap and a running one in the hands of exactly *)
(* one thread, through every interleaving of clients, ticks and runs of    *)
(* core/orchestration/scheduler.py and for every number of workers.        *)
THEOREM NoTaskIsLost == Spec => []NothingIsLost
<1>1. Kept => NothingIsLost
  BY DEF Kept
<1> QED
  BY <1>1, SchedulerInvariant, PTL

(* No task runs more often than max_runs allows: a task that waits has     *)
(* runs left, and its threads are numbered by its runs.                    *)
THEOREM RunsCounted == Spec => []RunsAreCounted
<1>1. Kept => RunsAreCounted
  BY DEF Kept
<1> QED
  BY <1>1, SchedulerInvariant, PTL

=============================================================================
