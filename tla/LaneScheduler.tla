---------------------------- MODULE LaneScheduler ----------------------------
(***************************************************************************)
(* The execution scheduler (core/execution/execution_scheduler.py) with    *)
(* the window tracker it asks (window_lifecycle.py), the gateway it calls  *)
(* (kernel_facade.py) and the futures it resolves                          *)
(* (verification_semantics.py).                                            *)
(*                                                                         *)
(* An intent waits in the lane of its window or in the generic lane.  The  *)
(* scheduler thread takes, under the lock, the head of the first window    *)
(* lane it may serve, or of the generic lane, ages what stays in that lane *)
(* and purges the lanes of dead windows it met on the way; it then calls   *)
(* the gateway outside the lock and hands the future to its verifier.      *)
(* stop() does not wait for a long gateway call: after another start() two *)
(* threads may run the loop.                                               *)
(***************************************************************************)
EXTENDS Integers

CONSTANTS Intents, Windows,
          Generic,      \* the lane of an intent without a window
          Lane,         \* Lane[i]: its window, or Generic
          Priority,     \* Priority[i]: the priority it is submitted with
          Verified,     \* intents submitted with a verifier
          Stream,       \* intents submitted again and again
          Threads,      \* scheduler threads
          MaxStops      \* bound on stop() calls

(* Window lanes come before the generic one: callers that submit without   *)
(* end to a window would starve it.                                        *)
ASSUME LanesAssumption ==
  /\ Generic \notin Windows
  /\ Lane \in [Intents -> Windows \union {Generic}]
  /\ Priority \in [Intents -> Nat]
  /\ Verified \subseteq Intents
  /\ \A i \in Stream : i \in Intents /\ Lane[i] = Generic
  /\ MaxStops \in Nat

VARIABLES queued,    \* the queued intents
          older,     \* older[i]: those with an earlier timestamp than i
          prio,      \* prio[i]: its present priority
          overdue,   \* queued intents that have waited for over five seconds
          lanes,     \* the keys of _hwnd_queues
          before,    \* before[w]: those that come before w
          active,    \* _active_hwnds
          future,    \* future[i]: what its future says
          window,    \* window[w]: whether the handle names a window: "alive" or "dead"
          running,   \* _running
          pc,        \* pc[t]: what thread t does
          job,       \* job[t]: the intent thread t works on, if any: a set
          stops      \* stop() calls so far

queues == <<queued, older, prio, overdue, lanes, before>>
vars == <<queues, active, future, window, running, pc, job, stops>>

Futures == {"none", "pending", "watched", "succeeded", "failed"}
Resolved(i) == future[i] \in {"succeeded", "failed"}
Steps == {"off", "idle", "chosen", "executing"}

Init ==
  /\ queued = {} /\ older = [i \in Intents |-> {}]
  /\ lanes = {} /\ before = [w \in Windows |-> {}]
  /\ prio = Priority
  /\ overdue = {} /\ active = {}
  /\ future = [i \in Intents |-> "none"]
  /\ window = [w \in Windows |-> "alive"]
  /\ running = FALSE
  /\ pc = [t \in Threads |-> "off"]
  /\ job = [t \in Threads |-> {}]
  /\ stops = 0

TypeOK ==
  /\ queued \subseteq Intents
  /\ older \in [Intents -> SUBSET queued]
  /\ \A i \in Intents \ queued : older[i] = {}
  /\ \A i \in Intents : prio[i] \in 0 .. Priority[i]
  /\ overdue \subseteq queued
  /\ lanes \subseteq Windows
  /\ before \in [Windows -> SUBSET lanes]
  /\ active \subseteq Windows
  /\ future \in [Intents -> Futures]
  /\ window \in [Windows -> {"alive", "dead"}]
  /\ running \in BOOLEAN
  /\ pc \in [Threads -> Steps]
  /\ job \in [Threads -> SUBSET Intents]
  /\ stops \in 0 .. MaxStops

-------------------------------------------------------------------------------
(* Queues *)

InLane(l) == {i \in queued : Lane[i] = l}

Earlier(i, j) == i \in older[j]

(* Mutant: the timestamp is not compared.                                  *)
OnlyUrgent(i, j) == prio[i] < prio[j] \/ (prio[i] = prio[j] /\ Earlier(j, i))

(* The order of ScheduledIntent.                                           *)
Precedes(i, j) == prio[i] < prio[j] \/ (prio[i] = prio[j] /\ Earlier(i, j))

IsHead(i, l) == i \in InLane(l) /\ \A j \in InLane(l) \ {i} : Precedes(i, j)

(* Mutant: no ageing.                                                      *)
NeverAged(waiting) == prio

(* _apply_queue_aging() of the intents that stay in the lane.              *)
Aged(waiting) ==
  [i \in Intents |->
     IF i \in waiting \intersect overdue /\ prio[i] > 0 THEN prio[i] - 1
     ELSE prio[i]]

Young == {i \in queued \ overdue : prio[i] > 0}

-------------------------------------------------------------------------------
(* Callers and windows *)

NewLane(i) == {Lane[i]} \ (lanes \union {Generic})

(* submit_intent().  No two timestamps are equal here; where the clock     *)
(* ticks seldom they may be, and a heap keeps no order between such.       *)
Submit(i) ==
  /\ future[i] = "none" \/ (i \in Stream /\ Resolved(i))
  /\ queued' = queued \union {i}
  /\ older' = [older EXCEPT ![i] = queued]
  /\ prio' = [prio EXCEPT ![i] = Priority[i]]
  /\ lanes' = lanes \union NewLane(i)
  /\ before' = [w \in Windows |-> IF w \in NewLane(i) THEN lanes ELSE before[w]]
  /\ future' = [future EXCEPT ![i] = "pending"]
  /\ UNCHANGED <<overdue, active, window, running, pc, job, stops>>

(* The intent passes the age of five seconds, after all older ones.  (The  *)
(* age of an intent of priority 0 makes no difference.)                    *)
GrowsOld(i) ==
  /\ i \in Young
  /\ \A j \in Young : ~Earlier(j, i)
  /\ overdue' = overdue \union {i}
  /\ UNCHANGED <<queued, older, prio, lanes, before, active, future, window, running, pc, job, stops>>

(* A window is destroyed; its handle may come back as another window's,    *)
(* which nothing here tells from the old one.                              *)
WindowChanges(w) ==
  /\ window' = [window EXCEPT ![w] = IF @ = "alive" THEN "dead" ELSE "alive"]
  /\ UNCHANGED <<queues, active, future, running, pc, job, stops>>

Start(t) ==
  /\ ~running
  /\ running' = TRUE
  /\ pc[t] = "off" /\ pc' = [pc EXCEPT ![t] = "idle"]
  /\ UNCHANGED <<queues, active, future, window, job, stops>>

(* stop() gives up its join after two seconds.                             *)
Stop ==
  /\ running /\ stops < MaxStops
  /\ running' = FALSE
  /\ stops' = stops + 1
  /\ UNCHANGED <<queues, active, future, window, pc, job>>

-------------------------------------------------------------------------------
(* The scheduler thread *)

(* assert_valid_and_owned() raises StaleHandleError: the handle names no   *)
(* window.  No process is expected of it, so a reused handle passes.       *)
Stale(w) == window[w] = "dead"

Serves(w) == InLane(w) # {} /\ w \notin active /\ ~Stale(w)

(* The windows the loop passes before the one it serves, if any.           *)
PassedBy == {w \in lanes : \A v \in before[w] \union {w} : ~Serves(v)}

IsServed(l) ==
  \/ l \in lanes /\ Serves(l) /\ \A v \in before[l] : ~Serves(v)
  \/ l = Generic /\ \A w \in lanes : ~Serves(w)

EmptyLanes == {w \in PassedBy : InLane(w) = {}}
DeadLanes  == {w \in PassedBy : InLane(w) # {} /\ w \notin active /\ Stale(w)}

Purged == UNION {InLane(w) : w \in DeadLanes}

(* Mutant: the purge resolves the futures and leaves the queue.            *)
KeepsPurged(took) == took

(* What leaves the queues with the intents taken.                          *)
Leaving(took) == took \union Purged

Dequeue(gone) ==
  /\ queued' = queued \ gone
  /\ older' = [i \in Intents |-> IF i \in gone THEN {} ELSE older[i] \ gone]
  /\ overdue' = overdue \ gone

CloseLanes(gone) ==
  /\ lanes' = lanes \ gone
  /\ before' = [w \in Windows |-> IF w \in gone THEN {} ELSE before[w] \ gone]

(* The intent taken from lane l, if there is one: a set.                   *)
Takes(took, l) ==
  \/ InLane(l) = {} /\ took = {}
  \/ \E i \in Intents : IsHead(i, l) /\ took = {i}

(* _select_next_intent(), under the lock.                                  *)
Select(t) ==
  /\ pc[t] = "idle" /\ running
  /\ \E l \in Windows \union {Generic}, took \in SUBSET queued :
       /\ IsServed(l) /\ Takes(took, l)
       /\ Dequeue(Leaving(took))
       /\ prio' = IF took = {} THEN prio ELSE Aged(InLane(l) \ took)
       /\ job' = [job EXCEPT ![t] = took]
       /\ pc' = [pc EXCEPT ![t] = IF took = {} THEN "idle" ELSE "chosen"]
  /\ CloseLanes(EmptyLanes \union DeadLanes)
  /\ future' = [i \in Intents |-> IF i \in Purged THEN "failed" ELSE future[i]]
  /\ UNCHANGED <<active, window, running, stops>>

(* The window is marked, outside the lock, and the gateway is called.      *)
Dispatch(t) ==
  /\ pc[t] = "chosen"
  /\ pc' = [pc EXCEPT ![t] = "executing"]
  /\ active' = active \union ({Lane[i] : i \in job[t]} \ {Generic})
  /\ UNCHANGED <<queues, future, window, running, job, stops>>

(* verify_future(): without success or without a verifier at once, else    *)
(* by a watcher.                                                           *)
Handover(i, ok) ==
  IF ok /\ i \in Verified THEN "watched" ELSE IF ok THEN "succeeded" ELSE "failed"

(* execute_gateway() has returned or raised.  If the other thread has      *)
(* already unmarked the window, remove() raises and the loop goes on       *)
(* without resolving the future.                                           *)
Finish(t) ==
  /\ pc[t] = "executing"
  /\ pc' = [pc EXCEPT ![t] = "idle"]
  /\ job' = [job EXCEPT ![t] = {}]
  /\ \E i \in job[t] :
       \/ /\ Lane[i] \in active \union {Generic}
          /\ active' = active \ {Lane[i]}
          /\ \E ok \in BOOLEAN : future' = [future EXCEPT ![i] = Handover(i, ok)]
       \/ /\ Lane[i] \notin active \union {Generic}
          /\ UNCHANGED <<active, future>>
  /\ UNCHANGED <<queues, window, running, stops>>

Leave(t) ==
  /\ pc[t] = "idle" /\ ~running
  /\ pc' = [pc EXCEPT ![t] = "off"]
  /\ UNCHANGED <<queues, active, future, window, running, job, stops>>

(* The watcher's verifier returns or raises.                               *)
Watch(i) ==
  /\ future[i] = "watched"
  /\ \E s \in {"succeeded", "failed"} : future' = [future EXCEPT ![i] = s]
  /\ UNCHANGED <<queues, active, window, running, pc, job, stops>>

ThreadStep(t) == Select(t) \/ Dispatch(t) \/ Finish(t) \/ Leave(t)

Next ==
  \/ \E i \in Intents : Submit(i) \/ GrowsOld(i) \/ Watch(i)
  \/ \E w \in Windows : WindowChanges(w)
  \/ \E t \in Threads : Start(t) \/ ThreadStep(t)
  \/ Stop

Spec == Init /\ [][Next]_vars

(* The scheduler is started and a thread of it runs; a gateway call ends,  *)
(* as the calls of IntentRuntime do; a verifier has a timeout; time passes. *)
FairSpec ==
  /\ Spec
  /\ WF_vars(\E t \in Threads : Start(t) \/ ThreadStep(t))
  /\ \A i \in Verified : WF_vars(Watch(i))
  /\ WF_vars(\E i \in Intents : GrowsOld(i))

-------------------------------------------------------------------------------
(* Properties *)

(* What is in a lane or in the hands of a thread is pending, and has no    *)
(* other holder: no intent acts after its future was resolved (by a purge, *)
(* say), and none is handed to the gateway twice.  Until the scheduler is  *)
(* stopped, what is pending has a holder: none is lost.                    *)
OneHolder ==
  /\ \A i \in queued : future[i] = "pending"
  /\ \A t \in Threads, i \in Intents :
       i \in job[t] => /\ future[i] = "pending"
                       /\ i \notin queued
                       /\ \A s \in Threads \ {t} : i \notin job[s]
  /\ \A i \in Intents :
       future[i] = "pending" => i \in queued \/ stops > 0 \/ \E t \in Threads : i \in job[t]

(* Ageing never reverses an order the callers asked for: whatever is taken *)
(* from a lane, nothing older and at least as urgent stays behind in it.   *)
NoOvertaking ==
  [][\A t \in Threads : \A i \in job'[t] \ job[t] :
       \A j \in InLane(Lane[i]) \ {i} :
          Priority[j] <= Priority[i] => ~Earlier(j, i)]_vars

(* Every future is resolved, however many urgent intents keep coming: the  *)
(* scheduler's starvation prevention.  (Unless it was stopped: stop()      *)
(* leaves what is queued, and two threads may lose a future.)              *)
FuturesResolve ==
  \A i \in Intents : future[i] = "pending" ~> Resolved(i) \/ stops > 0
===============================================================================
