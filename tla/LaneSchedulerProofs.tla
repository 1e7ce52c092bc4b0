-------------------------- MODULE LaneSchedulerProofs -------------------------
(***************************************************************************)
(* No intent has two holders, none is lost before a stop(), and none is    *)
(* overtaken in its lane: for any intents, windows, priorities and         *)
(* threads, with stop() and start() overlapping a gateway call.            *)
(***************************************************************************)
EXTENDS LaneScheduler, TLAPS

Types ==
  /\ queued \subseteq Intents
  /\ older \in [Intents -> SUBSET Intents]
  /\ prio \in [Intents -> Nat]
  /\ overdue \subseteq queued
  /\ lanes \subseteq Windows
  /\ future \in [Intents -> Futures]
  /\ job \in [Threads -> SUBSET Intents]
  /\ \A t \in Threads : \A i, j \in job[t] : i = j
  /\ pc \in [Threads -> Steps]
  /\ stops \in Nat

(* Until the scheduler is stopped one thread runs the loop: the window it  *)
(* has marked stays marked.                                                *)
OneThread ==
  stops = 0 =>
    /\ \A t \in Threads : pc[t] # "off" => running
    /\ \A s, t \in Threads : pc[s] # "off" /\ pc[t] # "off" => s = t
    /\ \A t \in Threads : job[t] # {} => pc[t] \in {"chosen", "executing"}
    /\ \A t \in Threads :
         pc[t] = "executing" => \A i \in job[t] : Lane[i] \in active \union {Generic}

(* The order of the timestamps is one among what is queued, and an age is  *)
(* reached by the older first.                                             *)
AgesInOrder ==
  \A i, j \in Intents : Earlier(j, i) =>
     /\ {i, j} \subseteq queued
     /\ ~Earlier(i, j)
     /\ i \in overdue => j \in overdue \/ prio[j] = 0

(* Ageing keeps a lane's order: what was submitted earlier and is at least *)
(* as urgent stays so.                                                     *)
UrgencyKept ==
  /\ \A i \in Intents : prio[i] <= Priority[i]
  /\ \A i, j \in Intents :
       Earlier(j, i) /\ Lane[i] = Lane[j] /\ Priority[j] <= Priority[i]
         => prio[j] <= prio[i]

Inv == Types /\ OneThread /\ OneHolder /\ AgesInOrder /\ UrgencyKept

(* At first nothing is queued and nobody holds anything.                   *)
LEMMA InitInv == Init => Inv
<1> SUFFICES ASSUME Init PROVE Inv
  OBVIOUS
<1>1. Types
  BY LanesAssumption DEF Init, Types, Futures, Steps
<1>2. OneHolder /\ OneThread
  BY DEF Init, OneHolder, OneThread
<1>3. AgesInOrder /\ UrgencyKept
  BY LanesAssumption DEF Init, AgesInOrder, UrgencyKept, Earlier
<1> QED
  BY <1>1, <1>2, <1>3 DEF Inv

(* An intent that may be submitted is nowhere.                             *)
LEMMA SubmittedIsNowhere ==
  ASSUME Inv, NEW i \in Intents, Submit(i)
  PROVE  i \notin queued /\ \A t \in Threads : i \notin job[t]
<1>1. future[i] # "pending"
  BY DEF Submit, Resolved
<1> QED
  BY <1>1 DEF Inv, OneHolder

(* submit_intent().                                                        *)
LEMMA SubmitStep ==
  ASSUME Inv, NEW i \in Intents, Submit(i)
  PROVE  Inv'
<1> USE DEF Inv
<1>1. i \notin queued /\ \A t \in Threads : i \notin job[t]
  BY SubmittedIsNowhere
<1>2. /\ queued' = queued \union {i}
      /\ older' = [older EXCEPT ![i] = queued]
      /\ prio' = [prio EXCEPT ![i] = Priority[i]]
      /\ future' = [future EXCEPT ![i] = "pending"]
      /\ lanes' = lanes \union NewLane(i)
      /\ UNCHANGED <<overdue, job, pc, stops, running, active>>
  BY DEF Submit
<1>3. Types'
  BY <1>2, LanesAssumption DEF Types, Futures, NewLane
<1>4. OneHolder'
  BY <1>1, <1>2 DEF OneHolder, Types
<1>5. \A k, j \in Intents : Earlier(j, k)' =>
        \/ k = i /\ j \in queued /\ j # i
        \/ k # i /\ j # i /\ Earlier(j, k)
  BY <1>1, <1>2 DEF AgesInOrder, Earlier, Types
<1>6. AgesInOrder'
  <2> SUFFICES ASSUME NEW k \in Intents, NEW j \in Intents, Earlier(j, k)'
               PROVE  /\ {k, j} \subseteq queued'
                      /\ ~Earlier(k, j)'
                      /\ k \in overdue' => j \in overdue' \/ prio'[j] = 0
    BY DEF AgesInOrder
  <2>1. CASE k = i
    <3>1. j \in queued /\ j # i
      BY <1>5, <2>1
    <3>2. ~Earlier(i, j)'
      BY <1>5, <3>1
    <3>3. i \notin overdue'
      BY <1>1, <1>2 DEF Types
    <3> QED
      BY <1>2, <2>1, <3>1, <3>2, <3>3
  <2>2. CASE k # i
    BY <1>2, <1>5, <2>2 DEF AgesInOrder, Types
  <2> QED
    BY <2>1, <2>2
<1>7. UrgencyKept'
  <2>1. ASSUME NEW k \in Intents PROVE prio'[k] <= Priority[k]
    <3>1. prio'[k] = IF k = i THEN Priority[k] ELSE prio[k]
      BY <1>2 DEF Types
    <3>2. prio[k] <= Priority[k] /\ Priority[k] \in Nat
      BY LanesAssumption DEF UrgencyKept
    <3> QED
      BY <3>1, <3>2
  <2>2. ASSUME NEW k \in Intents, NEW j \in Intents,
               Earlier(j, k)', Lane[k] = Lane[j], Priority[j] <= Priority[k]
        PROVE  prio'[j] <= prio'[k]
    <3>1. CASE k = i
      <4>1. j # i /\ prio'[j] = prio[j] /\ prio'[k] = Priority[k]
        BY <1>2, <1>5, <2>2, <3>1 DEF Types
      <4>2. prio[j] <= Priority[j]
        BY DEF UrgencyKept
      <4> QED
        BY <2>2, <4>1, <4>2, LanesAssumption DEF Types
    <3>2. CASE k # i
      BY <1>2, <1>5, <2>2, <3>2 DEF UrgencyKept, Types
    <3> QED
      BY <3>1, <3>2
  <2> QED
    BY <2>1, <2>2 DEF UrgencyKept
<1>8. OneThread'
  BY <1>2 DEF OneThread
<1> QED
  BY <1>3, <1>4, <1>6, <1>7, <1>8

(* An intent passes the age of five seconds.                               *)
LEMMA AgeStep ==
  ASSUME Inv, NEW i \in Intents, GrowsOld(i)
  PROVE  Inv'
<1> USE DEF Inv
<1>1. /\ i \in queued /\ \A j \in Intents : j \in queued /\ Earlier(j, i) => j \in overdue \/ prio[j] = 0
      /\ overdue' = overdue \union {i}
      /\ UNCHANGED <<queued, older, prio, lanes, active, future, running, pc, job, stops>>
  <2>1. \A j \in Intents : j \in Young => ~Earlier(j, i)
    BY DEF GrowsOld
  <2>2. \A j \in Intents : j \in queued /\ j \notin Young => j \in overdue \/ prio[j] = 0
    BY DEF Young, Types
  <2> QED
    BY <2>1, <2>2 DEF GrowsOld, Young
<1>2. Types' /\ OneThread' /\ OneHolder' /\ UrgencyKept'
  BY <1>1 DEF Types, OneThread, OneHolder, UrgencyKept, Earlier
<1>3. AgesInOrder'
  BY <1>1 DEF AgesInOrder, Earlier
<1> QED
  BY <1>2, <1>3

(* What leaves the queues leaves the order of what stays as it was.        *)
LEMMA OrderOfTheRest ==
  ASSUME Types, NEW gone, Dequeue(gone), NEW i \in Intents, NEW j \in Intents,
         Earlier(j, i)'
  PROVE  Earlier(j, i) /\ i \notin gone /\ j \notin gone
BY DEF Dequeue, Earlier, Types

(* The intent a thread takes is queued, it is the first of its lane, and   *)
(* no dead window's purge resolves it: its lane is served.                 *)
LEMMA TakenIsServed ==
  ASSUME Inv, NEW l, NEW took \in SUBSET queued, IsServed(l), Takes(took, l)
  PROVE  /\ took \intersect Purged = {}
         /\ \A i, j \in took : i = j
         /\ \A i \in took : IsHead(i, l) /\ Lane[i] = l
<1>1. \A i, j \in took : i = j
  BY DEF Takes
<1>2. ASSUME NEW i \in took PROVE IsHead(i, l) /\ Lane[i] = l
  <2>1. IsHead(i, l)
    BY Zenon DEF Takes
  <2> QED
    BY <2>1 DEF IsHead, InLane
<1>3. l \notin DeadLanes
  <2>1. CASE l \in lanes /\ Serves(l)
    BY <2>1 DEF Serves, DeadLanes
  <2>2. CASE l = Generic
    <3>1. DeadLanes \subseteq Windows
      BY DEF DeadLanes, PassedBy, Inv, Types
    <3> QED
      BY <2>2, <3>1, LanesAssumption
  <2> QED
    BY <2>1, <2>2 DEF IsServed
<1>4. \A i \in Purged : Lane[i] \in DeadLanes
  BY DEF Purged, InLane
<1> QED
  BY <1>1, <1>2, <1>3, <1>4

(* The scheduler thread takes what it will serve, under the lock.          *)
LEMMA SelectStep ==
  ASSUME Inv, NEW t \in Threads, Select(t)
  PROVE  Inv'
<1> USE DEF Inv
<1>1. PICK l \in Windows \union {Generic}, took \in SUBSET queued :
        /\ IsServed(l) /\ Takes(took, l)
        /\ Dequeue(Leaving(took))
        /\ prio' = IF took = {} THEN prio ELSE Aged(InLane(l) \ took)
        /\ job' = [job EXCEPT ![t] = took]
        /\ pc' = [pc EXCEPT ![t] = IF took = {} THEN "idle" ELSE "chosen"]
  BY DEF Select
<1>2. /\ future' = [i \in Intents |-> IF i \in Purged THEN "failed" ELSE future[i]]
      /\ lanes' \subseteq lanes
      /\ pc[t] = "idle" /\ running
      /\ UNCHANGED <<active, running, stops>>
  BY DEF Select, CloseLanes
<1>3. /\ took \intersect Purged = {}
      /\ \A i, j \in took : i = j
      /\ \A i \in took : Lane[i] = l
  BY <1>1, TakenIsServed
<1>4. Purged \subseteq queued
  BY DEF Purged, InLane
<1> DEFINE gone == Leaving(took)
<1>5. gone = took \union Purged
  BY DEF Leaving
<1>6. /\ queued' = queued \ gone /\ overdue' = overdue \ gone
      /\ older' = [i \in Intents |-> IF i \in gone THEN {} ELSE older[i] \ gone]
  BY <1>1 DEF Dequeue
<1> HIDE DEF gone
<1>7. /\ prio' \in [Intents -> Nat]
      /\ \A i \in Intents : prio'[i] <= prio[i]
  BY <1>1 DEF Aged, Types
<1>8. Types'
  <2>1. /\ future' \in [Intents -> Futures] /\ pc' \in [Threads -> Steps]
        /\ job' \in [Threads -> SUBSET Intents]
    BY <1>1, <1>2 DEF Types, Futures, Steps
  <2>2. \A s \in Threads : \A i, j \in job'[s] : i = j
    BY <1>1, <1>3 DEF Types
  <2> QED
    BY <1>2, <1>6, <1>7, <2>1, <2>2 DEF Types
<1>9. OneHolder'
  <2>1. \A i \in queued' : future'[i] = "pending"
    BY <1>2, <1>5, <1>6 DEF OneHolder, Types
  <2>2. ASSUME NEW s \in Threads, NEW i \in Intents, i \in job'[s]
        PROVE  /\ future'[i] = "pending" /\ i \notin queued'
               /\ \A u \in Threads \ {s} : i \notin job'[u]
    <3>1. CASE s = t
      <4>1. i \in took
        BY <1>1, <2>2, <3>1 DEF Types
      <4>2. i \in queued /\ i \notin Purged
        BY <1>3, <4>1
      <4>3. \A u \in Threads \ {s} : i \notin job'[u]
        BY <1>1, <3>1, <4>2 DEF OneHolder, Types
      <4> QED
        BY <1>2, <1>5, <1>6, <4>1, <4>2, <4>3 DEF OneHolder
    <3>2. CASE s # t
      <4>1. i \in job[s] /\ i \notin queued
        BY <1>1, <2>2, <3>2 DEF OneHolder, Types
      <4>2. i \notin took /\ i \notin Purged
        BY <1>4, <4>1
      <4> QED
        BY <1>1, <1>2, <1>6, <4>1, <4>2 DEF OneHolder, Types
    <3> QED
      BY <3>1, <3>2
  <2>3. ASSUME NEW i \in Intents, future'[i] = "pending", stops' = 0
        PROVE  i \in queued' \/ \E s \in Threads : i \in job'[s]
    <3>1. future[i] = "pending" /\ i \notin Purged
      BY <1>2, <2>3
    <3>2. CASE i \in queued
      <4>1. i \in gone => i \in job'[t]
        BY <1>1, <1>5, <3>1 DEF Types
      <4> QED
        BY <1>6, <3>2, <4>1
    <3>3. CASE i \notin queued
      <4>1. PICK s \in Threads : i \in job[s]
        BY <1>2, <2>3, <3>1, <3>3 DEF OneHolder
      <4>2. s # t
        BY <1>2, <2>3, <4>1 DEF OneThread
      <4> QED
        BY <1>1, <4>1, <4>2 DEF Types
    <3> QED
      BY <3>2, <3>3
  <2> QED
    BY <1>8, <2>1, <2>2, <2>3 DEF OneHolder, Types
<1>10. \A i, j \in Intents : Earlier(j, i)' =>
         Earlier(j, i) /\ {i, j} \subseteq queued /\ i \notin gone /\ j \notin gone
  BY <1>6 DEF Earlier, Types, AgesInOrder
<1>11. AgesInOrder'
  BY <1>6, <1>7, <1>10 DEF AgesInOrder, Types
<1>12. UrgencyKept'
  <2>1. \A i \in Intents : prio'[i] <= Priority[i]
    BY <1>7, LanesAssumption DEF UrgencyKept, Types
  <2>2. ASSUME NEW i \in Intents, NEW j \in Intents,
               Earlier(j, i)', Lane[i] = Lane[j], Priority[j] <= Priority[i]
        PROVE  prio'[j] <= prio'[i]
    <3>1. /\ Earlier(j, i) /\ {i, j} \subseteq queued
          /\ i \notin took /\ j \notin took
      BY <1>5, <1>10, <2>2
    <3>2. prio[j] <= prio[i]
      BY <2>2, <3>1 DEF UrgencyKept
    <3>3. CASE took = {} \/ Lane[i] # l
      <4>1. prio'[i] = prio[i] /\ prio'[j] = prio[j]
        BY <1>1, <2>2, <3>3 DEF Aged, InLane
      <4> QED
        BY <3>2, <4>1
    <3>4. CASE took # {} /\ Lane[i] = l
      <4>1. i \in InLane(l) \ took /\ j \in InLane(l) \ took
        BY <2>2, <3>1, <3>4 DEF InLane
      <4>2. /\ prio'[i] = IF i \in overdue /\ prio[i] > 0 THEN prio[i] - 1 ELSE prio[i]
            /\ prio'[j] = IF j \in overdue /\ prio[j] > 0 THEN prio[j] - 1 ELSE prio[j]
        BY <1>1, <3>4, <4>1 DEF Aged
      <4>3. i \in overdue => j \in overdue \/ prio[j] = 0
        BY <3>1 DEF AgesInOrder
      <4> QED
        BY <3>2, <4>2, <4>3 DEF Types
    <3> QED
      BY <3>3, <3>4
  <2> QED
    BY <2>1, <2>2 DEF UrgencyKept
<1>13. OneThread'
  <2> SUFFICES ASSUME stops' = 0
               PROVE  /\ \A s \in Threads : pc'[s] # "off" => running'
                      /\ \A s, u \in Threads : pc'[s] # "off" /\ pc'[u] # "off" => s = u
                      /\ \A s \in Threads : job'[s] # {} => pc'[s] \in {"chosen", "executing"}
                      /\ \A s \in Threads : pc'[s] = "executing" =>
                           \A i \in job'[s] : Lane[i] \in active' \union {Generic}
    BY DEF OneThread
  <2>1. stops = 0 /\ \A s \in Threads \ {t} : pc'[s] = "off" /\ pc[s] = "off" /\ job'[s] = {}
    BY <1>1, <1>2 DEF OneThread, Types
  <2>2. pc'[t] # "executing" /\ (job'[t] # {} => pc'[t] = "chosen")
    BY <1>1 DEF Types
  <2> QED
    BY <1>2, <2>1, <2>2
<1> QED
  BY <1>8, <1>9, <1>11, <1>12, <1>13

(* The gateway has returned or raised: the thread lets go of the intent,   *)
(* and resolves its future unless another thread has unmarked the window.  *)
LEMMA FinishStep ==
  ASSUME Inv, NEW t \in Threads, Finish(t)
  PROVE  Inv'
<1> USE DEF Inv
<1>1. /\ job' = [job EXCEPT ![t] = {}] /\ pc' = [pc EXCEPT ![t] = "idle"]
      /\ pc[t] = "executing" /\ UNCHANGED <<queues, running, stops>>
  BY DEF Finish
<1>2. PICK i \in job[t] :
        \/ /\ \E ok \in BOOLEAN : future' = [future EXCEPT ![i] = Handover(i, ok)]
           /\ active' = active \ {Lane[i]}
        \/ Lane[i] \notin active \union {Generic} /\ UNCHANGED <<active, future>>
  BY DEF Finish
<1>3. /\ future' \in [Intents -> Futures]
      /\ \A k \in Intents \ {i} : future'[k] = future[k]
      /\ future'[i] # "pending" \/ Lane[i] \notin active \union {Generic}
  BY <1>2 DEF Types, Futures, Handover
<1>4. Types'
  <2>1. job' \in [Threads -> SUBSET Intents] /\ pc' \in [Threads -> Steps]
    BY <1>1 DEF Types, Steps
  <2>2. \A s \in Threads : \A j, k \in job'[s] : j = k
    BY <1>1 DEF Types
  <2> QED
    BY <1>1, <1>3, <2>1, <2>2 DEF queues, Types
<1>5. AgesInOrder' /\ UrgencyKept'
  BY <1>1 DEF queues, AgesInOrder, UrgencyKept, Earlier
<1>6. i \in Intents /\ i \notin queued /\ \A s \in Threads \ {t} : i \notin job[s]
  BY <1>2 DEF OneHolder, Types
<1>7. OneThread'
  <2> SUFFICES ASSUME stops' = 0
               PROVE  /\ \A s \in Threads : pc'[s] # "off" => running'
                      /\ \A s, u \in Threads : pc'[s] # "off" /\ pc'[u] # "off" => s = u
                      /\ \A s \in Threads : job'[s] # {} => pc'[s] \in {"chosen", "executing"}
                      /\ \A s \in Threads : pc'[s] = "executing" =>
                           \A k \in job'[s] : Lane[k] \in active' \union {Generic}
    BY DEF OneThread
  <2>1. /\ running
        /\ \A s \in Threads \ {t} : pc'[s] = "off" /\ job'[s] = {}
    BY <1>1 DEF OneThread, Types
  <2>2. pc'[t] = "idle" /\ job'[t] = {}
    BY <1>1 DEF Types
  <2> QED
    BY <1>1, <2>1, <2>2
<1>8. OneHolder'
  <2>1. \A k \in queued' : future'[k] = "pending"
    BY <1>1, <1>3, <1>6 DEF queues, OneHolder, Types
  <2>2. \A s \in Threads, k \in Intents : k \in job'[s] =>
          /\ future'[k] = "pending" /\ k \notin queued'
          /\ \A u \in Threads \ {s} : k \notin job'[u]
    BY <1>1, <1>3, <1>6 DEF queues, OneHolder, Types
  <2>3. ASSUME NEW k \in Intents, future'[k] = "pending", stops' = 0, k \notin queued'
        PROVE  \E s \in Threads : k \in job'[s]
    <3>1. k # i
      BY <1>1, <1>2, <1>3, <2>3 DEF OneThread
    <3>2. PICK s \in Threads : k \in job[s]
      BY <1>1, <1>3, <2>3, <3>1 DEF queues, OneHolder
    <3>3. s # t
      BY <1>2, <3>1, <3>2 DEF Types
    <3> QED
      BY <1>1, <3>2, <3>3 DEF Types
  <2> QED
    BY <1>4, <2>1, <2>2, <2>3 DEF OneHolder, Types
<1> QED
  BY <1>4, <1>5, <1>7, <1>8

(* The watcher's verifier resolves a future that nobody holds any more.    *)
LEMMA WatchStep ==
  ASSUME Inv, NEW i \in Intents, Watch(i)
  PROVE  Inv'
<1> USE DEF Inv
<1>1. /\ future[i] = "watched" /\ UNCHANGED <<queues, active, running, pc, job, stops>>
      /\ \E s \in {"succeeded", "failed"} : future' = [future EXCEPT ![i] = s]
  BY DEF Watch
<1>2. i \notin queued /\ \A t \in Threads : i \notin job[t]
  BY <1>1 DEF OneHolder
<1>3. Types' /\ OneThread' /\ AgesInOrder' /\ UrgencyKept'
  BY <1>1 DEF queues, Types, OneThread, Futures, AgesInOrder, UrgencyKept, Earlier
<1>4. OneHolder'
  BY <1>1, <1>2 DEF queues, OneHolder, Types
<1> QED
  BY <1>3, <1>4

(* The threads and the windows they mark.                                  *)
LEMMA ThreadStepInv ==
  ASSUME Inv, NEW t \in Threads, Start(t) \/ Dispatch(t) \/ Leave(t)
  PROVE  Inv'
<1> USE DEF Inv
<1>1. UNCHANGED <<queues, future, job, stops>>
  BY DEF Start, Dispatch, Leave
<1>2. Types' /\ OneHolder' /\ AgesInOrder' /\ UrgencyKept'
  <2>1. pc' \in [Threads -> Steps]
    BY DEF Start, Dispatch, Leave, Types, Steps
  <2>2. Types'
    BY <1>1, <2>1 DEF queues, Types
  <2> QED
    BY <1>1, <2>2 DEF queues, OneHolder, AgesInOrder, UrgencyKept, Earlier
<1>3. OneThread'
  <2>1. CASE Start(t)
    BY <1>1, <2>1 DEF Start, OneThread, Types
  <2>2. CASE Dispatch(t)
    <3>1. /\ pc[t] = "chosen" /\ pc' = [pc EXCEPT ![t] = "executing"]
          /\ active' = active \union ({Lane[i] : i \in job[t]} \ {Generic})
          /\ running' = running
      BY <2>2 DEF Dispatch
    <3>2. \A i \in job'[t] : Lane[i] \in active' \union {Generic}
      BY <1>1, <3>1
    <3> QED
      BY <1>1, <3>1, <3>2 DEF OneThread, Types
  <2>3. CASE Leave(t)
    BY <1>1, <2>3 DEF Leave, OneThread, Types
  <2> QED
    BY <2>1, <2>2, <2>3
<1> QED
  BY <1>2, <1>3

(* Every step keeps the invariant.                                         *)
LEMMA NextInv == Inv /\ [Next]_vars => Inv'
<1> SUFFICES ASSUME Inv, [Next]_vars PROVE Inv'
  OBVIOUS
<1>1. CASE UNCHANGED <<queues, active, future, running, pc, job, stops>>
  BY <1>1 DEF queues, Inv, Types, OneThread, OneHolder, AgesInOrder, UrgencyKept, Earlier
<1>2. ASSUME NEW i \in Intents, Submit(i) \/ GrowsOld(i) \/ Watch(i) PROVE Inv'
  BY <1>2, SubmitStep, AgeStep, WatchStep
<1>3. ASSUME NEW w \in Windows, WindowChanges(w) PROVE Inv'
  BY <1>1, <1>3 DEF WindowChanges
<1>4. ASSUME NEW t \in Threads, Start(t) \/ ThreadStep(t) PROVE Inv'
  BY <1>4, ThreadStepInv, SelectStep, FinishStep DEF ThreadStep
<1>5. CASE Stop
  <2>1. UNCHANGED <<queues, future, pc, job>> /\ stops' = stops + 1
    BY <1>5 DEF Stop
  <2>2. stops' # 0 /\ stops' \in Nat
    BY <2>1 DEF Inv, Types
  <2> QED
    BY <2>1, <2>2 DEF queues, Inv, Types, OneThread, OneHolder, AgesInOrder, UrgencyKept, Earlier
<1> QED
  BY <1>1, <1>2, <1>3, <1>4, <1>5 DEF Next, vars

(* The invariant holds throughout.                                         *)
LEMMA InvHolds == Spec => []Inv
BY InitInv, NextInv, PTL DEF Spec

(* What is in a lane or in the hands of a thread is pending and has no     *)
(* other holder: no intent acts after its future was resolved, by a purge  *)
(* say, nor twice, with any number of threads; and until stop() is called  *)
(* every pending intent has a holder.                                      *)
THEOREM NoneIsLostOrTwice == Spec => []OneHolder
<1>1. Inv => OneHolder
  BY DEF Inv
<1> QED
  BY <1>1, InvHolds, PTL

(* In one step: what Select takes is the first of its lane, and ageing has *)
(* not moved it before anything older that asked for at least as much.     *)
LEMMA TakenInOrder ==
  ASSUME Inv, [Next]_vars, NEW t \in Threads, NEW i \in job'[t] \ job[t],
         NEW j \in InLane(Lane[i]) \ {i}, Priority[j] <= Priority[i]
  PROVE  ~Earlier(j, i)
<1>1. Select(t)
  <2>1. ASSUME NEW s \in Threads, s # t PROVE ~Select(s)
    <3>1. SUFFICES ASSUME Select(s) PROVE FALSE
      OBVIOUS
    <3>2. \E took : job' = [job EXCEPT ![s] = took]
      BY <3>1 DEF Select
    <3>3. job'[t] = job[t]
      BY <2>1, <3>2 DEF Inv, Types
    <3> QED
      BY <3>3
  <2>2. ASSUME NEW s \in Threads, Finish(s) PROVE FALSE
    BY <2>2 DEF Finish, Inv, Types
  <2>3. job' # job
    OBVIOUS
  <2> QED
    BY <2>1, <2>2, <2>3
    DEF Next, vars, queues, Submit, GrowsOld, Watch, WindowChanges, Start, ThreadStep,
        Dispatch, Leave, Stop
<1>2. PICK l \in Windows \union {Generic}, took \in SUBSET queued :
        IsServed(l) /\ Takes(took, l) /\ job' = [job EXCEPT ![t] = took]
  BY <1>1 DEF Select
<1>3. i \in took
  BY <1>2 DEF Inv, Types
<1>4. IsHead(i, l) /\ Lane[i] = l
  BY <1>2, <1>3, TakenIsServed
<1>5. Precedes(i, j) /\ i \in Intents /\ j \in Intents
  BY <1>4 DEF IsHead, InLane, Inv, Types
<1>6. SUFFICES ASSUME Earlier(j, i) PROVE FALSE
  OBVIOUS
<1>7. prio[j] <= prio[i] /\ ~Earlier(i, j)
  BY <1>5, <1>6 DEF Inv, UrgencyKept, AgesInOrder, InLane
<1> QED
  BY <1>5, <1>7 DEF Precedes, Inv, Types

(* Ageing never reverses an order the callers asked for: whatever a thread *)
(* takes from a lane, nothing older and at least as urgent stays behind.   *)
THEOREM NoneOvertaken == Spec => NoOvertaking
<1>1. Inv /\ [Next]_vars =>
        [\A t \in Threads : \A i \in job'[t] \ job[t] :
           \A j \in InLane(Lane[i]) \ {i} :
              Priority[j] <= Priority[i] => ~Earlier(j, i)]_vars
  BY TakenInOrder
<1> QED
  BY <1>1, InvHolds, PTL DEF Spec, NoOvertaking
===============================================================================
