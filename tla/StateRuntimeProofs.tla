-------------------------- MODULE StateRuntimeProofs --------------------------
(***************************************************************************)
(* Snapshots are quiet and carry the epoch they seal, and every variable   *)
(* keeps its type, for any tasks, agents and openers of windows, however   *)
(* windows are cancelled and however the bodies of snapshots end.          *)
(***************************************************************************)
EXTENDS StateRuntime, FiniteSetTheorems, TLAPS

Openers == Triggers \cup Windows

Snapshots == [tag : Nat, at : Nat, inside : SUBSET Mutators]

(* The counter is the number of agents inside.                             *)
GateTypes ==
  /\ frozen \in BOOLEAN
  /\ mut \in [Mutators -> {"idle", "waiting", "inside"}]
  /\ inFlight = Cardinality(Inside)

SealTypes ==
  /\ epoch \in Nat
  /\ seal \in [Openers -> {"idle", "draining", "inside"}]
  /\ tag \in [Triggers -> Nat]
  /\ saved \in Seq(Snapshots)

(* Unless two windows have overlapped, one is open at a time, the gate is  *)
(* shut while it is, nobody is inside once it has drained, and the epoch   *)
(* is still the one the trigger has read.                                  *)
OneAtATime ==
  overlapped \/ /\ \A v, w \in Openers : seal[v] # "idle" /\ seal[w] # "idle" => v = w
                /\ \A w \in Openers : seal[w] # "idle" => frozen
                /\ \A t \in Triggers : seal[t] # "idle" => tag[t] = epoch

Sealed == GateTypes /\ SealTypes /\ OneAtATime /\ SnapshotsAreQuiet /\ TagIsCurrent

(* The agents inside can be counted.                                       *)
LEMMA InsideIsFinite == IsFiniteSet(Inside) /\ Inside \subseteq Mutators
<1>1. Inside \subseteq Mutators
  BY DEF Inside
<1> QED
  BY <1>1, FS_Subset, BarrierAssumption

(* The counter at 0 says that nobody is inside.                            *)
LEMMA QuietMeansEmpty ==
  ASSUME GateTypes, Quiet
  PROVE  Inside = {}
BY InsideIsFinite, FS_EmptySet DEF GateTypes, Quiet

(* At first the gate is open and no window is.                             *)
LEMMA SealedInit == Init => Sealed
<1> SUFFICES ASSUME Init PROVE Sealed
  OBVIOUS
<1>1. Inside = {}
  BY DEF Init, BarrierInit, Inside
<1>2. GateTypes
  BY <1>1, FS_EmptySet DEF Init, BarrierInit, GateTypes
<1>3. SealTypes /\ OneAtATime
  BY DEF Init, BarrierInit, SealTypes, OneAtATime, Openers
<1>4. SnapshotsAreQuiet /\ TagIsCurrent
  BY DEF Init, BarrierInit, SnapshotsAreQuiet, TagIsCurrent
<1> QED
  BY <1>2, <1>3, <1>4 DEF Sealed

(* Mutators: one that enters finds the gate open, so no window is open.    *)
LEMMA SealedEntry ==
  ASSUME Sealed, NEW m \in Mutators, mut[m] # "inside", frozen = FALSE,
         mut' = [mut EXCEPT ![m] = "inside"], inFlight' = inFlight + 1,
         UNCHANGED <<frozen, epoch, seal, tag, saved, opened, overlapped, abandoned>>
  PROVE  Sealed'
<1>1. Inside' = Inside \cup {m} /\ m \notin Inside
  BY DEF Sealed, GateTypes, Inside
<1>2. Cardinality(Inside') = Cardinality(Inside) + 1
  BY <1>1, InsideIsFinite, FS_AddElement
<1>3. GateTypes'
  BY <1>2 DEF Sealed, GateTypes
<1>4. (SealTypes /\ OneAtATime /\ TagIsCurrent)'
  BY DEF Sealed, SealTypes, OneAtATime, TagIsCurrent
<1>5. SnapshotsAreQuiet'
  BY <1>1 DEF Sealed, SnapshotsAreQuiet, OneAtATime, Openers
<1> QED
  BY <1>3, <1>4, <1>5 DEF Sealed

(* One that finds the gate shut waits, and changes nothing else.           *)
LEMMA SealedWait ==
  ASSUME Sealed, NEW m \in Mutators, mut[m] = "idle",
         mut' = [mut EXCEPT ![m] = "waiting"],
         UNCHANGED <<inFlight, frozen, epoch, seal, tag, saved, opened, overlapped, abandoned>>
  PROVE  Sealed'
<1>1. Inside' = Inside
  BY DEF Sealed, GateTypes, Inside
<1> QED
  BY <1>1 DEF Sealed, GateTypes, SealTypes, OneAtATime, SnapshotsAreQuiet, TagIsCurrent

(* One that leaves or is cancelled gives back what it had, and no more.    *)
LEMMA SealedExit ==
  ASSUME Sealed, NEW m \in Mutators, Exit(m)
  PROVE  Sealed'
<1>1. Inside' = Inside \ {m}
  BY DEF Sealed, GateTypes, Inside, Exit
<1>2. Cardinality(Inside \ {m}) =
        IF m \in Inside THEN Cardinality(Inside) - 1 ELSE Cardinality(Inside)
  BY InsideIsFinite, FS_RemoveElement
<1>3. m \in Inside <=> mut[m] = "inside"
  BY DEF Inside
<1>4. GateTypes'
  BY <1>1, <1>2, <1>3 DEF Sealed, GateTypes, Exit, CountBehind
<1>5. (SealTypes /\ OneAtATime /\ TagIsCurrent)'
  BY DEF Sealed, SealTypes, OneAtATime, TagIsCurrent, Exit
<1>6. SnapshotsAreQuiet'
  BY <1>1 DEF Sealed, SnapshotsAreQuiet, Exit
<1> QED
  BY <1>4, <1>5, <1>6 DEF Sealed

(* So each step of a mutator keeps the invariant, also as part of a task.  *)
LEMMA SealedMutate ==
  ASSUME Sealed, NEW m \in Mutators, Mutate(m)
  PROVE  Sealed'
<1>1. CASE Enter(m) /\ GateOpen
  BY <1>1, SealedEntry DEF Enter, GateOpen, Sealed, GateTypes
<1>2. CASE Enter(m) /\ ~GateOpen
  BY <1>2, SealedWait DEF Enter
<1>3. CASE Admit(m)
  BY <1>3, SealedEntry DEF Admit, GateOpen, Sealed, GateTypes
<1>4. CASE Exit(m)
  BY <1>4, SealedExit
<1> QED
  BY <1>1, <1>2, <1>3, <1>4 DEF Mutate

(* The body of trigger_snapshot(): what it saves was captured with nobody  *)
(* inside, under the epoch that was read, and every window is closed       *)
(* behind it.                                                              *)
LEMMA SealedSeal ==
  ASSUME Sealed, NEW t \in Triggers, NEW tagged \in Nat, NEW ending \in Endings,
         Seal(t, tagged, ending), UNCHANGED <<mut, inFlight, overlapped>>,
         tag' \in [Triggers -> Nat],
         overlapped \/ /\ tagged = epoch
                       /\ \A w \in Openers : seal[w] # "idle" => w = t
  PROVE  Sealed'
<1>1. Inside' = Inside /\ Inside = {} /\ Quiet
  BY QuietMeansEmpty DEF Inside, Seal, Sealed
<1>2. GateTypes'
  BY <1>1 DEF Sealed, GateTypes, Seal, FrozenAfter
<1>3. Snapshot(t, tagged) \in Snapshots
  BY <1>1 DEF Snapshot, Snapshots, Sealed, SealTypes
<1>4. SealTypes'
  <2>1. saved' \in Seq(Snapshots)
    BY <1>3 DEF Sealed, SealTypes, Seal
  <2> QED
    BY <2>1 DEF Sealed, SealTypes, Seal, Openers
<1>5. overlapped \/ \A w \in Openers : seal'[w] = "idle"
  BY DEF Sealed, SealTypes, Seal, Openers
<1>6. OneAtATime'
  BY <1>5 DEF OneAtATime, Openers
<1>7. ASSUME NEW i \in DOMAIN saved'
      PROVE  saved'[i].inside = {} /\ (overlapped \/ saved'[i].tag = saved'[i].at)
  <2>1. CASE i \in DOMAIN saved /\ saved'[i] = saved[i]
    BY <2>1 DEF Sealed, SnapshotsAreQuiet, TagIsCurrent
  <2>2. CASE saved'[i] = Snapshot(t, tagged)
    BY <1>1, <2>2 DEF Snapshot
  <2> QED
    BY <1>3, <1>7, <2>1, <2>2 DEF Sealed, SealTypes, Seal
<1>8. SnapshotsAreQuiet' /\ TagIsCurrent'
  BY <1>5, <1>7 DEF SnapshotsAreQuiet, TagIsCurrent, Openers
<1> QED
  BY <1>2, <1>4, <1>6, <1>8 DEF Sealed

(* A trigger that finds the gate open is the only opener; it captures at   *)
(* once or shuts the gate and drains.                                      *)
LEMMA SealedTrigger ==
  ASSUME Sealed, NEW t \in Triggers, Trigger(t)
  PROVE  Sealed'
<1>1. epoch \in Nat /\ tag' \in [Triggers -> Nat] /\ tag'[t] = epoch
  BY DEF Sealed, SealTypes, Trigger
<1>2. overlapped \/ \A w \in Openers : seal[w] = "idle"
  BY DEF Sealed, OneAtATime, Trigger, GateOpen
<1>3. CASE Quiet
  <2>1. PICK ending \in Endings : Seal(t, epoch, ending)
    BY <1>3 DEF Trigger
  <2> QED
    BY <1>1, <1>2, <2>1, SealedSeal DEF Trigger
<1>4. CASE ~Quiet
  <2>1. /\ frozen' = TRUE /\ seal' = [seal EXCEPT ![t] = "draining"]
        /\ UNCHANGED <<saved, epoch, inFlight, mut, overlapped>>
    BY <1>4 DEF Trigger
  <2>2. Inside' = Inside
    BY <2>1 DEF Inside
  <2>3. GateTypes' /\ SealTypes'
    BY <1>1, <2>1, <2>2 DEF Sealed, GateTypes, SealTypes, Openers
  <2>4. OneAtATime'
    BY <1>1, <1>2, <2>1 DEF Sealed, SealTypes, OneAtATime, Openers
  <2>5. SnapshotsAreQuiet' /\ TagIsCurrent'
    BY <2>1, <2>2, BarrierAssumption
       DEF Sealed, SealTypes, SnapshotsAreQuiet, TagIsCurrent, Openers
  <2> QED
    BY <2>3, <2>4, <2>5 DEF Sealed
<1> QED
  BY <1>3, <1>4

(* A trigger that has drained the barrier runs its body.                   *)
LEMMA SealedDrained ==
  ASSUME Sealed, NEW t \in Triggers, Drained(t)
  PROVE  Sealed'
<1>1. PICK ending \in Endings : Seal(t, tag[t], ending)
  BY DEF Drained
<1>2. tag[t] \in Nat /\ tag' \in [Triggers -> Nat]
  BY DEF Sealed, SealTypes, Drained
<1>3. overlapped \/ (tag[t] = epoch /\ \A w \in Openers : seal[w] # "idle" => w = t)
  BY DEF Sealed, OneAtATime, Drained, Openers
<1> QED
  BY <1>1, <1>2, <1>3, SealedSeal DEF Drained

(* The direct users of snapshot_window().                                  *)
LEMMA SealedWindow ==
  ASSUME Sealed, NEW w \in Windows,
         OpenWindow(w) \/ WindowDrained(w) \/ \E ok \in BOOLEAN : CloseWindow(w, ok)
  PROVE  Sealed'
<1>1. Inside' = Inside /\ UNCHANGED <<mut, inFlight, tag, saved>> /\ w \in Openers
      /\ w \notin Triggers
  BY BarrierAssumption DEF Inside, OpenWindow, WindowDrained, CloseWindow, Openers
<1>2. GateTypes'
  BY <1>1 DEF Sealed, GateTypes, OpenWindow, WindowDrained, CloseWindow
<1>3. SealTypes'
  BY <1>1 DEF Sealed, SealTypes, OpenWindow, WindowDrained, CloseWindow, Openers
<1>4. CASE OpenWindow(w)
  <2>1. overlapped' \/ \A v \in Openers : seal[v] = "idle"
    BY <1>4 DEF OpenWindow, Open, Openers
  <2>2. Quiet => Inside = {}
    BY QuietMeansEmpty DEF Sealed
  <2>3. OneAtATime'
    <3>1. CASE overlapped'
      BY <3>1 DEF OneAtATime
    <3>2. CASE \A v \in Openers : seal[v] = "idle"
      <4>1. frozen' = TRUE /\ \A v \in Openers : v # w => seal'[v] = "idle"
        BY <1>4, <3>2 DEF Sealed, SealTypes, OpenWindow
      <4>2. \A t \in Triggers : seal'[t] = "idle"
        BY <1>1, <4>1 DEF Openers
      <4> QED
        BY <4>1, <4>2 DEF OneAtATime
    <3> QED
      BY <2>1, <3>1, <3>2
  <2>4. SnapshotsAreQuiet' /\ TagIsCurrent'
    BY <1>1, <1>4, <2>1, <2>2
       DEF Sealed, SealTypes, SnapshotsAreQuiet, TagIsCurrent, OpenWindow, Openers
  <2> QED
    BY <1>2, <1>3, <2>3, <2>4 DEF Sealed
<1>5. CASE WindowDrained(w)
  <2>1. Inside = {}
    BY <1>5, QuietMeansEmpty DEF Sealed, WindowDrained
  <2>2. OneAtATime'
    BY <1>1, <1>5 DEF Sealed, SealTypes, OneAtATime, WindowDrained, Openers
  <2>3. SnapshotsAreQuiet' /\ TagIsCurrent'
    BY <1>1, <1>5, <2>1
       DEF Sealed, SealTypes, OneAtATime, SnapshotsAreQuiet, TagIsCurrent, WindowDrained, Openers
  <2> QED
    BY <1>2, <1>3, <2>2, <2>3 DEF Sealed
<1>6. CASE \E ok \in BOOLEAN : CloseWindow(w, ok)
  <2>1. overlapped \/ \A v \in Openers : seal'[v] = "idle"
    BY <1>1, <1>6 DEF Sealed, SealTypes, OneAtATime, CloseWindow
  <2>2. OneAtATime'
    BY <1>6, <2>1 DEF OneAtATime, CloseWindow, Openers
  <2>3. SnapshotsAreQuiet' /\ TagIsCurrent'
    BY <1>1, <1>6, <2>1 DEF Sealed, SnapshotsAreQuiet, TagIsCurrent, CloseWindow, Openers
  <2> QED
    BY <1>2, <1>3, <2>2, <2>3 DEF Sealed
<1> QED
  BY <1>4, <1>5, <1>6

(* A drain that is cancelled closes its window and leaves the gate shut.   *)
LEMMA SealedCancel ==
  ASSUME Sealed, NEW w \in Openers, CancelDraining(w)
  PROVE  Sealed'
<1>1. Inside' = Inside
  BY DEF Inside, CancelDraining
<1>2. GateTypes' /\ SealTypes'
  BY <1>1 DEF Sealed, GateTypes, SealTypes, CancelDraining
<1>3. OneAtATime'
  BY DEF Sealed, SealTypes, OneAtATime, CancelDraining, Openers
<1>4. SnapshotsAreQuiet' /\ TagIsCurrent'
  BY <1>1 DEF Sealed, SealTypes, SnapshotsAreQuiet, TagIsCurrent, CancelDraining, Openers
<1> QED
  BY <1>2, <1>3, <1>4 DEF Sealed

(* Steps that leave the barrier alone.                                     *)
LEMMA SealedIdle ==
  ASSUME Sealed, UNCHANGED barrier
  PROVE  Sealed'
<1>1. Inside' = Inside
  BY DEF Inside, barrier
<1> QED
  BY <1>1 DEF barrier, Sealed, GateTypes, SealTypes, OneAtATime, SnapshotsAreQuiet, TagIsCurrent

(* Every step keeps the invariant.                                         *)
LEMMA SealedStep == Sealed /\ [Next]_vars => Sealed'
<1> SUFFICES ASSUME Sealed, [Next]_vars PROVE Sealed'
  OBVIOUS
<1>1. CASE Manage \/ \E t \in Tasks : End(t)
  BY <1>1, SealedIdle DEF Manage, End
<1>2. CASE BarrierNext
  BY <1>2, SealedTrigger, SealedDrained, SealedWindow, SealedCancel DEF BarrierNext, Openers
<1>3. CASE \E m \in Mutators : Mutate(m)
  BY <1>3, SealedMutate
<1>4. CASE \E t \in Tasks : Unwound(t)
  BY <1>4, SealedExit, StateAssumption DEF Unwound
<1>5. CASE UNCHANGED vars
  BY <1>5, SealedIdle DEF vars
<1> QED
  BY <1>1, <1>2, <1>3, <1>4, <1>5 DEF Next, Guard

(* mutation_window() and snapshot_window() exclude each other: no snapshot *)
(* is ever taken in the middle of a mutation, and an open window that has  *)
(* not overlapped with another has nobody inside.                          *)
THEOREM QuietSnapshots == Spec => []SnapshotsAreQuiet
<1>1. Sealed => SnapshotsAreQuiet
  BY DEF Sealed
<1> QED
  BY SealedInit, SealedStep, <1>1, PTL DEF Spec

(* The epoch trigger_snapshot() has read before it drained is the epoch it *)
(* seals, unless windows have overlapped.                                  *)
THEOREM CurrentTags == Spec => []TagIsCurrent
<1>1. Sealed => TagIsCurrent
  BY DEF Sealed
<1> QED
  BY SealedInit, SealedStep, <1>1, PTL DEF Spec


-------------------------------------------------------------------------------
(***************************************************************************)
(* Types: the counter, the epochs and the queue stay in their bounds.      *)
(***************************************************************************)

(* The queue holds a task once, and only one that was submitted.           *)
QueueInv ==
  /\ ManagerTypeOK
  /\ \A i \in 1 .. Len(queue) : state[queue[i]] # "NONE"

(* Each opening advances the epoch once at most, and not before it closes. *)
EpochInv ==
  /\ IsFiniteSet(Open)
  /\ opened \in 0 .. MaxWindows
  /\ epoch + Cardinality(Open) <= opened
  /\ \A t \in Triggers : seal[t] # "inside"
  /\ tag \in [Triggers -> 0 .. MaxWindows]
  /\ overlapped \in BOOLEAN /\ abandoned \in BOOLEAN

Typed == Sealed /\ QueueInv /\ EpochInv

(* The openings bound the epoch.                                           *)
LEMMA EpochBound ==
  ASSUME SealTypes, EpochInv
  PROVE  epoch \in 0 .. MaxWindows /\ epoch <= opened /\ Cardinality(Open) \in Nat
<1>1. Cardinality(Open) \in Nat
  BY FS_CardinalityType DEF EpochInv
<1> QED
  BY <1>1, BarrierAssumption DEF EpochInv, SealTypes

(* What holds at first.                                                    *)
LEMMA TypedInit == Init => Typed
<1> SUFFICES ASSUME Init PROVE Typed
  OBVIOUS
<1>1. QueueInv
  <2>1. queue \in Seq(Tasks) /\ Len(queue) = 0
    BY DEF Init, ManagerInit
  <2>2. IsInjective(queue)
    BY <2>1 DEF IsInjective
  <2>3. stops \in 0 .. MaxStops
    BY ManagerAssumption DEF Init, ManagerInit
  <2>4. ManagerTypeOK
    BY <2>1, <2>2, <2>3 DEF Init, ManagerInit, ManagerTypeOK
  <2> QED
    BY <2>1, <2>4 DEF QueueInv
<1>2. Open = {}
  BY DEF Init, BarrierInit, Open
<1>3. EpochInv
  <2>1. IsFiniteSet(Open) /\ Cardinality(Open) = 0
    BY <1>2, FS_EmptySet
  <2>2. opened = 0 /\ epoch = 0 /\ 0 \in 0 .. MaxWindows
    BY BarrierAssumption DEF Init, BarrierInit
  <2>3. tag \in [Triggers -> 0 .. MaxWindows] /\ \A t \in Triggers : seal[t] # "inside"
    BY <2>2 DEF Init, BarrierInit
  <2>4. overlapped \in BOOLEAN /\ abandoned \in BOOLEAN
    BY DEF Init, BarrierInit
  <2> QED
    BY <2>1, <2>2, <2>3, <2>4 DEF EpochInv
<1> QED
  BY <1>1, <1>3, SealedInit DEF Typed

(* The task manager: the queue.                                            *)
LEMMA QueueStep ==
  ASSUME QueueInv,
         \/ Start \/ Stop \/ Take \/ Resume
         \/ \E t \in Tasks : \/ Submit(t) \/ Execute(t) \/ CancelTask(t) \/ Unwind(t)
                             \/ \E ok \in BOOLEAN : Finish(t, ok)
  PROVE  QueueInv'
<1> USE DEF QueueInv
<1>1. ASSUME NEW t \in Tasks, Submit(t) PROVE QueueInv'
  <2>1. state[t] = "NONE" /\ queue \in Seq(Tasks) /\ IsInjective(queue)
    BY <1>1 DEF Submit, ManagerTypeOK
  <2>2. \A i \in 1 .. Len(queue) : queue[i] # t
    BY <2>1
  <2>3. /\ queue' \in Seq(Tasks) /\ Len(queue') = Len(queue) + 1
        /\ \A i \in 1 .. Len(queue) : queue'[i] = queue[i]
        /\ queue'[Len(queue) + 1] = t
    BY <1>1, <2>1 DEF Submit
  <2>4. IsInjective(queue')
    BY <2>1, <2>2, <2>3 DEF IsInjective
  <2>5. \A i \in 1 .. Len(queue') : state'[queue'[i]] # "NONE"
    BY <1>1, <2>1, <2>3 DEF Submit, ManagerTypeOK
  <2> QED
    BY <1>1, <2>3, <2>4, <2>5 DEF Submit, ManagerTypeOK, TaskState
<1>2. CASE Take
  <2>1. queue \in Seq(Tasks) /\ queue # <<>> /\ queue' = Tail(queue) /\ IsInjective(queue)
    BY <1>2 DEF Take, ManagerTypeOK
  <2>2. /\ queue' \in Seq(Tasks) /\ Len(queue') = Len(queue) - 1 /\ Head(queue) \in Tasks
        /\ \A i \in 1 .. Len(queue') : queue'[i] = queue[i + 1]
    BY <2>1
  <2>3. IsInjective(queue')
    BY <2>1, <2>2 DEF IsInjective
  <2>4. \A i \in 1 .. Len(queue') : state'[queue'[i]] # "NONE"
    BY <1>2, <2>1, <2>2 DEF Take
  <2> QED
    BY <1>2, <2>2, <2>3, <2>4 DEF Take, ManagerTypeOK
<1>3. CASE Start \/ Stop \/ Resume
  <2>1. UNCHANGED <<state, queue>>
    BY <1>3 DEF Start, Stop, Resume
  <2>2. stops' \in 0 .. MaxStops
    BY <1>3, ManagerAssumption DEF Start, Stop, Resume, ManagerTypeOK
  <2>3. isRunning' \in BOOLEAN
    BY <1>3 DEF Start, Stop, Resume, ManagerTypeOK
  <2>4. worker' \in {"off", "get", "await", "over"} /\ current' \in Tasks \cup {NoTask}
    BY <1>3 DEF Start, Stop, Resume, ManagerTypeOK
  <2>5. body' \in [Tasks -> {"none", "created", "active", "cancelling", "done"}]
    BY <1>3 DEF Start, Stop, Resume, ManagerTypeOK
  <2> QED
    BY <2>1, <2>2, <2>3, <2>4, <2>5 DEF ManagerTypeOK
<1>4. ASSUME NEW t \in Tasks,
             Execute(t) \/ CancelTask(t) \/ Unwind(t) \/ \E ok \in BOOLEAN : Finish(t, ok)
      PROVE  QueueInv'
  <2>1. /\ state' \in [Tasks -> TaskState \cup {"NONE"}]
        /\ \A s \in Tasks : state[s] # "NONE" => state'[s] # "NONE"
    BY <1>4 DEF Execute, CancelTask, Unwind, Finish, ManagerTypeOK, TaskState
  <2>2. /\ body' \in [Tasks -> {"none", "created", "active", "cancelling", "done"}]
        /\ UNCHANGED <<queue, isRunning, worker, current, stops>>
    BY <1>4 DEF Execute, CancelTask, Unwind, Finish, ManagerTypeOK
  <2>3. \A i \in 1 .. Len(queue) : queue[i] \in Tasks
    BY DEF ManagerTypeOK
  <2> QED
    BY <2>1, <2>2, <2>3 DEF ManagerTypeOK
<1> QED
  BY <1>1, <1>2, <1>3, <1>4

(* An opening and its end change the set of open windows by one.           *)
LEMMA OpenChanges ==
  ASSUME Sealed, EpochInv, NEW w \in Openers, NEW s,
         seal' = [seal EXCEPT ![w] = s]
  PROVE  /\ IsFiniteSet(Open') /\ Cardinality(Open') \in Nat
         /\ Open' = IF s = "idle" THEN Open \ {w} ELSE Open \cup {w}
         /\ seal[w] = "idle" /\ s # "idle" => Cardinality(Open') = Cardinality(Open) + 1
         /\ seal[w] # "idle" /\ s = "idle" => Cardinality(Open') = Cardinality(Open) - 1
         /\ (seal[w] = "idle") <=> (s = "idle") => Open' = Open
<1>1. Open' = IF s = "idle" THEN Open \ {w} ELSE Open \cup {w}
  BY DEF Sealed, SealTypes, Open, Openers
<1>2. w \in Open <=> seal[w] # "idle"
  BY DEF Open, Openers
<1>3. IsFiniteSet(Open)
  BY DEF EpochInv
<1>4. /\ IsFiniteSet(Open \ {w}) /\ IsFiniteSet(Open \cup {w})
      /\ w \in Open => Cardinality(Open \ {w}) = Cardinality(Open) - 1
      /\ w \notin Open => Cardinality(Open \cup {w}) = Cardinality(Open) + 1
  BY <1>3, FS_AddElement, FS_RemoveElement
<1>5. IsFiniteSet(Open') /\ Cardinality(Open') \in Nat
  BY <1>1, <1>4, FS_CardinalityType
<1> QED
  BY <1>1, <1>2, <1>4, <1>5


(* The steps of the barrier: the epochs.                                   *)
LEMMA EpochStep ==
  ASSUME Sealed, EpochInv, BarrierNext
  PROVE  EpochInv'
<1> USE DEF EpochInv
<1>1. epoch \in 0 .. MaxWindows /\ epoch \in Nat /\ Cardinality(Open) \in Nat
  BY EpochBound DEF Sealed, SealTypes
<1>2. ASSUME NEW t \in Triggers, NEW tagged, NEW ending \in Endings, Seal(t, tagged, ending)
      PROVE  /\ epoch' \in {epoch, epoch + 1}
             /\ seal' = [seal EXCEPT ![t] = "idle"]
             /\ \A u \in Triggers : seal'[u] # "inside"
  BY <1>2 DEF Seal, Sealed, SealTypes, Openers
<1>3. ASSUME NEW t \in Triggers, Trigger(t) PROVE EpochInv'
  <2>1. /\ opened' = opened + 1 /\ opened' \in 0 .. MaxWindows
        /\ tag' = [tag EXCEPT ![t] = epoch] /\ seal[t] = "idle"
        /\ UNCHANGED <<overlapped, abandoned>>
    BY <1>3, BarrierAssumption DEF Trigger
  <2>2. tag' \in [Triggers -> 0 .. MaxWindows]
    BY <1>1, <2>1
  <2>3. CASE Quiet
    <3>1. PICK ending \in Endings : Seal(t, epoch, ending)
      BY <1>3, <2>3 DEF Trigger
    <3>2. Open' = Open
      BY <1>2, <2>1, <3>1, OpenChanges DEF Openers
    <3> QED
      BY <1>1, <1>2, <2>1, <2>2, <3>1, <3>2
  <2>4. CASE ~Quiet
    <3>1. seal' = [seal EXCEPT ![t] = "draining"] /\ epoch' = epoch
      BY <1>3, <2>4 DEF Trigger
    <3>2. IsFiniteSet(Open') /\ Cardinality(Open') = Cardinality(Open) + 1
      BY <2>1, <3>1, OpenChanges DEF Openers
    <3>3. \A u \in Triggers : seal'[u] # "inside"
      BY <3>1 DEF Sealed, SealTypes, Openers
    <3> QED
      BY <1>1, <2>1, <2>2, <3>1, <3>2, <3>3
  <2> QED
    BY <2>3, <2>4
<1>4. ASSUME NEW t \in Triggers, Drained(t) PROVE EpochInv'
  <2>1. PICK ending \in Endings : Seal(t, tag[t], ending)
    BY <1>4 DEF Drained
  <2>2. seal[t] = "draining" /\ UNCHANGED <<tag, opened, overlapped, abandoned>>
    BY <1>4 DEF Drained
  <2>3. IsFiniteSet(Open') /\ Cardinality(Open') = Cardinality(Open) - 1
    BY <1>2, <2>1, <2>2, OpenChanges DEF Openers
  <2> QED
    BY <1>1, <1>2, <2>1, <2>2, <2>3
<1>5. ASSUME NEW w \in Windows, OpenWindow(w) PROVE EpochInv'
  <2>1. /\ opened' = opened + 1 /\ opened' \in 0 .. MaxWindows /\ seal[w] = "idle"
        /\ overlapped' \in BOOLEAN /\ UNCHANGED <<epoch, tag, abandoned>>
    BY <1>5, BarrierAssumption DEF OpenWindow
  <2>2. PICK s \in {"inside", "draining"} : seal' = [seal EXCEPT ![w] = s]
    BY <1>5 DEF OpenWindow
  <2>3. IsFiniteSet(Open') /\ Cardinality(Open') = Cardinality(Open) + 1
    BY <2>1, <2>2, OpenChanges DEF Openers
  <2>4. \A u \in Triggers : seal'[u] # "inside"
    BY <2>2, BarrierAssumption DEF Sealed, SealTypes, Openers
  <2> QED
    BY <1>1, <2>1, <2>3, <2>4
<1>6. ASSUME NEW w \in Windows, WindowDrained(w) PROVE EpochInv'
  <2>1. /\ seal' = [seal EXCEPT ![w] = "inside"] /\ seal[w] = "draining"
        /\ UNCHANGED <<epoch, tag, opened, overlapped, abandoned>>
    BY <1>6 DEF WindowDrained
  <2>2. Open' = Open
    BY <2>1 DEF Sealed, SealTypes, Open, Openers
  <2>3. \A u \in Triggers : seal'[u] # "inside"
    BY <2>1, BarrierAssumption DEF Sealed, SealTypes, Openers
  <2> QED
    BY <2>1, <2>2, <2>3
<1>7. ASSUME NEW w \in Windows, NEW ok \in BOOLEAN, CloseWindow(w, ok) PROVE EpochInv'
  <2>1. /\ seal' = [seal EXCEPT ![w] = "idle"] /\ seal[w] = "inside"
        /\ epoch' \in {epoch, epoch + 1}
        /\ UNCHANGED <<tag, opened, overlapped, abandoned>>
    BY <1>7 DEF CloseWindow
  <2>2. IsFiniteSet(Open') /\ Cardinality(Open') = Cardinality(Open) - 1
    BY <2>1, OpenChanges DEF Openers
  <2>3. \A u \in Triggers : seal'[u] # "inside"
    BY <2>1 DEF Sealed, SealTypes, Openers
  <2> QED
    BY <1>1, <2>1, <2>2, <2>3
<1>8. ASSUME NEW w \in Openers, CancelDraining(w) PROVE EpochInv'
  <2>1. /\ seal' = [seal EXCEPT ![w] = "idle"] /\ seal[w] = "draining" /\ abandoned' = TRUE
        /\ UNCHANGED <<epoch, tag, opened, overlapped>>
    BY <1>8 DEF CancelDraining
  <2>2. IsFiniteSet(Open') /\ Cardinality(Open') = Cardinality(Open) - 1
    BY <2>1, OpenChanges
  <2>3. \A u \in Triggers : seal'[u] # "inside"
    BY <2>1 DEF Sealed, SealTypes, Openers
  <2> QED
    BY <1>1, <2>1, <2>2, <2>3
<1> QED
  BY <1>3, <1>4, <1>5, <1>6, <1>7, <1>8 DEF BarrierNext, Openers

(* A step of the one leaves alone what the other counts.                   *)
LEMMA TypedStep == Typed /\ [Next]_vars => Typed'
<1> SUFFICES ASSUME Typed, [Next]_vars PROVE Typed'
  OBVIOUS
<1> USE DEF Typed
<1>1. Sealed'
  BY SealedStep
<1>2. ASSUME UNCHANGED manager PROVE QueueInv'
  BY <1>2 DEF manager, QueueInv, ManagerTypeOK
<1>3. ASSUME UNCHANGED <<epoch, seal, tag, opened, overlapped, abandoned>> PROVE EpochInv'
  <2>1. Open' = Open
    BY <1>3 DEF Open
  <2> QED
    BY <1>3, <2>1 DEF EpochInv
<1>4. CASE Manage
  BY <1>1, <1>3, <1>4, QueueStep DEF Manage, barrier
<1>5. CASE Guard
  BY <1>1, <1>2, <1>5, EpochStep DEF Guard
<1>6. ASSUME NEW m \in Mutators, Mutate(m) PROVE Typed'
  BY <1>1, <1>2, <1>3, <1>6 DEF Mutate, Enter, Admit, Exit
<1>7. ASSUME NEW t \in Tasks, End(t) \/ Unwound(t) PROVE Typed'
  BY <1>1, <1>3, <1>7, QueueStep DEF End, Unwound, Exit, barrier
<1>8. CASE UNCHANGED vars
  BY <1>1, <1>2, <1>3, <1>8 DEF vars, barrier
<1> QED
  BY <1>4, <1>5, <1>6, <1>7, <1>8 DEF Next

(* Every variable keeps its type: the counter of the barrier is the number *)
(* of agents inside whatever was cancelled, the epoch never passes the     *)
(* number of windows, and no task is queued twice.                         *)
THEOREM StateTypes == Spec => []TypeOK
<1>1. Typed => TypeOK
  <2> SUFFICES ASSUME Typed PROVE TypeOK
    OBVIOUS
  <2>1. epoch \in 0 .. MaxWindows
    BY EpochBound DEF Typed, Sealed
  <2>2. BarrierTypeOK
    BY <2>1 DEF Typed, Sealed, GateTypes, SealTypes, EpochInv, BarrierTypeOK, Openers, Snapshots
  <2> QED
    BY <2>2 DEF Typed, QueueInv, TypeOK
<1> QED
  BY <1>1, TypedInit, TypedStep, PTL DEF Spec
===============================================================================
