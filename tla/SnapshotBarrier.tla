--------------------------- MODULE SnapshotBarrier ---------------------------
(***************************************************************************)
(* SnapshotBarrier and EpochManager (core/sync/synchronization.py) with    *)
(* their users: agents inside mutation_window(), trigger_snapshot()        *)
(* (core/state/state_snapshot.py, which saves through SnapshotStore), and  *)
(* whoever takes a snapshot_window() of the shared barrier directly.       *)
(*                                                                         *)
(* A step is what the event loop runs between two suspensions.  The lock   *)
(* of the condition is never held across one, and every change a waiter    *)
(* could wait for is notified to all: a waiter goes on when its predicate  *)
(* holds.  The body of trigger_snapshot() does not suspend.                *)
(***************************************************************************)
EXTENDS Naturals, FiniteSets, Sequences, SequencesExt

CONSTANTS Mutators,
          Triggers,   \* calls of trigger_snapshot()
          Windows,    \* direct users of snapshot_window()
          MaxWindows  \* bound on the openings of both kinds

ASSUME BarrierAssumption ==
  /\ IsFiniteSet(Mutators)
  /\ Triggers \cap Windows = {}
  /\ MaxWindows \in Nat

VARIABLES frozen,     \* _freeze_requested
          inFlight,   \* _mutation_count
          epoch,      \* EpochManager._epoch
          mut,        \* mut[m]: where m is in mutation_window()
          seal,       \* seal[w]: where w is in snapshot_window()
          tag,        \* tag[t]: epoch_at_begin
          saved,      \* the snapshots in the store, in the order of their saving
          opened,     \* windows opened so far (bound)
          overlapped, \* two snapshot windows have been open at once (history)
          abandoned   \* a drain has been cancelled (history)

barrier == <<frozen, inFlight, epoch, mut, seal, tag, saved, opened, overlapped,
             abandoned>>

Inside == {m \in Mutators : mut[m] = "inside"}
Open == {w \in Triggers \cup Windows : seal[w] # "idle"}

BarrierInit ==
  /\ frozen = FALSE
  /\ inFlight = 0
  /\ epoch = 0
  /\ mut = [m \in Mutators |-> "idle"]
  /\ seal = [w \in Triggers \cup Windows |-> "idle"]
  /\ tag = [t \in Triggers |-> 0]
  /\ saved = <<>>
  /\ opened = 0
  /\ overlapped = FALSE
  /\ abandoned = FALSE

(* The counter is the number of agents inside, whatever was cancelled.     *)
BarrierTypeOK ==
  /\ frozen \in BOOLEAN
  /\ inFlight = Cardinality(Inside)
  /\ epoch \in 0 .. MaxWindows
  /\ mut \in [Mutators -> {"idle", "waiting", "inside"}]
  /\ seal \in [Triggers \cup Windows -> {"idle", "draining", "inside"}]
  /\ \A t \in Triggers : seal[t] # "inside"
  /\ tag \in [Triggers -> 0 .. MaxWindows]
  /\ saved \in Seq([tag : Nat, at : Nat, inside : SUBSET Mutators])
  /\ opened \in 0 .. MaxWindows
  /\ {overlapped, abandoned} \subseteq BOOLEAN

-------------------------------------------------------------------------------
(* mutation_window()                                                        *)

(* Mutants: the freeze is not asked for; the drain is not waited for; the  *)
(* freeze outlives an aborted snapshot.                                    *)
AlwaysOpen == TRUE
NeverWaits == TRUE
LiftOnCommit(ending) == ending = "aborted"

GateOpen == ~frozen
Quiet == inFlight = 0

(* Mutant: a cancelled waiter gives back what it never had.                *)
GivesBack(m) == IF inFlight > 0 THEN inFlight - 1 ELSE 0

CountBehind(m) == IF mut[m] = "inside" THEN inFlight - 1 ELSE inFlight

Enter(m) ==
  /\ mut[m] = "idle"
  /\ IF GateOpen
     THEN mut' = [mut EXCEPT ![m] = "inside"] /\ inFlight' = inFlight + 1
     ELSE mut' = [mut EXCEPT ![m] = "waiting"] /\ UNCHANGED inFlight
  /\ UNCHANGED <<frozen, epoch, seal, tag, saved, opened, overlapped, abandoned>>

Admit(m) ==
  /\ mut[m] = "waiting" /\ GateOpen
  /\ mut' = [mut EXCEPT ![m] = "inside"]
  /\ inFlight' = inFlight + 1
  /\ UNCHANGED <<frozen, epoch, seal, tag, saved, opened, overlapped, abandoned>>

(* __aexit__, or the cancellation of __aenter__ while it waits.            *)
Exit(m) ==
  /\ mut' = [mut EXCEPT ![m] = "idle"]
  /\ inFlight' = CountBehind(m)
  /\ UNCHANGED <<frozen, epoch, seal, tag, saved, opened, overlapped, abandoned>>

-------------------------------------------------------------------------------
(* trigger_snapshot()                                                       *)

(* How the body may end: everything done; BEGIN, the capture or the save   *)
(* raises; COMMIT raises behind the save.                                  *)
Endings == {"committed", "aborted", "unpublished"}

Snapshot(t, tagged) ==
  [tag |-> tagged, at |-> epoch, inside |-> Inside]

(* __aexit__ lifts the freeze however the body ended.                      *)
FrozenAfter(ending) == FALSE

(* The drained barrier, the body and __aexit__: the epoch advances if      *)
(* nothing was raised.                                                     *)
Seal(t, tagged, ending) ==
  /\ Quiet
  /\ saved' = IF ending = "aborted" THEN saved ELSE Append(saved, Snapshot(t, tagged))
  /\ epoch' = IF ending = "committed" THEN epoch + 1 ELSE epoch
  /\ frozen' = FrozenAfter(ending)
  /\ seal' = [seal EXCEPT ![t] = "idle"]

(* A frozen barrier turns the trigger away; else it freezes, and goes on   *)
(* at once when no mutation is in flight.                                  *)
Trigger(t) ==
  /\ seal[t] = "idle" /\ GateOpen
  /\ opened < MaxWindows /\ opened' = opened + 1
  /\ tag' = [tag EXCEPT ![t] = epoch]
  /\ IF Quiet
     THEN \E ending \in Endings : Seal(t, epoch, ending)
     ELSE /\ frozen' = TRUE
          /\ seal' = [seal EXCEPT ![t] = "draining"]
          /\ UNCHANGED <<saved, epoch>>
  /\ UNCHANGED <<inFlight, mut, overlapped, abandoned>>

Drained(t) ==
  /\ seal[t] = "draining"
  /\ \E ending \in Endings : Seal(t, tag[t], ending)
  /\ UNCHANGED <<inFlight, mut, tag, opened, overlapped, abandoned>>

-------------------------------------------------------------------------------
(* snapshot_window() itself, whose body may suspend                         *)

OpenWindow(w) ==
  /\ seal[w] = "idle"
  /\ opened < MaxWindows /\ opened' = opened + 1
  /\ frozen' = TRUE
  /\ seal' = [seal EXCEPT ![w] = IF Quiet THEN "inside" ELSE "draining"]
  /\ overlapped' = (overlapped \/ Open # {})
  /\ UNCHANGED <<inFlight, epoch, mut, tag, saved, abandoned>>

WindowDrained(w) ==
  /\ seal[w] = "draining" /\ Quiet
  /\ seal' = [seal EXCEPT ![w] = "inside"]
  /\ UNCHANGED <<frozen, inFlight, epoch, mut, tag, saved, opened, overlapped, abandoned>>

CloseWindow(w, ok) ==
  /\ seal[w] = "inside"
  /\ seal' = [seal EXCEPT ![w] = "idle"]
  /\ frozen' = FALSE
  /\ epoch' = IF ok THEN epoch + 1 ELSE epoch
  /\ UNCHANGED <<inFlight, mut, tag, saved, opened, overlapped, abandoned>>

(* __aenter__ is cancelled while it drains: __aexit__ never runs.          *)
CancelDraining(w) ==
  /\ seal[w] = "draining"
  /\ seal' = [seal EXCEPT ![w] = "idle"]
  /\ abandoned' = TRUE
  /\ UNCHANGED <<frozen, inFlight, epoch, mut, tag, saved, opened, overlapped>>

BarrierNext ==
  \/ \E t \in Triggers : Trigger(t) \/ Drained(t)
  \/ \E w \in Windows : \/ OpenWindow(w) \/ WindowDrained(w)
                        \/ \E ok \in BOOLEAN : CloseWindow(w, ok)
  \/ \E w \in Triggers \cup Windows : CancelDraining(w)

-------------------------------------------------------------------------------
(* Correctness                                                              *)

(* No snapshot was taken in the middle of a mutation, and nobody mutates   *)
(* beside an open window, unless windows have overlapped.                  *)
SnapshotsAreQuiet ==
  /\ \A i \in DOMAIN saved : saved[i].inside = {}
  /\ overlapped \/ \A w \in Windows : seal[w] = "inside" => frozen /\ Inside = {}

(* A snapshot carries the epoch it seals, unless windows have overlapped.  *)
TagIsCurrent == overlapped \/ \A i \in DOMAIN saved : saved[i].tag = saved[i].at

(* The freeze of a window whose opener was cancelled while it drained.     *)
LeftFrozen == frozen /\ Open = {} /\ abandoned
===============================================================================
