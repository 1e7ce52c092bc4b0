---------------------------- MODULE IntentRuntime ----------------------------
(***************************************************************************)
(* The dispatcher together with IntentRecovery                             *)
(* (core/execution/intent_recovery.py) over the same journal and disk, and *)
(* the kernel process they run in, which may crash and be restarted.       *)
(*                                                                         *)
(* One caller at a time runs a recovery: scan_orphaned(), or reconcile()   *)
(* of one intent.  (reconcile() of a RUNNING intent first runs the scan:   *)
(* here a scan followed by a reconcile.)  The code does not keep recovery  *)
(* and dispatch apart; RecoveryAlone says whether the kernel's callers do, *)
(* as docs/runtime/RUNTIME_SEMANTIC_LAWS.md, law 2, asks.                  *)
(***************************************************************************)
EXTENDS IntentDispatch

CONSTANTS RecoveryAlone,   \* recovery runs only while no call is running
          MaxCrashes       \* bound on kernel crashes

ASSUME RuntimeAssumption ==
  /\ RecoveryAlone \in BOOLEAN
  /\ MaxCrashes \in Nat

VARIABLES up,        \* the kernel process runs
          crashes,   \* kernel crashes so far
          rec,       \* rec: what the running recovery does next
          seen,      \* seen[i]: the lineage its analysis returned
          todo,      \* the intents its scan has still to look at
          who,       \* the intent it works on
          matched    \* whether the disk held the intended bytes

recVars == <<rec, seen, todo, who, matched>>
vars == <<dispatchVars, up, crashes, recVars>>

RecoverySteps == {"off", "scan", "invalidate", "recover", "observe", "publish",
                  "settle"}

Init ==
  /\ DispatchInit
  /\ up = TRUE
  /\ crashes = 0
  /\ rec = "off"
  /\ seen = NoLines
  /\ todo = {}
  /\ who \in Intents
  /\ matched = FALSE

TypeOK ==
  /\ DispatchTypeOK
  /\ up \in BOOLEAN
  /\ crashes \in 0 .. MaxCrashes
  /\ rec \in RecoverySteps
  /\ seen \in [Intents -> Seq(IntentExecutionState)]
  /\ todo \subseteq Intents
  /\ who \in Intents
  /\ matched \in BOOLEAN

Quiescent == \A i \in Intents : pc[i] \notin InCall

MayRecover == up /\ rec = "off" /\ (RecoveryAlone => Quiescent)
MayDispatch == up /\ (RecoveryAlone => rec = "off")

(* _analyze() returns, and _reconstruct() rebuilds the state machines.     *)
RecoveryProceeds(ids) == NoDivergence /\ \A i \in ids : LegalLineage(wal[i])

(* The contract journaled with QUEUED has a path and a digest.             *)
HasContract(i) == i \notin InProcess

-------------------------------------------------------------------------------
(* A journal record or an event of the recovery; if it raises, the         *)
(* recovery ends where it stands.                                          *)
RecoveryLogs(i, s, next) ==
  /\ \/ LogReturns(i, s) /\ rec' = next
     \/ LogRaises(i, s) /\ rec' = "off"
  /\ UNCHANGED <<laneVars, callVars>>

RecoveryEmits(next) ==
  /\ \/ rec' = next /\ UNCHANGED <<attested, emitFaults>>
     \/ rec' = "off" /\ EmitRaises
  /\ UNCHANGED <<journalVars, laneVars, pc, mem, via, answer>>

(* Mutant: the scan overlooks the RUNNING intents.                         *)
ScanUnsent ==
  /\ MayRecover
  /\ RecoveryProceeds(Intents)
  /\ rec' = "scan"
  /\ seen' = wal
  /\ todo' = {i \in Intents : Current(wal[i]) \in {"QUEUED", "DISPATCHED"}}
  /\ UNCHANGED <<dispatchVars, who, matched>>

(* scan_orphaned(): the analysis is taken once, then one intent at a time  *)
(* (in the order of the ids; any order here).                              *)
Scan ==
  /\ MayRecover
  /\ RecoveryProceeds(Intents)
  /\ rec' = "scan"
  /\ seen' = wal
  /\ todo' = {i \in Intents : Current(wal[i]) \in {"QUEUED", "DISPATCHED", "RUNNING"}}
  /\ UNCHANGED <<dispatchVars, who, matched>>

OrphanRunning(i) ==
  /\ rec = "scan"
  /\ i \in todo
  /\ Current(seen[i]) = "RUNNING"
  /\ RecoveryLogs(i, "ORPHANED", "invalidate")
  /\ todo' = todo \ {i}
  /\ who' = i
  /\ UNCHANGED <<seen, matched>>

PublishInvalidated ==
  /\ rec = "invalidate"
  /\ RecoveryEmits("scan")
  /\ UNCHANGED <<seen, todo, who, matched>>

(* Mutant: RUNNING is taken for a state before the effect.                 *)
AbortRunningToo(i) ==
  /\ rec = "scan"
  /\ i \in todo
  /\ RecoveryLogs(i, "ABORTED", "scan")
  /\ todo' = todo \ {i}
  /\ UNCHANGED <<seen, who, matched>>

AbortUnsent(i) ==
  /\ rec = "scan"
  /\ i \in todo
  /\ Current(seen[i]) \in {"QUEUED", "DISPATCHED"}
  /\ RecoveryLogs(i, "ABORTED", "scan")
  /\ todo' = todo \ {i}
  /\ UNCHANGED <<seen, who, matched>>

ScanEnds ==
  /\ rec = "scan"
  /\ todo = {}
  /\ rec' = "off"
  /\ UNCHANGED <<dispatchVars, seen, todo, who, matched>>

ReconcileFrom(i, states) ==
  /\ MayRecover
  /\ RecoveryProceeds({i})
  /\ Current(wal[i]) \in states
  /\ rec' = "recover"
  /\ who' = i
  /\ UNCHANGED <<dispatchVars, seen, todo, matched>>

(* Mutant: a failed intent is reconciled.                                  *)
ReconcileFailed(i) == ReconcileFrom(i, {"ORPHANED", "FAILED"})

(* reconcile(): only an ORPHANED intent is accepted.                       *)
Reconcile(i) == ReconcileFrom(i, {"ORPHANED"})

LogRecovering ==
  /\ rec = "recover"
  /\ RecoveryLogs(who, "RECOVERING", "observe")
  /\ UNCHANGED <<seen, todo, who, matched>>

(* observe_file() and the comparison; without a contract there is nothing  *)
(* to compare.                                                             *)
ObserveEffect ==
  /\ rec = "observe"
  /\ matched' = (HasContract(who) /\ Holds(who))
  /\ rec' = "publish"
  /\ UNCHANGED <<dispatchVars, seen, todo, who>>

(* Mutant: the reconciliation is published as a success either way.        *)
PublishSuccess ==
  /\ rec = "publish"
  /\ rec' = "settle"
  /\ attested' = [attested EXCEPT ![who] = @ \cup {TRUE}]
  /\ UNCHANGED <<journalVars, laneVars, pc, mem, via, answer, emitFaults,
                 seen, todo, who, matched>>

PublishVerdict ==
  /\ rec = "publish"
  /\ \/ /\ rec' = "settle"
        /\ attested' = [attested EXCEPT ![who] = @ \cup {matched}]
        /\ UNCHANGED emitFaults
     \/ rec' = "off" /\ EmitRaises
  /\ UNCHANGED <<journalVars, laneVars, pc, mem, via, answer,
                 seen, todo, who, matched>>

SettleOrphan ==
  /\ rec = "settle"
  /\ RecoveryLogs(who, IF matched THEN "RECONCILED" ELSE "FAILED", "off")
  /\ UNCHANGED <<seen, todo, who, matched>>

Recover ==
  \/ \E i \in Intents : OrphanRunning(i) \/ AbortUnsent(i) \/ Reconcile(i)
  \/ Scan \/ PublishInvalidated \/ ScanEnds
  \/ LogRecovering \/ ObserveEffect \/ PublishVerdict \/ SettleOrphan

-------------------------------------------------------------------------------
(* The kernel process dies: calls, recovery, state machines and file       *)
(* objects vanish, and with the process its Job Objects, so the workers.   *)
Crash ==
  /\ up
  /\ crashes < MaxCrashes
  /\ crashes' = crashes + 1
  /\ up' = FALSE
  /\ JournalCrash
  /\ LaneCrash
  /\ pc' = [i \in Intents |-> IF pc[i] \in InCall THEN "gone" ELSE pc[i]]
  /\ mem' = [i \in Intents |-> "CREATED"]
  /\ via' = [i \in Intents |-> 0]
  /\ answer' = [i \in Intents |-> "none"]
  /\ rec' = "off"
  /\ seen' = NoLines
  /\ todo' = {}
  /\ UNCHANGED <<attested, emitFaults, who, matched>>

Restart ==
  /\ ~up
  /\ up' = TRUE
  /\ UNCHANGED <<dispatchVars, crashes, recVars>>

Start(i) == MayDispatch /\ (Refuse(i) \/ EncodeFails(i) \/ Submit(i))

CallStep ==
  /\ \/ \E i \in Intents : Start(i) \/ Continue(i)
     \/ \E w \in Workers : WorkerStep(w)
  /\ UNCHANGED <<up, crashes, recVars>>

Next ==
  \/ CallStep
  \/ Recover /\ UNCHANGED <<up, crashes>>
  \/ Crash
  \/ Restart

Spec == Init /\ [][Next]_vars

(* The threads of calls and of a running recovery keep running, a crashed  *)
(* kernel is restarted, and its caller scans and then reconciles what the  *)
(* scan reports.  Workers need no fairness: each wait has a deadline, all  *)
(* but the write into the pipe, which ends for certain only when the       *)
(* process is gone.                                                        *)
Blocked(i) == pc[i] = "send" /\ workers[via[i]].alive

RecoveryContinues ==
  \/ \E i \in Intents : OrphanRunning(i) \/ AbortUnsent(i)
  \/ PublishInvalidated \/ ScanEnds
  \/ LogRecovering \/ ObserveEffect \/ PublishVerdict \/ SettleOrphan

Fairness ==
  /\ \A i \in Intents :
       WF_vars(~Blocked(i) /\ Continue(i) /\ UNCHANGED <<up, crashes, recVars>>)
  /\ WF_vars(RecoveryContinues /\ UNCHANGED <<up, crashes>>)
  /\ WF_vars(Scan /\ UNCHANGED <<up, crashes>>)
  /\ \A i \in Intents : SF_vars(Reconcile(i) /\ UNCHANGED <<up, crashes>>)
  /\ WF_vars(Restart)

FairSpec == Spec /\ Fairness

-------------------------------------------------------------------------------
(* Liveness *)

(* A call behind the lock of a supervisor that never lets go of it: held by *)
(* a blocked call, or by a stop() that itself waits for the pipe.          *)
LockedOut(i) ==
  /\ pc[i] = "lock"
  /\ \/ workers[via[i]].state = "TERMINATING"
     \/ \E j \in Intents : Blocked(j) /\ via[j] = via[i]

(* Every accepted call ends, however its worker and the journal behave,    *)
(* unless a pipe that is never read holds it for good.                     *)
CallsEnd ==
  \A i \in Intents :
    pc[i] = "dispatch" ~> pc[i] \in Ended \/ [](Blocked(i) \/ LockedOut(i))

(* The exception is real (README, section 7).                              *)
DeadlinesHold == \A i \in Intents : pc[i] = "dispatch" ~> pc[i] \in Ended

(* An intent whose call is over and whose fate is still open (VERIFYING    *)
(* excepted, which recovery declares deferred) is settled by recovery,     *)
(* unless the journal fails on the way or the reconciliation is cut short. *)
Unsettled(i) ==
  /\ pc[i] \in Ended
  /\ Current(wal[i]) \in {"QUEUED", "DISPATCHED", "RUNNING", "ORPHANED", "RECOVERING"}

CutShort(i) == Current(wal[i]) = "RECOVERING" /\ rec = "off"

OrphansSettle ==
  \A i \in Intents :
    Unsettled(i) ~> Current(wal[i]) \in Settled \/ CutShort(i) \/ walFaults > 0

(* "No orphans shall leak" is not kept (README, section 7): what a crash   *)
(* or a failing event leaves in RECOVERING stays there.                    *)
RecoveryResumes == \A i \in Intents : CutShort(i) ~> ~CutShort(i)

-------------------------------------------------------------------------------
(* Refinement *)

(* What the journal declares about an intent.                              *)
Fate(i) ==
  CASE Current(wal[i]) \in {"ABORTED", "REJECTED"}     -> "withdrawn"
    [] Current(wal[i]) \in {"COMPLETED", "RECONCILED"} -> "kept"
    [] Current(wal[i]) = "FAILED"                      -> "disowned"
    [] Current(wal[i]) \in {"CREATED", "QUEUED", "DISPATCHED"} -> "open"
    [] OTHER                                           -> "exposed"

Promise == INSTANCE IntentPromise WITH
  Claim   <- [i \in Intents |-> <<Target[i], Bytes[i]>>],
  Trusted <- InProcess,
  Given   <- Paths \X Contents,
  fate    <- [i \in Intents |-> Fate(i)],
  effects <- performed,
  held    <- {claim \in Paths \X Contents : claim[2] \in landed[claim[1]]}

(* While the journal does not fail, the kernel keeps what IntentPromise    *)
(* promises, through worker deaths, crashes and recoveries.                *)
KeepsPromise == Promise!PromiseSpec
===============================================================================
