---------------------------- MODULE IntentDispatch ----------------------------
(***************************************************************************)
(* IntentDispatcher (core/execution/intent_dispatcher.py): concurrent      *)
(* calls of dispatch_sync(), one per intent, over the recovery journal and *)
(* the worker lane.  A step of a call ends where another actor, a failing  *)
(* journal or a failing event bus may interfere: at each journal record,   *)
(* each published event and each contact with the worker or the disk.      *)
(*                                                                         *)
(* pc[i] names what call i does next; the last six values are the ways it  *)
(* ends.  An intent id is dispatched once (docs/authority_manifest.md      *)
(* declares a second dispatch of an id unsupported).                       *)
(***************************************************************************)
EXTENDS RecoveryJournal, WorkerLane

CONSTANTS InProcess,       \* the intents of the in-process adapter lane
          MaxEmitFaults    \* bound on the number of emit_sync() failures

ASSUME DispatchAssumption ==
  /\ InProcess \subseteq Intents
  /\ MaxEmitFaults \in Nat

VARIABLES pc,           \* pc[i]: the next step of intent i's call
          mem,          \* mem[i]: the state of its IntentStateMachine
          via,          \* via[i]: the worker its request went to, 0: none
          answer,       \* answer[i]: the result correlated to it so far
          attested,     \* attested[i]: outcomes published as VerificationEvent
          emitFaults    \* number of failed emissions so far

callVars == <<pc, mem, via, answer, attested, emitFaults>>
dispatchVars == <<journalVars, laneVars, callVars>>

Ended == {"rejected", "completed", "failed", "orphaned", "raised", "gone"}

InCall == {"dispatch", "announce", "run", "execute", "boot", "lock", "send",
           "wait", "adapter", "verify", "mutated", "observe", "attest", "complete",
           "deny", "diverged", "fail", "report", "orphan", "invalidate"}

DispatchInit ==
  /\ JournalInit
  /\ LaneInit
  /\ pc = [i \in Intents |-> "idle"]
  /\ mem = [i \in Intents |-> "CREATED"]
  /\ via = [i \in Intents |-> 0]
  /\ answer = [i \in Intents |-> "none"]
  /\ attested = [i \in Intents |-> {}]
  /\ emitFaults = 0

CallTypeOK ==
  /\ pc \in [Intents -> {"idle"} \cup InCall \cup Ended]
  /\ mem \in [Intents -> IntentExecutionState]
  /\ via \in [Intents -> 0 .. MaxDeaths + 1]
  /\ answer \in [Intents -> Answers \cup {"none"}]
  /\ attested \in [Intents -> SUBSET BOOLEAN]
  /\ emitFaults \in 0 .. MaxEmitFaults

DispatchTypeOK == JournalTypeOK /\ LaneTypeOK /\ CallTypeOK

callRest == <<journalVars, mem, attested, emitFaults>>

Goto(i, from, to) == pc[i] = from /\ pc' = [pc EXCEPT ![i] = to]

(* _transition(): the legality check, the durable record, and only then    *)
(* the in-memory state; a failing journal raises before the last.  A call  *)
(* never attempts an illegal transition (it would get stuck here).         *)
Transition(i, from, s, next, onRaise) ==
  /\ CanGo(mem[i], s)
  /\ \/ /\ LogReturns(i, s)
        /\ mem' = [mem EXCEPT ![i] = s]
        /\ Goto(i, from, next)
     \/ /\ LogRaises(i, s)
        /\ Goto(i, from, onRaise)
        /\ UNCHANGED mem
  /\ UNCHANGED <<laneVars, via, answer, attested, emitFaults>>

EmitRaises ==
  /\ emitFaults < MaxEmitFaults
  /\ emitFaults' = emitFaults + 1
  /\ UNCHANGED attested

(* _emit() of an ExecutionEvent.                                           *)
Emit(i, from, next, onRaise) ==
  /\ \/ Goto(i, from, next) /\ UNCHANGED <<attested, emitFaults>>
     \/ Goto(i, from, onRaise) /\ EmitRaises
  /\ UNCHANGED <<journalVars, laneVars, mem, via, answer>>

(* _emit() of a VerificationEvent with the given outcome.                  *)
EmitVerification(i, from, success, next, onRaise) ==
  /\ \/ /\ Goto(i, from, next)
        /\ attested' = [attested EXCEPT ![i] = @ \cup {success}]
        /\ UNCHANGED emitFaults
     \/ Goto(i, from, onRaise) /\ EmitRaises
  /\ UNCHANGED <<journalVars, laneVars, mem, via, answer>>

-------------------------------------------------------------------------------
(* prepare(): nothing it raises after the validation is handled by         *)
(* dispatch_sync(), so a failing journal or bus ends the call.             *)

(* Validation, capability or lane refuses the intent; that the REJECTED    *)
(* record could not be written is only logged.                             *)
Refuse(i) == Transition(i, "idle", "REJECTED", "rejected", "rejected")

(* _expected_digest() runs after the validation.  Content that cannot be   *)
(* encoded raises a ValueError, answered like a rejection but without any  *)
(* record; an unknown encoding raises past dispatch_sync().                *)
EncodeFails(i) ==
  /\ i \notin InProcess
  /\ \/ Goto(i, "idle", "rejected")
     \/ Goto(i, "idle", "raised")
  /\ UNCHANGED <<callRest, laneVars, answer, via>>

Submit(i) == Transition(i, "idle", "QUEUED", "dispatch", "raised")

Dispatch(i) == Transition(i, "dispatch", "DISPATCHED", "announce", "raised")

Announce(i) == Emit(i, "announce", "run", "raised")

(* Mutant: a RUNNING record that cannot be written is only logged.         *)
RunUnjournaled(i) == Transition(i, "run", "RUNNING", "execute", "execute")

Run(i) == Transition(i, "run", "RUNNING", "execute", "raised")

-------------------------------------------------------------------------------
(* ensure_worker(), execute_in_worker(), execute_in_process() *)

EnsureWorker(i) ==
  /\ i \notin InProcess
  /\ Goto(i, "execute", "boot")
  /\ \/ SupervisorAlive(sup) /\ UNCHANGED laneVars
     \/ ~SupervisorAlive(sup) /\ Launch(sup + 1)
  /\ via' = [via EXCEPT ![i] = sup']
  /\ UNCHANGED <<callRest, answer>>

(* The worker is READY: send_frame() begins, which has no deadline.        *)
FoundReady(i) ==
  /\ Goto(i, "boot", "lock")
  /\ workers[via[i]].state = "READY"
  /\ UNCHANGED <<callRest, laneVars, answer, via>>

(* The supervisor's lock: held by a call while it writes its frame, and by *)
(* stop() from TERMINATING to DEAD.                                        *)
Sending(w) == \E i \in Intents : pc[i] = "send" /\ via[i] = w

TakeLock(i) ==
  /\ Goto(i, "lock", "send")
  /\ ~Sending(via[i]) /\ workers[via[i]].state # "TERMINATING"
  /\ UNCHANGED <<callRest, laneVars, answer, via>>

(* write() and flush() return: the pipe had room, or the worker made some, *)
(* or the process is gone.                                                 *)
SendRequest(i) ==
  /\ Goto(i, "send", "wait")
  /\ SendFrame(via[i], i)
  /\ UNCHANGED <<callRest, answer, via, sup, deaths, storage>>

(* WorkerDiedError, while the worker boots or while its answer is awaited; *)
(* an answer that came after the last poll is not looked at again.         *)
SeesDeath(i) ==
  /\ \/ Goto(i, "boot", "orphan")
     \/ Goto(i, "wait", "orphan")
  /\ ~SupervisorAlive(via[i])
  /\ UNCHANGED <<callRest, laneVars, answer, via>>

(* Mutant: only the wait for READY has a deadline.                         *)
TimesOutInBoot(i) ==
  /\ Goto(i, "boot", "fail")
  /\ UNCHANGED <<callRest, laneVars, answer, via>>

(* The deadline for READY or for the answer passes; what the worker has in *)
(* its pipe is not recalled.                                               *)
TimesOut(i) ==
  /\ \/ Goto(i, "boot", "fail")
     \/ Goto(i, "wait", "fail")
  /\ UNCHANGED <<callRest, laneVars, answer, via>>

GotResult(i) ==
  /\ \/ answer[i] \in {"match", "differs"} /\ Goto(i, "wait", "verify")
     \/ answer[i] = "error" /\ Goto(i, "wait", "fail")
  /\ UNCHANGED <<callRest, laneVars, answer, via>>

(* _on_worker_frame(): an answer nobody waits for any more is dropped.     *)
DeliverResult(w) ==
  /\ TakeFrame(w)
  /\ LET m == Head(workers[w].outbox) IN
       answer' = IF pc[m.intent] = "wait"
                   THEN [answer EXCEPT ![m.intent] = m.answer]
                   ELSE answer
  /\ UNCHANGED <<callRest, pc, via>>

(* An in-process adapter runs in the caller's thread and has an effect or  *)
(* not; its result says so rightly or not.                                 *)
CallAdapter(i) ==
  /\ i \in InProcess
  /\ Goto(i, "execute", "adapter")
  /\ performed' \in {performed, performed \cup {i}}
  /\ UNCHANGED <<callRest, answer, via, workers, sup, deaths, file, landed>>

AdapterReturns(i) ==
  /\ \/ Goto(i, "adapter", "verify")
     \/ Goto(i, "adapter", "fail")
  /\ UNCHANGED <<callRest, laneVars, answer, via>>

-------------------------------------------------------------------------------
(* verify_and_complete() *)

Verify(i) == Transition(i, "verify", "VERIFYING", "mutated", "fail")

(* Only an intent with an intended digest is observed.                     *)
EmitMutated(i) ==
  Emit(i, "mutated", IF i \in InProcess THEN "attest" ELSE "observe", "fail")

(* Mutant: the observed digest is published but not compared.              *)
ObserveOnly(i) == Emit(i, "observe", "attest", "fail")

Observe(i) ==
  Emit(i, "observe",
       IF Holds(i) /\ answer[i] # "differs" THEN "attest" ELSE "deny", "fail")

(* Mutant: COMPLETED is journaled before the evidence is published.        *)
AttestLater(i) ==
  /\ Goto(i, "attest", "complete")
  /\ UNCHANGED <<callRest, laneVars, answer, via>>

Attest(i) == EmitVerification(i, "attest", TRUE, "complete", "fail")

(* Mutant: a failing COMPLETED record does not spoil the success.          *)
CompleteUnjournaled(i) ==
  Transition(i, "complete", "COMPLETED", "completed", "completed")

Complete(i) == Transition(i, "complete", "COMPLETED", "completed", "fail")

Deny(i) == EmitVerification(i, "deny", FALSE, "diverged", "fail")

Diverge(i) == Transition(i, "diverged", "FAILED", "failed", "fail")

-------------------------------------------------------------------------------
(* mark_failed() and mark_orphaned(); what they raise ends the call *)

MarkFailed(i) ==
  IF mem[i] \in TERMINAL_STATES
    THEN Goto(i, "fail", "failed")
         /\ UNCHANGED <<callRest, laneVars, answer, via>>
    ELSE Transition(i, "fail", IF mem[i] = "QUEUED" THEN "ABORTED" ELSE "FAILED",
                    "report", "raised")

ReportFailure(i) == EmitVerification(i, "report", FALSE, "failed", "raised")

MarkOrphaned(i) ==
  mem[i] = "RUNNING" /\ Transition(i, "orphan", "ORPHANED", "invalidate", "raised")

Invalidate(i) == Emit(i, "invalidate", "orphaned", "raised")

-------------------------------------------------------------------------------
(* The rest of a call once it is submitted.                                *)
Continue(i) ==
  \/ Dispatch(i) \/ Announce(i) \/ Run(i)
  \/ EnsureWorker(i) \/ FoundReady(i) \/ TakeLock(i) \/ SendRequest(i)
  \/ SeesDeath(i) \/ TimesOut(i)
  \/ GotResult(i) \/ CallAdapter(i) \/ AdapterReturns(i)
  \/ Verify(i) \/ EmitMutated(i) \/ Observe(i) \/ Attest(i) \/ Complete(i)
  \/ Deny(i) \/ Diverge(i)
  \/ MarkFailed(i) \/ ReportFailure(i) \/ MarkOrphaned(i) \/ Invalidate(i)

(* READY, and both ways into stop(), need the lock.                        *)
WorkerStep(w) ==
  \/ DeliverResult(w)
  \/ /\ \/ ~Sending(w) /\ (Handshake(w) \/ HeartbeatTimeout(w) \/ ReadEOF(w))
        \/ FinishStop(w)
        \/ RefuseRequest(w) \/ WriteTarget(w) \/ ReplyToWrite(w)
        \/ ProcessDies(w)
     /\ UNCHANGED <<journalVars, callVars>>

-------------------------------------------------------------------------------
(* Properties *)

(* WAL before effect (module docstring; _transition and step 4 of          *)
(* prepare): whatever reached the disk was announced by a durable RUNNING  *)
(* record first, so that no crash can hide it from recovery.               *)
EffectWasAnnounced == \A i \in performed : HasRecord(wal[i], "RUNNING")

(* What makes it so (the inductive form of EffectWasAnnounced): a call past *)
(* Run has its RUNNING record, and so has every request in a worker's pipe *)
(* and every write; and while a torn line, which would swallow the next    *)
(* record, waits at the end of the file, no call is running.               *)
Exposed == InCall \ {"dispatch", "announce", "run"}

AnnouncedBeforeEffect ==
  /\ \A i \in Intents : pc[i] \in Exposed => HasRecord(wal[i], "RUNNING")
  /\ \A w \in Workers : \A k \in DOMAIN workers[w].inbox :
        HasRecord(wal[workers[w].inbox[k]], "RUNNING")
  /\ EffectWasAnnounced
  /\ tail = "torn" => \A i \in Intents : pc[i] \notin InCall

(* A record ABORTED or REJECTED says that no effect exists and none will:  *)
(* the intent did not write and its request is in no worker's pipe.        *)
WithdrawnNeverActs ==
  \A i \in Intents :
    HasRecord(wal[i], "ABORTED") \/ HasRecord(wal[i], "REJECTED") =>
      /\ i \notin performed
      /\ \A w \in Workers : \A k \in DOMAIN workers[w].inbox :
            workers[w].inbox[k] # i

(* COMPLETED is journaled only for an intent whose own write took place,   *)
(* left exactly the intended bytes, and was attested before the record.    *)
CompletedWasProved ==
  \A i \in Intents \ InProcess :
    HasRecord(wal[i], "COMPLETED") =>
      i \in performed /\ Bytes[i] \in landed[Target[i]] /\ TRUE \in attested[i]

(* dispatch_sync() answers success only when COMPLETED is durable, and     *)
(* answers "rejected" only when there is no effect.                        *)
AnswerIsHonest ==
  \A i \in Intents :
    /\ pc[i] = "completed" => Current(wal[i]) = "COMPLETED"
    /\ pc[i] = "rejected" => i \notin performed

(* A success published as VerificationEvent may still be disowned: when    *)
(* the COMPLETED record raises, mark_failed() journals FAILED.  But never  *)
(* behind the journal's back: the COMPLETED stands in front of the FAILED, *)
(* and no replay takes the lineage for that of an ordinary failure.        *)
DisownedOpenly ==
  \A i \in Intents : TRUE \in attested[i] =>
    \A k \in DOMAIN wal[i] : wal[i][k] = "FAILED" =>
      \E n \in 1 .. k - 1 : wal[i][n] = "COMPLETED"

Settled == TERMINAL_STATES \cup {"FAILED"}

(* Once an intent's fate is journaled no record is ever added to it, by    *)
(* the call that owns it or by any recovery.                               *)
SettledIsFinal ==
  [][\A i \in Intents : Current(wal[i]) \in Settled => wal'[i] = wal[i]]_dispatchVars

-------------------------------------------------------------------------------
(* Promises of comments that the code does not keep (README, section 7)    *)

(* "A committed transition always has a durable record": the in-memory     *)
(* state of a running call is in the journal.                              *)
CommittedIsDurable ==
  \A i \in Intents :
    pc[i] \in InCall /\ mem[i] # "CREATED" => HasRecord(wal[i], mem[i])

(* "Rejected before any effect; prepare already journaled REJECTED"        *)
(* (dispatch_sync): who is answered "rejected" has the record.             *)
RefusalIsJournaled ==
  \A i \in Intents : pc[i] = "rejected" => HasRecord(wal[i], "REJECTED")

(* "event evidence first, then the durable COMPLETED record"               *)
(* (verify_and_complete): what was published as a success is not journaled *)
(* as FAILED.                                                              *)
AttestedNeverFails ==
  \A i \in Intents : TRUE \in attested[i] => ~HasRecord(wal[i], "FAILED")

(* COMPLETED and its like are "terminal - no forward transitions"          *)
(* (LEGAL_TRANSITIONS): nothing is journaled behind such a record.         *)
TerminalIsLast ==
  \A i \in Intents : \A k \in DOMAIN wal[i] :
    wal[i][k] \in TERMINAL_STATES => k = Len(wal[i])
===============================================================================
