--------------------------- MODULE CausalScheduler ---------------------------
(***************************************************************************)
(* CausalScheduler (core/orchestration/causal_scheduler.py): events wait   *)
(* until all their causal parents are completed; coroutines inside         *)
(* run_until_empty() release them cycle by cycle, in the order of their    *)
(* logical clocks, under an asyncio.Lock.                                  *)
(*                                                                         *)
(* One step is what the event loop runs between two suspensions: a cycle   *)
(* is suspended at every dispatch (dispatch_fn may be a coroutine), and    *)
(* submit(), which does not suspend, may come in between.  An event id is  *)
(* submitted once; max_cycles is not reached.                              *)
(***************************************************************************)
EXTENDS Naturals, FiniteSets, Sequences, SequencesExt

CONSTANTS Events,
          Parents,     \* Parents[e]: causal_parents
          Clock,       \* Clock[e]: logical_clock
          Runners,     \* coroutines that call run_until_empty()
          MaxFailures, \* bound: how often dispatch_fn raises
          NoRunner

ASSUME CausalAssumption ==
  /\ IsFiniteSet(Events)
  /\ Parents \in [Events -> SUBSET Events]
  /\ Clock \in [Events -> Nat]
  /\ MaxFailures \in Nat
  /\ NoRunner \notin Runners

VARIABLES pending,    \* the keys of _pending, in insertion order
          completed,  \* _completed
          lock,       \* the runner inside _lock
          pc,         \* pc[r]: "idle", "loop", "cycle", "stuck" or "returned"
          batch,      \* batch[r]: the ready events its cycle has yet to dispatch
          sent,       \* sent[r]: dispatched in this cycle
          total,      \* total[r]: dispatched in all
          fate        \* fate[e]: how e left _pending (history)

causalVars == <<pending, completed, lock, pc, batch, sent, total, fate>>
runners == <<pc, batch, sent, total>>

Queued == ToSet(pending)

CausalInit ==
  /\ pending = <<>>
  /\ completed = {}
  /\ lock = NoRunner
  /\ pc = [r \in Runners |-> "idle"]
  /\ batch = [r \in Runners |-> <<>>]
  /\ sent = [r \in Runners |-> 0]
  /\ total = [r \in Runners |-> 0]
  /\ fate = [e \in Events |-> "none"]

CausalTypeOK ==
  /\ pending \in Seq(Events) /\ IsInjective(pending)
  /\ completed \subseteq Events
  /\ pc \in [Runners -> {"idle", "loop", "cycle", "stuck", "returned"}]
  /\ lock \in Runners \cup {NoRunner}
  /\ \A r \in Runners : pc[r] = "cycle" <=> lock = r
  /\ batch \in [Runners -> Seq(Events)]
  /\ sent \in [Runners -> Nat]
  /\ total \in [Runners -> Nat]
  /\ fate \in [Events -> {"none", "queued", "dispatched", "failed", "dropped"}]

-------------------------------------------------------------------------------
(* submit() and the start of run_until_empty()                              *)

Submit(e) ==
  /\ fate[e] = "none"
  /\ pending' = Append(pending, e)
  /\ fate' = [fate EXCEPT ![e] = "queued"]
  /\ UNCHANGED <<completed, lock, runners>>

Run(r) ==
  /\ pc[r] = "idle"
  /\ pc' = [pc EXCEPT ![r] = "loop"]
  /\ UNCHANGED <<pending, completed, lock, batch, sent, total, fate>>

-------------------------------------------------------------------------------
(* A cycle                                                                  *)

(* Mutants: readiness is one completed parent; no progress is no reason to *)
(* stop.                                                                   *)
AnyParent(e) == Parents[e] = {} \/ Parents[e] \cap completed # {}
KeepsTrying(n, left) == FALSE

IsReady(e) == Parents[e] \subseteq completed
LockFree == lock = NoRunner
Counted(ok) == IF ok THEN 1 ELSE 0

(* A cycle without progress while events remain is taken for a dependency  *)
(* deadlock.                                                               *)
Stuck(n, left) == n = 0 /\ left # <<>>

(* sorted() is stable: equal clocks keep the order of submission.          *)
Before(e, f) ==
  \/ Clock[e] < Clock[f]
  \/ Clock[e] = Clock[f] /\ IndexFirstSubSeq(<<e>>, pending) < IndexFirstSubSeq(<<f>>, pending)

ReadyEvents == {e \in Events : e \in Queued /\ IsReady(e)}

InOrder(order) ==
  /\ ToSet(order) = ReadyEvents
  /\ \A i, j \in DOMAIN order : i < j => Before(order[i], order[j])

(* run_cycle() enters; without a ready event it is over at once.           *)
StartCycle(r) ==
  /\ pc[r] = "loop"
  /\ LockFree
  /\ IF pending = <<>>
     THEN pc' = [pc EXCEPT ![r] = "returned"] /\ UNCHANGED <<lock, batch, sent>>
     ELSE IF ReadyEvents = {}
     THEN /\ pc' = [pc EXCEPT ![r] = IF Stuck(0, pending) THEN "stuck" ELSE "loop"]
          /\ UNCHANGED <<lock, batch, sent>>
     ELSE /\ pc' = [pc EXCEPT ![r] = "cycle"]
          /\ lock' = r
          /\ \E order \in [1 .. Cardinality(ReadyEvents) -> ReadyEvents] :
               InOrder(order) /\ batch' = [batch EXCEPT ![r] = order]
          /\ sent' = [sent EXCEPT ![r] = 0]
  /\ UNCHANGED <<pending, completed, total, fate>>

(* An event leaves _pending and counts as completed whether dispatch_fn    *)
(* returned or raised; a cycle in which every call raised reports 0.       *)
DispatchEvent(r, ok) ==
  LET e == Head(batch[r])
      n == sent[r] + Counted(ok) IN
  /\ pc[r] = "cycle"
  /\ ok \/ Cardinality({f \in Events : fate[f] = "failed"}) < MaxFailures
  /\ completed' = completed \cup {e}
  /\ pending' = Remove(pending, e)
  /\ fate' = [fate EXCEPT ![e] = IF ok THEN "dispatched" ELSE "failed"]
  /\ batch' = [batch EXCEPT ![r] = Tail(@)]
  /\ sent' = [sent EXCEPT ![r] = n]
  /\ IF Len(batch[r]) > 1
     THEN UNCHANGED <<lock, pc, total>>
     ELSE /\ lock' = NoRunner
          /\ total' = [total EXCEPT ![r] = @ + n]
          /\ pc' = [pc EXCEPT ![r] = IF Stuck(n, pending') THEN "stuck" ELSE "loop"]

(* The deadlock resolution: everything that is pending by now is dropped.  *)
Dropped(r) ==
  /\ pc[r] = "stuck"
  /\ completed' = completed \cup Queued
  /\ pending' = <<>>
  /\ fate' = [e \in Events |-> IF e \in Queued THEN "dropped" ELSE fate[e]]
  /\ pc' = [pc EXCEPT ![r] = "returned"]
  /\ UNCHANGED <<lock, batch, sent, total>>

DropAll(r) == LockFree /\ Dropped(r)

Progress(r) ==
  \/ StartCycle(r)
  \/ \E ok \in BOOLEAN : DispatchEvent(r, ok)
  \/ DropAll(r)

CausalNext ==
  \/ \E e \in Events : Submit(e)
  \/ \E r \in Runners : Run(r) \/ Progress(r)

(* The event loop runs every coroutine that can go on.  The loop gives the *)
(* lock away in the order of the requests, hence strong fairness.          *)
Fairness == \A r \in Runners : SF_causalVars(Progress(r))

CausalSpec == CausalInit /\ [][CausalNext]_causalVars /\ Fairness

-------------------------------------------------------------------------------
(* Correctness                                                              *)

(* An event is only handed out behind its parents, in whatever order they  *)
(* were submitted and however many cycles overlap.                         *)
CausalOrder ==
  \A e \in Events : fate[e] \in {"dispatched", "failed"} => Parents[e] \subseteq completed

(* run_until_empty() returns, circular dependencies or not.                *)
RunReturns == \A r \in Runners : pc[r] = "loop" ~> pc[r] = "returned"

(* An event is dropped only if one of its parents is still missing: "no    *)
(* progress but events remain - dependency cycle detected" is not kept     *)
(* (README, section 7).                                                    *)
DeadlockIsReal ==
  [][\A e \in Events : fate[e] = "queued" /\ fate'[e] = "dropped" => ~IsReady(e)]_causalVars
===============================================================================
